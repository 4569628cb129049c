SPECIFICATION FairSpec
CONSTANTS
    jobRequested = jobRequested
    comparison = comparison
    catalogQueue = catalogQueue
    videoQueue = videoQueue
    legacyQueue = legacyQueue
    catalogWorker = catalogWorker
    videoWorker = videoWorker
    unrouted = unrouted
    w1 = w1
    w2 = w2
    None = None
    Events = {comparison, unrouted}
    Keys <- EventKeys
    Queues <- OneQueues
    Consumers = {catalogWorker, videoWorker}
    Replicas = {w1, w2}
    KeyOf <- EventKeyOf
    Binding <- OneBinding
    RetryKey <- OneRetryKey
    ConsumerOf <- OneConsumerOf
    Legacy = {}
    BatchSize = 2
    MaxFaults = 2
INVARIANTS EffectOnce NoEventLost
PROPERTIES EventuallySettled
CHECK_DEADLOCK FALSE

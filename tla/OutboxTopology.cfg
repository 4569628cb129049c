SPECIFICATION Spec
CONSTANTS
    jobRequested = jobRequested
    comparison = comparison
    catalogQueue = catalogQueue
    videoQueue = videoQueue
    legacyQueue = legacyQueue
    catalogWorker = catalogWorker
    videoWorker = videoWorker
    unrouted = unrouted
    w1 = w1
    w2 = w2
    None = None
    Events = {jobRequested, comparison}
    Keys <- EventKeys
    Queues <- VideoQueues
    Consumers = {catalogWorker, videoWorker}
    Replicas = {w1}
    KeyOf <- EventKeyOf
    Binding <- VideoBinding
    RetryKey <- VideoRetryKey
    ConsumerOf <- VideoConsumerOf
    Legacy <- VideoLegacy
    BatchSize = 2
    MaxFaults = 1
PROPERTIES
    ImplementsDelivery
CHECK_DEADLOCK FALSE

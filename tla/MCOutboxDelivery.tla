---- MODULE MCOutboxDelivery ----
(* Instances of OutboxDelivery for TLC. *)
EXTENDS OutboxDelivery, TLC

CONSTANTS jobRequested, comparison, unrouted,          \* events
          catalogQueue, videoQueue, legacyQueue,       \* queues
          catalogWorker, videoWorker,                  \* consumers
          w1, w2                                       \* worker processes

(* The video worker's part of the topology: inspection.video is bound to the  *)
(* inventory jobs too but retries under the key of the comparisons, and shares *)
(* its inbox name with the queue it replaces.                                  *)
VideoKeys == {"inventory.job_requested", "analysis.video_comparison_requested"}
EventKeys == VideoKeys \union {"unrouted"}
EventKeyOf == [e \in Events |->
    CASE e = jobRequested -> "inventory.job_requested"
      [] e = comparison -> "analysis.video_comparison_requested"
      [] e = unrouted -> "unrouted"]     \* a type whose worker is not deployed
VideoQueues == {catalogQueue, videoQueue, legacyQueue}
VideoBinding == (catalogQueue :> {"inventory.job_requested"}) @@
                (videoQueue :> VideoKeys) @@
                (legacyQueue :> {"analysis.video_comparison_requested"})
VideoRetryKey == (catalogQueue :> "inventory.job_requested") @@
                 (videoQueue :> "analysis.video_comparison_requested") @@
                 (legacyQueue :> "analysis.video_comparison_requested")
VideoConsumerOf == (catalogQueue :> catalogWorker) @@
                   (videoQueue :> videoWorker) @@
                   (legacyQueue :> videoWorker)
VideoLegacy == {legacyQueue}

(* One queue bound to both events, to keep the race between claims small. *)
OneQueues == {videoQueue}
OneBinding == (videoQueue :> VideoKeys)
OneRetryKey == (videoQueue :> "analysis.video_comparison_requested")
OneConsumerOf == (videoQueue :> videoWorker)

AnyReplica == Permutations({w1, w2})
====

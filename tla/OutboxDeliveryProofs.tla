---- MODULE OutboxDeliveryProofs ----
(***************************************************************************)
(* Theorems about OutboxDelivery, for every set of events, queues, keys,   *)
(* consumers and replicas and every topology that meets its assumptions.   *)
(***************************************************************************)
EXTENDS OutboxDelivery, FiniteSetTheorems, TLAPS

\* The copy a consumer parks is a message of the same queue and event, with a
\* later attempt.
LEMMA RetryCopyIsMessage ==
    ASSUME TypeOK, NEW w \in Workers, Retry(w)
    PROVE  /\ held[w] \in Messages
           /\ RetryCopy(w) \in Messages
           /\ RetryCopy(w).queue = held[w].queue
           /\ RetryCopy(w).event = held[w].event
<1>1. held[w] \in Messages
  BY DEF TypeOK, Retry
<1>2. held[w].attempt + 1 < MaxAttempts
  BY <1>1 DEF Retry, GivesUp, Messages, MaxAttempts
<1>3. /\ held[w].queue \in Queues /\ held[w].event \in Events
      /\ held[w].attempt + 1 \in 0..(MaxAttempts - 1)
      /\ MaxAttempts - 1 \in 0..(MaxAttempts - 1)
  BY <1>1, <1>2 DEF Messages, MaxAttempts
<1> QED BY <1>1, <1>3 DEF RetryCopy, Messages

\* One step keeps the variables in their types.
LEMMA TypeStep ==
    ASSUME TypeOK, [Next]_vars
    PROVE  TypeOK'
<1> USE BoundsTyped DEF TypeOK, Fault, outboxVars, dispatchVars, brokerVars,
        consumerVars, storeVars
<1>1. ASSUME NEW e \in Events, Emit(e) PROVE TypeOK'
  <2>1. IsFiniteSet({f \in Events : intent[f] # "ABSENT"})
    BY FS_Subset
  <2>2. Cardinality({f \in Events : intent[f] # "ABSENT"}) \in Nat
    BY <2>1, FS_CardinalityType
  <2> QED BY <1>1, <2>2 DEF Emit
<1>2. ASSUME NEW e \in Events, ClaimAges(e) PROVE TypeOK'
  <2>1. faults' \in 0..MaxFaults
    BY <1>2 DEF ClaimAges
  <2>2. stale' \in [Events -> BOOLEAN]
    BY <1>2 DEF ClaimAges
  <2> QED BY <1>2, <2>1, <2>2 DEF ClaimAges
<1>3. ASSUME NEW r \in Replicas, Claim(r) PROVE TypeOK'
  BY <1>3 DEF Claim, OldestDue
<1>4. ASSUME NEW r \in Replicas, NEW e \in Events,
             PublishConfirmed(r, e) \/ PublishReturned(r, e) \/ PublishFails(r, e)
      PROVE  TypeOK'
  <2>1. ready' = ready \/ ready' = Enqueued(KeyOf[e], e, 0)
    BY <1>4 DEF PublishConfirmed, PublishReturned, PublishFails
  <2>2. Enqueued(KeyOf[e], e, 0) \in [Messages -> Nat]
    BY DEF Enqueued
  <2>3. faults' \in 0..MaxFaults
    BY <1>4 DEF PublishConfirmed, PublishReturned, PublishFails
  <2>4. Sent(r, e, "confirmed") \/ Sent(r, e, "failed")
    BY <1>4 DEF PublishConfirmed, PublishReturned, PublishFails
  <2>5. /\ phase' \in [Replicas -> {"publish", "confirmed", "failed"}]
        /\ row' \in [Replicas -> Events \union {None}]
    BY <2>4 DEF Sent
  <2>6. UNCHANGED <<outboxVars, batch, bound, parked, dead, dropped, consumerVars, storeVars>>
    BY <1>4 DEF PublishConfirmed, PublishReturned, PublishFails
  <2> QED BY <2>1, <2>2, <2>3, <2>5, <2>6
<1>5. ASSUME NEW r \in Replicas, NEW e \in Events,
             \/ MarkPublished(r, e) \/ MarkPending(r, e) \/ MarkPendingFails(r, e)
      PROVE  TypeOK'
  <2>1. \/ intent' = [intent EXCEPT ![e] = "PUBLISHED"] /\ stale' = [stale EXCEPT ![e] = FALSE]
        \/ intent' = [intent EXCEPT ![e] = "PENDING"] /\ stale' = [stale EXCEPT ![e] = FALSE]
        \/ UNCHANGED <<intent, stale>>
    BY <1>5 DEF MarkPublished, MarkPending, MarkPendingFails, SetIfClaimed
  <2>2. /\ intent' \in [Events -> {"ABSENT", "PENDING", "CLAIMED", "PUBLISHED"}]
        /\ stale' \in [Events -> BOOLEAN]
    BY <2>1
  <2>3. NextRow(r, e)
    BY <1>5 DEF MarkPublished, MarkPending, MarkPendingFails
  <2>4. /\ batch' \in [Replicas -> SUBSET Events]
        /\ phase' \in [Replicas -> {"publish", "confirmed", "failed"}]
        /\ row' \in [Replicas -> Events \union {None}]
    BY <2>3 DEF NextRow
  <2>5. UNCHANGED <<created, bound, brokerVars, consumerVars, storeVars>>
    BY <1>5 DEF MarkPublished, MarkPending, MarkPendingFails
  <2>6. faults' \in 0..MaxFaults
    BY <1>5 DEF MarkPublished, MarkPending, MarkPendingFails
  <2> QED BY <2>2, <2>4, <2>5, <2>6
<1>6. ASSUME DeclareLegacy \/ UnbindLegacy PROVE TypeOK'
  BY <1>6, TopologyTyped DEF DeclareLegacy, UnbindLegacy
<1>7. ASSUME NEW m \in Messages, RetryExpires(m) PROVE TypeOK'
  BY <1>7 DEF RetryExpires, Enqueued
<1>8. ASSUME NEW w \in Workers, NEW m \in Messages, Receive(w, m) PROVE TypeOK'
  BY <1>8 DEF Receive
<1>9. ASSUME NEW w \in Workers, InsertReceipt(w) \/ Duplicate(w) \/ Ack(w) PROVE TypeOK'
  BY <1>9 DEF InsertReceipt, Duplicate, Ack
<1>10. ASSUME NEW w \in Workers, Commit(w) \/ CommitUncertain(w) PROVE TypeOK'
  <2>1. Receipt(held[w]) \in Consumers \X Events
    BY <1>10, TopologyTyped DEF Commit, CommitUncertain, Handling, Receipt, Messages
  <2>2. /\ inbox' \subseteq Consumers \X Events
        /\ effects' \in [Consumers \X Events -> Nat]
    BY <1>10, <2>1 DEF Commit, CommitUncertain, CommitEffect
  <2> QED BY <1>10, <2>2 DEF Commit, CommitUncertain
<1>11. ASSUME NEW w \in Workers, Fail(w) PROVE TypeOK'
  BY <1>11 DEF Fail
<1>12. ASSUME NEW w \in Workers, DeadLetter(w) PROVE TypeOK'
  <2>1. held[w].queue \in Queues /\ held[w].event \in Events
    BY <1>12 DEF DeadLetter, Messages
  <2> QED BY <1>12, <2>1 DEF DeadLetter, Drop
<1>13. ASSUME NEW w \in Workers, Retry(w) PROVE TypeOK'
  <2>1. RetryCopy(w) \in Messages
    BY <1>13, RetryCopyIsMessage
  <2>2. held[w].queue \in Queues /\ held[w].event \in Events
    BY <1>13 DEF Retry, Messages
  <2> QED BY <1>13, <2>1, <2>2 DEF Retry, Drop
<1>14. ASSUME NEW w \in Workers, Requeue(w) PROVE TypeOK'
  BY <1>14 DEF Requeue
<1>15. ASSUME NEW r \in Replicas, Crash(r) PROVE TypeOK'
  BY <1>15 DEF Crash
<1>16. CASE UNCHANGED vars
  BY <1>16 DEF vars
<1> QED
  BY <1>1, <1>2, <1>3, <1>4, <1>5, <1>6, <1>7, <1>8, <1>9, <1>10, <1>11, <1>12,
     <1>13, <1>14, <1>15, <1>16 DEF Next, Dispatch, Consume, Faulty

LEMMA TypeInit == Init => TypeOK
BY TopologyTyped, BoundsTyped DEF Init, TypeOK, Messages, Workers

\* The variables keep their types, among them the counts of copies in the queues
\* (never negative: nothing is delivered that was not queued) and the attempt of
\* a retried message, which never leaves the ladder of retry queues.
THEOREM TypeCorrect == Spec => []TypeOK
<1>1. Init => TypeOK
  BY TypeInit
<1>2. TypeOK /\ [Next]_vars => TypeOK'
  BY TypeStep
<1> QED BY <1>1, <1>2, PTL DEF Spec

-----------------------------------------------------------------------------
(* At most one effect per consumer and event *)

LEMMA ReceiptTyped ==
    ASSUME TopologyTyped, NEW m \in Messages
    PROVE  Receipt(m) \in Consumers \X Events
BY DEF TopologyTyped, Receipt, Messages

\* The receipt, the wait on an uncommitted receipt and the effect stay in step.
LEMMA OnceStep ==
    ASSUME TypeOK, EffectOnce, OneHandler, [Next]_vars
    PROVE  EffectOnce' /\ OneHandler'
<1> USE DEF TypeOK, EffectOnce, OneHandler, Handling, outboxVars, dispatchVars,
            brokerVars, consumerVars, storeVars
<1>1. CASE /\ UNCHANGED storeVars
           /\ \A w \in Workers : Handling(w)' => Handling(w) /\ held'[w] = held[w]
  BY <1>1
<1>2. ASSUME NEW e \in Events, Emit(e) \/ ClaimAges(e) PROVE EffectOnce' /\ OneHandler'
  BY <1>2, <1>1 DEF Emit, ClaimAges
<1>3. ASSUME NEW r \in Replicas, Dispatch(r) PROVE EffectOnce' /\ OneHandler'
  BY <1>3, <1>1 DEF Dispatch, Claim, PublishConfirmed, PublishReturned, MarkPublished, MarkPending
<1>4. ASSUME NEW r \in Replicas, NEW e \in Events, PublishFails(r, e) \/ MarkPendingFails(r, e)
      PROVE  EffectOnce' /\ OneHandler'
  BY <1>4, <1>1 DEF PublishFails, MarkPendingFails
<1>5. ASSUME NEW m \in Messages, RetryExpires(m) PROVE EffectOnce' /\ OneHandler'
  BY <1>5, <1>1 DEF RetryExpires
<1>6. CASE DeclareLegacy \/ UnbindLegacy
  BY <1>6, <1>1 DEF DeclareLegacy, UnbindLegacy
<1>7. ASSUME NEW w \in Workers, NEW m \in Messages, Receive(w, m)
      PROVE  EffectOnce' /\ OneHandler'
  BY <1>7, <1>1 DEF Receive
<1>8. ASSUME NEW w \in Workers,
             Duplicate(w) \/ Fail(w) \/ DeadLetter(w) \/ Retry(w) \/ Requeue(w) \/ Ack(w)
      PROVE  EffectOnce' /\ OneHandler'
  BY <1>8, <1>1 DEF Duplicate, Fail, DeadLetter, Retry, Requeue, Ack
<1>9. ASSUME NEW r \in Replicas, Crash(r) PROVE EffectOnce' /\ OneHandler'
  BY <1>9, <1>1 DEF Crash
<1>10. ASSUME NEW w \in Workers, InsertReceipt(w) PROVE EffectOnce' /\ OneHandler'
  BY <1>10 DEF InsertReceipt, InsertWaits
<1>11. ASSUME NEW w \in Workers, Commit(w) \/ CommitUncertain(w)
       PROVE  EffectOnce' /\ OneHandler'
  <2>1. /\ Handling(w) /\ CommitEffect(w) /\ held' = held
        /\ \/ stage' = [stage EXCEPT ![w] = "ack"]
           \/ stage' = [stage EXCEPT ![w] = "retryable"]
    BY <1>11 DEF Commit, CommitUncertain
  <2>2. Receipt(held[w]) \in Consumers \X Events /\ Receipt(held[w]) \notin inbox
    BY <2>1, TopologyTyped, ReceiptTyped
  <2>3. EffectOnce'
    BY <2>1, <2>2 DEF CommitEffect
  <2>4. \A v \in Workers : Handling(v)' => Handling(v) /\ v # w
    BY <2>1
  <2>5. OneHandler'
    BY <2>1, <2>4 DEF CommitEffect
  <2> QED BY <2>3, <2>5
<1>12. CASE UNCHANGED vars
  BY <1>12, <1>1 DEF vars
<1> QED
  BY <1>2, <1>3, <1>4, <1>5, <1>6, <1>7, <1>8, <1>9, <1>10, <1>11, <1>12
     DEF Next, Consume, Faulty

\* However often an event is published, redelivered, fanned out or retried, and
\* whichever replicas process the copies at the same time, the handler of a
\* consumer takes effect at most once, together with its inbox receipt.
THEOREM EffectAtMostOnce == Spec => []EffectOnce
<1>1. Init => EffectOnce /\ OneHandler
  BY DEF Init, EffectOnce, OneHandler, Handling
<1>2. TypeOK /\ EffectOnce /\ OneHandler /\ [Next]_vars => EffectOnce' /\ OneHandler'
  BY OnceStep
<1> QED BY <1>1, <1>2, TypeCorrect, PTL DEF Spec

-----------------------------------------------------------------------------
(* No event is lost *)

\* A consumer only holds messages of the queue it reads.
LEMMA HeldStep ==
    ASSUME TypeOK, HeldFromQueue, [Next]_vars
    PROVE  HeldFromQueue'
<1> USE NoneIsFresh DEF TypeOK, HeldFromQueue, outboxVars, dispatchVars, brokerVars,
            consumerVars, storeVars
<1>1. ASSUME NEW w \in Workers, NEW m \in Messages, Receive(w, m) PROVE HeldFromQueue'
  BY <1>1 DEF Receive
<1>2. ASSUME NEW w \in Workers, Requeue(w) \/ Ack(w) PROVE HeldFromQueue'
  BY <1>2 DEF Requeue, Ack
<1>3. ASSUME NEW r \in Replicas, Crash(r) PROVE HeldFromQueue'
  BY <1>3 DEF Crash
<1>4. CASE UNCHANGED held
  BY <1>4
<1>5. ASSUME NEW e \in Events, Emit(e) \/ ClaimAges(e) PROVE UNCHANGED held
  BY <1>5 DEF Emit, ClaimAges
<1>6. ASSUME NEW r \in Replicas,
             \/ Dispatch(r)
             \/ \E e \in Events : PublishFails(r, e) \/ MarkPendingFails(r, e)
      PROVE  UNCHANGED held
  BY <1>6 DEF Dispatch, Claim, PublishConfirmed, PublishReturned, MarkPublished,
              MarkPending, PublishFails, MarkPendingFails
<1>7. ASSUME NEW w \in Workers,
             \/ InsertReceipt(w) \/ Duplicate(w) \/ Commit(w) \/ CommitUncertain(w)
             \/ Fail(w) \/ DeadLetter(w) \/ Retry(w)
      PROVE  UNCHANGED held
  BY <1>7 DEF InsertReceipt, Duplicate, Commit, CommitUncertain, Fail, DeadLetter, Retry
<1>8. ASSUME NEW m \in Messages, RetryExpires(m) PROVE UNCHANGED held
  BY <1>8 DEF RetryExpires
<1>9. CASE DeclareLegacy \/ UnbindLegacy \/ UNCHANGED vars
  BY <1>9, <1>4 DEF DeclareLegacy, UnbindLegacy, vars
<1> QED
  BY <1>1, <1>2, <1>3, <1>4, <1>5, <1>6, <1>7, <1>8, <1>9 DEF Next, Consume, Faulty

LEMMA BindingStep ==
    ASSUME TypeOK, BindingsKept, [Next]_vars
    PROVE  BindingsKept'
<1> USE DEF TypeOK, BindingsKept
<1>1. CASE DeclareLegacy \/ UnbindLegacy
  BY <1>1, TopologyTyped DEF DeclareLegacy, UnbindLegacy
<1>2. CASE UNCHANGED bound
  BY <1>2
<1>3. ASSUME NEW e \in Events, Emit(e) \/ ClaimAges(e) PROVE UNCHANGED bound
  BY <1>3 DEF Emit, ClaimAges
<1>4. ASSUME NEW r \in Replicas,
             \/ Dispatch(r) \/ Crash(r)
             \/ \E e \in Events : PublishFails(r, e) \/ MarkPendingFails(r, e)
      PROVE  UNCHANGED bound
  BY <1>4 DEF Dispatch, Claim, PublishConfirmed, PublishReturned, MarkPublished,
              MarkPending, PublishFails, MarkPendingFails, Crash
<1>5. ASSUME \/ \E m \in Messages : RetryExpires(m)
             \/ \E w \in Workers :
                   \/ \E m \in Messages : Receive(w, m)
                   \/ InsertReceipt(w) \/ Duplicate(w) \/ Commit(w)
                   \/ CommitUncertain(w) \/ Fail(w) \/ DeadLetter(w) \/ Retry(w)
                   \/ Requeue(w) \/ Ack(w)
      PROVE  UNCHANGED bound
  BY <1>5 DEF Receive, InsertReceipt, Duplicate, Commit, CommitUncertain, Fail,
              DeadLetter, Retry, Requeue, Ack, RetryExpires
<1>6. ASSUME UNCHANGED vars PROVE UNCHANGED bound
  BY <1>6 DEF vars
<1> QED
  BY <1>1, <1>2, <1>3, <1>4, <1>5, <1>6 DEF Next, Consume, Faulty

\* Nothing takes an effect or a dead letter back.
LEMMA SettledStays ==
    ASSUME TypeOK, [Next]_vars, NEW p \in Consumers \X Events, Settled(p[1], p[2])
    PROVE  Settled(p[1], p[2])'
<1> USE DEF TypeOK, outboxVars, dispatchVars, brokerVars, consumerVars, storeVars
<1>1. p = <<p[1], p[2]>>
  OBVIOUS
<1>2. SUFFICES effects'[p] >= effects[p] /\ dead \subseteq dead'
  <2>1. CASE effects[p] > 0
    <3>1. effects'[p] > 0
      <4>1. effects[p] \in Nat /\ effects'[p] \in Nat
        BY TypeStep
      <4> QED BY <4>1, <2>1, <1>2
    <3> QED BY <1>1, <3>1 DEF Settled
  <2>2. CASE \E q \in Queues : ConsumerOf[q] = p[1] /\ <<q, p[2]>> \in dead
    BY <2>2, <1>2 DEF Settled
  <2> QED BY <1>1, <2>1, <2>2 DEF Settled
<1>3. CASE UNCHANGED <<effects, dead>>
  BY <1>3
<1>4. ASSUME NEW w \in Workers, Commit(w) \/ CommitUncertain(w)
      PROVE  effects'[p] >= effects[p] /\ dead \subseteq dead'
  <2>1. Receipt(held[w]) \in Consumers \X Events
    BY <1>4, ReceiptTyped, TopologyTyped DEF Commit, CommitUncertain, Handling
  <2> QED BY <1>4, <2>1 DEF Commit, CommitUncertain, CommitEffect
<1>5. ASSUME NEW w \in Workers, DeadLetter(w)
      PROVE  effects'[p] >= effects[p] /\ dead \subseteq dead'
  BY <1>5 DEF DeadLetter
<1>6. ASSUME NEW e \in Events, Emit(e) \/ ClaimAges(e)
      PROVE  UNCHANGED <<effects, dead>>
  BY <1>6 DEF Emit, ClaimAges
<1>7. ASSUME NEW r \in Replicas,
             \/ Dispatch(r) \/ Crash(r)
             \/ \E e \in Events : PublishFails(r, e) \/ MarkPendingFails(r, e)
      PROVE  UNCHANGED <<effects, dead>>
  BY <1>7 DEF Dispatch, Claim, PublishConfirmed, PublishReturned, MarkPublished,
              MarkPending, PublishFails, MarkPendingFails, Crash
<1>8. ASSUME \/ \E m \in Messages : RetryExpires(m)
             \/ \E w \in Workers :
                   \/ \E m \in Messages : Receive(w, m)
                   \/ InsertReceipt(w) \/ Duplicate(w) \/ Fail(w) \/ Retry(w)
                   \/ Requeue(w) \/ Ack(w)
             \/ DeclareLegacy \/ UnbindLegacy \/ UNCHANGED vars
      PROVE  UNCHANGED <<effects, dead>>
  BY <1>8 DEF Receive, InsertReceipt, Duplicate, Fail, Retry, Requeue, Ack, RetryExpires,
              DeclareLegacy, UnbindLegacy, vars
<1> QED
  BY <1>3, <1>4, <1>5, <1>6, <1>7, <1>8 DEF Next, Consume, Faulty

\* What the broker dropped stays on record, and a publication is only dropped
\* for the message the consumer holds.
LEMMA DroppedStays ==
    ASSUME [Next]_vars
    PROVE  dropped \subseteq dropped'
<1> USE DEF outboxVars, dispatchVars, brokerVars, consumerVars, storeVars
<1>1. CASE UNCHANGED dropped
  BY <1>1
<1>2. ASSUME NEW w \in Workers, DeadLetter(w) \/ Retry(w)
      PROVE  dropped \subseteq dropped'
  BY <1>2 DEF DeadLetter, Retry, Drop
<1>3. ASSUME NEW e \in Events, Emit(e) \/ ClaimAges(e)
      PROVE  UNCHANGED dropped
  BY <1>3 DEF Emit, ClaimAges
<1>4. ASSUME NEW r \in Replicas,
             \/ Dispatch(r) \/ Crash(r)
             \/ \E e \in Events : PublishFails(r, e) \/ MarkPendingFails(r, e)
      PROVE  UNCHANGED dropped
  BY <1>4 DEF Dispatch, Claim, PublishConfirmed, PublishReturned, MarkPublished,
              MarkPending, PublishFails, MarkPendingFails, Crash
<1>5. ASSUME \/ \E m \in Messages : RetryExpires(m)
             \/ \E w \in Workers :
                   \/ \E m \in Messages : Receive(w, m)
                   \/ InsertReceipt(w) \/ Duplicate(w) \/ Commit(w)
                   \/ CommitUncertain(w) \/ Fail(w) \/ Requeue(w) \/ Ack(w)
             \/ DeclareLegacy \/ UnbindLegacy \/ UNCHANGED vars
      PROVE  UNCHANGED dropped
  BY <1>5 DEF Receive, InsertReceipt, Duplicate, Commit, CommitUncertain, Fail, Requeue,
              Ack, RetryExpires, DeclareLegacy, UnbindLegacy, vars
<1> QED BY <1>1, <1>2, <1>3, <1>4, <1>5 DEF Next, Consume, Faulty

\* A message that is put into all queues of a key reaches every consumer that
\* a queue outside the legacy set connects to that key.
LEMMA EnqueuedTravels ==
    ASSUME TypeOK, BindingsKept, NEW e \in Events, NEW k \in Keys,
           NEW a \in 0..(MaxAttempts - 1), NEW q \in Queues \ Legacy, k \in Binding[q],
           ready' = Enqueued(k, e, a)
    PROVE  Travelling(ConsumerOf[q], e)'
<1> DEFINE m == [queue |-> q, event |-> e, attempt |-> a]
<1>1. m \in Messages
  BY DEF Messages
<1>2. ready'[m] = ready[m] + 1 /\ ready[m] \in Nat
  BY <1>1 DEF Enqueued, RoutedTo, BindingsKept, TypeOK
<1> QED BY <1>1, <1>2 DEF Travelling

LEMMA NoneNotMessage == None \notin Messages
BY NoneIsFresh DEF Messages, MaxAttempts

\* A copy under way moves, leaves an effect or a dead letter behind, or is
\* dropped on its way to a retry or dead-letter queue.
LEMMA CoveredStays ==
    ASSUME TypeOK, EffectOnce, HeldFromQueue, BindingsKept, [Next]_vars,
           NEW p \in Consumers \X Events, Covered(p)
    PROVE  Covered(p)'
<1>1. CASE Settled(p[1], p[2])
  BY <1>1, SettledStays DEF Covered
<1>3. CASE Dropped(p[1], p[2])
  BY <1>3, DroppedStays DEF Dropped, Covered
<1>2. CASE Travelling(p[1], p[2])
  <2>1. PICK m \in Messages :
           /\ m.event = p[2] /\ ConsumerOf[m.queue] = p[1]
           /\ \/ ready[m] > 0 \/ parked[m] > 0
              \/ \E w \in Workers : held[w] = m /\ stage[w] # "ack"
    BY <1>2 DEF Travelling
  <2>2. Receipt(m) = p
    BY <2>1 DEF Receipt
  <2> USE NoneNotMessage DEF TypeOK, outboxVars, dispatchVars, brokerVars, consumerVars,
              storeVars
  <2>3. SUFFICES ASSUME ~Settled(p[1], p[2])', ~Travelling(p[1], p[2])',
                        ~Dropped(p[1], p[2])'
                 PROVE  FALSE
    BY DEF Covered
  <2>4. /\ ready'[m] \in Nat /\ ready'[m] = 0 /\ parked'[m] \in Nat /\ parked'[m] = 0
        /\ \A w \in Workers : ~(held'[w] = m /\ stage'[w] # "ack")
    <3>1. TypeOK'
      BY TypeStep
    <3>2. ready'[m] \in Nat /\ parked'[m] \in Nat
      BY <3>1
    <3> QED BY <2>1, <2>3, <3>2 DEF Travelling
  <2>5. ~(UNCHANGED <<ready, parked, held, stage>>)
    BY <2>1, <2>4
  <2>6. ASSUME NEW e \in Events, Emit(e) \/ ClaimAges(e) PROVE FALSE
    BY <2>6, <2>5 DEF Emit, ClaimAges
  <2>7. ASSUME NEW r \in Replicas, Claim(r) PROVE FALSE
    BY <2>7, <2>5 DEF Claim
  <2>8. ASSUME NEW r \in Replicas, NEW e \in Events,
               \/ PublishConfirmed(r, e) \/ PublishReturned(r, e) \/ PublishFails(r, e)
        PROVE  FALSE
    BY <2>8, <2>1, <2>4 DEF PublishConfirmed, PublishReturned, PublishFails, Enqueued
  <2>9. ASSUME NEW r \in Replicas, NEW e \in Events,
               \/ MarkPublished(r, e) \/ MarkPending(r, e) \/ MarkPendingFails(r, e)
        PROVE  FALSE
    BY <2>9, <2>5 DEF MarkPublished, MarkPending, MarkPendingFails
  <2>10. ASSUME DeclareLegacy \/ UnbindLegacy \/ UNCHANGED vars PROVE FALSE
    BY <2>10, <2>5 DEF DeclareLegacy, UnbindLegacy, vars
  <2>11. ASSUME NEW n \in Messages, RetryExpires(n) PROVE FALSE
    <3>1. CASE n # m
      BY <2>11, <3>1, <2>1, <2>4 DEF RetryExpires, Enqueued
    <3>2. CASE n = m
      <4>1. PICK q \in Queues \ Legacy :
               RetryKey[m.queue] \in Binding[q] /\ ConsumerOf[q] = ConsumerOf[m.queue]
        BY RetriesReturn DEF Messages
      <4>2. ready' = Enqueued(RetryKey[m.queue], m.event, m.attempt)
        BY <2>11, <3>2 DEF RetryExpires
      <4>3. m.event \in Events /\ m.attempt \in 0..(MaxAttempts - 1) /\ RetryKey[m.queue] \in Keys
        BY TopologyTyped DEF Messages, TopologyTyped
      <4>4. Travelling(ConsumerOf[q], m.event)'
        BY <4>1, <4>2, <4>3, EnqueuedTravels
      <4> QED BY <4>1, <4>4, <2>1, <2>3
    <3> QED BY <3>1, <3>2
  <2>12. ASSUME NEW w \in Workers, NEW n \in Messages, Receive(w, n) PROVE FALSE
    BY <2>12, <2>1, <2>4 DEF Receive
  <2>13. ASSUME NEW w \in Workers, InsertReceipt(w) \/ Fail(w) \/ CommitUncertain(w) PROVE FALSE
    <3>1. /\ UNCHANGED <<ready, parked, held>>
          /\ \A v \in Workers : stage'[v] = "ack" => stage[v] = "ack"
      BY <2>13 DEF InsertReceipt, Fail, CommitUncertain
    <3> QED BY <3>1, <2>1, <2>4
  <2>14. ASSUME NEW w \in Workers, Duplicate(w) PROVE FALSE
    <3>1. held[w] = m
      BY <2>14, <2>1, <2>4 DEF Duplicate
    <3>2. effects'[p] > 0
      BY <2>14, <3>1, <2>2 DEF Duplicate, EffectOnce
    <3>3. p = <<p[1], p[2]>>
      OBVIOUS
    <3> QED BY <3>2, <3>3, <2>3 DEF Settled
  <2>15. ASSUME NEW w \in Workers, Commit(w) PROVE FALSE
    <3>1. held[w] = m
      BY <2>15, <2>1, <2>4 DEF Commit
    <3>2. effects'[p] > 0
      BY <2>15, <3>1, <2>2 DEF Commit, CommitEffect
    <3>3. p = <<p[1], p[2]>>
      OBVIOUS
    <3> QED BY <3>2, <3>3, <2>3 DEF Settled
  <2>16. ASSUME NEW w \in Workers, DeadLetter(w) PROVE FALSE
    <3>1. held[w] = m
      BY <2>16, <2>1, <2>4 DEF DeadLetter
    <3>2. <<m.queue, m.event>> \notin dead' /\ <<m.queue, m.event>> \notin dropped'
      BY <2>1, <2>3 DEF Settled, Dropped, Messages
    <3> QED BY <2>16, <3>1, <3>2 DEF DeadLetter, Drop
  <2>17. ASSUME NEW w \in Workers, Retry(w) PROVE FALSE
    <3>1. held[w] = m
      <4>1. \A v \in Workers : v # w => stage'[v] = stage[v] /\ held'[v] = held[v]
        BY <2>17 DEF Retry
      <4>2. /\ RetryCopy(w) \in Messages
            /\ \/ parked' = [parked EXCEPT ![RetryCopy(w)] = @ + 1]
               \/ parked' = parked
        BY <2>17, RetryCopyIsMessage DEF Retry
      <4>3. ready[m] = 0 /\ parked[m] = 0
        BY <2>17, <4>2, <2>4 DEF Retry
      <4> QED BY <4>1, <4>3, <2>1, <2>4
    <3> DEFINE n == RetryCopy(w)
    <3>2. n \in Messages /\ n.queue = m.queue /\ n.event = m.event
      BY <2>17, <3>1, RetryCopyIsMessage
    <3>4. <<m.queue, m.event>> \notin dropped'
      BY <2>1, <2>3 DEF Dropped, Messages
    <3>3. parked'[n] > 0
      BY <2>17, <3>1, <3>2, <3>4 DEF Retry, Drop
    <3> QED BY <3>2, <3>3, <2>1, <2>3 DEF Travelling
  <2>18. ASSUME NEW w \in Workers, Requeue(w) PROVE FALSE
    BY <2>18, <2>1, <2>4 DEF Requeue
  <2>19. ASSUME NEW w \in Workers, Ack(w) PROVE FALSE
    BY <2>19, <2>1, <2>4 DEF Ack
  <2>20. ASSUME NEW r \in Replicas, Crash(r) PROVE FALSE
    <3>1. PICK w \in Workers : held[w] = m /\ w[1] = r
      BY <2>20, <2>1, <2>4 DEF Crash
    <3>2. m.queue = w[2]
      BY <3>1 DEF HeldFromQueue
    <3>3. w = <<r, m.queue>>
      BY <3>1, <3>2 DEF Workers
    <3> QED BY <2>20, <3>1, <3>3, <2>4 DEF Crash
  <2> QED
    BY <2>6, <2>7, <2>8, <2>9, <2>10, <2>11, <2>12, <2>13, <2>14, <2>15, <2>16,
       <2>17, <2>18, <2>19, <2>20 DEF Next, Dispatch, Consume, Faulty
<1> QED BY <1>1, <1>2, <1>3 DEF Covered

SafetyInv == /\ TypeOK /\ EffectOnce /\ OneHandler /\ HeldFromQueue /\ BindingsKept
             /\ NoEventLost /\ ConfirmedIsRouted

LEMMA SubscribedHasQueue ==
    ASSUME TopologyTyped, NEW p \in Subscribed
    PROVE  /\ p \in Consumers \X Events
           /\ \E q \in Queues \ Legacy : KeyOf[p[2]] \in Binding[q] /\ ConsumerOf[q] = p[1]
BY DEF Subscribed, ConsumerKeys

\* A row is closed by a dispatcher that saw it routed; from then on the copies
\* are accounted for.
LEMMA ClosingStep ==
    ASSUME SafetyInv, [Next]_vars
    PROVE  NoEventLost' /\ ConfirmedIsRouted'
<1> USE DEF TypeOK, SafetyInv, outboxVars, dispatchVars, brokerVars, consumerVars, storeVars
<1>1. \A p \in Subscribed : Covered(p) => Covered(p)'
  BY CoveredStays, SubscribedHasQueue, TopologyTyped
<1>2. ASSUME UNCHANGED <<phase, row>>
      PROVE  ConfirmedIsRouted'
  BY <1>1, <1>2 DEF ConfirmedIsRouted
<1>3. ASSUME \A e \in Events : intent'[e] = "PUBLISHED" => intent[e] = "PUBLISHED"
      PROVE  NoEventLost'
  BY <1>1, <1>3, SubscribedHasQueue, TopologyTyped DEF NoEventLost, Covered
<1>4. ASSUME NEW r \in Replicas, NEW e \in Events,
             \/ PublishReturned(r, e) \/ PublishFails(r, e)
      PROVE  NoEventLost' /\ ConfirmedIsRouted'
  <2>1. Sent(r, e, "failed") /\ UNCHANGED intent
    BY <1>4 DEF PublishReturned, PublishFails
  <2> QED BY <2>1, <1>1, <1>3 DEF Sent, ConfirmedIsRouted
<1>5. ASSUME NEW r \in Replicas, NEW e \in Events, PublishConfirmed(r, e)
      PROVE  NoEventLost' /\ ConfirmedIsRouted'
  <2>1. ASSUME NEW p \in Subscribed, p[2] = e PROVE Covered(p)'
    <3>1. PICK q \in Queues \ Legacy : KeyOf[e] \in Binding[q] /\ ConsumerOf[q] = p[1]
      BY <2>1, SubscribedHasQueue, TopologyTyped
    <3>2. ready' = Enqueued(KeyOf[e], e, 0) /\ KeyOf[e] \in Keys /\ 0 \in 0..(MaxAttempts - 1)
      BY <1>5, TopologyTyped DEF PublishConfirmed, TopologyTyped, MaxAttempts
    <3>3. Travelling(p[1], e)'
      BY <3>1, <3>2, EnqueuedTravels
    <3> QED BY <3>3, <2>1 DEF Covered
  <2>2. Sent(r, e, "confirmed") /\ UNCHANGED intent
    BY <1>5 DEF PublishConfirmed
  <2>3. ConfirmedIsRouted'
    BY <2>1, <2>2, <1>1 DEF Sent, ConfirmedIsRouted
  <2> QED BY <2>2, <2>3, <1>3
<1>6. ASSUME NEW r \in Replicas, NEW e \in Events, NextRow(r, e)
      PROVE  ConfirmedIsRouted'
  BY <1>1, <1>6 DEF NextRow, ConfirmedIsRouted
<1>7. ASSUME NEW r \in Replicas, NEW e \in Events, MarkPublished(r, e)
      PROVE  NoEventLost' /\ ConfirmedIsRouted'
  <2>1. NextRow(r, e) /\ phase[r] = "confirmed" /\ row[r] = e
    BY <1>7 DEF MarkPublished
  <2>2. \A f \in Events : f # e => intent'[f] = intent[f]
    BY <1>7 DEF MarkPublished, SetIfClaimed
  <2>3. \A p \in Subscribed : p[2] = e => Covered(p)'
    BY <1>1, <2>1 DEF ConfirmedIsRouted
  <2>4. NoEventLost'
    BY <1>1, <2>2, <2>3, SubscribedHasQueue, TopologyTyped DEF NoEventLost, Covered
  <2> QED BY <2>1, <2>4, <1>6
<1>8. ASSUME NEW r \in Replicas, NEW e \in Events, MarkPending(r, e) \/ MarkPendingFails(r, e)
      PROVE  NoEventLost' /\ ConfirmedIsRouted'
  <2>1. NextRow(r, e)
    BY <1>8 DEF MarkPending, MarkPendingFails
  <2>2. \A f \in Events : intent'[f] = "PUBLISHED" => intent[f] = "PUBLISHED"
    BY <1>8 DEF MarkPending, MarkPendingFails, SetIfClaimed
  <2> QED BY <2>1, <2>2, <1>3, <1>6
<1>9. ASSUME NEW r \in Replicas, Claim(r) PROVE NoEventLost' /\ ConfirmedIsRouted'
  <2>1. \A f \in Events : intent'[f] = "PUBLISHED" => intent[f] = "PUBLISHED"
    BY <1>9 DEF Claim
  <2>2. ConfirmedIsRouted'
    BY <1>1, <1>9 DEF Claim, ConfirmedIsRouted
  <2> QED BY <2>1, <2>2, <1>3
<1>10. ASSUME NEW r \in Replicas, Crash(r) PROVE NoEventLost' /\ ConfirmedIsRouted'
  <2>1. UNCHANGED intent
    BY <1>10 DEF Crash
  <2>2. ConfirmedIsRouted'
    BY <1>1, <1>10 DEF Crash, ConfirmedIsRouted
  <2> QED BY <2>1, <2>2, <1>3
<1>11. ASSUME NEW e \in Events, Emit(e) \/ ClaimAges(e)
       PROVE  NoEventLost' /\ ConfirmedIsRouted'
  <2>1. \A f \in Events : intent'[f] = "PUBLISHED" => intent[f] = "PUBLISHED"
    BY <1>11 DEF Emit, ClaimAges
  <2>2. UNCHANGED <<phase, row>>
    BY <1>11 DEF Emit, ClaimAges
  <2> QED BY <2>1, <2>2, <1>2, <1>3
<1>12. ASSUME \/ \E m \in Messages : RetryExpires(m)
              \/ \E w \in Workers : Consume(w)
              \/ \E w \in Workers : CommitUncertain(w) \/ Fail(w) \/ Requeue(w)
              \/ DeclareLegacy \/ UnbindLegacy \/ UNCHANGED vars
       PROVE  NoEventLost' /\ ConfirmedIsRouted'
  <2>1. UNCHANGED <<intent, phase, row>>
    BY <1>12 DEF Consume, Receive, InsertReceipt, Duplicate, Commit, CommitUncertain, Fail,
                 DeadLetter, Retry, Requeue, Ack, RetryExpires, DeclareLegacy,
                 UnbindLegacy, vars
  <2> QED BY <2>1, <1>2, <1>3
<1> QED
  BY <1>4, <1>5, <1>7, <1>8, <1>9, <1>10, <1>11, <1>12 DEF Next, Dispatch, Faulty

LEMMA InitSafety ==
    ASSUME Init
    PROVE  SafetyInv
<1>1. TypeOK
  BY TypeInit
<1>2. EffectOnce /\ OneHandler /\ HeldFromQueue
  BY DEF Init, EffectOnce, OneHandler, Handling, HeldFromQueue
<1>3. BindingsKept /\ NoEventLost /\ ConfirmedIsRouted
  BY SubscribedHasQueue, TopologyTyped
     DEF Init, BindingsKept, NoEventLost, ConfirmedIsRouted
<1> QED BY <1>1, <1>2, <1>3 DEF SafetyInv

LEMMA SafetyStep ==
    ASSUME SafetyInv, [Next]_vars
    PROVE  SafetyInv'
BY TypeStep, OnceStep, HeldStep, BindingStep, ClosingStep DEF SafetyInv

\* Whatever crashes, is confirmed late or is redelivered: once the outbox row of
\* an event is closed, every subscriber has its effect, a dead letter or a copy
\* on the way, unless the broker dropped a retry or a dead letter, which the
\* consumer publishes unconfirmed: there is no other way to lose an event.
THEOREM NothingLost == Spec => []NoEventLost
<1>1. Init => SafetyInv
  BY InitSafety
<1>2. SafetyInv /\ [Next]_vars => SafetyInv'
  BY SafetyStep
<1>3. SafetyInv => NoEventLost
  BY DEF SafetyInv
<1> QED BY <1>1, <1>2, <1>3, PTL DEF Spec

-----------------------------------------------------------------------------
(* What the features see: EventDelivery *)

\* No step but Emit creates an outbox row, and none removes one.
LEMMA EmittedStep ==
    ASSUME TypeOK, [Next]_vars
    PROVE  \/ \E e \in Events : Emit(e)
           \/ \A f \in Events : intent'[f] = "ABSENT" <=> intent[f] = "ABSENT"
<1> USE DEF TypeOK, outboxVars, dispatchVars, brokerVars, consumerVars, storeVars
<1>1. ASSUME NEW e \in Events, ClaimAges(e)
      PROVE  UNCHANGED intent
  BY <1>1 DEF ClaimAges
<1>2. ASSUME NEW r \in Replicas, Claim(r)
      PROVE  \A f \in Events : intent'[f] = "ABSENT" <=> intent[f] = "ABSENT"
  BY <1>2 DEF Claim, OldestDue, Due
<1>3. ASSUME NEW r \in Replicas, NEW e \in Events, MarkPublished(r, e) \/ MarkPending(r, e)
      PROVE  \A f \in Events : intent'[f] = "ABSENT" <=> intent[f] = "ABSENT"
  BY <1>3 DEF MarkPublished, MarkPending, SetIfClaimed
<1>4. ASSUME \/ \E r \in Replicas, e \in Events :
                   \/ PublishConfirmed(r, e) \/ PublishReturned(r, e)
                   \/ PublishFails(r, e) \/ MarkPendingFails(r, e)
             \/ \E r \in Replicas : Crash(r)
             \/ \E m \in Messages : RetryExpires(m)
             \/ \E w \in Workers : Consume(w)
             \/ \E w \in Workers : CommitUncertain(w) \/ Fail(w) \/ Requeue(w)
             \/ DeclareLegacy \/ UnbindLegacy \/ UNCHANGED vars
      PROVE  UNCHANGED intent
  BY <1>4 DEF PublishConfirmed, PublishReturned, PublishFails, MarkPendingFails, Crash,
              Consume, Receive, InsertReceipt, Duplicate, Commit, CommitUncertain, Fail,
              DeadLetter, Retry, Requeue, Ack, RetryExpires, DeclareLegacy, UnbindLegacy, vars
<1> QED BY <1>1, <1>2, <1>3, <1>4 DEF Next, Dispatch, Faulty

Present(m) == ready[m] > 0 \/ parked[m] > 0 \/ \E w \in Workers : held[w] = m

\* Settling a row asks for CLAIMED, and claiming it for PENDING or an old claim:
\* neither lets a PUBLISHED row go back.
LEMMA PublishedStep ==
    ASSUME TypeOK, [Next]_vars, NEW e \in Events, intent[e] = "PUBLISHED"
    PROVE  intent'[e] = "PUBLISHED"
<1> USE DEF TypeOK, outboxVars
<1>1. CASE \E f \in Events : Emit(f)
  BY <1>1 DEF Emit
<1>2. ASSUME NEW r \in Replicas, Claim(r)
      PROVE  intent'[e] = "PUBLISHED"
  BY <1>2 DEF Claim, OldestDue, Due
<1>3. ASSUME NEW r \in Replicas, NEW f \in Events, MarkPublished(r, f) \/ MarkPending(r, f)
      PROVE  intent'[e] = "PUBLISHED"
  BY <1>3 DEF MarkPublished, MarkPending, SetIfClaimed
<1>4. ASSUME \/ \E f \in Events : ClaimAges(f)
             \/ \E r \in Replicas, f \in Events :
                   \/ PublishConfirmed(r, f) \/ PublishReturned(r, f)
                   \/ PublishFails(r, f) \/ MarkPendingFails(r, f)
             \/ \E r \in Replicas : Crash(r)
             \/ \E m \in Messages : RetryExpires(m)
             \/ \E w \in Workers : Consume(w)
             \/ \E w \in Workers : CommitUncertain(w) \/ Fail(w) \/ Requeue(w)
             \/ DeclareLegacy \/ UnbindLegacy \/ UNCHANGED vars
      PROVE  UNCHANGED intent
  BY <1>4 DEF ClaimAges, PublishConfirmed, PublishReturned, PublishFails, MarkPendingFails,
              Crash, Consume, Receive, InsertReceipt, Duplicate, Commit, CommitUncertain,
              Fail, DeadLetter, Retry, Requeue, Ack, RetryExpires, DeclareLegacy,
              UnbindLegacy, vars
<1> QED BY <1>1, <1>2, <1>3, <1>4 DEF Next, Dispatch, Faulty

\* No dispatcher, however late, reopens the outbox row of a published event:
\* the row is settled only while its status is still CLAIMED.
THEOREM PublishedIsFinal == Spec => PublishedStaysPublished
<1>1. TypeOK /\ [Next]_vars =>
        [\A e \in Events : intent[e] = "PUBLISHED" => intent'[e] = "PUBLISHED"]_vars
  BY PublishedStep
<1> QED BY <1>1, TypeInit, TypeStep, PTL DEF Spec, PublishedStaysPublished

\* Copies appear only where the topology of the event, or that of the queue it
\* failed in, leads.
LEMMA CopiesSubscribed ==
    ASSUME TypeOK, HeldFromQueue, BindingsKept, OnlySubscribed, [Next]_vars,
           NEW m \in Messages, Present(m)', ~Present(m)
    PROVE  intent[m.event] # "ABSENT" /\ Receipt(m) \in Subscribed
<1> USE NoneNotMessage DEF TypeOK, outboxVars, dispatchVars, brokerVars, consumerVars, storeVars
<1>1. /\ ready[m] = 0 /\ parked[m] = 0 /\ \A w \in Workers : held[w] # m
  BY DEF Present
<1>2. ~UNCHANGED <<ready, parked, held>>
  BY <1>1 DEF Present
<1>3. m.queue \in Queues /\ m.event \in Events
  BY DEF Messages
<1>4. ASSUME NEW r \in Replicas, NEW e \in Events,
             \/ PublishConfirmed(r, e) \/ PublishReturned(r, e) \/ PublishFails(r, e)
      PROVE  intent[m.event] # "ABSENT" /\ Receipt(m) \in Subscribed
  <2>1. e \in batch[r] /\ ready' = Enqueued(KeyOf[e], e, 0)
    BY <1>4, <1>2 DEF PublishConfirmed, PublishReturned, PublishFails, Current
  <2>2. m.event = e /\ KeyOf[e] \in bound[m.queue]
    BY <1>4, <2>1, <1>1 DEF PublishConfirmed, PublishReturned, PublishFails, Enqueued,
                            RoutedTo, Present
  <2>3. KeyOf[e] \in Binding[m.queue]
    BY <2>2, <1>3 DEF BindingsKept
  <2>4. KeyOf[e] \in ConsumerKeys(ConsumerOf[m.queue])
    <3>1. CASE m.queue \in Legacy
      BY <3>1, <2>3, LegacyReplaced
    <3>2. CASE m.queue \notin Legacy
      BY <3>2, <2>3, <1>3 DEF ConsumerKeys
    <3> QED BY <3>1, <3>2
  <2>5. Receipt(m) \in Subscribed
    BY <2>4, <2>2, <1>3, TopologyTyped DEF Subscribed, Receipt, TopologyTyped
  <2> QED BY <2>1, <2>2, <2>5 DEF OnlySubscribed
<1>5. ASSUME NEW n \in Messages, RetryExpires(n)
      PROVE  intent[m.event] # "ABSENT" /\ Receipt(m) \in Subscribed
  <2>1. m.event = n.event /\ RetryKey[n.queue] \in bound[m.queue]
    BY <1>5, <1>1 DEF RetryExpires, Enqueued, RoutedTo, Present
  <2>2. intent[n.event] # "ABSENT" /\ Receipt(n) \in Subscribed
    BY <1>5 DEF RetryExpires, OnlySubscribed
  <2>3. n.queue \in Queues /\ RetryKey[n.queue] \in Binding[m.queue]
    BY <2>1, <1>3 DEF BindingsKept, Messages
  <2>4. KeyOf[m.event] \in ConsumerKeys(ConsumerOf[n.queue])
    BY <2>1, <2>2 DEF Subscribed, Receipt
  <2>5. KeyOf[m.event] \in ConsumerKeys(ConsumerOf[m.queue])
    BY <2>3, <2>4, <1>3, RetriesStayHome
  <2>6. Receipt(m) \in Subscribed
    BY <2>5, <1>3, TopologyTyped DEF Subscribed, Receipt, TopologyTyped
  <2> QED BY <2>1, <2>2, <2>6
<1>6. ASSUME NEW w \in Workers, NEW n \in Messages, Receive(w, n)
      PROVE  FALSE
  BY <1>6, <1>1 DEF Receive, Present
<1>7. ASSUME NEW w \in Workers, Retry(w)
      PROVE  intent[m.event] # "ABSENT" /\ Receipt(m) \in Subscribed
  <2>1. /\ held[w] \in Messages /\ RetryCopy(w) \in Messages
        /\ RetryCopy(w).queue = held[w].queue /\ RetryCopy(w).event = held[w].event
    BY <1>7, RetryCopyIsMessage
  <2>2. m = RetryCopy(w)
    BY <1>7, <1>1, <2>1 DEF Retry, Present
  <2>3. intent[held[w].event] # "ABSENT" /\ Receipt(held[w]) \in Subscribed
    BY <2>1 DEF OnlySubscribed
  <2> QED BY <2>1, <2>2, <2>3 DEF Receipt
<1>8. ASSUME NEW w \in Workers, Requeue(w) PROVE FALSE
  BY <1>8, <1>1 DEF Requeue, Present
<1>9. ASSUME NEW w \in Workers, Ack(w) PROVE FALSE
  BY <1>9, <1>1 DEF Ack, Present
<1>10. ASSUME NEW r \in Replicas, Crash(r) PROVE FALSE
  <2>1. \A w \in Workers : held'[w] # m
    BY <1>10, <1>1 DEF Crash
  <2>2. held[<<r, m.queue>>] # m
    BY <1>1, <1>3 DEF Workers
  <2> QED BY <1>10, <2>1, <2>2, <1>1 DEF Crash, Present
<1>11. ASSUME \/ \E e \in Events : Emit(e) \/ ClaimAges(e)
              \/ \E r \in Replicas : Claim(r)
              \/ \E r \in Replicas, e \in Events :
                    MarkPublished(r, e) \/ MarkPending(r, e) \/ MarkPendingFails(r, e)
              \/ \E w \in Workers :
                    \/ InsertReceipt(w) \/ Duplicate(w) \/ Commit(w) \/ CommitUncertain(w)
                    \/ Fail(w) \/ DeadLetter(w)
              \/ DeclareLegacy \/ UnbindLegacy \/ UNCHANGED vars
       PROVE  FALSE
  BY <1>11, <1>2 DEF Emit, ClaimAges, Claim, MarkPublished, MarkPending, MarkPendingFails,
                     InsertReceipt, Duplicate, Commit, CommitUncertain, Fail, DeadLetter,
                     DeclareLegacy, UnbindLegacy, vars
<1> QED
  BY <1>4, <1>5, <1>6, <1>7, <1>8, <1>9, <1>10, <1>11 DEF Next, Dispatch, Consume, Faulty

LEMMA SubscribedStep ==
    ASSUME IInv, [Next]_vars
    PROVE  OnlySubscribed'
<1> USE DEF TypeOK, IInv, outboxVars, dispatchVars, brokerVars, consumerVars, storeVars
<1>1. \A e \in Events : intent[e] # "ABSENT" => intent'[e] # "ABSENT"
  BY EmittedStep DEF Emit
<1>2. ASSUME NEW m \in Messages, Present(m)'
      PROVE  intent'[m.event] # "ABSENT" /\ Receipt(m) \in Subscribed
  <2>1. intent[m.event] # "ABSENT" /\ Receipt(m) \in Subscribed
    BY <1>2, CopiesSubscribed DEF OnlySubscribed, Present
  <2> QED BY <2>1, <1>1 DEF Messages
<1>3. ASSUME NEW r \in Replicas, NEW e \in batch'[r]
      PROVE  intent'[e] # "ABSENT"
  <2>1. CASE e \in batch[r]
    BY <2>1, <1>1 DEF OnlySubscribed
  <2>2. ASSUME NEW s \in Replicas, Claim(s), e \notin batch[r]
        PROVE  intent'[e] # "ABSENT"
    BY <2>2, <1>3 DEF Claim, OldestDue
  <2>3. ASSUME \/ \E f \in Events : Emit(f) \/ ClaimAges(f)
               \/ \E s \in Replicas, f \in Events :
                     \/ PublishConfirmed(s, f) \/ PublishReturned(s, f) \/ PublishFails(s, f)
               \/ \E m \in Messages : RetryExpires(m)
               \/ \E w \in Workers : Consume(w)
               \/ \E w \in Workers : CommitUncertain(w) \/ Fail(w) \/ Requeue(w)
               \/ DeclareLegacy \/ UnbindLegacy \/ UNCHANGED vars
        PROVE  UNCHANGED batch
    BY <2>3 DEF Emit, ClaimAges, PublishConfirmed, PublishReturned, PublishFails,
                Consume, Receive, InsertReceipt, Duplicate, Commit, CommitUncertain, Fail,
                DeadLetter, Retry, Requeue, Ack, RetryExpires, DeclareLegacy, UnbindLegacy, vars
  <2>4. ASSUME NEW s \in Replicas,
               \/ Crash(s)
               \/ \E f \in Events :
                     MarkPublished(s, f) \/ MarkPending(s, f) \/ MarkPendingFails(s, f)
        PROVE  batch'[r] \subseteq batch[r]
    BY <2>4 DEF Crash, MarkPublished, MarkPending, MarkPendingFails, NextRow
  <2> QED BY <2>1, <2>2, <2>3, <2>4, <1>3 DEF Next, Dispatch, Faulty
<1> QED BY <1>2, <1>3 DEF OnlySubscribed, Present, Receipt

\* Each step of the messaging layer is a step of what it promises, or invisible.
LEMMA RefinementStep ==
    ASSUME IInv, [Next]_vars
    PROVE  [Delivery!ANext]_(Delivery!avars)
<1> DEFINE em == {e \in Events : intent[e] # "ABSENT"}
           de == {p \in Consumers \X Events :
                    \E q \in Queues : ConsumerOf[q] = p[1] /\ <<q, p[2]>> \in dead}
<1> USE NoneNotMessage DEF TypeOK, outboxVars, dispatchVars, brokerVars, consumerVars, storeVars
<1>1. TypeOK /\ EffectOnce /\ OneHandler /\ OnlySubscribed
  BY DEF IInv
<1>2. ASSUME UNCHANGED <<effects, dead>>,
             \A f \in Events : intent'[f] = "ABSENT" <=> intent[f] = "ABSENT"
      PROVE  UNCHANGED Delivery!avars
  BY <1>2 DEF Delivery!avars
<1>3. ASSUME NEW e \in Events, Emit(e) PROVE Delivery!ANext
  <2>1. em' = em \union {e} /\ e \notin em /\ UNCHANGED <<effects, de>>
    BY <1>1, <1>3 DEF Emit
  <2>2. Delivery!AEmit(e)
    BY <2>1 DEF Delivery!AEmit
  <2> QED BY <2>2 DEF Delivery!ANext
<1>4. ASSUME NEW w \in Workers, Commit(w) \/ CommitUncertain(w) PROVE Delivery!ANext
  <2>1. /\ held[w] \in Messages /\ held[w].event \in Events /\ held[w].queue \in Queues
        /\ Handling(w) /\ CommitEffect(w) /\ UNCHANGED <<intent, dead>>
    BY <1>1, <1>4 DEF Commit, CommitUncertain, Handling, Messages
  <2>2. PICK c \in Consumers, e \in Events :
           c = ConsumerOf[held[w].queue] /\ e = held[w].event /\ Receipt(held[w]) = <<c, e>>
    BY <2>1, TopologyTyped DEF Receipt, TopologyTyped
  <2>3. e \in em /\ <<c, e>> \in Subscribed
    BY <2>1, <2>2, <1>1 DEF OnlySubscribed
  <2>4. effects[<<c, e>>] = 0
    BY <2>1, <2>2, <1>1 DEF EffectOnce, OneHandler
  <2>5. effects' = [effects EXCEPT ![<<c, e>>] = 1]
    BY <2>1, <2>2, <2>4 DEF CommitEffect
  <2>6. UNCHANGED <<em, de>>
    BY <2>1
  <2>7. Delivery!AApply(c, e)
    BY <2>3, <2>4, <2>5, <2>6 DEF Delivery!AApply
  <2> QED BY <2>2, <2>7 DEF Delivery!ANext
<1>5. ASSUME NEW w \in Workers, DeadLetter(w), ~UNCHANGED dead PROVE Delivery!ANext
  <2>1. /\ held[w] \in Messages /\ held[w].event \in Events /\ held[w].queue \in Queues
        /\ dead' = dead \union {<<held[w].queue, held[w].event>>}
        /\ UNCHANGED <<intent, effects>>
    BY <1>1, <1>5 DEF DeadLetter, Messages
  <2>2. PICK c \in Consumers, e \in Events :
           c = ConsumerOf[held[w].queue] /\ e = held[w].event /\ Receipt(held[w]) = <<c, e>>
    BY <2>1, TopologyTyped DEF Receipt, TopologyTyped
  <2>3. e \in em /\ <<c, e>> \in Subscribed
    BY <2>1, <2>2, <1>1 DEF OnlySubscribed
  <2>4. UNCHANGED <<em, effects>> /\ de' = de \union {<<c, e>>}
    <3>1. UNCHANGED em
      BY <2>1
    <3>2. UNCHANGED effects
      BY <2>1
    <3>3. dead' = dead \union {<<held[w].queue, e>>} /\ held[w].queue \in Queues
      BY <2>1, <2>2
    <3>4. \A p \in Consumers \X Events : p \in de => p \in de'
      BY <3>3
    <3>5. <<c, e>> \in de'
      BY <3>3, <2>2
    <3>6. \A p \in Consumers \X Events : p \in de' => p \in de \union {<<c, e>>}
      <4> SUFFICES ASSUME NEW p \in Consumers \X Events, p \in de'
                   PROVE  p \in de \/ p = <<c, e>>
        OBVIOUS
      <4>1. PICK q \in Queues : ConsumerOf[q] = p[1] /\ <<q, p[2]>> \in dead'
        OBVIOUS
      <4>2. CASE <<q, p[2]>> \in dead
        BY <4>1, <4>2
      <4>3. CASE <<q, p[2]>> = <<held[w].queue, e>>
        <5>1. q = held[w].queue /\ p[2] = e
          BY <4>3
        <5>2. p[1] = c
          BY <4>1, <5>1, <2>2
        <5> QED BY <5>1, <5>2
      <4> QED BY <4>1, <4>2, <4>3, <3>3
    <3>7. de' \subseteq Consumers \X Events /\ de \subseteq Consumers \X Events
      OBVIOUS
    <3> QED BY <3>1, <3>2, <3>4, <3>5, <3>6, <3>7, <2>2
  <2>5. Delivery!ADeadLetter(c, e)
    BY <2>3, <2>4 DEF Delivery!ADeadLetter
  <2> QED BY <2>2, <2>5 DEF Delivery!ANext
<1>6. ASSUME \/ \E e \in Events : ClaimAges(e)
             \/ \E r \in Replicas : Dispatch(r) \/ Crash(r)
             \/ \E r \in Replicas, e \in Events : PublishFails(r, e) \/ MarkPendingFails(r, e)
             \/ \E m \in Messages : RetryExpires(m)
             \/ \E w \in Workers :
                   \/ \E m \in Messages : Receive(w, m)
                   \/ InsertReceipt(w) \/ Duplicate(w) \/ Fail(w) \/ Retry(w)
                   \/ Requeue(w) \/ Ack(w)
             \/ DeclareLegacy \/ UnbindLegacy \/ UNCHANGED vars
      PROVE  UNCHANGED <<effects, dead>>
  BY <1>6 DEF ClaimAges, Dispatch, Claim, PublishConfirmed, PublishReturned, MarkPublished,
              MarkPending, PublishFails, MarkPendingFails, Crash, RetryExpires, Receive,
              InsertReceipt, Duplicate, Fail, Retry, Requeue, Ack, DeclareLegacy,
              UnbindLegacy, vars
<1>7. ASSUME NEW w \in Workers, DeadLetter(w), UNCHANGED dead
      PROVE  UNCHANGED <<effects, dead>>
  BY <1>7 DEF DeadLetter
<1> QED
  BY <1>1, <1>2, <1>3, <1>4, <1>5, <1>6, <1>7, EmittedStep DEF Next, Consume, Faulty

\* With its outbox, broker and inboxes the messaging layer delivers as
\* EventDelivery says: emitted events only, to their subscribers only, once.
THEOREM DeliveryImplemented == Spec => ImplementsDelivery
<1>1. Init => IInv
  <2> SUFFICES ASSUME Init PROVE IInv
    OBVIOUS
  <2>1. SafetyInv
    BY InitSafety
  <2>2. OnlySubscribed
    BY NoneNotMessage DEF Init, OnlySubscribed
  <2> QED BY <2>1, <2>2 DEF IInv, SafetyInv
<1>2. IInv /\ [Next]_vars => IInv'
  <2> SUFFICES ASSUME IInv, [Next]_vars PROVE IInv'
    OBVIOUS
  <2>1. SafetyInv
    BY DEF IInv, SafetyInv
  <2>2. SafetyInv'
    BY <2>1, SafetyStep
  <2>3. OnlySubscribed'
    BY SubscribedStep
  <2> QED BY <2>2, <2>3 DEF IInv, SafetyInv
<1>3. Init => Delivery!AInit
  BY DEF Init, Delivery!AInit
<1>4. IInv /\ [Next]_vars => [Delivery!ANext]_(Delivery!avars)
  BY RefinementStep
<1> QED BY <1>1, <1>2, <1>3, <1>4, PTL DEF Spec, ImplementsDelivery, Delivery!ASpec
====

---- MODULE OutboxDelivery ----
(***************************************************************************)
(* The path of an integration event of the inspection service, from the    *)
(* row a business transaction leaves in the outbox to the transaction of    *)
(* each consumer that applies it:                                           *)
(*                                                                          *)
(*   outbox row --Dispatcher--> topic exchange --> queues --RabbitConsumer  *)
(*   --> Consumer.Process (inbox receipt + handler in one transaction)      *)
(*   --> ack | retry queue (TTL, back to the exchange) | dead-letter queue  *)
(*                                                                          *)
(* The dispatcher publishes with confirms and mandatory routing.  The       *)
(* consumer's publications to the retry and dead-letter queues have neither, *)
(* and the message they stand for is acknowledged whatever became of them.   *)
(*                                                                          *)
(* A replica is one worker process: it runs a dispatch loop and, for each    *)
(* queue, one sequential consumer.  Time appears only as the actions        *)
(* ClaimAges (a claim turns one minute old) and RetryExpires (the TTL of a   *)
(* retry queue).  Everything that goes wrong spends one unit of MaxFaults.  *)
(***************************************************************************)
EXTENDS Integers, FiniteSets

CONSTANTS Events, Keys, Queues, Consumers, Replicas,
          KeyOf,        \* routing key (= type) of an event
          Binding,      \* the routing keys the topology binds a queue to
          RetryKey,     \* x-dead-letter-routing-key of a queue's retry queues
          ConsumerOf,   \* inbox name of the consumer that reads a queue
          Legacy,       \* queues the video worker unbinds after declaring them
          BatchSize,    \* rows one Dispatch claims
          MaxFaults,    \* bound: adverse steps in a behaviour
          None          \* not a message, not an event

ASSUME TopologyTyped ==
    /\ KeyOf \in [Events -> Keys]
    /\ Binding \in [Queues -> SUBSET Keys]
    /\ RetryKey \in [Queues -> Keys]
    /\ ConsumerOf \in [Queues -> Consumers]
    /\ Legacy \subseteq Queues

ASSUME BoundsTyped ==
    /\ BatchSize \in Nat \ {0} /\ MaxFaults \in Nat
    /\ IsFiniteSet(Events)

\* The keys a consumer is reached by once the legacy queues are unbound.
ConsumerKeys(c) ==
    UNION {Binding[q] : q \in {p \in Queues \ Legacy : ConsumerOf[p] = c}}

\* What leaves a retry queue comes back to the same inbox, also when the queue
\* itself is no longer bound (the legacy video queue drains into the new one).
ASSUME RetriesReturn ==
    \A q \in Queues : \E p \in Queues \ Legacy :
        RetryKey[q] \in Binding[p] /\ ConsumerOf[p] = ConsumerOf[q]

\* A retry queue's key reaches only consumers that subscribe to all that the
\* consumer of the failed message subscribes to.
ASSUME RetriesStayHome ==
    \A q, p \in Queues : RetryKey[q] \in Binding[p] =>
        ConsumerKeys(ConsumerOf[q]) \subseteq ConsumerKeys(ConsumerOf[p])

\* Unbinding a legacy queue takes no event away from its consumer.
ASSUME LegacyReplaced ==
    \A q \in Legacy : Binding[q] \subseteq ConsumerKeys(ConsumerOf[q])

ASSUME NoneIsFresh ==
    /\ None \notin Events
    /\ None \notin [queue : Queues, event : Events, attempt : 0..3]

MaxAttempts == 4                 \* len(RetryDelays)
Messages    == [queue : Queues, event : Events, attempt : 0..(MaxAttempts - 1)]
Workers     == Replicas \X Queues

Subscribed == {p \in Consumers \X Events : KeyOf[p[2]] \in ConsumerKeys(p[1])}

VARIABLES
    intent,   \* status of the outbox row of an event
    stale,    \* the row's claimed_at is at least a minute old
    created,  \* created_at of the row: its rank among the emitted events
    batch,    \* rows a replica's Dispatch has claimed and not yet settled
    phase,    \* what Dispatch does next
    row,      \* the row it has published and not yet settled
    bound,    \* the bindings of each queue now
    ready,    \* copies of a message waiting in a queue
    parked,   \* copies of a message waiting in a retry queue
    held,     \* the unacknowledged delivery of a consumer
    stage,    \* how far that delivery is
    inbox,    \* committed inbox receipts
    effects,  \* committed runs of the handler
    dead,     \* <<queue, event>> pairs with a copy in the dead-letter queue
    dropped,  \* <<queue, event>> pairs of which the broker dropped a retry or
              \* a dead letter without a word (history)
    faults    \* adverse steps so far

outboxVars == <<intent, stale, created>>
dispatchVars == <<batch, phase, row>>
brokerVars == <<ready, parked, dead, dropped>>
consumerVars == <<held, stage>>
storeVars == <<inbox, effects>>
vars == <<outboxVars, dispatchVars, bound, brokerVars, consumerVars, storeVars, faults>>

TypeOK ==
    /\ intent \in [Events -> {"ABSENT", "PENDING", "CLAIMED", "PUBLISHED"}]
    /\ stale \in [Events -> BOOLEAN]
    /\ created \in [Events -> Nat]
    /\ batch \in [Replicas -> SUBSET Events]
    /\ phase \in [Replicas -> {"publish", "confirmed", "failed"}]
    /\ row \in [Replicas -> Events \union {None}]
    /\ bound \in [Queues -> SUBSET Keys]
    /\ ready \in [Messages -> Nat]
    /\ parked \in [Messages -> Nat]
    /\ held \in [Workers -> Messages \union {None}]
    /\ stage \in [Workers -> {"received", "handling", "ack",
                              "retryable", "busy", "permanent"}]
    /\ inbox \subseteq Consumers \X Events
    /\ effects \in [Consumers \X Events -> Nat]
    /\ dead \subseteq Queues \X Events
    /\ dropped \subseteq Queues \X Events
    /\ faults \in 0..MaxFaults

Init ==
    /\ intent = [e \in Events |-> "ABSENT"]
    /\ stale = [e \in Events |-> FALSE]
    /\ created = [e \in Events |-> 0]
    /\ batch = [r \in Replicas |-> {}]
    /\ phase = [r \in Replicas |-> "publish"]
    /\ row = [r \in Replicas |-> None]
    /\ bound = Binding
    /\ ready = [m \in Messages |-> 0]
    /\ parked = [m \in Messages |-> 0]
    /\ held = [w \in Workers |-> None]
    /\ stage = [w \in Workers |-> "received"]
    /\ inbox = {}
    /\ effects = [p \in Consumers \X Events |-> 0]
    /\ dead = {}
    /\ dropped = {}
    /\ faults = 0

Fault == faults < MaxFaults /\ faults' = faults + 1

-----------------------------------------------------------------------------
(* The outbox *)

\* AddOutbox, inside the business transaction that emits e.
Emit(e) ==
    /\ intent[e] = "ABSENT"
    /\ intent' = [intent EXCEPT ![e] = "PENDING"]
    /\ created' = [created EXCEPT
                     ![e] = Cardinality({f \in Events : intent[f] # "ABSENT"})]
    /\ UNCHANGED <<stale, dispatchVars, bound, brokerVars, consumerVars, storeVars, faults>>

\* Mutant: an abandoned claim is never taken over.
DueOnlyPending(e) == intent[e] = "PENDING"

Due(e) == intent[e] = "PENDING" \/ (intent[e] = "CLAIMED" /\ stale[e])

\* The rows ORDER BY created_at LIMIT BatchSize returns.
OldestDue ==
    LET Older(e) == {f \in Events : Due(f) /\ created[f] < created[e]}
    IN  {e \in Events : Due(e) /\ Cardinality(Older(e)) < BatchSize}

\* A minute passes since the claim of e.  It costs nothing when the claimant is
\* gone; a live dispatcher that is this slow is a fault.
ClaimAges(e) ==
    /\ intent[e] = "CLAIMED" /\ ~stale[e]
    /\ stale' = [stale EXCEPT ![e] = TRUE]
    /\ IF \E r \in Replicas : e \in batch[r] THEN Fault ELSE UNCHANGED faults
    /\ UNCHANGED <<intent, created, dispatchVars, bound, brokerVars, consumerVars, storeVars>>

\* The claim transaction of Dispatch.
Claim(r) ==
    /\ batch[r] = {}
    /\ OldestDue # {}
    /\ batch' = [batch EXCEPT ![r] = OldestDue]
    /\ phase' = [phase EXCEPT ![r] = "publish"]
    /\ intent' = [e \in Events |-> IF e \in OldestDue THEN "CLAIMED" ELSE intent[e]]
    /\ stale' = [e \in Events |-> IF e \in OldestDue THEN FALSE ELSE stale[e]]
    /\ UNCHANGED <<created, row, bound, brokerVars, consumerVars, storeVars, faults>>

\* Dispatch works through its rows in the order of the query.
Current(r, e) == e \in batch[r] /\ \A f \in batch[r] : created[e] <= created[f]

\* Mutant: the exchange is a fanout.
RoutedToAll(k) == {q \in Queues : bound[q] # {}}

RoutedTo(k) == {q \in Queues : k \in bound[q]}

Enqueued(k, e, a) ==
    [m \in Messages |->
        IF m.event = e /\ m.attempt = a /\ m.queue \in RoutedTo(k)
          THEN ready[m] + 1 ELSE ready[m]]

Sent(r, e, outcome) ==
    /\ phase' = [phase EXCEPT ![r] = outcome]
    /\ row' = [row EXCEPT ![r] = e]

\* PublishConfirmed returns nil: the broker routed the message and confirmed it.
PublishConfirmed(r, e) ==
    /\ phase[r] = "publish" /\ Current(r, e)
    /\ RoutedTo(KeyOf[e]) # {}
    /\ ready' = Enqueued(KeyOf[e], e, 0)
    /\ Sent(r, e, "confirmed")
    /\ UNCHANGED <<outboxVars, batch, bound, parked, dead, dropped, consumerVars, storeVars, faults>>

\* A mandatory message no queue is bound for comes back as basic.return.
PublishReturned(r, e) ==
    /\ phase[r] = "publish" /\ Current(r, e)
    /\ RoutedTo(KeyOf[e]) = {}
    /\ Sent(r, e, "failed")
    /\ UNCHANGED <<outboxVars, batch, bound, brokerVars, consumerVars, storeVars, faults>>

\* PublishConfirmed returns an error; the broker may have routed the message
\* all the same (a nack, a channel closed before the confirmation arrived).
PublishFails(r, e) ==
    /\ phase[r] = "publish" /\ Current(r, e)
    /\ Fault
    /\ ready' = Enqueued(KeyOf[e], e, 0) \/ UNCHANGED ready
    /\ Sent(r, e, "failed")
    /\ UNCHANGED <<outboxVars, batch, bound, parked, dead, dropped, consumerVars, storeVars>>

NextRow(r, e) ==
    /\ batch' = [batch EXCEPT ![r] = @ \ {e}]
    /\ phase' = [phase EXCEPT ![r] = "publish"]
    /\ row' = [row EXCEPT ![r] = None]

\* UPDATE ... SET status, claimed_at = NULL WHERE id = e AND status = 'CLAIMED'.
SetIfClaimed(e, status) ==
    IF intent[e] = "CLAIMED"
      THEN /\ intent' = [intent EXCEPT ![e] = status]
           /\ stale' = [stale EXCEPT ![e] = FALSE]
      ELSE UNCHANGED <<intent, stale>>

MarkPublished(r, e) ==
    /\ phase[r] = "confirmed" /\ row[r] = e
    /\ SetIfClaimed(e, "PUBLISHED")
    /\ NextRow(r, e)
    /\ UNCHANGED <<created, bound, brokerVars, consumerVars, storeVars, faults>>

\* The row goes back to PENDING, due at once.
MarkPending(r, e) ==
    /\ phase[r] = "failed" /\ row[r] = e
    /\ SetIfClaimed(e, "PENDING")
    /\ NextRow(r, e)
    /\ UNCHANGED <<created, bound, brokerVars, consumerVars, storeVars, faults>>

\* The error of that UPDATE is not looked at: the loop goes on to the next row.
MarkPendingFails(r, e) ==
    /\ phase[r] = "failed" /\ row[r] = e
    /\ Fault
    /\ NextRow(r, e)
    /\ UNCHANGED <<outboxVars, bound, brokerVars, consumerVars, storeVars>>

-----------------------------------------------------------------------------
(* The broker's topology *)

\* declareVideoQueueMigration declares the legacy queue with its binding ...
DeclareLegacy ==
    /\ bound' = Binding
    /\ UNCHANGED <<outboxVars, dispatchVars, brokerVars, consumerVars, storeVars, faults>>

\* ... and then unbinds it, so that it only drains.
UnbindLegacy ==
    /\ bound' = [q \in Queues |-> IF q \in Legacy THEN {} ELSE Binding[q]]
    /\ UNCHANGED <<outboxVars, dispatchVars, brokerVars, consumerVars, storeVars, faults>>

\* The TTL of a retry queue expires: the message returns to the exchange with
\* the queue's own routing key, which every queue bound to that key receives.
RetryExpires(m) ==
    /\ parked[m] > 0
    /\ parked' = [parked EXCEPT ![m] = @ - 1]
    /\ ready' = Enqueued(RetryKey[m.queue], m.event, m.attempt)
    /\ UNCHANGED <<outboxVars, dispatchVars, bound, dead, dropped, consumerVars, storeVars, faults>>

-----------------------------------------------------------------------------
(* RabbitConsumer.Run and Consumer.Process, for the consumer w = <<r, q>> *)

Receipt(m) == <<ConsumerOf[m.queue], m.event>>

Receive(w, m) ==
    /\ held[w] = None
    /\ m.queue = w[2] /\ ready[m] > 0
    /\ ready' = [ready EXCEPT ![m] = @ - 1]
    /\ held' = [held EXCEPT ![w] = m]
    /\ stage' = [stage EXCEPT ![w] = "received"]
    /\ UNCHANGED <<outboxVars, dispatchVars, bound, parked, dead, dropped, storeVars, faults>>

\* w's transaction has inserted a receipt and has not ended.
Handling(w) == held[w] # None /\ stage[w] = "handling"

\* The INSERT waits for an uncommitted receipt with the same key.
InsertWaits(m) == \E v \in Workers : Handling(v) /\ Receipt(held[v]) = Receipt(m)

\* Mutant: the receipts are read, not inserted, before the handler runs.
LookForReceipt(w) ==
    /\ held[w] # None /\ stage[w] = "received"
    /\ Receipt(held[w]) \notin inbox
    /\ stage' = [stage EXCEPT ![w] = "handling"]
    /\ UNCHANGED <<outboxVars, dispatchVars, bound, brokerVars, held, storeVars, faults>>

\* The receipt is new: the handler runs in the same transaction.
InsertReceipt(w) ==
    /\ held[w] # None /\ stage[w] = "received"
    /\ Receipt(held[w]) \notin inbox /\ ~InsertWaits(held[w])
    /\ stage' = [stage EXCEPT ![w] = "handling"]
    /\ UNCHANGED <<outboxVars, dispatchVars, bound, brokerVars, held, storeVars, faults>>

\* ON CONFLICT DO NOTHING inserted no row: already processed.
Duplicate(w) ==
    /\ held[w] # None /\ stage[w] = "received"
    /\ Receipt(held[w]) \in inbox
    /\ stage' = [stage EXCEPT ![w] = "ack"]
    /\ UNCHANGED <<outboxVars, dispatchVars, bound, brokerVars, held, storeVars, faults>>

CommitEffect(w) ==
    /\ inbox' = inbox \union {Receipt(held[w])}
    /\ effects' = [effects EXCEPT ![Receipt(held[w])] = @ + 1]

Commit(w) ==
    /\ Handling(w)
    /\ CommitEffect(w)
    /\ stage' = [stage EXCEPT ![w] = "ack"]
    /\ UNCHANGED <<outboxVars, dispatchVars, bound, brokerVars, held, faults>>

\* COMMIT reports an error although the database has committed.
CommitUncertain(w) ==
    /\ Handling(w)
    /\ Fault
    /\ CommitEffect(w)
    /\ stage' = [stage EXCEPT ![w] = "retryable"]
    /\ UNCHANGED <<outboxVars, dispatchVars, bound, brokerVars, held>>

\* The contract is invalid, or the handler returns an error: rolled back.
Fail(w) ==
    /\ held[w] # None /\ stage[w] \in {"received", "handling"}
    /\ Fault
    /\ \E kind \in {"retryable", "busy", "permanent"} :
          stage' = [stage EXCEPT ![w] = kind]
    /\ UNCHANGED <<outboxVars, dispatchVars, bound, brokerVars, held, storeVars>>

GivesUp(w) == \/ stage[w] = "permanent"
              \/ stage[w] \in {"retryable", "busy"} /\ held[w].attempt + 1 >= MaxAttempts

\* publishQueue asks for no confirmation and mandatory is false: the broker may
\* drop the message, and nobody is told.
Drop(w) ==
    /\ Fault
    /\ dropped' = dropped \union {<<held[w].queue, held[w].event>>}

DeadLetter(w) ==
    /\ held[w] # None /\ GivesUp(w)
    /\ \/ /\ dead' = dead \union {<<held[w].queue, held[w].event>>}
          /\ UNCHANGED <<dropped, faults>>
       \/ Drop(w) /\ UNCHANGED dead
    /\ stage' = [stage EXCEPT ![w] = "ack"]
    /\ UNCHANGED <<outboxVars, dispatchVars, bound, ready, parked, held, storeVars>>

\* ErrLeaseBusy skips to the last retry queue, whatever the attempt was.
RetryCopy(w) == [held[w] EXCEPT !.attempt =
                    IF stage[w] = "busy" THEN MaxAttempts - 1 ELSE @ + 1]

Retry(w) ==
    /\ held[w] # None /\ stage[w] \in {"retryable", "busy"} /\ ~GivesUp(w)
    /\ \/ /\ parked' = [parked EXCEPT ![RetryCopy(w)] = @ + 1]
          /\ UNCHANGED <<dropped, faults>>
       \/ Drop(w) /\ UNCHANGED parked
    /\ stage' = [stage EXCEPT ![w] = "ack"]
    /\ UNCHANGED <<outboxVars, dispatchVars, bound, ready, dead, held, storeVars>>

\* The retry or dead-letter publication fails: Nack with requeue.
Requeue(w) ==
    /\ held[w] # None /\ stage[w] \in {"retryable", "busy", "permanent"}
    /\ Fault
    /\ ready' = [ready EXCEPT ![held[w]] = @ + 1]
    /\ held' = [held EXCEPT ![w] = None]
    /\ stage' = [stage EXCEPT ![w] = "received"]
    /\ UNCHANGED <<outboxVars, dispatchVars, bound, parked, dead, dropped, storeVars>>

Ack(w) ==
    /\ held[w] # None /\ stage[w] = "ack"
    /\ held' = [held EXCEPT ![w] = None]
    /\ stage' = [stage EXCEPT ![w] = "received"]
    /\ UNCHANGED <<outboxVars, dispatchVars, bound, brokerVars, storeVars, faults>>

\* Mutant: deliveries are acknowledged when they are received (autoAck).
CrashAutoAck(r) ==
    /\ Fault
    /\ batch' = [batch EXCEPT ![r] = {}]
    /\ phase' = [phase EXCEPT ![r] = "publish"]
    /\ row' = [row EXCEPT ![r] = None]
    /\ held' = [w \in Workers |-> IF w[1] = r THEN None ELSE held[w]]
    /\ stage' = [w \in Workers |-> IF w[1] = r THEN "received" ELSE stage[w]]
    /\ UNCHANGED <<outboxVars, bound, ready, parked, dead, dropped, storeVars>>

\* The process ends: an error of Dispatch or of an Ack ends every loop of it,
\* and so does a kill.  Open transactions roll back, the broker redelivers what
\* was not acknowledged, and the rows of the batch stay CLAIMED.
Crash(r) ==
    /\ Fault
    /\ batch' = [batch EXCEPT ![r] = {}]
    /\ phase' = [phase EXCEPT ![r] = "publish"]
    /\ row' = [row EXCEPT ![r] = None]
    /\ ready' = [m \in Messages |->
                   IF held[<<r, m.queue>>] = m THEN ready[m] + 1 ELSE ready[m]]
    /\ held' = [w \in Workers |-> IF w[1] = r THEN None ELSE held[w]]
    /\ stage' = [w \in Workers |-> IF w[1] = r THEN "received" ELSE stage[w]]
    /\ UNCHANGED <<outboxVars, bound, parked, dead, dropped, storeVars>>

-----------------------------------------------------------------------------

Dispatch(r) ==
    \/ Claim(r)
    \/ \E e \in Events : \/ PublishConfirmed(r, e) \/ PublishReturned(r, e)
                         \/ MarkPublished(r, e) \/ MarkPending(r, e)

\* A consumer's step when nothing fails.
Consume(w) ==
    \/ \E m \in Messages : Receive(w, m)
    \/ InsertReceipt(w) \/ Duplicate(w) \/ Commit(w)
    \/ DeadLetter(w) \/ Retry(w) \/ Ack(w)

Faulty ==
    \/ \E r \in Replicas : Crash(r)
    \/ \E r \in Replicas, e \in Events : PublishFails(r, e) \/ MarkPendingFails(r, e)
    \/ \E w \in Workers : CommitUncertain(w) \/ Fail(w) \/ Requeue(w)

Next ==
    \/ \E e \in Events : Emit(e) \/ ClaimAges(e)
    \/ \E r \in Replicas : Dispatch(r)
    \/ \E m \in Messages : RetryExpires(m)
    \/ \E w \in Workers : Consume(w)
    \/ DeclareLegacy \/ UnbindLegacy
    \/ Faulty

Spec == Init /\ [][Next]_vars

\* Each loop of a running process keeps going (the dispatch ticker, the range
\* over deliveries), a supervisor restarts a process, and time passes.
Fairness ==
    /\ \A r \in Replicas : WF_vars(Dispatch(r))
    /\ \A w \in Workers : WF_vars(Consume(w))
    /\ \A m \in Messages : WF_vars(RetryExpires(m))
    /\ \A e \in Events : WF_vars(ClaimAges(e))

FairSpec == Spec /\ Fairness

-----------------------------------------------------------------------------
(* Properties *)

\* A copy of e is still on its way to consumer c.
Travelling(c, e) ==
    \E m \in Messages :
        /\ m.event = e /\ ConsumerOf[m.queue] = c
        /\ \/ ready[m] > 0 \/ parked[m] > 0
           \/ \E w \in Workers : held[w] = m /\ stage[w] # "ack"

Settled(c, e) ==
    \/ effects[<<c, e>>] > 0
    \/ \E q \in Queues : ConsumerOf[q] = c /\ <<q, e>> \in dead

\* The broker dropped a retry or a dead letter of e that consumer c published.
Dropped(c, e) == \E q \in Queues : ConsumerOf[q] = c /\ <<q, e>> \in dropped

\* Once the outbox row of an event is PUBLISHED nothing will send it again, so
\* for every subscriber the effect is committed, a dead letter is kept, or a
\* copy is under way, unless the broker dropped a retry or a dead letter: that
\* publication, which the consumer acknowledges unconfirmed, is the one place
\* where the layer loses an event.  No acknowledgement runs ahead of a commit,
\* and no row is closed before the broker routed it.
NoEventLost ==
    \A p \in Subscribed :
        intent[p[2]] = "PUBLISHED" =>
            Settled(p[1], p[2]) \/ Travelling(p[1], p[2]) \/ Dropped(p[1], p[2])

\* Duplicate publications, redeliveries, fan-out of retries and uncertain
\* commits notwithstanding, the handler of a consumer takes effect at most once
\* per event, and has taken effect exactly when its receipt is committed.
EffectOnce ==
    \A p \in Consumers \X Events : effects[p] = IF p \in inbox THEN 1 ELSE 0

\* No dispatcher, however late it returns from a publication whose claim another
\* one has taken over, reopens a row that is PUBLISHED.
PublishedStaysPublished ==
    [][\A e \in Events : intent[e] = "PUBLISHED" => intent'[e] = "PUBLISHED"]_vars

\* Every emitted event is, for every subscriber, applied or dead-lettered in the
\* end, or a retry or dead letter of it was dropped: abandoned claims are taken
\* over, retries come back, retries run out.
EventuallySettled ==
    \A p \in Consumers \X Events :
        (p \in Subscribed /\ intent[p[2]] # "ABSENT") ~>
            (Settled(p[1], p[2]) \/ Dropped(p[1], p[2]))

-----------------------------------------------------------------------------
(* What the properties rest on: each is an invariant, and together with      *)
(* TypeOK they are inductive (OutboxDeliveryProofs).                          *)

\* A uniqueness wait lets one transaction at a time handle an event for a
\* consumer, and none after its receipt is committed.
OneHandler ==
    /\ \A w \in Workers : Handling(w) => Receipt(held[w]) \notin inbox
    /\ \A v, w \in Workers :
          Handling(v) /\ Handling(w) /\ Receipt(held[v]) = Receipt(held[w]) => v = w

\* A consumer holds messages of its own queue.
HeldFromQueue ==
    \A w \in Workers : held[w] # None => held[w] \in Messages /\ held[w].queue = w[2]

\* Bindings are never missing and never invented, but for the legacy queues.
BindingsKept ==
    /\ \A q \in Queues \ Legacy : bound[q] = Binding[q]
    /\ \A q \in Queues : bound[q] \subseteq Binding[q]

Covered(p) ==
    Settled(p[1], p[2]) \/ Travelling(p[1], p[2]) \/ Dropped(p[1], p[2])

\* A dispatcher that is about to close a row has seen it routed.
ConfirmedIsRouted ==
    \A r \in Replicas : phase[r] = "confirmed" =>
        \A p \in Subscribed : p[2] = row[r] => Covered(p)

\* Dispatchers and queues carry emitted events only, and queues only to
\* consumers that subscribe to them.
OnlySubscribed ==
    /\ \A r \in Replicas : \A e \in batch[r] : intent[e] # "ABSENT"
    /\ \A m \in Messages :
          (ready[m] > 0 \/ parked[m] > 0 \/ \E w \in Workers : held[w] = m) =>
              intent[m.event] # "ABSENT" /\ Receipt(m) \in Subscribed

IInv == /\ TypeOK /\ EffectOnce /\ OneHandler /\ HeldFromQueue /\ BindingsKept
        /\ NoEventLost /\ ConfirmedIsRouted /\ OnlySubscribed

\* The features see emitted events applied once by their subscribers only.
Delivery == INSTANCE EventDelivery WITH
    emitted <- {e \in Events : intent[e] # "ABSENT"},
    applied <- effects,
    dead <- {p \in Consumers \X Events :
               \E q \in Queues : ConsumerOf[q] = p[1] /\ <<q, p[2]>> \in dead}

ImplementsDelivery == Delivery!ASpec
====

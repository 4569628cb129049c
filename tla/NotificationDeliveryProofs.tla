---- MODULE NotificationDeliveryProofs ----
(***************************************************************************)
(* Theorems about NotificationDelivery, for every set of deliveries,        *)
(* replicas and webhook handlers and every limit of attempts.               *)
(***************************************************************************)
EXTENDS NotificationDelivery, TLAPS, WellFoundedInduction

LEMMA AggregateTyped ==
    ASSUME NEW s \in States \union {"ABSENT"}
    PROVE  Aggregate(s) \in States \union {"ABSENT"}
BY DEF Aggregate, States, Final

\* UpdateDelivery keeps the aggregate and the announcements in their types.
LEMMA UpdateTyped ==
    ASSUME TypeOK, NEW d \in Deliveries, NEW s \in States \union {"ABSENT"},
           UpdateDelivery(d, s)
    PROVE  /\ delivery' \in [Deliveries -> States \union {"ABSENT"}]
           /\ announced' \subseteq Deliveries \X {"FAILED", "UNKNOWN"}
BY AggregateTyped DEF TypeOK, UpdateDelivery, Announces, Announcement

LEMMA ReconcileTyped ==
    ASSUME TypeOK, NEW chosen \in SUBSET Deliveries, Reconcile(chosen)
    PROVE  /\ attempt' \in [Deliveries -> States \union {"ABSENT"}]
           /\ lease' \in [Deliveries -> {"none", "held", "expired"}]
           /\ delivery' \in [Deliveries -> States \union {"ABSENT"}]
           /\ announced' \subseteq Deliveries \X {"FAILED", "UNKNOWN"}
BY DEF TypeOK, Reconcile, Expired, States, Final

LEMMA OutcomeTyped ==
    ASSUME NEW d \in Deliveries, NEW a \in Answers
    PROVE  Outcome(d, a) \in {"ACCEPTED", "FAILED", "UNKNOWN", "QUEUED"}
BY DEF Outcome, Answers

\* One step keeps the variables in their types.
LEMMA NTypeStep ==
    ASSUME TypeOK, ReceiptIsFinal, [Next]_vars
    PROVE  TypeOK'
<1> USE NotificationTyped DEF TypeOK, rowVars, deliveryVars, linkVars, workerVars, callbackVars
<1>1. ASSUME NEW d \in Deliveries, Request(d) PROVE TypeOK'
  BY <1>1 DEF Request, Queue, States
<1>2. ASSUME NEW d \in Deliveries, LinkEnds(d) \/ BackoffEnds(d) \/ LeaseExpires(d)
      PROVE  TypeOK'
  <2>1. CASE LinkEnds(d)
    BY <2>1 DEF LinkEnds
  <2>2. CASE BackoffEnds(d)
    BY <2>2 DEF BackoffEnds
  <2>3. CASE LeaseExpires(d)
    BY <2>3 DEF LeaseExpires
  <2> QED BY <1>2, <2>1, <2>2, <2>3
<1>3. ASSUME NEW d \in Deliveries, NEW e \in Deliveries, Resend(d, e) PROVE TypeOK'
  BY <1>3 DEF Resend, Queue, States, Final
<1>4. ASSUME NEW r \in Replicas, ReconcileOnly(r) PROVE TypeOK'
  BY <1>4, ReconcileTyped DEF ReconcileOnly
<1>5. ASSUME NEW r \in Replicas, NEW d \in Deliveries, Reserve(r, d) PROVE TypeOK'
  <2>1. attempts[d] + 1 \in 1..MaxAttempts
    BY <1>5 DEF Reserve
  <2>2. /\ attempts' \in [Deliveries -> 0..MaxAttempts]
        /\ history' \in [Deliveries -> [1..MaxAttempts -> States \union {"ABSENT"}]]
        /\ job' \in [Replicas -> (Deliveries \X (1..MaxAttempts)) \union {None}]
        /\ step' \in [Replicas -> {"idle", "reserved", "ready", "answered"}]
    BY <1>5, <2>1 DEF Reserve, States
  <2>3. /\ attempt' \in [Deliveries -> States \union {"ABSENT"}]
        /\ lease' \in [Deliveries -> {"none", "held", "expired"}]
        /\ delivery' \in [Deliveries -> States \union {"ABSENT"}]
        /\ announced' \subseteq Deliveries \X {"FAILED", "UNKNOWN"}
    BY <1>5, ReconcileTyped DEF Reserve
  <2> QED BY <1>5, <2>2, <2>3 DEF Reserve
<1>6. ASSUME NEW r \in Replicas, NEW d \in Deliveries, NEW n \in 1..MaxAttempts, Cancel(r, d, n)
      PROVE  TypeOK'
  <2>1. PICK s \in States \union {"ABSENT"} :
           /\ s = IF attempt[d] = "PROCESSING" THEN "CANCELED" ELSE attempt[d]
           /\ attempt' = [attempt EXCEPT ![d] = s]
           /\ UpdateDelivery(d, s)
    BY <1>6 DEF Cancel, States, Final
  <2>2. /\ delivery' \in [Deliveries -> States \union {"ABSENT"}]
        /\ announced' \subseteq Deliveries \X {"FAILED", "UNKNOWN"}
    BY <2>1, UpdateTyped
  <2>3. /\ lease' \in [Deliveries -> {"none", "held", "expired"}]
        /\ history' \in [Deliveries -> [1..MaxAttempts -> States \union {"ABSENT"}]]
        /\ secret' \in [Deliveries -> BOOLEAN]
    BY <1>6 DEF Cancel, States, Final
  <2> QED BY <1>6, <2>1, <2>2, <2>3 DEF Cancel, Quit
<1>7. ASSUME NEW r \in Replicas, NEW d \in Deliveries, NEW n \in 1..MaxAttempts,
             Render(r, d, n) \/ RenderFails(r, d, n) \/ CallProvider(r, d, n)
      PROVE  TypeOK'
  <2>1. CASE Render(r, d, n)
    BY <2>1 DEF Render
  <2>2. CASE RenderFails(r, d, n)
    BY <2>2 DEF RenderFails, Answers
  <2>3. CASE CallProvider(r, d, n)
    <3>1. PICK a \in Answers, took \in {{}, {n}} :
             /\ answer' = [answer EXCEPT ![r] = a]
             /\ accepted' = [accepted EXCEPT ![d] = @ \union took]
      BY <2>3 DEF CallProvider
    <3>2. accepted[d] \union took \in SUBSET (1..MaxAttempts)
      BY <3>1
    <3>3. /\ step' = [step EXCEPT ![r] = "answered"]
          /\ UNCHANGED <<rowVars, deliveryVars, linkVars, job, callbackVars, request>>
      BY <2>3 DEF CallProvider
    <3> QED BY <3>1, <3>2, <3>3
  <2> QED BY <1>7, <2>1, <2>2, <2>3
<1>8. ASSUME NEW r \in Replicas, NEW d \in Deliveries, NEW n \in 1..MaxAttempts, Persist(r, d, n)
      PROVE  TypeOK'
  <2>1. PICK state \in {"ACCEPTED", "FAILED", "UNKNOWN", "QUEUED"}, status \in States :
           /\ attempt' = [attempt EXCEPT ![d] = status]
           /\ UpdateDelivery(d, status)
           /\ history' = [history EXCEPT ![d][n] = state]
           /\ due' = [due EXCEPT ![d] = @ /\ state # "QUEUED"]
           /\ EraseLink(d, state)
    <3>1. Outcome(d, answer[r]) \in {"ACCEPTED", "FAILED", "UNKNOWN", "QUEUED"}
      BY OutcomeTyped
    <3> QED BY <1>8, <3>1 DEF Persist
  <2>2. /\ delivery' \in [Deliveries -> States \union {"ABSENT"}]
        /\ announced' \subseteq Deliveries \X {"FAILED", "UNKNOWN"}
    BY <2>1, UpdateTyped
  <2>3. history' \in [Deliveries -> [1..MaxAttempts -> States \union {"ABSENT"}]]
    BY <2>1 DEF States, Final
  <2>4. correlated' \subseteq Callbacks
    <3>1. Visible(d, n) \subseteq Callbacks
      BY DEF Visible
    <3> QED BY <1>8, <3>1 DEF Persist
  <2>5. due' \in [Deliveries -> BOOLEAN] /\ secret' \in [Deliveries -> BOOLEAN]
    BY <2>1 DEF EraseLink
  <2>6. /\ lease' \in [Deliveries -> {"none", "held", "expired"}]
        /\ receipt' \in [Deliveries -> 0..MaxAttempts]
        /\ job' \in [Replicas -> (Deliveries \X (1..MaxAttempts)) \union {None}]
        /\ step' \in [Replicas -> {"idle", "reserved", "ready", "answered"}]
        /\ UNCHANGED <<attempts, link, accepted, arrived, recorded, request, answer>>
    BY <1>8 DEF Persist, Quit
  <2> QED BY <2>1, <2>2, <2>3, <2>4, <2>5, <2>6
<1>9. ASSUME NEW r \in Replicas,
             Crash(r) \/ \E d \in Deliveries, n \in 1..MaxAttempts : PersistLate(r, d, n)
      PROVE  TypeOK'
  <2>1. /\ Quit(r)
        /\ UNCHANGED <<rowVars, deliveryVars, linkVars, accepted, callbackVars, request>>
    BY <1>9 DEF PersistLate, Crash
  <2> QED BY <2>1 DEF Quit
<1>10. ASSUME NEW h \in Handlers, NEW c \in Callbacks, Receive(h, c) PROVE TypeOK'
  <2>1. c.delivery \in Deliveries /\ c.receipt \in 1..MaxAttempts
    BY DEF Callbacks
  <2>2. Matches(c) => attempt[c.delivery] \in States
    BY <2>1 DEF Matches, ReceiptIsFinal
  <2>3. request' \in [Handlers -> Requests \union {None}]
    BY <1>10, <2>2 DEF Receive, Requests, States, Final
  <2> QED BY <1>10, <2>3 DEF Receive
<1>11. ASSUME NEW h \in Handlers, Correlate(h) \/ ReadAttempt(h) PROVE TypeOK'
  <2>1. request[h] \in Requests
    BY <1>11 DEF Correlate, ReadAttempt, At
  <2>2. CASE Correlate(h)
    <3>1. Visible(request[h].callback.delivery, request[h].callback.receipt)
             \union {request[h].callback} \subseteq Callbacks
      BY <2>1 DEF Visible, Requests
    <3>2. Reported \union {request[h].status} \subseteq States
      BY <2>1 DEF Requests, Reported, States, Final
    <3>3. request' \in [Handlers -> Requests \union {None}]
      BY <2>1, <2>2, <3>1, <3>2 DEF Correlate, Requests, Said
    <3> QED BY <2>2, <3>3 DEF Correlate
  <2>3. CASE ReadAttempt(h)
    <3>1. PICK status \in States :
             request' = [request EXCEPT ![h] = [@ EXCEPT !.step = "rewrite", !.status = status]]
      BY <2>3 DEF ReadAttempt
    <3>2. [request[h] EXCEPT !.step = "rewrite", !.status = status] \in Requests
      BY <2>1 DEF Requests
    <3>3. request' \in [Handlers -> Requests \union {None}]
      BY <3>1, <3>2
    <3> QED BY <2>3, <3>3 DEF ReadAttempt
  <2> QED BY <1>11, <2>2, <2>3
<1>12. ASSUME NEW h \in Handlers, WriteStatus(h) \/ WriteDelivery(h) \/ KeepCallback(h)
       PROVE  TypeOK'
  <2>1. /\ request[h] \in Requests
        /\ request[h].callback \in Callbacks /\ request[h].callback.delivery \in Deliveries
        /\ request[h].status \in States /\ request[h].view \subseteq Callbacks
    BY <1>12 DEF WriteStatus, WriteDelivery, KeepCallback, At, Requests, Callbacks
  <2>2. recorded' \subseteq Callbacks /\ request' \in [Handlers -> Requests \union {None}]
    BY <1>12, <2>1 DEF WriteStatus, WriteDelivery, KeepCallback, Close
  <2>3. CASE WriteStatus(h)
    BY <2>1, <2>2, <2>3, UpdateTyped DEF WriteStatus
  <2>4. CASE WriteDelivery(h)
    BY <2>1, <2>2, <2>4, UpdateTyped DEF WriteDelivery
  <2>5. CASE KeepCallback(h)
    BY <2>2, <2>5 DEF KeepCallback
  <2> QED BY <1>12, <2>3, <2>4, <2>5
<1>13. ASSUME NEW h \in Handlers, Abort(h) PROVE TypeOK'
  <2>1. PICK i \in DOMAIN arrived : arrived' = RemoveAt(arrived, i)
    BY <1>13 DEF Abort
  <2>2. arrived' \in Seq(Callbacks)
    BY <2>1 DEF RemoveAt
  <2> QED BY <1>13, <2>2 DEF Abort
<1>14. CASE UNCHANGED vars
  BY <1>14 DEF vars
<1> QED
  BY <1>1, <1>2, <1>3, <1>4, <1>5, <1>6, <1>7, <1>8, <1>9, <1>10, <1>11, <1>12, <1>13, <1>14
     DEF Next, RunDue, Record

-----------------------------------------------------------------------------
(* The conjuncts of the inductive invariant, one lemma each. *)

LEMMA UpdateAnnounces ==
    ASSUME TypeOK, AggregateAnnounced, NEW d \in Deliveries, NEW s \in States \union {"ABSENT"},
           UpdateDelivery(d, s)
    PROVE  /\ announced \subseteq announced'
           /\ d \in Tracked /\ s \in {"FAILED", "UNKNOWN"} => <<d, s>> \in announced'
           /\ AggregateAnnounced'
<1> USE NotificationTyped DEF TypeOK, AggregateAnnounced
<1>1. /\ delivery' = [delivery EXCEPT ![d] = Aggregate(s)]
      /\ announced' = IF Announces(d, s)
                        THEN announced \union {<<d, Aggregate(s)>>} ELSE announced
  BY DEF UpdateDelivery, Announcement
<1>2. d \in Tracked /\ Aggregate(s) \in {"FAILED", "UNKNOWN"} => <<d, Aggregate(s)>> \in announced'
  BY <1>1 DEF Announces
<1>3. s \in {"FAILED", "UNKNOWN"} => Aggregate(s) = s
  BY DEF Aggregate
<1> QED BY <1>1, <1>2, <1>3

LEMMA ReconcileAnnounces ==
    ASSUME TypeOK, AggregateAnnounced, TerminalAnnounced, NEW chosen \in SUBSET Due,
           Reconcile(chosen)
    PROVE  AggregateAnnounced' /\ TerminalAnnounced'
<1> USE NotificationTyped DEF TypeOK, AggregateAnnounced, TerminalAnnounced
<1>1. ASSUME NEW d \in Tracked, d \in Expired PROVE <<d, "UNKNOWN">> \in announced'
  <2>1. CASE delivery[d] = "UNKNOWN"
    BY <2>1, <1>1 DEF Reconcile
  <2>2. CASE delivery[d] # "UNKNOWN"
    <3>1. Announces(d, "UNKNOWN")
      BY <2>2, <1>1 DEF Announces, Aggregate
    <3> QED BY <3>1, <1>1 DEF Reconcile
  <2> QED BY <2>1, <2>2
<1>2. announced \subseteq announced'
  BY DEF Reconcile
<1> QED BY <1>1, <1>2 DEF Reconcile

\* Every write of a terminal status recomputes the aggregate in its transaction.
LEMMA AnnouncedStep ==
    ASSUME IInv, [Next]_vars
    PROVE  AggregateAnnounced' /\ TerminalAnnounced'
<1> USE NotificationTyped DEF IInv, rowVars, deliveryVars, linkVars, workerVars, callbackVars
<1>1. ASSUME NEW d \in Deliveries, NEW s \in States \union {"ABSENT"}, UpdateDelivery(d, s),
             attempt' = [attempt EXCEPT ![d] = s] \/ UNCHANGED attempt
      PROVE  AggregateAnnounced' /\ TerminalAnnounced'
  BY <1>1, UpdateAnnounces DEF TypeOK, TerminalAnnounced
<1>2. ASSUME NEW r \in Replicas, NEW chosen \in SUBSET Due, Reconcile(chosen)
      PROVE  AggregateAnnounced' /\ TerminalAnnounced'
  BY <1>2, ReconcileAnnounces
<1>3. ASSUME NEW d \in Deliveries, NEW e \in Deliveries, Request(d) \/ Resend(d, e)
      PROVE  AggregateAnnounced' /\ TerminalAnnounced'
  <2>1. PICK x \in Deliveries : /\ delivery' = [delivery EXCEPT ![x] = "QUEUED"]
                                /\ UNCHANGED announced
    BY <1>3 DEF Request, Resend, Queue
  <2>2. \A y \in Deliveries : attempt'[y] \in {attempt[y], "QUEUED", "CANCELED"}
    <3>1. CASE Request(d)
      BY <3>1 DEF Request, Queue, TypeOK
    <3>2. CASE Resend(d, e)
      BY <3>2 DEF Resend, Queue, TypeOK
    <3> QED BY <1>3, <3>1, <3>2
  <2>3. AggregateAnnounced'
    BY <2>1 DEF AggregateAnnounced, TypeOK
  <2>4. TerminalAnnounced'
    BY <2>1, <2>2 DEF TerminalAnnounced
  <2> QED BY <2>3, <2>4
<1>4. ASSUME NEW r \in Replicas, ReconcileOnly(r) \/ \E d \in Deliveries : Reserve(r, d)
      PROVE  AggregateAnnounced' /\ TerminalAnnounced'
  BY <1>4, <1>2 DEF ReconcileOnly, Reserve
<1>5. ASSUME NEW r \in Replicas, NEW d \in Deliveries, NEW n \in 1..MaxAttempts,
             Cancel(r, d, n) \/ Persist(r, d, n)
      PROVE  AggregateAnnounced' /\ TerminalAnnounced'
  <2>1. \E s \in States \union {"ABSENT"} :
           UpdateDelivery(d, s) /\ attempt' = [attempt EXCEPT ![d] = s]
    BY <1>5 DEF Cancel, Persist, TypeOK, States, Final
  <2> QED BY <2>1, <1>1
<1>6. ASSUME NEW h \in Handlers, WriteStatus(h) \/ WriteDelivery(h)
      PROVE  AggregateAnnounced' /\ TerminalAnnounced'
  <2>1. request[h].callback.delivery \in Deliveries /\ request[h].status \in States
    BY <1>6 DEF WriteStatus, WriteDelivery, At, TypeOK, Requests, Callbacks
  <2> QED BY <2>1, <1>6, <1>1 DEF WriteStatus, WriteDelivery
<1>7. ASSUME \/ \E d \in Deliveries : LinkEnds(d) \/ BackoffEnds(d) \/ LeaseExpires(d)
             \/ \E r \in Replicas, d \in Deliveries, n \in 1..MaxAttempts :
                   \/ Render(r, d, n) \/ RenderFails(r, d, n) \/ CallProvider(r, d, n)
                   \/ PersistLate(r, d, n)
             \/ \E r \in Replicas : Crash(r)
             \/ \E h \in Handlers, c \in Callbacks : Receive(h, c)
             \/ \E h \in Handlers : Correlate(h) \/ ReadAttempt(h) \/ KeepCallback(h) \/ Abort(h)
             \/ UNCHANGED vars
      PROVE  UNCHANGED <<attempt, delivery, announced>>
  <2>1. CASE \E d \in Deliveries : LinkEnds(d) \/ BackoffEnds(d) \/ LeaseExpires(d)
    BY <2>1 DEF LinkEnds, BackoffEnds, LeaseExpires
  <2>2. CASE \E r \in Replicas, d \in Deliveries, n \in 1..MaxAttempts :
                   \/ Render(r, d, n) \/ RenderFails(r, d, n) \/ CallProvider(r, d, n)
                   \/ PersistLate(r, d, n)
    BY <2>2 DEF Render, RenderFails, CallProvider, PersistLate
  <2>3. CASE \E r \in Replicas : Crash(r)
    BY <2>3 DEF Crash
  <2>4. CASE \E h \in Handlers, c \in Callbacks : Receive(h, c)
    BY <2>4 DEF Receive
  <2>5. CASE \E h \in Handlers : Correlate(h) \/ ReadAttempt(h) \/ KeepCallback(h) \/ Abort(h)
    BY <2>5 DEF Correlate, ReadAttempt, KeepCallback, Abort
  <2>6. CASE UNCHANGED vars
    BY <2>6 DEF vars
  <2> QED BY <1>7, <2>1, <2>2, <2>3, <2>4, <2>5, <2>6
<1>8. UNCHANGED <<attempt, delivery, announced>> => AggregateAnnounced' /\ TerminalAnnounced'
  BY DEF AggregateAnnounced, TerminalAnnounced
<1> QED BY <1>3, <1>4, <1>5, <1>6, <1>7, <1>8 DEF Next, RunDue, Record

\* An attempt is queued by a request, or again by the replica that executed it,
\* after a failure that came before the message.
LEMMA QueuedFrom ==
    ASSUME IInv, [Next]_vars, NEW d \in Deliveries, attempt'[d] \in {"ABSENT", "QUEUED"}
    PROVE  \/ attempt[d] = attempt'[d]
           \/ attempt[d] = "ABSENT" /\ secret'[d] = (d \in Sealed)
           \/ \E r \in Replicas, n \in 1..MaxAttempts :
                 Persist(r, d, n) /\ answer[r] = "transient" /\ UNCHANGED secret
<1> USE DEF IInv, TypeOK, rowVars, deliveryVars, linkVars, workerVars, callbackVars
<1>1. CASE \E e \in Deliveries : Request(e)
  BY <1>1 DEF Request, Queue
<1>2. CASE \E e, f \in Deliveries : Resend(e, f)
  BY <1>2 DEF Resend, Queue
<1>3. ASSUME NEW r \in Replicas, ReconcileOnly(r) \/ \E e \in Deliveries : Reserve(r, e)
      PROVE  attempt[d] = attempt'[d]
  BY <1>3 DEF ReconcileOnly, Reserve, Reconcile
<1>4. ASSUME NEW r \in Replicas, NEW e \in Deliveries, NEW n \in 1..MaxAttempts, Cancel(r, e, n)
      PROVE  attempt[d] = attempt'[d]
  BY <1>4 DEF Cancel
<1>5. ASSUME NEW r \in Replicas, NEW e \in Deliveries, NEW n \in 1..MaxAttempts, Persist(r, e, n)
      PROVE  \/ attempt[d] = attempt'[d]
             \/ Persist(r, d, n) /\ answer[r] = "transient" /\ UNCHANGED secret
  <2>1. CASE e # d
    BY <1>5, <2>1 DEF Persist
  <2>2. CASE e = d
    <3>1. PICK status \in States : /\ Replayed(status, Outcome(d, answer[r]),
                                        IF answer[r] = "ok" THEN Visible(d, n) ELSE {})
                                   /\ attempt' = [attempt EXCEPT ![d] = status]
      BY <1>5, <2>2 DEF Persist
    <3>2. status = "QUEUED"
      BY <3>1 DEF States, Final
    <3>3. Outcome(d, answer[r]) = "QUEUED"
      BY <3>1, <3>2 DEF Replayed, Reported, Said
    <3>4. answer[r] \in Answers
      OBVIOUS
    <3>5. answer[r] = "transient"
      BY <3>3, <3>4 DEF Outcome, Answers
    <3>6. UNCHANGED secret
      BY <1>5, <2>2, <3>3 DEF Persist, EraseLink
    <3> QED BY <1>5, <2>2, <3>5, <3>6
  <2> QED BY <2>1, <2>2
<1>6. ASSUME NEW h \in Handlers, WriteStatus(h)
      PROVE  attempt[d] = attempt'[d]
  <2>1. request[h].status \in States \ {"QUEUED"}
    BY <1>6 DEF WriteStatus, At, ReceiptIsFinal, Requests
  <2> QED BY <2>1, <1>6 DEF WriteStatus, States, Final
<1>7. ASSUME \/ \E e \in Deliveries : LinkEnds(e) \/ BackoffEnds(e) \/ LeaseExpires(e)
             \/ \E r \in Replicas, e \in Deliveries, n \in 1..MaxAttempts :
                   Render(r, e, n) \/ RenderFails(r, e, n) \/ PersistLate(r, e, n)
             \/ \E r \in Replicas : Crash(r)
             \/ UNCHANGED vars
      PROVE  UNCHANGED attempt
  BY <1>7 DEF LinkEnds, BackoffEnds, LeaseExpires, Render, RenderFails, PersistLate, Crash, vars
<1>9. ASSUME NEW r \in Replicas, NEW e \in Deliveries, NEW n \in 1..MaxAttempts,
             CallProvider(r, e, n)
      PROVE  UNCHANGED attempt
  BY <1>9 DEF CallProvider
<1>8. ASSUME NEW h \in Handlers,
             \/ \E c \in Callbacks : Receive(h, c)
             \/ Correlate(h) \/ ReadAttempt(h) \/ WriteDelivery(h) \/ KeepCallback(h) \/ Abort(h)
      PROVE  UNCHANGED attempt
  BY <1>8 DEF Receive, Correlate, ReadAttempt, WriteDelivery, KeepCallback, Abort
<1> QED BY <1>1, <1>2, <1>3, <1>4, <1>5, <1>6, <1>7, <1>8, <1>9 DEF Next, RunDue, Record

\* How the work of a replica begins and goes on.
LEMMA WorkStep ==
    ASSUME IInv, [Next]_vars, NEW r \in Replicas
    PROVE  /\ job'[r] = None <=> step'[r] = "idle"
           /\ \A d \in Deliveries : Holds(r, d)' => Holds(r, d) \/ Reserve(r, d)
           /\ \/ UNCHANGED <<job[r], step[r], answer[r]>>
              \/ step'[r] = "idle"
              \/ \E d \in Deliveries : Reserve(r, d) /\ step'[r] = "reserved"
              \/ \E d \in Deliveries, n \in 1..MaxAttempts :
                    Render(r, d, n) \/ RenderFails(r, d, n) \/ CallProvider(r, d, n)
<1> USE NotificationTyped DEF IInv, TypeOK, ReservedOnce, rowVars, deliveryVars, linkVars,
        workerVars, callbackVars, Holds
<1>1. ASSUME NEW s \in Replicas, NEW d \in Deliveries, Reserve(s, d)
      PROVE  /\ job' = [job EXCEPT ![s] = <<d, attempts[d] + 1>>] /\ job'[s] # None
             /\ step' = [step EXCEPT ![s] = "reserved"]
             /\ UNCHANGED answer
  <2>1. attempts[d] + 1 \in 1..MaxAttempts
    BY <1>1 DEF Reserve
  <2> QED BY <1>1, <2>1 DEF Reserve
<1>2. ASSUME NEW s \in Replicas, Quit(s)
      PROVE  /\ job' = [job EXCEPT ![s] = None] /\ step' = [step EXCEPT ![s] = "idle"]
             /\ UNCHANGED answer
  BY <1>2 DEF Quit
<1>3. ASSUME NEW s \in Replicas, NEW d \in Deliveries, NEW n \in 1..MaxAttempts,
             Render(s, d, n) \/ RenderFails(s, d, n) \/ CallProvider(s, d, n)
      PROVE  /\ job[s] # None /\ UNCHANGED job /\ step'[s] \in {"ready", "answered"}
             /\ \A t \in Replicas \ {s} : UNCHANGED <<step[t], answer[t]>>
  BY <1>3 DEF Render, RenderFails, CallProvider
<1>4. ASSUME \/ \E s \in Replicas : Crash(s)
             \/ \E s \in Replicas, d \in Deliveries, n \in 1..MaxAttempts :
                   Cancel(s, d, n) \/ Persist(s, d, n) \/ PersistLate(s, d, n)
      PROVE  \E s \in Replicas : Quit(s)
  BY <1>4 DEF Crash, Cancel, Persist, PersistLate
<1>5. ASSUME \/ \E d \in Deliveries : \/ Request(d) \/ LinkEnds(d)
                                      \/ BackoffEnds(d) \/ LeaseExpires(d)
             \/ \E d, e \in Deliveries : Resend(d, e)
             \/ \E s \in Replicas : ReconcileOnly(s)
             \/ UNCHANGED vars
      PROVE  UNCHANGED <<job, step, answer>>
  BY <1>5 DEF Request, LinkEnds, BackoffEnds, LeaseExpires, Resend, ReconcileOnly, vars
<1>6. ASSUME NEW h \in Handlers, Record(h) PROVE UNCHANGED <<job, step, answer>>
  BY <1>6 DEF Record, Receive, Correlate, WriteStatus, ReadAttempt, WriteDelivery,
              KeepCallback, Abort
<1>7. CASE \E s \in Replicas, d \in Deliveries : Reserve(s, d)
  <2>1. PICK s \in Replicas, d \in Deliveries : Reserve(s, d)
    BY <1>7
  <2>2. \A e \in Deliveries : Holds(r, e)' => Holds(r, e) \/ (r = s /\ e = d)
    BY <2>1, <1>1
  <2>3. r # s => UNCHANGED <<job[r], step[r], answer[r]>>
    BY <2>1, <1>1
  <2>4. r = s => step'[r] = "reserved" /\ job'[r] # None
    BY <2>1, <1>1
  <2> QED BY <2>1, <2>2, <2>3, <2>4
<1>8. CASE \E s \in Replicas : Quit(s)
  <2>1. PICK s \in Replicas : Quit(s)
    BY <1>8
  <2>2. \/ UNCHANGED <<job[r], step[r], answer[r]>>
        \/ job'[r] = None /\ step'[r] = "idle"
    BY <2>1, <1>2
  <2> QED BY <2>2
<1>9. CASE \E s \in Replicas, d \in Deliveries, n \in 1..MaxAttempts :
             Render(s, d, n) \/ RenderFails(s, d, n) \/ CallProvider(s, d, n)
  <2>1. PICK s \in Replicas, d \in Deliveries, n \in 1..MaxAttempts :
             Render(s, d, n) \/ RenderFails(s, d, n) \/ CallProvider(s, d, n)
    BY <1>9
  <2>2. \A e \in Deliveries : Holds(r, e)' => Holds(r, e)
    BY <2>1, <1>3
  <2>3. CASE r = s
    BY <2>1, <2>2, <2>3, <1>3
  <2>4. CASE r # s
    BY <2>1, <2>2, <2>4, <1>3
  <2> QED BY <2>3, <2>4
<1>10. UNCHANGED <<job, step, answer>> =>
         /\ UNCHANGED <<job[r], step[r], answer[r]>>
         /\ \A d \in Deliveries : Holds(r, d)' = Holds(r, d)
  OBVIOUS
<1> QED BY <1>4, <1>5, <1>6, <1>7, <1>8, <1>9, <1>10 DEF Next, RunDue

LEMMA ProcessingFrom ==
    ASSUME IInv, [Next]_vars, NEW d \in Deliveries, attempt'[d] = "PROCESSING"
    PROVE  \/ attempt[d] = "PROCESSING"
           \/ \E r \in Replicas : Reserve(r, d)
<1> USE DEF IInv, TypeOK, rowVars, deliveryVars, linkVars, workerVars, callbackVars
<1>1. ASSUME NEW e \in Deliveries, NEW f \in Deliveries, Request(e) \/ Resend(e, f)
      PROVE  attempt[d] = "PROCESSING"
  BY <1>1 DEF Request, Resend, Queue
<1>2. ASSUME NEW r \in Replicas, NEW e \in Deliveries, Reserve(r, e)
      PROVE  attempt[d] = "PROCESSING" \/ Reserve(r, d)
  BY <1>2 DEF Reserve, Reconcile
<1>3. ASSUME NEW r \in Replicas, ReconcileOnly(r)
      PROVE  attempt[d] = "PROCESSING"
  BY <1>3 DEF ReconcileOnly, Reconcile
<1>4. ASSUME NEW r \in Replicas, NEW e \in Deliveries, NEW n \in 1..MaxAttempts, Cancel(r, e, n)
      PROVE  attempt[d] = "PROCESSING"
  BY <1>4 DEF Cancel
<1>5. ASSUME NEW r \in Replicas, NEW e \in Deliveries, NEW n \in 1..MaxAttempts, Persist(r, e, n)
      PROVE  attempt[d] = "PROCESSING"
  BY <1>5 DEF Persist
<1>6. ASSUME NEW h \in Handlers, WriteStatus(h)
      PROVE  attempt[d] = "PROCESSING"
  <2>1. request[h].status \in States \ {"PROCESSING"}
    BY <1>6 DEF WriteStatus, At, ReceiptIsFinal, Requests
  <2> QED BY <2>1, <1>6 DEF WriteStatus
<1>7. ASSUME \/ \E e \in Deliveries : LinkEnds(e) \/ BackoffEnds(e) \/ LeaseExpires(e)
             \/ \E r \in Replicas, e \in Deliveries, n \in 1..MaxAttempts :
                   Render(r, e, n) \/ RenderFails(r, e, n) \/ PersistLate(r, e, n)
             \/ \E r \in Replicas : Crash(r)
             \/ UNCHANGED vars
      PROVE  UNCHANGED attempt
  BY <1>7 DEF LinkEnds, BackoffEnds, LeaseExpires, Render, RenderFails, PersistLate, Crash, vars
<1>9. ASSUME NEW r \in Replicas, NEW e \in Deliveries, NEW n \in 1..MaxAttempts,
             CallProvider(r, e, n)
      PROVE  UNCHANGED attempt
  BY <1>9 DEF CallProvider
<1>8. ASSUME NEW h \in Handlers,
             \/ \E c \in Callbacks : Receive(h, c)
             \/ Correlate(h) \/ ReadAttempt(h) \/ WriteDelivery(h) \/ KeepCallback(h) \/ Abort(h)
      PROVE  UNCHANGED attempt
  BY <1>8 DEF Receive, Correlate, ReadAttempt, WriteDelivery, KeepCallback, Abort
<1> QED BY <1>1, <1>2, <1>3, <1>4, <1>5, <1>6, <1>7, <1>8, <1>9 DEF Next, RunDue, Record

\* A replica that leaves an attempt leaves it for good: whoever holds it next
\* reserved it, and only what is queued and held by nobody is reserved.
LEMMA ReservedStep ==
    ASSUME IInv, [Next]_vars
    PROVE  ReservedOnce'
<1> USE DEF IInv
<1>1. ASSUME NEW r \in Replicas, NEW d \in Deliveries, Reserve(r, d)
      PROVE  /\ attempt[d] = "QUEUED" /\ attempt'[d] = "PROCESSING"
             /\ \A s \in Replicas : ~Holds(s, d)
             /\ \A s \in Replicas \ {r} : ~Holds(s, d)'
  BY <1>1 DEF Reserve, Reconcile, Due, ReservedOnce, Holds, TypeOK
<1>2. ASSUME NEW r \in Replicas, NEW s \in Replicas, NEW d \in Deliveries,
             Holds(r, d)', Holds(s, d)'
      PROVE  r = s
  <2>1. (Holds(r, d) \/ Reserve(r, d)) /\ (Holds(s, d) \/ Reserve(s, d))
    BY <1>2, WorkStep
  <2> QED BY <2>1, <1>1, <1>2 DEF ReservedOnce
<1>3. ASSUME NEW r \in Replicas, NEW d \in Deliveries, Holds(r, d)'
      PROVE  attempt'[d] \notin {"ABSENT", "QUEUED"}
  <2>1. Holds(r, d) \/ Reserve(r, d)
    BY <1>3, WorkStep
  <2>2. attempt[d] \notin {"ABSENT", "QUEUED"} \/ attempt'[d] = "PROCESSING"
    BY <2>1, <1>1 DEF ReservedOnce
  <2>3. ASSUME NEW q \in Replicas, NEW n \in 1..MaxAttempts, Persist(q, d, n)
        PROVE  FALSE
    <3>1. Holds(q, d)
      BY <2>3, NotificationTyped DEF Persist, Holds
    <3>2. job'[q] = None
      BY <2>3 DEF Persist, Quit, TypeOK
    <3>3. Holds(r, d)
      BY <2>1, <3>1, <1>1
    <3> QED BY <3>1, <3>2, <3>3, <1>3 DEF ReservedOnce, Holds
  <2> QED BY <2>2, <2>3, QueuedFrom
<1>4. \A r \in Replicas : job'[r] = None <=> step'[r] = "idle"
  BY WorkStep
<1> QED BY <1>2, <1>3, <1>4 DEF ReservedOnce

\* What one call to a provider does.
LEMMA CallEffect ==
    ASSUME TypeOK, NEW r \in Replicas, NEW d \in Deliveries, NEW n \in 1..MaxAttempts,
           CallProvider(r, d, n)
    PROVE  /\ Holds(r, d)
           /\ \A e \in Deliveries : accepted'[e] = accepted[e] \/ e = d
           /\ accepted'[d] = accepted[d] \/ accepted'[d] = accepted[d] \union {n}
           /\ d \in Email /\ answer'[r] = "transient" => accepted'[d] = accepted[d]
<1>1. PICK a \in Answers, took \in {{}, {n}} :
         /\ job[r] = <<d, n>> /\ MayReturn(d, a, took)
         /\ answer' = [answer EXCEPT ![r] = a]
         /\ accepted' = [accepted EXCEPT ![d] = @ \union took]
  BY DEF CallProvider
<1>2. took = {} \/ took = {n}
  BY <1>1, Zenon
<1>3. Holds(r, d)
  BY <1>1, NotificationTyped DEF Holds
<1>4. answer'[r] = a /\ accepted'[d] = accepted[d] \union took
  BY <1>1 DEF TypeOK
<1>5. d \in Email /\ a = "transient" => took = {}
  BY <1>1 DEF MayReturn
<1>6. \A e \in Deliveries : accepted'[e] = accepted[e] \/ e = d
  BY <1>1 DEF TypeOK
<1> QED BY <1>2, <1>3, <1>4, <1>5, <1>6

LEMMA AcceptedFrom ==
    ASSUME IInv, [Next]_vars, NEW d \in Deliveries
    PROVE  \/ accepted'[d] = accepted[d]
           \/ \E r \in Replicas, n \in 1..MaxAttempts :
                 /\ CallProvider(r, d, n) /\ Holds(r, d)
                 /\ accepted'[d] = accepted[d] \union {n}
                 /\ d \in Email => answer'[r] # "transient"
<1> USE DEF IInv, rowVars, deliveryVars, linkVars, workerVars, callbackVars
<1>1. ASSUME NEW r \in Replicas, NEW e \in Deliveries, NEW n \in 1..MaxAttempts,
             CallProvider(r, e, n)
      PROVE  \/ accepted'[d] = accepted[d]
             \/ /\ CallProvider(r, d, n) /\ Holds(r, d)
                /\ accepted'[d] = accepted[d] \union {n}
                /\ d \in Email => answer'[r] # "transient"
  <2>1. /\ Holds(r, e)
        /\ accepted'[d] = accepted[d] \/ d = e
        /\ accepted'[e] = accepted[e] \/ accepted'[e] = accepted[e] \union {n}
        /\ e \in Email /\ answer'[r] = "transient" => accepted'[e] = accepted[e]
    BY <1>1, CallEffect
  <2>2. CASE accepted'[d] = accepted[d]
    BY <2>2
  <2>3. CASE accepted'[d] # accepted[d]
    <3>1. d = e
      BY <2>1, <2>3
    <3> QED BY <1>1, <2>1, <2>3, <3>1
  <2> QED BY <2>2, <2>3
<1>2. ASSUME NEW e \in Deliveries,
             \/ Request(e) \/ LinkEnds(e) \/ BackoffEnds(e) \/ LeaseExpires(e)
             \/ \E f \in Deliveries : Resend(e, f)
      PROVE  UNCHANGED accepted
  BY <1>2 DEF Request, LinkEnds, BackoffEnds, LeaseExpires, Resend
<1>4. ASSUME NEW r \in Replicas, NEW e \in Deliveries, NEW n \in 1..MaxAttempts,
             \/ Reserve(r, e) \/ Cancel(r, e, n) \/ Render(r, e, n)
             \/ RenderFails(r, e, n) \/ Persist(r, e, n) \/ PersistLate(r, e, n)
      PROVE  UNCHANGED accepted
  BY <1>4 DEF Reserve, Cancel, Render, RenderFails, Persist, PersistLate
<1>5. ASSUME NEW r \in Replicas, NEW e \in Deliveries, Reserve(r, e)
      PROVE  UNCHANGED accepted
  BY <1>5 DEF Reserve
<1>6. ASSUME (\E r \in Replicas : ReconcileOnly(r) \/ Crash(r)) \/ UNCHANGED vars
      PROVE  UNCHANGED accepted
  BY <1>6 DEF ReconcileOnly, Crash, vars
<1>3. ASSUME NEW h \in Handlers, Record(h) PROVE UNCHANGED accepted
  BY <1>3 DEF Record, Receive, Correlate, WriteStatus, ReadAttempt, WriteDelivery,
              KeepCallback, Abort
<1> QED BY <1>1, <1>2, <1>3, <1>4, <1>5, <1>6 DEF Next, RunDue

\* The provider is called once for each reservation, and no attempt an SMTP server
\* may have accepted is reserved again.
LEMMA EmailStep ==
    ASSUME IInv, [Next]_vars
    PROVE  EmailAcceptedOnce' /\ NotYetAccepted'
<1> USE DEF IInv
<1>1. ASSUME NEW d \in Email PROVE AcceptedOnce(d)'
  <2> d \in Deliveries
    BY NotificationTyped
  <2>1. CASE accepted'[d] = accepted[d]
    BY <2>1 DEF EmailAcceptedOnce, AcceptedOnce
  <2>2. CASE \E r \in Replicas, n \in 1..MaxAttempts :
               /\ CallProvider(r, d, n) /\ Holds(r, d)
               /\ accepted'[d] = accepted[d] \union {n}
    <3>1. accepted[d] = {}
      BY <2>2 DEF NotYetAccepted, CallProvider
    <3> QED BY <2>2, <3>1 DEF AcceptedOnce
  <2> QED BY <2>1, <2>2, AcceptedFrom
<1>2. ASSUME NEW d \in Email, attempt'[d] \in {"ABSENT", "QUEUED"} PROVE accepted'[d] = {}
  <2> d \in Deliveries
    BY NotificationTyped
  <2>1. accepted[d] = {}
    <3>1. CASE \E r \in Replicas, n \in 1..MaxAttempts :
                 Persist(r, d, n) /\ answer[r] = "transient"
      <4>1. PICK r \in Replicas, n \in 1..MaxAttempts :
               step[r] = "answered" /\ job[r] = <<d, n>> /\ answer[r] = "transient"
        BY <3>1 DEF Persist
      <4>2. Holds(r, d)
        BY <4>1, NotificationTyped DEF Holds
      <4> QED BY <4>1, <4>2 DEF NotYetAccepted
    <3> QED BY <1>2, <3>1, QueuedFrom DEF NotYetAccepted
  <2>2. ASSUME NEW r \in Replicas, NEW n \in 1..MaxAttempts, CallProvider(r, d, n), Holds(r, d)
        PROVE  FALSE
    <3>1. UNCHANGED attempt
      BY <2>2 DEF CallProvider, rowVars
    <3> QED BY <3>1, <2>2, <1>2 DEF ReservedOnce
  <2> QED BY <2>1, <2>2, AcceptedFrom
<1>3. ASSUME NEW r \in Replicas, NEW d \in Email, Holds(r, d)',
             \/ step'[r] \in {"reserved", "ready"}
             \/ step'[r] = "answered" /\ answer'[r] = "transient"
      PROVE  accepted'[d] = {}
  <2> d \in Deliveries
    BY NotificationTyped
  <2>1. CASE Reserve(r, d)
    BY <2>1 DEF Reserve, Due, NotYetAccepted
  <2>2. CASE Holds(r, d) /\ UNCHANGED <<step[r], answer[r]>>
    <3>1. accepted[d] = {}
      BY <2>2, <1>3 DEF NotYetAccepted
    <3>2. ASSUME NEW s \in Replicas, NEW n \in 1..MaxAttempts, CallProvider(s, d, n), Holds(s, d)
          PROVE  FALSE
      <4>1. s = r
        BY <3>2, <2>2 DEF ReservedOnce
      <4>2. step[s] = "ready" /\ step'[s] = "answered"
        BY <3>2 DEF CallProvider, TypeOK
      <4> QED BY <4>1, <4>2, <2>2
    <3> QED BY <3>1, <3>2, AcceptedFrom
  <2>3. ASSUME NEW e \in Deliveries, NEW n \in 1..MaxAttempts, Holds(r, d),
               Render(r, e, n) \/ RenderFails(r, e, n)
        PROVE  accepted'[d] = {}
    BY <2>3 DEF Render, RenderFails, NotYetAccepted
  <2>4. ASSUME NEW e \in Deliveries, NEW n \in 1..MaxAttempts, Holds(r, d),
               CallProvider(r, e, n)
        PROVE  accepted'[d] = {}
    <3>1. accepted[d] = {}
      BY <2>4 DEF CallProvider, NotYetAccepted
    <3>2. step'[r] = "answered"
      BY <2>4 DEF CallProvider, TypeOK
    <3>3. ASSUME NEW s \in Replicas, NEW m \in 1..MaxAttempts, CallProvider(s, d, m),
                 Holds(s, d), answer'[s] # "transient"
          PROVE  FALSE
      <4>1. s = r
        BY <3>3, <2>4 DEF ReservedOnce
      <4> QED BY <4>1, <3>2, <3>3, <1>3
    <3> QED BY <3>1, <3>3, AcceptedFrom
  <2>5. step'[r] # "idle"
    BY <1>3
  <2>6. Holds(r, d) \/ Reserve(r, d)
    BY <1>3, WorkStep
  <2>7. ASSUME NEW e \in Deliveries, Reserve(r, e), Holds(r, d) PROVE FALSE
    BY <2>7 DEF Reserve, ReservedOnce, Holds
  <2> QED BY <2>1, <2>2, <2>3, <2>4, <2>5, <2>6, <2>7, WorkStep
<1> QED BY <1>1, <1>2, <1>3 DEF EmailAcceptedOnce, NotYetAccepted

\* The link of an attempt that is still open is not deleted.
LEMMA SecretKept ==
    ASSUME IInv, [Next]_vars, NEW d \in Sealed, secret[d],
           attempt'[d] \in {"QUEUED", "PROCESSING"}
    PROVE  secret'[d]
<1> USE DEF IInv, TypeOK, rowVars, deliveryVars, linkVars, workerVars, callbackVars
<1> d \in Deliveries
  BY NotificationTyped
<1>1. ASSUME NEW e \in Deliveries, Request(e) PROVE secret'[d]
  BY <1>1 DEF Request, Queue
<1>2. ASSUME NEW e \in Deliveries, NEW f \in Deliveries, Resend(e, f) PROVE secret'[d]
  BY <1>2 DEF Resend, Queue
<1>3. ASSUME NEW r \in Replicas, NEW e \in Deliveries, NEW n \in 1..MaxAttempts, Cancel(r, e, n)
      PROVE  secret'[d]
  <2>1. CASE e # d
    BY <1>3, <2>1 DEF Cancel
  <2>2. CASE e = d
    <3>1. Holds(r, d)
      BY <1>3, <2>2, NotificationTyped DEF Cancel, Holds
    <3>2. attempt[d] # "QUEUED"
      BY <3>1 DEF ReservedOnce
    <3>3. attempt'[d] \notin {"QUEUED", "PROCESSING"}
      BY <1>3, <2>2, <3>2 DEF Cancel
    <3> QED BY <3>3
  <2> QED BY <2>1, <2>2
<1>4. ASSUME NEW r \in Replicas, NEW e \in Deliveries, NEW n \in 1..MaxAttempts, Persist(r, e, n)
      PROVE  secret'[d]
  <2>1. PICK state \in {"ACCEPTED", "FAILED", "UNKNOWN", "QUEUED"}, status \in States :
           /\ state = "ACCEPTED" => status \in Reported
           /\ state # "ACCEPTED" => status = state
           /\ attempt' = [attempt EXCEPT ![e] = status]
           /\ secret' = IF state = "QUEUED" THEN secret ELSE [secret EXCEPT ![e] = FALSE]
    <3>1. Outcome(e, answer[r]) \in {"ACCEPTED", "FAILED", "UNKNOWN", "QUEUED"}
      BY OutcomeTyped
    <3> QED BY <1>4, <3>1 DEF Persist, Replayed, EraseLink, Said, Reported
  <2>2. CASE e # d
    BY <2>1, <2>2
  <2>3. CASE e = d
    BY <2>1, <2>3 DEF Reported
  <2> QED BY <2>2, <2>3
<1>5. ASSUME \/ \E e \in Deliveries : LinkEnds(e) \/ BackoffEnds(e) \/ LeaseExpires(e)
             \/ \E r \in Replicas : ReconcileOnly(r) \/ Crash(r)
             \/ UNCHANGED vars
      PROVE  UNCHANGED secret
  BY <1>5 DEF LinkEnds, BackoffEnds, LeaseExpires, ReconcileOnly, Crash, vars
<1>6. ASSUME NEW r \in Replicas, NEW e \in Deliveries, NEW n \in 1..MaxAttempts,
             Render(r, e, n) \/ RenderFails(r, e, n) \/ CallProvider(r, e, n)
                \/ PersistLate(r, e, n)
      PROVE  UNCHANGED secret
  BY <1>6 DEF Render, RenderFails, CallProvider, PersistLate
<1>7. ASSUME NEW r \in Replicas, NEW e \in Deliveries, Reserve(r, e) PROVE UNCHANGED secret
  BY <1>7 DEF Reserve
<1>8. ASSUME NEW h \in Handlers, Record(h) PROVE UNCHANGED secret
  BY <1>8 DEF Record, Receive, Correlate, WriteStatus, ReadAttempt, WriteDelivery,
              KeepCallback, Abort
<1> QED BY <1>1, <1>2, <1>3, <1>4, <1>5, <1>6, <1>7, <1>8 DEF Next, RunDue

\* An execution that may be tried again has found its link, and nothing has
\* deleted it since.
LEMMA LinkStep ==
    ASSUME IInv, [Next]_vars
    PROVE  RetryKeepsLink' /\ RenderedWithLink'
<1> USE DEF IInv
<1>1. ASSUME NEW d \in Sealed, attempt'[d] = "QUEUED" PROVE secret'[d]
  <2> d \in Deliveries
    BY NotificationTyped
  <2>1. CASE attempt[d] = "QUEUED"
    BY <1>1, <2>1, SecretKept DEF RetryKeepsLink
  <2>2. CASE \E r \in Replicas, n \in 1..MaxAttempts :
               Persist(r, d, n) /\ answer[r] = "transient" /\ UNCHANGED secret
    <3>1. PICK r \in Replicas, n \in 1..MaxAttempts :
             /\ step[r] = "answered" /\ job[r] = <<d, n>> /\ answer[r] = "transient"
             /\ attempt[d] = "PROCESSING"
             /\ UNCHANGED secret
      BY <2>2 DEF Persist
    <3>2. Holds(r, d)
      BY <3>1, NotificationTyped DEF Holds
    <3> QED BY <3>1, <3>2 DEF RenderedWithLink
  <2> QED BY <1>1, <2>1, <2>2, QueuedFrom
<1>2. ASSUME NEW r \in Replicas, NEW d \in Sealed, Holds(r, d)', attempt'[d] = "PROCESSING",
             \/ step'[r] = "ready"
             \/ step'[r] = "answered" /\ answer'[r] = "transient"
      PROVE  secret'[d]
  <2> d \in Deliveries
    BY NotificationTyped
  <2>1. ASSUME NEW e \in Deliveries, Reserve(r, e) PROVE FALSE
    BY <2>1, <1>2 DEF Reserve, TypeOK
  <2>2. Holds(r, d)
    BY <1>2, <2>1, WorkStep
  <2>3. attempt[d] = "PROCESSING"
    <3>1. ASSUME NEW s \in Replicas, Reserve(s, d) PROVE FALSE
      BY <3>1, <2>2 DEF Reserve, Due, ReservedOnce
    <3> QED BY <1>2, <3>1, ProcessingFrom
  <2>4. ASSUME secret[d] PROVE secret'[d]
    BY <1>2, <2>4, SecretKept
  <2>5. CASE UNCHANGED <<job[r], step[r], answer[r]>>
    BY <1>2, <2>2, <2>3, <2>4, <2>5 DEF RenderedWithLink
  <2>6. ASSUME NEW e \in Deliveries, NEW n \in 1..MaxAttempts, Render(r, e, n)
        PROVE  secret'[d]
    BY <2>2, <2>4, <2>6 DEF Render, Holds
  <2>7. ASSUME NEW e \in Deliveries, NEW n \in 1..MaxAttempts, RenderFails(r, e, n)
        PROVE  FALSE
    BY <1>2, <2>7 DEF RenderFails, TypeOK
  <2>8. ASSUME NEW e \in Deliveries, NEW n \in 1..MaxAttempts, CallProvider(r, e, n)
        PROVE  secret'[d]
    <3>1. step[r] = "ready"
      BY <2>8 DEF CallProvider
    <3> QED BY <2>2, <2>3, <2>4, <3>1 DEF RenderedWithLink
  <2>9. step'[r] # "idle"
    BY <1>2
  <2> QED BY <2>1, <2>5, <2>6, <2>7, <2>8, <2>9, WorkStep
<1> QED BY <1>1, <1>2 DEF RetryKeepsLink, RenderedWithLink

\* A receipt is stored with the outcome of the execution it is for.
LEMMA ReceiptChange ==
    ASSUME IInv, [Next]_vars, NEW d \in Deliveries
    PROVE  \/ receipt'[d] = receipt[d]
           \/ \E r \in Replicas, n \in 1..MaxAttempts :
                 Persist(r, d, n) /\ answer[r] = "ok" /\ receipt'[d] = n
<1> USE DEF IInv, TypeOK, rowVars, deliveryVars, linkVars, workerVars, callbackVars
<1>1. ASSUME NEW r \in Replicas, NEW e \in Deliveries, NEW n \in 1..MaxAttempts, Persist(r, e, n)
      PROVE  \/ receipt'[d] = receipt[d]
             \/ Persist(r, d, n) /\ answer[r] = "ok" /\ receipt'[d] = n
  <2>1. CASE answer[r] # "ok" \/ e # d
    BY <1>1, <2>1 DEF Persist
  <2>2. CASE answer[r] = "ok" /\ e = d
    BY <1>1, <2>2 DEF Persist
  <2> QED BY <2>1, <2>2
<1>2. ASSUME NEW e \in Deliveries,
             \/ Request(e) \/ LinkEnds(e) \/ BackoffEnds(e) \/ LeaseExpires(e)
             \/ \E f \in Deliveries : Resend(e, f)
             \/ \E r \in Replicas : Reserve(r, e)
      PROVE  UNCHANGED receipt
  BY <1>2 DEF Request, LinkEnds, BackoffEnds, LeaseExpires, Resend, Reserve
<1>3. ASSUME NEW r \in Replicas, NEW e \in Deliveries, NEW n \in 1..MaxAttempts,
             \/ Cancel(r, e, n) \/ Render(r, e, n) \/ RenderFails(r, e, n)
             \/ CallProvider(r, e, n) \/ PersistLate(r, e, n)
      PROVE  UNCHANGED receipt
  BY <1>3 DEF Cancel, Render, RenderFails, CallProvider, PersistLate
<1>4. ASSUME (\E r \in Replicas : ReconcileOnly(r) \/ Crash(r)) \/ UNCHANGED vars
      PROVE  UNCHANGED receipt
  BY <1>4 DEF ReconcileOnly, Crash, vars
<1>5. ASSUME NEW h \in Handlers, Record(h) PROVE UNCHANGED receipt
  BY <1>5 DEF Record, Receive, Correlate, WriteStatus, ReadAttempt, WriteDelivery,
              KeepCallback, Abort
<1> QED BY <1>1, <1>2, <1>3, <1>4, <1>5 DEF Next, RunDue

LEMMA ReceiptFrom ==
    ASSUME IInv, [Next]_vars, NEW d \in Deliveries
    PROVE  \/ receipt'[d] = receipt[d]
           \/ receipt'[d] # 0 /\ attempt'[d] \in Reported
<1>1. ASSUME NEW r \in Replicas, NEW n \in 1..MaxAttempts,
             Persist(r, d, n), answer[r] = "ok", receipt'[d] = n
      PROVE  receipt'[d] # 0 /\ attempt'[d] \in Reported
  <2>1. PICK status \in States : /\ Replayed(status, "ACCEPTED", Visible(d, n))
                                 /\ attempt' = [attempt EXCEPT ![d] = status]
    BY <1>1 DEF Persist, Outcome
  <2>2. status \in Reported
    BY <2>1 DEF Replayed, Said, Reported
  <2> QED BY <1>1, <2>1, <2>2 DEF IInv, TypeOK
<1> QED BY <1>1, ReceiptChange

\* How a webhook transaction begins and goes on.
LEMMA RequestFrom ==
    ASSUME IInv, [Next]_vars, NEW h \in Handlers, request'[h] # None
    PROVE  \/ request'[h] = request[h]
           \/ \E c \in Callbacks : Receive(h, c)
           \/ Correlate(h) \/ ReadAttempt(h)
<1> USE DEF IInv, TypeOK, rowVars, deliveryVars, linkVars, workerVars, callbackVars
<1>1. ASSUME NEW g \in Handlers,
             \/ \E c \in Callbacks : Receive(g, c)
             \/ Correlate(g) \/ ReadAttempt(g)
      PROVE  g = h \/ request'[h] = request[h]
  BY <1>1 DEF Receive, Correlate, ReadAttempt
<1>2. ASSUME NEW g \in Handlers,
             WriteStatus(g) \/ WriteDelivery(g) \/ KeepCallback(g) \/ Abort(g)
      PROVE  request'[h] = request[h]
  <2>1. request' = [request EXCEPT ![g] = None]
    BY <1>2 DEF WriteStatus, WriteDelivery, KeepCallback, Abort, Close
  <2> QED BY <2>1
<1>3. ASSUME NEW e \in Deliveries,
             \/ Request(e) \/ LinkEnds(e) \/ BackoffEnds(e) \/ LeaseExpires(e)
             \/ \E f \in Deliveries : Resend(e, f)
             \/ \E r \in Replicas : Reserve(r, e)
      PROVE  UNCHANGED request
  BY <1>3 DEF Request, LinkEnds, BackoffEnds, LeaseExpires, Resend, Reserve
<1>4. ASSUME NEW r \in Replicas, NEW e \in Deliveries, NEW n \in 1..MaxAttempts,
             \/ Cancel(r, e, n) \/ Render(r, e, n) \/ RenderFails(r, e, n)
             \/ CallProvider(r, e, n) \/ Persist(r, e, n) \/ PersistLate(r, e, n)
      PROVE  UNCHANGED request
  BY <1>4 DEF Cancel, Render, RenderFails, CallProvider, Persist, PersistLate
<1>5. ASSUME (\E r \in Replicas : ReconcileOnly(r) \/ Crash(r)) \/ UNCHANGED vars
      PROVE  UNCHANGED request
  BY <1>5 DEF ReconcileOnly, Crash, vars
<1> QED BY <1>1, <1>2, <1>3, <1>4, <1>5 DEF Next, RunDue, Record

LEMMA NoEmailCallbacksStep ==
    ASSUME IInv, [Next]_vars
    PROVE  NoEmailCallbacks'
<1> USE DEF IInv
<1> SUFFICES ASSUME NEW h \in Handlers, request'[h] # None
             PROVE  request'[h].callback.delivery \notin Email
  BY DEF NoEmailCallbacks
<1>1. CASE request'[h] = request[h]
  BY <1>1 DEF NoEmailCallbacks
<1>2. CASE \E c \in Callbacks : Receive(h, c)
  BY <1>2 DEF Receive, TypeOK
<1>3. CASE Correlate(h)
  BY <1>3 DEF Correlate, At, NoEmailCallbacks, TypeOK
<1>4. CASE ReadAttempt(h)
  <2>1. request[h] \in Requests
    BY <1>4 DEF ReadAttempt, At, TypeOK
  <2>2. request'[h].callback = request[h].callback
    BY <1>4, <2>1 DEF ReadAttempt, TypeOK, Requests
  <2> QED BY <1>4, <2>2 DEF ReadAttempt, At, NoEmailCallbacks
<1> QED BY <1>1, <1>2, <1>3, <1>4, RequestFrom

\* What has a receipt has left the queue and the executor for good.
LEMMA ReceiptStep ==
    ASSUME IInv, [Next]_vars
    PROVE  ReceiptIsFinal'
<1> USE DEF IInv
<1>1. ASSUME NEW d \in Deliveries, receipt'[d] # 0
      PROVE  attempt'[d] \notin {"ABSENT", "QUEUED", "PROCESSING"}
  <2>1. CASE attempt'[d] \in Reported
    BY <2>1 DEF Reported
  <2>2. CASE receipt'[d] = receipt[d]
    <3>1. attempt[d] \notin {"ABSENT", "QUEUED", "PROCESSING"}
      BY <1>1, <2>2 DEF ReceiptIsFinal
    <3>2. attempt'[d] \notin {"ABSENT", "QUEUED"}
      BY <3>1, QueuedFrom DEF Persist
    <3>3. attempt'[d] # "PROCESSING"
      BY <3>1, ProcessingFrom DEF Reserve, Due
    <3> QED BY <3>2, <3>3
  <2> QED BY <2>1, <2>2, ReceiptFrom
<1>2. ASSUME NEW h \in Handlers, request'[h] # None
      PROVE  /\ request'[h].status \notin {"QUEUED", "PROCESSING"}
             /\ request'[h].step # "commit" => receipt'[request'[h].callback.delivery] # 0
  <2>1. ASSUME NEW d \in Deliveries, receipt[d] # 0 PROVE receipt'[d] # 0
    BY <2>1, ReceiptFrom
  <2>2. CASE request'[h] = request[h]
    <3>1. request[h].callback.delivery \in Deliveries
      BY <1>2, <2>2 DEF TypeOK, Requests, Callbacks
    <3> QED BY <1>2, <2>1, <2>2, <3>1 DEF ReceiptIsFinal
  <2>3. CASE \E c \in Callbacks : Receive(h, c)
    <3>1. PICK c \in Callbacks : Receive(h, c)
      BY <2>3
    <3>2. c.delivery \in Deliveries /\ c.receipt # 0
      BY DEF Callbacks
    <3>3. /\ request'[h].callback = c /\ UNCHANGED receipt
          /\ request'[h].step = IF Matches(c) THEN "correlate" ELSE "commit"
          /\ request'[h].status = IF Matches(c) THEN attempt[c.delivery] ELSE "UNKNOWN"
      BY <3>1 DEF Receive, TypeOK, rowVars
    <3>4. Matches(c) => /\ receipt[c.delivery] # 0
                        /\ attempt[c.delivery] \notin {"QUEUED", "PROCESSING"}
      BY <3>2 DEF Matches, ReceiptIsFinal
    <3> QED BY <3>3, <3>4
  <2>4. CASE Correlate(h)
    <3>1. /\ request[h] # None /\ request[h].step = "correlate"
          /\ UNCHANGED receipt
          /\ request'[h].callback = request[h].callback
          /\ request'[h].status \in Reported \union {request[h].status}
      BY <2>4 DEF Correlate, At, TypeOK, rowVars, Said
    <3> QED BY <3>1 DEF ReceiptIsFinal, Reported
  <2>5. CASE ReadAttempt(h)
    <3>1. request[h] \in Requests
      BY <2>5 DEF ReadAttempt, At, TypeOK
    <3>2. /\ request[h] # None /\ request[h].step = "aggregate"
          /\ UNCHANGED receipt
          /\ request'[h].callback = request[h].callback
          /\ request'[h].status = attempt[request[h].callback.delivery]
      BY <2>5, <3>1 DEF ReadAttempt, At, TypeOK, rowVars, Requests
    <3>3. request[h].callback.delivery \in Deliveries
      BY <3>1 DEF Requests, Callbacks
    <3> QED BY <3>2, <3>3 DEF ReceiptIsFinal
  <2> QED BY <1>2, <2>2, <2>3, <2>4, <2>5, RequestFrom
<1> QED BY <1>1, <1>2 DEF ReceiptIsFinal

-----------------------------------------------------------------------------
(* What only a provider can report                                            *)

\* Callbacks and acceptances are never taken back.
LEMMA EvidenceGrows ==
    ASSUME IInv, [Next]_vars
    PROVE  /\ recorded \subseteq recorded'
           /\ \A d \in Deliveries : accepted[d] \subseteq accepted'[d]
<1> USE DEF rowVars, deliveryVars, linkVars, workerVars, callbackVars
<1>1. ASSUME NEW h \in Handlers, Record(h) PROVE recorded \subseteq recorded'
  BY <1>1 DEF Record, Receive, Correlate, WriteStatus, ReadAttempt, WriteDelivery,
              KeepCallback, Abort, Close
<1>2. ASSUME NEW r \in Replicas, NEW d \in Deliveries, NEW n \in 1..MaxAttempts,
             \/ Cancel(r, d, n) \/ Render(r, d, n) \/ RenderFails(r, d, n)
             \/ CallProvider(r, d, n) \/ Persist(r, d, n) \/ PersistLate(r, d, n)
      PROVE  UNCHANGED recorded
  BY <1>2 DEF Cancel, Render, RenderFails, CallProvider, Persist, PersistLate
<1>3. ASSUME NEW d \in Deliveries,
             \/ Request(d) \/ LinkEnds(d) \/ BackoffEnds(d) \/ LeaseExpires(d)
             \/ \E e \in Deliveries : Resend(d, e)
             \/ \E r \in Replicas : Reserve(r, d)
      PROVE  UNCHANGED recorded
  BY <1>3 DEF Request, LinkEnds, BackoffEnds, LeaseExpires, Resend, Reserve
<1>4. ASSUME (\E r \in Replicas : ReconcileOnly(r) \/ Crash(r)) \/ UNCHANGED vars
      PROVE  UNCHANGED recorded
  BY <1>4 DEF ReconcileOnly, Crash, vars
<1>5. \A d \in Deliveries : accepted[d] \subseteq accepted'[d]
  BY AcceptedFrom
<1> QED BY <1>1, <1>2, <1>3, <1>4, <1>5 DEF Next, RunDue

\* A receipt that is stored stays.
LEMMA ReceiptStays ==
    ASSUME IInv, [Next]_vars, NEW d \in Deliveries, receipt[d] # 0
    PROVE  receipt'[d] = receipt[d]
BY ReceiptChange DEF IInv, ReceiptIsFinal, Persist

\* An attempt is shown as sent or delivered by the replay of the callbacks that
\* came before its receipt, or by a webhook.
LEMMA SentFrom ==
    ASSUME IInv, [Next]_vars, NEW d \in Deliveries, attempt'[d] \in {"SENT", "DELIVERED"}
    PROVE  \/ attempt'[d] = attempt[d]
           \/ \E r \in Replicas, n \in 1..MaxAttempts :
                 /\ Persist(r, d, n) /\ answer[r] = "ok"
                 /\ attempt'[d] \in Said(Visible(d, n))
           \/ \E h \in Handlers :
                 /\ WriteStatus(h) /\ request[h].callback.delivery = d
                 /\ request[h].status = attempt'[d]
<1> USE DEF IInv, TypeOK, rowVars, deliveryVars, linkVars, workerVars, callbackVars
<1>1. ASSUME NEW e \in Deliveries, NEW f \in Deliveries, Request(e) \/ Resend(e, f)
      PROVE  attempt'[d] = attempt[d]
  BY <1>1 DEF Request, Resend, Queue
<1>2. ASSUME NEW r \in Replicas, ReconcileOnly(r) \/ \E e \in Deliveries : Reserve(r, e)
      PROVE  attempt'[d] = attempt[d]
  <2>1. PICK chosen \in SUBSET Deliveries : Reconcile(chosen)
    BY <1>2 DEF ReconcileOnly, Reserve
  <2>2. attempt'[d] = IF d \in chosen THEN "PROCESSING"
                      ELSE IF d \in Expired THEN "UNKNOWN" ELSE attempt[d]
    BY <2>1 DEF Reconcile
  <2> QED BY <2>2
<1>3. ASSUME NEW r \in Replicas, NEW e \in Deliveries, NEW n \in 1..MaxAttempts, Cancel(r, e, n)
      PROVE  attempt'[d] = attempt[d]
  BY <1>3 DEF Cancel
<1>4. ASSUME NEW r \in Replicas, NEW e \in Deliveries, NEW n \in 1..MaxAttempts, Persist(r, e, n)
      PROVE  \/ attempt'[d] = attempt[d]
             \/ /\ Persist(r, d, n) /\ answer[r] = "ok"
                /\ attempt'[d] \in Said(Visible(d, n))
  <2>1. CASE e # d
    BY <1>4, <2>1 DEF Persist
  <2>2. CASE e = d
    <3>1. PICK status \in States : /\ Replayed(status, Outcome(d, answer[r]),
                                        IF answer[r] = "ok" THEN Visible(d, n) ELSE {})
                                   /\ attempt' = [attempt EXCEPT ![d] = status]
      BY <1>4, <2>2 DEF Persist
    <3>2. status = attempt'[d]
      BY <3>1
    <3>3. Outcome(d, answer[r]) = "ACCEPTED"
      <4>1. Outcome(d, answer[r]) \in {"ACCEPTED", "FAILED", "UNKNOWN", "QUEUED"}
        BY OutcomeTyped
      <4> QED BY <3>1, <3>2, <4>1 DEF Replayed
    <3>4. answer[r] = "ok"
      BY <3>3 DEF Outcome, Answers
    <3>5. status \in Said(Visible(d, n))
      BY <3>1, <3>2, <3>3, <3>4 DEF Replayed
    <3> QED BY <1>4, <2>2, <3>2, <3>4, <3>5
  <2> QED BY <2>1, <2>2
<1>5. ASSUME NEW h \in Handlers, WriteStatus(h)
      PROVE  \/ attempt'[d] = attempt[d]
             \/ request[h].callback.delivery = d /\ request[h].status = attempt'[d]
  BY <1>5 DEF WriteStatus
<1>6. ASSUME \/ \E e \in Deliveries : LinkEnds(e) \/ BackoffEnds(e) \/ LeaseExpires(e)
             \/ \E r \in Replicas, e \in Deliveries, n \in 1..MaxAttempts :
                   Render(r, e, n) \/ RenderFails(r, e, n) \/ PersistLate(r, e, n)
             \/ \E r \in Replicas : Crash(r)
             \/ UNCHANGED vars
      PROVE  UNCHANGED attempt
  BY <1>6 DEF LinkEnds, BackoffEnds, LeaseExpires, Render, RenderFails, PersistLate, Crash, vars
<1>7. ASSUME NEW r \in Replicas, NEW e \in Deliveries, NEW n \in 1..MaxAttempts,
             CallProvider(r, e, n)
      PROVE  UNCHANGED attempt
  BY <1>7 DEF CallProvider
<1>8. ASSUME NEW h \in Handlers,
             \/ \E c \in Callbacks : Receive(h, c)
             \/ Correlate(h) \/ ReadAttempt(h) \/ WriteDelivery(h) \/ KeepCallback(h) \/ Abort(h)
      PROVE  UNCHANGED attempt
  BY <1>8 DEF Receive, Correlate, ReadAttempt, WriteDelivery, KeepCallback, Abort
<1> QED BY <1>1, <1>2, <1>3, <1>4, <1>5, <1>6, <1>7, <1>8 DEF Next, RunDue, Record

\* Only the adapter says that the provider took the message.
LEMMA AnswerStep ==
    ASSUME IInv, AnswerAccepted, [Next]_vars
    PROVE  AnswerAccepted'
<1> USE DEF IInv
<1> SUFFICES ASSUME NEW r \in Replicas, step'[r] = "answered", answer'[r] = "ok"
             PROVE  job'[r] # None /\ job'[r][2] \in accepted'[job'[r][1]]
  BY DEF AnswerAccepted
<1>1. CASE UNCHANGED <<job[r], step[r], answer[r]>>
  <2>1. job[r] # None /\ job[r][2] \in accepted[job[r][1]]
    BY <1>1 DEF AnswerAccepted
  <2>2. job[r][1] \in Deliveries
    BY <2>1 DEF TypeOK
  <2> QED BY <1>1, <2>1, <2>2, EvidenceGrows
<1>2. ASSUME NEW d \in Deliveries, NEW n \in 1..MaxAttempts, CallProvider(r, d, n)
      PROVE  job'[r] # None /\ job'[r][2] \in accepted'[job'[r][1]]
  <2>1. PICK a \in Answers, took \in {{}, {n}} :
          /\ job[r] = <<d, n>> /\ MayReturn(d, a, took)
          /\ answer' = [answer EXCEPT ![r] = a]
          /\ accepted' = [accepted EXCEPT ![d] = @ \union took]
          /\ UNCHANGED job
    BY <1>2 DEF CallProvider
  <2>2. a = "ok"
    BY <2>1 DEF TypeOK
  <2>3. took = {n}
    <3>1. took # {}
      BY <2>1, <2>2 DEF MayReturn
    <3>2. took = {} \/ took = {n}
      BY <2>1, Zenon
    <3> QED BY <3>1, <3>2
  <2>4. n \in accepted'[d]
    BY <2>1, <2>3 DEF TypeOK
  <2>5. <<d, n>> \in Deliveries \X (1..MaxAttempts)
    OBVIOUS
  <2>6. <<d, n>> # None
    BY <2>5, NotificationTyped
  <2>7. job'[r] = <<d, n>>
    BY <2>1
  <2> QED BY <2>4, <2>6, <2>7
<1>3. ASSUME NEW d \in Deliveries, NEW n \in 1..MaxAttempts, Render(r, d, n) \/ RenderFails(r, d, n)
      PROVE  FALSE
  BY <1>3 DEF Render, RenderFails, TypeOK
<1> QED BY <1>1, <1>2, <1>3, WorkStep

\* A webhook computes with what was reported for the receipt that is stored.
LEMMA ReportStep ==
    ASSUME IInv, ReportedIsProven, ReportInHand, [Next]_vars
    PROVE  ReportInHand'
<1> USE DEF IInv
<1> DEFINE Proven(q, recs) ==
             q.status \in {"SENT", "DELIVERED"} =>
               [delivery |-> q.callback.delivery, receipt |-> q.callback.receipt, status |-> q.status]
                 \in recs \union {q.callback}
<1> SUFFICES ASSUME NEW h \in Handlers, request'[h] # None, request'[h].step \in {"correlate", "write"}
             PROVE  /\ request'[h].callback.receipt = receipt'[request'[h].callback.delivery]
                    /\ request'[h].callback.receipt \in accepted'[request'[h].callback.delivery]
                    /\ Proven(request'[h], recorded')
  BY DEF ReportInHand
<1>1. CASE request'[h] = request[h]
  <2>1. /\ request[h].callback.delivery \in Deliveries /\ request[h].callback.receipt # 0
    BY <1>1 DEF TypeOK, Requests, Callbacks
  <2>2. /\ request[h].callback.receipt = receipt[request[h].callback.delivery]
        /\ request[h].callback.receipt \in accepted[request[h].callback.delivery]
        /\ Proven(request[h], recorded)
    BY <1>1 DEF ReportInHand
  <2> QED BY <1>1, <2>1, <2>2, EvidenceGrows, ReceiptStays
<1>2. ASSUME NEW c \in Callbacks, Receive(h, c)
      PROVE  /\ request'[h].callback.receipt = receipt'[request'[h].callback.delivery]
             /\ request'[h].callback.receipt \in accepted'[request'[h].callback.delivery]
             /\ Proven(request'[h], recorded')
  <2>1. /\ request'[h].callback = c /\ UNCHANGED <<receipt, accepted, recorded>>
        /\ request'[h].step = IF Matches(c) THEN "correlate" ELSE "commit"
        /\ request'[h].status = IF Matches(c) THEN attempt[c.delivery] ELSE "UNKNOWN"
        /\ c.receipt \in accepted[c.delivery]
    BY <1>2 DEF Receive, TypeOK, rowVars
  <2>2. receipt[c.delivery] = c.receipt /\ request'[h].status = attempt[c.delivery]
    BY <2>1 DEF Matches
  <2>3. c.delivery \in Deliveries
    BY DEF Callbacks
  <2>4. Proven(request'[h], recorded')
    BY <2>1, <2>2, <2>3 DEF ReportedIsProven
  <2> QED BY <2>1, <2>2, <2>4
<1>3. CASE Correlate(h)
  <2> DEFINE q == request[h]
             view == Visible(q.callback.delivery, q.callback.receipt) \union {q.callback}
  <2>1. q \in Requests /\ q # None /\ q.step = "correlate"
    BY <1>3 DEF Correlate, At, TypeOK
  <2>2. PICK status \in Said(view) \union {q.status} :
          request' = [request EXCEPT ![h] =
             [callback |-> q.callback, view |-> view, status |-> status,
              step |-> IF \E c \in view : CanTransition(q.status, c.status)
                         THEN "write" ELSE "aggregate"]]
    BY <1>3 DEF Correlate
  <2>3. request'[h].callback = q.callback /\ request'[h].status = status
    BY <2>2 DEF TypeOK
  <2>4. UNCHANGED <<receipt, accepted, recorded>>
    BY <1>3 DEF Correlate, rowVars, callbackVars
  <2>5. /\ q.callback.receipt = receipt[q.callback.delivery]
        /\ q.callback.receipt \in accepted[q.callback.delivery]
        /\ Proven(q, recorded)
    BY <2>1 DEF ReportInHand
  <2>6. Proven(request'[h], recorded')
    <3>1. CASE status = q.status
      BY <2>3, <2>4, <2>5, <3>1
    <3>2. CASE status \in Said(view)
      <4>1. PICK c \in view : c.status = status
        BY <3>2 DEF Said
      <4>2. /\ c \in recorded \union {q.callback}
            /\ c.delivery = q.callback.delivery /\ c.receipt = q.callback.receipt
        BY <4>1 DEF Visible
      <4>3. c \in Callbacks
        BY <2>1, <4>2 DEF TypeOK, Requests
      <4>4. c = [delivery |-> q.callback.delivery, receipt |-> q.callback.receipt, status |-> status]
        BY <4>1, <4>2, <4>3 DEF Callbacks
      <4> QED BY <2>3, <2>4, <4>2, <4>4
    <3> QED BY <3>1, <3>2
  <2> QED BY <2>3, <2>4, <2>5, <2>6
<1>4. CASE ReadAttempt(h)
  <2>1. request[h] \in Requests
    BY <1>4 DEF ReadAttempt, At, TypeOK
  <2>2. request'[h].step = "rewrite"
    BY <1>4, <2>1 DEF ReadAttempt, TypeOK, Requests
  <2> QED BY <2>2
<1> QED BY <1>1, <1>2, <1>3, <1>4, RequestFrom

LEMMA ReportedStep ==
    ASSUME IInv, ReportedIsProven, AnswerAccepted, ReportInHand, [Next]_vars
    PROVE  ReportedIsProven'
<1> USE DEF IInv
<1> SUFFICES ASSUME NEW d \in Deliveries, attempt'[d] \in {"SENT", "DELIVERED"}
             PROVE  /\ [delivery |-> d, receipt |-> receipt'[d], status |-> attempt'[d]] \in recorded'
                    /\ receipt'[d] \in accepted'[d]
  BY DEF ReportedIsProven
<1>1. CASE attempt'[d] = attempt[d]
  <2>1. /\ [delivery |-> d, receipt |-> receipt[d], status |-> attempt[d]] \in recorded
        /\ receipt[d] \in accepted[d]
    BY <1>1 DEF ReportedIsProven
  <2>2. receipt[d] # 0
    BY <2>1 DEF TypeOK
  <2> QED BY <1>1, <2>1, <2>2, ReceiptStays, EvidenceGrows
<1>2. ASSUME NEW r \in Replicas, NEW n \in 1..MaxAttempts,
             Persist(r, d, n), answer[r] = "ok", attempt'[d] \in Said(Visible(d, n))
      PROVE  /\ [delivery |-> d, receipt |-> receipt'[d], status |-> attempt'[d]] \in recorded'
             /\ receipt'[d] \in accepted'[d]
  <2>1. receipt'[d] = n /\ UNCHANGED <<recorded, accepted>>
    BY <1>2 DEF Persist, TypeOK
  <2>2. n \in accepted[d]
    <3>1. step[r] = "answered" /\ job[r] = <<d, n>>
      BY <1>2 DEF Persist
    <3> QED BY <1>2, <3>1 DEF AnswerAccepted
  <2>3. PICK c \in Visible(d, n) : c.status = attempt'[d]
    BY <1>2 DEF Said
  <2>4. c \in recorded /\ c \in Callbacks /\ c.delivery = d /\ c.receipt = n
    BY <2>3 DEF Visible, TypeOK
  <2>5. c = [delivery |-> d, receipt |-> n, status |-> attempt'[d]]
    BY <2>3, <2>4 DEF Callbacks
  <2> QED BY <2>1, <2>2, <2>4, <2>5
<1>3. ASSUME NEW h \in Handlers, WriteStatus(h), request[h].callback.delivery = d,
             request[h].status = attempt'[d]
      PROVE  /\ [delivery |-> d, receipt |-> receipt'[d], status |-> attempt'[d]] \in recorded'
             /\ receipt'[d] \in accepted'[d]
  <2>1. request[h] # None /\ request[h].step = "write"
    BY <1>3 DEF WriteStatus, At
  <2>2. UNCHANGED <<receipt, accepted>> /\ recorded' = recorded \union {request[h].callback}
    BY <1>3 DEF WriteStatus, Close
  <2> QED BY <1>3, <2>1, <2>2 DEF ReportInHand
<1> QED BY <1>1, <1>2, <1>3, SentFrom

-----------------------------------------------------------------------------
(* The theorems: IInv holds at first, every step keeps it, and it implies the *)
(* properties the runs check.                                                   *)

LEMMA InitHolds == Init => IInv
BY NotificationTyped DEF Init, IInv, TypeOK, EmailAcceptedOnce, AcceptedOnce, TerminalAnnounced,
      RetryKeepsLink, ReservedOnce, NotYetAccepted, NoEmailCallbacks, RenderedWithLink,
      AggregateAnnounced, ReceiptIsFinal, Holds, States, Answers, Callbacks

LEMMA StepHolds == IInv /\ [Next]_vars => IInv'
<1> SUFFICES ASSUME IInv, [Next]_vars PROVE IInv'
  OBVIOUS
<1>1. TypeOK'
  BY NTypeStep DEF IInv
<1> QED BY <1>1, AnnouncedStep, ReservedStep, EmailStep, LinkStep, NoEmailCallbacksStep,
          ReceiptStep DEF IInv

\* The inductive invariant of the executor, the webhooks and the resends.
THEOREM NotificationInvariant == Spec => []IInv
<1>1. Init => IInv
  BY InitHolds
<1>2. IInv /\ [Next]_vars => IInv'
  BY StepHolds
<1> QED BY <1>1, <1>2, PTL DEF Spec

\* Every variable keeps its type: in particular no attempt is executed more often
\* than the limit of attempts allows.
THEOREM NotificationTypeCorrect == Spec => []TypeOK
<1>1. IInv => TypeOK
  BY DEF IInv
<1> QED BY <1>1, NotificationInvariant, PTL

\* No delivery is accepted twice by an SMTP server, whatever replicas crash, lose
\* their lease or come back late.
THEOREM EmailOnce == Spec => []EmailAcceptedOnce
<1>1. IInv => EmailAcceptedOnce
  BY DEF IInv
<1> QED BY <1>1, NotificationInvariant, PTL

\* No tracked delivery ends as FAILED or UNKNOWN in silence.
THEOREM EndsAnnounced == Spec => []TerminalAnnounced
<1>1. IInv => TerminalAnnounced
  BY DEF IInv
<1> QED BY <1>1, NotificationInvariant, PTL

\* No attempt waits for a retry whose link is gone.
THEOREM LinkKept == Spec => []RetryKeepsLink
<1>1. IInv => RetryKeepsLink
  BY DEF IInv
<1> QED BY <1>1, NotificationInvariant, PTL

\* Nothing is shown as sent or delivered that a provider has not reported for the
\* message it accepted, however many webhooks race.
THEOREM ReportsProven == Spec => []ReportedIsProven
<1> DEFINE PInv == ReportedIsProven /\ AnswerAccepted /\ ReportInHand
<1>1. Init => PInv
  BY DEF Init, ReportedIsProven, AnswerAccepted, ReportInHand
<1>2. IInv /\ PInv /\ [Next]_vars => PInv'
  BY ReportedStep, AnswerStep, ReportStep
<1>3. PInv => ReportedIsProven
  OBVIOUS
<1> QED BY <1>1, <1>2, <1>3, NotificationInvariant, PTL DEF Spec

-----------------------------------------------------------------------------
(* The lifecycle, and what webhooks do to it                                  *)

\* f is what correlate computes, callback by callback, of the first n arrivals.
Replays(f, from, view, n) ==
    f = [i \in 0..n |-> IF i = 0 THEN from
                        ELSE IF arrived[i] \in view THEN Advance(f[i - 1], arrived[i])
                        ELSE f[i - 1]]

LEMMA LeastNumber ==
    ASSUME NEW S \in SUBSET Nat, S # {}
    PROVE  \E n \in S : \A m \in S : ~(m < n)
<1>1. PICK n \in S : \A m \in S : <<m, n>> \notin OpToRel(<, Nat)
  BY WFMin, NatLessThanWellFounded, Zenon
<1> QED BY <1>1, Zenon DEF OpToRel

\* The loop of correlate has a result, however many callbacks have arrived: the
\* first number of arrivals without one would follow a number that has one.
LEMMA ReplayExists ==
    ASSUME NEW from, NEW view, NEW n \in Nat
    PROVE  \E f : Replays(f, from, view, n)
<1> DEFINE Without == {m \in Nat : ~\E f : Replays(f, from, view, m)}
<1> SUFFICES ASSUME Without # {} PROVE FALSE
  OBVIOUS
<1>1. PICK m \in Without : \A k \in Without : ~(k < m)
  <2>1. Without \in SUBSET Nat
    OBVIOUS
  <2> HIDE DEF Without
  <2> QED BY <2>1, LeastNumber
<1>2. m # 0
  <2> DEFINE g == [i \in 0..0 |-> from]
  <2>1. Replays(g, from, view, 0)
    BY DEF Replays
  <2> QED BY <1>1, <2>1
<1>3. m - 1 \in Nat /\ m - 1 \notin Without
  BY <1>1, <1>2
<1>4. PICK g : Replays(g, from, view, m - 1)
  BY <1>3
<1> DEFINE next == IF arrived[m] \in view THEN Advance(g[m - 1], arrived[m]) ELSE g[m - 1]
           f == [i \in 0..m |-> IF i < m THEN g[i] ELSE next]
<1>5. Replays(f, from, view, m)
  <2> SUFFICES ASSUME NEW i \in 0..m
               PROVE  f[i] = IF i = 0 THEN from
                             ELSE IF arrived[i] \in view THEN Advance(f[i - 1], arrived[i])
                             ELSE f[i - 1]
    BY Zenon DEF Replays
  <2>1. CASE i = 0
    BY <1>2, <1>4, <2>1 DEF Replays
  <2>2. CASE i # 0 /\ i < m
    <3>1. f[i] = g[i] /\ f[i - 1] = g[i - 1]
      BY <1>1, <2>2
    <3>2. i \in 0..(m - 1)
      BY <1>1, <2>2
    <3> QED BY <1>4, <2>2, <3>1, <3>2 DEF Replays
  <2>3. CASE i = m
    <3>1. f[i] = next /\ f[i - 1] = g[m - 1] /\ i # 0
      BY <1>1, <1>2, <2>3
    <3> QED BY <2>3, <3>1
  <2> QED BY <2>1, <2>2, <2>3
<1> QED BY <1>1, <1>5

\* One callback moves a status that has settled along the lifecycle or not at all.
LEMMA AdvanceFollows ==
    ASSUME NEW s \in States, NEW c \in Callbacks
    PROVE  /\ Advance(s, c) = s \/ (Advance(s, c) = c.status /\ c.status \in Reported)
           /\ CanTransition(s, Advance(s, c))
BY NotificationTyped
   DEF Advance, CanTransition, Successors, Callbacks, States, Final, Reported, Unsupported

LEMMA LifecycleTransitive ==
    ASSUME NEW s \in States \ {"QUEUED", "PROCESSING"}, NEW t, NEW u,
           CanTransition(s, t), CanTransition(t, u)
    PROVE  CanTransition(s, u)
BY DEF CanTransition, Successors, States, Final

\* However many callbacks have arrived in whatever order, correlate ends with what
\* one of them says, or with the status it began with, and within the lifecycle.
LEMMA CorrelatedFollows ==
    ASSUME TypeOK, NEW s \in States, NEW view \in SUBSET Callbacks
    PROVE  /\ Correlated(s, view) \in Said(view) \union {s}
           /\ s \notin {"QUEUED", "PROCESSING"} => CanTransition(s, Correlated(s, view))
<1> DEFINE L == Len(arrived)
           f == CHOOSE g : Replays(g, s, view, L)
           Good(i) == /\ f[i] \in Said(view) \union {s}
                      /\ s \notin {"QUEUED", "PROCESSING"} => CanTransition(s, f[i])
           Bad == {i \in 0..L : ~Good(i)}
<1>1. L \in Nat /\ \A i \in 1..L : arrived[i] \in Callbacks
  BY DEF TypeOK
<1>2. Correlated(s, view) = f[L]
  BY DEF Correlated, Replays
<1>3. Replays(f, s, view, L)
  BY <1>1, ReplayExists
<1> HIDE DEF f, L
<1>4. f[0] = s
  BY <1>1, <1>3 DEF Replays
<1>5. \A i \in 1..L : f[i] = IF arrived[i] \in view THEN Advance(f[i - 1], arrived[i])
                             ELSE f[i - 1]
  BY <1>1, <1>3 DEF Replays
<1>6. ASSUME NEW i \in 1..L, Good(i - 1) PROVE Good(i)
  <2>1. f[i - 1] \in States
    BY <1>6 DEF Said, Reported, States, Final
  <2>2. CASE arrived[i] \notin view
    BY <1>5, <1>6, <2>2
  <2>3. CASE arrived[i] \in view
    <3>1. f[i] = Advance(f[i - 1], arrived[i])
      BY <1>5, <2>3
    <3>2. /\ f[i] = f[i - 1] \/ (f[i] = arrived[i].status /\ arrived[i].status \in Reported)
          /\ CanTransition(f[i - 1], f[i])
      BY <1>1, <2>1, <3>1, AdvanceFollows
    <3>3. f[i] \in Said(view) \union {s}
      BY <1>6, <2>3, <3>2 DEF Said
    <3> QED BY <1>6, <3>2, <3>3, LifecycleTransitive
  <2> QED BY <2>2, <2>3
<1>7. Bad = {}
  <2> SUFFICES ASSUME Bad # {} PROVE FALSE
    OBVIOUS
  <2>1. Bad \in SUBSET Nat
    BY <1>1
  <2>2. PICK i \in Bad : \A j \in Bad : ~(j < i)
    <3> HIDE DEF Bad
    <3> QED BY <2>1, LeastNumber
  <2>3. i # 0
    BY <1>4, <2>2 DEF CanTransition
  <2>4. i - 1 \in 0..L /\ i \in 1..L /\ i - 1 \notin Bad
    BY <1>1, <2>2, <2>3
  <2> QED BY <1>6, <2>2, <2>4
<1> QED BY <1>1, <1>2, <1>7

\* Whatever is not the update of a webhook follows the lifecycle, and changes only
\* what is in the queue or the executor.
LEMMA LifecycleStep ==
    ASSUME IInv, [Next]_vars, NEW d \in Deliveries, attempt[d] # "ABSENT"
    PROVE  \/ attempt'[d] = attempt[d]
           \/ Open(d) /\ CanTransition(attempt[d], attempt'[d])
           \/ \E h \in Handlers : WriteStatus(h) /\ request[h].callback.delivery = d
<1> USE DEF IInv, TypeOK, rowVars, deliveryVars, linkVars, workerVars, callbackVars
<1>1. ASSUME NEW e \in Deliveries, NEW f \in Deliveries, Request(e) \/ Resend(e, f)
      PROVE  \/ attempt'[d] = attempt[d]
             \/ Open(d) /\ CanTransition(attempt[d], attempt'[d])
  BY <1>1 DEF Request, Resend, Queue, Open, CanTransition, Successors, Final
<1>2. ASSUME NEW r \in Replicas, ReconcileOnly(r) \/ \E e \in Deliveries : Reserve(r, e)
      PROVE  \/ attempt'[d] = attempt[d]
             \/ Open(d) /\ CanTransition(attempt[d], attempt'[d])
  <2>1. \/ Reconcile({})
        \/ \E e \in Due : Reconcile({e})
    BY <1>2 DEF ReconcileOnly, Reserve
  <2>2. PICK chosen \in SUBSET Due : Reconcile(chosen)
    <3> HIDE DEF IInv, TypeOK
    <3> QED BY <2>1, Zenon
  <2>3. attempt'[d] = IF d \in chosen THEN "PROCESSING"
                      ELSE IF d \in Expired THEN "UNKNOWN" ELSE attempt[d]
    BY <2>2 DEF Reconcile
  <2> QED BY <2>3 DEF Due, Expired, Open, CanTransition, Successors, Final
<1>3. ASSUME NEW r \in Replicas, NEW e \in Deliveries, NEW n \in 1..MaxAttempts, Cancel(r, e, n)
      PROVE  \/ attempt'[d] = attempt[d]
             \/ Open(d) /\ CanTransition(attempt[d], attempt'[d])
  BY <1>3 DEF Cancel, Open, CanTransition, Successors, Final
<1>4. ASSUME NEW r \in Replicas, NEW e \in Deliveries, NEW n \in 1..MaxAttempts, Persist(r, e, n)
      PROVE  \/ attempt'[d] = attempt[d]
             \/ Open(d) /\ CanTransition(attempt[d], attempt'[d])
  <2>1. CASE e # d
    BY <1>4, <2>1 DEF Persist
  <2>2. CASE e = d
    <3>1. PICK status \in States : /\ Replayed(status, Outcome(d, answer[r]),
                                        IF answer[r] = "ok" THEN Visible(d, n) ELSE {})
                                   /\ attempt' = [attempt EXCEPT ![d] = status]
      BY <1>4, <2>2 DEF Persist
    <3>2. Outcome(d, answer[r]) \in {"ACCEPTED", "FAILED", "UNKNOWN", "QUEUED"}
      BY OutcomeTyped
    <3>3. status \in Reported \union {"QUEUED"}
      BY <3>1, <3>2 DEF Replayed, Said, Reported
    <3>4. attempt[d] = "PROCESSING" /\ attempt'[d] = status
      BY <1>4, <2>2, <3>1 DEF Persist
    <3> QED BY <3>3, <3>4 DEF Open, CanTransition, Successors, Reported, Final
  <2> QED BY <2>1, <2>2
<1>5. ASSUME NEW h \in Handlers, WriteStatus(h)
      PROVE  attempt'[d] = attempt[d] \/ request[h].callback.delivery = d
  BY <1>5 DEF WriteStatus
<1>6. ASSUME \/ \E e \in Deliveries : LinkEnds(e) \/ BackoffEnds(e) \/ LeaseExpires(e)
             \/ \E r \in Replicas, e \in Deliveries, n \in 1..MaxAttempts :
                   Render(r, e, n) \/ RenderFails(r, e, n) \/ PersistLate(r, e, n)
             \/ \E r \in Replicas : Crash(r)
             \/ UNCHANGED vars
      PROVE  UNCHANGED attempt
  BY <1>6 DEF LinkEnds, BackoffEnds, LeaseExpires, Render, RenderFails, PersistLate, Crash, vars
<1>7. ASSUME NEW r \in Replicas, NEW e \in Deliveries, NEW n \in 1..MaxAttempts,
             CallProvider(r, e, n)
      PROVE  UNCHANGED attempt
  BY <1>7 DEF CallProvider
<1>8. ASSUME NEW h \in Handlers,
             \/ \E c \in Callbacks : Receive(h, c)
             \/ Correlate(h) \/ ReadAttempt(h) \/ WriteDelivery(h) \/ KeepCallback(h) \/ Abort(h)
      PROVE  UNCHANGED attempt
  BY <1>8 DEF Receive, Correlate, ReadAttempt, WriteDelivery, KeepCallback, Abort
<1> QED BY <1>1, <1>2, <1>3, <1>4, <1>5, <1>6, <1>7, <1>8 DEF Next, RunDue, Record

\* A webhook updates only an attempt that has settled, and to a settled status.
LEMMA WebhookUpdates ==
    ASSUME IInv, NEW h \in Handlers, WriteStatus(h),
           NEW d \in Deliveries, request[h].callback.delivery = d
    PROVE  ~Open(d) /\ ~Open(d)'
<1>1. /\ request[h] # None /\ request[h].step = "write"
      /\ attempt' = [attempt EXCEPT ![d] = request[h].status]
  BY DEF WriteStatus, At
<1>2. receipt[d] # 0 /\ request[h].status \notin {"QUEUED", "PROCESSING"}
  BY <1>1 DEF IInv, ReceiptIsFinal
<1>3. ~Open(d)
  BY <1>2 DEF IInv, ReceiptIsFinal, Open
<1>4. attempt'[d] = request[h].status
  BY <1>1 DEF IInv, TypeOK
<1> QED BY <1>2, <1>3, <1>4 DEF Open

\* However many webhooks race each other and the executor, the lifecycle is left
\* only by the update of a webhook, and never back into the queue or the executor.
THEOREM WebhooksRegressOnly == Spec => OnlyWebhooksRegress
<1>1. ASSUME IInv, [Next]_vars, NEW d \in Deliveries,
             attempt[d] # "ABSENT", ~CanTransition(attempt[d], attempt'[d])
      PROVE  /\ \E h \in Handlers : WriteStatus(h) /\ request[h].callback.delivery = d
             /\ ~Open(d) /\ ~Open(d)'
  <2>1. PICK h \in Handlers : WriteStatus(h) /\ request[h].callback.delivery = d
    BY <1>1, LifecycleStep DEF CanTransition
  <2>2. ~Open(d) /\ ~Open(d)'
    BY <1>1, <2>1, WebhookUpdates
  <2> QED BY <2>1, <2>2
<1>2. IInv /\ [Next]_vars =>
        [\A d \in Deliveries :
           attempt[d] # "ABSENT" /\ ~CanTransition(attempt[d], attempt'[d]) =>
             /\ \E h \in Handlers : WriteStatus(h) /\ request[h].callback.delivery = d
             /\ ~Open(d) /\ ~Open(d)']_vars
  BY <1>1
<1> QED BY <1>2, NotificationInvariant, PTL DEF Spec, OnlyWebhooksRegress
====

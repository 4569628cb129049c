---- MODULE NotificationDelivery ----
(***************************************************************************)
(* Operational notifications: the channel attempt a feature requests, the   *)
(* executor that reserves it under a lease, calls the provider and records   *)
(* the outcome, the webhook handlers that record what the provider reports   *)
(* later, and the resend that supersedes an invitation's delivery.            *)
(*                                                                          *)
(* request.persist creates one channel attempt per delivery, so a delivery  *)
(* stands for its attempt too.  A replica is one worker process (RunDue      *)
(* loop), a handler one webhook request being served.  A database           *)
(* transaction is one action when nothing it does between its first read    *)
(* and its commit can be seen or overtaken; the webhook transaction, which   *)
(* reads rows it does not lock, is one action per read.                       *)
(***************************************************************************)
EXTENDS Integers, Sequences, SequencesExt

CONSTANTS Deliveries, Replicas, Handlers,
          Email,        \* deliveries sent by SMTP; the others by Twilio or Meta
          Sealed,       \* deliveries whose text carries an invitation link
          Tracked,      \* deliveries whose end is announced in an event
          Disabled,     \* deliveries on a channel the worker has disabled
          Reports,      \* states they report of each execution (a bound on the callbacks)
          MaxAttempts,  \* four in every deployment
          None          \* not a delivery, not a callback

Final    == {"DELIVERED", "FAILED", "UNKNOWN", "CANCELED"}
States   == {"QUEUED", "PROCESSING", "ACCEPTED", "SENT"} \union Final
Reported == {"ACCEPTED", "SENT", "DELIVERED", "FAILED", "UNKNOWN"}

\* A status of the provider's vocabulary that NormalizeProviderStatus refuses: it
\* is stored with the others and advances nothing.
Unsupported == "UNSUPPORTED"

Callbacks ==
    {c \in [delivery : Deliveries, receipt : 1..MaxAttempts, status : Reported \union {Unsupported}] :
       c.status \in Reports[c.receipt]}

ASSUME NotificationTyped ==
    /\ Email \subseteq Deliveries /\ Sealed \subseteq Deliveries
    /\ Tracked \subseteq Deliveries /\ Disabled \subseteq Deliveries
    /\ Reports \in [1..MaxAttempts -> SUBSET (Reported \union {Unsupported})]
    /\ MaxAttempts \in Nat \ {0}
    /\ None \notin Deliveries \X (1..MaxAttempts)

VARIABLES
    attempt,    \* status of the channel attempt
    attempts,   \* sequence number of its last execution
    due,        \* next_attempt_at has passed
    lease,      \* its lease: "none", "held" or "expired"
    receipt,    \* the execution whose provider receipt is stored, or 0
    history,    \* status of the NotificationAttempt row of each execution
    delivery,   \* aggregate status of the delivery
    announced,  \* notification.delivery_terminal events in the outbox
    secret,     \* the encrypted link is stored
    link,       \* the invitation is still active
    accepted,   \* executions the provider has accepted a message in
    job,        \* the <<delivery, execution>> a replica has reserved
    step,       \* what it does next
    answer,     \* what the provider adapter returned
    arrived,    \* callbacks in the order of received_at
    recorded,   \* callbacks whose row is committed
    correlated, \* callbacks whose channel_attempt_id is set
    request     \* the open webhook transaction of a handler

rowVars == <<attempt, attempts, due, lease, receipt, history>>
deliveryVars == <<delivery, announced>>
linkVars == <<secret, link>>
workerVars == <<job, step, answer>>
callbackVars == <<arrived, recorded, correlated>>
vars == <<rowVars, deliveryVars, linkVars, accepted, workerVars, callbackVars, request>>

Answers == {"ok", "transient", "permanent", "unknown"}

Requests == [callback : Callbacks,
             step : {"correlate", "write", "aggregate", "rewrite", "commit"},
             status : States,
             view : SUBSET Callbacks]

TypeOK ==
    /\ attempt \in [Deliveries -> States \union {"ABSENT"}]
    /\ attempts \in [Deliveries -> 0..MaxAttempts]
    /\ due \in [Deliveries -> BOOLEAN]
    /\ lease \in [Deliveries -> {"none", "held", "expired"}]
    /\ receipt \in [Deliveries -> 0..MaxAttempts]
    /\ history \in [Deliveries -> [1..MaxAttempts -> States \union {"ABSENT"}]]
    /\ delivery \in [Deliveries -> States \union {"ABSENT"}]
    /\ announced \subseteq Deliveries \X {"FAILED", "UNKNOWN"}
    /\ secret \in [Deliveries -> BOOLEAN]
    /\ link \in [Deliveries -> BOOLEAN]
    /\ accepted \in [Deliveries -> SUBSET (1..MaxAttempts)]
    /\ job \in [Replicas -> (Deliveries \X (1..MaxAttempts)) \union {None}]
    /\ step \in [Replicas -> {"idle", "reserved", "ready", "answered"}]
    /\ answer \in [Replicas -> Answers]
    /\ arrived \in Seq(Callbacks)
    /\ recorded \subseteq Callbacks
    /\ correlated \subseteq Callbacks
    /\ request \in [Handlers -> Requests \union {None}]

Init ==
    /\ attempt = [d \in Deliveries |-> "ABSENT"]
    /\ attempts = [d \in Deliveries |-> 0]
    /\ due = [d \in Deliveries |-> FALSE]
    /\ lease = [d \in Deliveries |-> "none"]
    /\ receipt = [d \in Deliveries |-> 0]
    /\ history = [d \in Deliveries |-> [n \in 1..MaxAttempts |-> "ABSENT"]]
    /\ delivery = [d \in Deliveries |-> "ABSENT"]
    /\ announced = {}
    /\ secret = [d \in Deliveries |-> FALSE]
    /\ link = [d \in Deliveries |-> FALSE]
    /\ accepted = [d \in Deliveries |-> {}]
    /\ job = [r \in Replicas |-> None]
    /\ step = [r \in Replicas |-> "idle"]
    /\ answer = [r \in Replicas |-> "ok"]
    /\ arrived = <<>>
    /\ recorded = {}
    /\ correlated = {}
    /\ request = [h \in Handlers |-> None]

-----------------------------------------------------------------------------
(* core/state.go and callbacks.UpdateDelivery *)

Successors(from) ==
    CASE from = "QUEUED"     -> {"PROCESSING", "CANCELED"}
      [] from = "PROCESSING" -> {"QUEUED", "ACCEPTED", "SENT"} \union Final
      [] from = "ACCEPTED"   -> {"SENT"} \union Final
      [] from = "SENT"       -> Final
      [] OTHER               -> {}

CanTransition(from, to) == to = from \/ to \in Successors(from)

\* The aggregate of a delivery with one channel attempt.
Aggregate(status) ==
    CASE status = "SENT"     -> "ACCEPTED"
      [] status = "CANCELED" -> "FAILED"
      [] OTHER               -> status

\* UpdateDelivery sees that the aggregate of d becomes one to announce.
Announces(d, status) ==
    /\ d \in Tracked
    /\ Aggregate(status) \in {"FAILED", "UNKNOWN"}
    /\ delivery[d] # Aggregate(status)

Announcement(d, status) == <<d, Aggregate(status)>>

\* The identifier of the event is derived from the delivery and the state: a
\* second one fails on the primary key of the outbox, and so does the transaction.
Conflict(d, status) == Announces(d, status) /\ Announcement(d, status) \in announced

\* Mutant: the aggregate is written and nothing is announced.
UpdateSilently(d, status) ==
    /\ ~Conflict(d, status)
    /\ delivery' = [delivery EXCEPT ![d] = Aggregate(status)]
    /\ UNCHANGED announced

UpdateDelivery(d, status) ==
    /\ ~Conflict(d, status)
    /\ delivery' = [delivery EXCEPT ![d] = Aggregate(status)]
    /\ announced' = IF Announces(d, status)
                      THEN announced \union {Announcement(d, status)}
                      ELSE announced

\* callbacks.correlate: the statuses in the order they were received, each
\* applied when the lifecycle allows it.
Advance(from, callback) ==
    IF CanTransition(from, callback.status) THEN callback.status ELSE from

Correlated(from, view) ==
    LET after[i \in 0..Len(arrived)] ==
          IF i = 0 THEN from
          ELSE IF arrived[i] \in view THEN Advance(after[i - 1], arrived[i])
          ELSE after[i - 1]
    IN  after[Len(arrived)]

\* What callbacks say; an attempt ends in one of it, or stays as it is (proved as
\* CorrelatedFollows, so that drawing the status from it below excludes nothing).
Said(view) == {c.status : c \in view} \intersect Reported

Visible(d, n) == {c \in recorded : c.delivery = d /\ c.receipt = n}

-----------------------------------------------------------------------------
(* Requests and resends *)

\* The delivery with one channel attempt, its link and its request event.
Queue(d, status) ==
    /\ attempt' = [status EXCEPT ![d] = "QUEUED"]
    /\ due' = [due EXCEPT ![d] = TRUE]
    /\ delivery' = [delivery EXCEPT ![d] = "QUEUED"]
    /\ secret' = [secret EXCEPT ![d] = d \in Sealed]

\* request.Send; the same idempotency key again changes nothing.
Request(d) ==
    /\ attempt[d] = "ABSENT"
    /\ Queue(d, attempt)
    /\ link' = [link EXCEPT ![d] = TRUE]
    /\ UNCHANGED <<attempts, lease, receipt, history, announced, accepted,
                   workerVars, callbackVars, request>>

Open(d) == attempt[d] \in {"QUEUED", "PROCESSING"}

\* Resend (or a corrected address) revokes the invitation of d, cancels what has
\* not been sent, and requests e for the new invitation.
Resend(d, e) ==
    /\ d \in Sealed /\ link[d] /\ attempt[d] # "ABSENT"
    /\ e \in Sealed /\ attempt[e] = "ABSENT"
    /\ Queue(e, IF Open(d) THEN [attempt EXCEPT ![d] = "CANCELED"] ELSE attempt)
    /\ lease' = IF Open(d) THEN [lease EXCEPT ![d] = "none"] ELSE lease
    /\ link' = [link EXCEPT ![d] = FALSE, ![e] = TRUE]
    /\ UNCHANGED <<attempts, receipt, history, announced, accepted,
                   workerVars, callbackVars, request>>

\* The invitation expires or is revoked, or the link's own deadline passes.
LinkEnds(d) ==
    /\ d \in Sealed /\ link[d]
    /\ link' = [link EXCEPT ![d] = FALSE]
    /\ UNCHANGED <<rowVars, deliveryVars, secret, accepted, workerVars, callbackVars, request>>

-----------------------------------------------------------------------------
(* Executor.RunDue *)

Expired == {d \in Deliveries : attempt[d] = "PROCESSING" /\ lease[d] = "expired"}
Due     == {d \in Deliveries : attempt[d] = "QUEUED" /\ due[d]}

\* Mutant: an expired lease puts the attempt back in the queue.
RequeueExpired(chosen) ==
    /\ attempt' = [d \in Deliveries |-> IF d \in chosen THEN "PROCESSING"
                                        ELSE IF d \in Expired THEN "QUEUED"
                                        ELSE attempt[d]]
    /\ lease' = [d \in Deliveries |-> IF d \in chosen THEN "held"
                                      ELSE IF d \in Expired THEN "none" ELSE lease[d]]
    /\ delivery' = [d \in Deliveries |-> IF d \in chosen THEN "PROCESSING"
                                         ELSE IF d \in Expired THEN "QUEUED"
                                         ELSE delivery[d]]
    /\ UNCHANGED announced

\* Mutant: expired leases are not looked for.
IgnoreExpired(chosen) ==
    /\ attempt' = [d \in Deliveries |-> IF d \in chosen THEN "PROCESSING" ELSE attempt[d]]
    /\ lease' = [d \in Deliveries |-> IF d \in chosen THEN "held" ELSE lease[d]]
    /\ delivery' = [d \in Deliveries |-> IF d \in chosen THEN "PROCESSING" ELSE delivery[d]]
    /\ UNCHANGED announced

\* The transaction of reserve: attempts whose lease has expired are UNKNOWN,
\* and the chosen one, if any, is PROCESSING.
Reconcile(chosen) ==
    /\ \A d \in Expired : ~Conflict(d, "UNKNOWN")
    /\ attempt' = [d \in Deliveries |-> IF d \in chosen THEN "PROCESSING"
                                        ELSE IF d \in Expired THEN "UNKNOWN"
                                        ELSE attempt[d]]
    /\ lease' = [d \in Deliveries |-> IF d \in chosen THEN "held"
                                      ELSE IF d \in Expired THEN "none" ELSE lease[d]]
    /\ delivery' = [d \in Deliveries |-> IF d \in chosen THEN "PROCESSING"
                                         ELSE IF d \in Expired THEN "UNKNOWN"
                                         ELSE delivery[d]]
    /\ announced' = announced \union
                      {<<d, "UNKNOWN">> : d \in {e \in Expired : Announces(e, "UNKNOWN")}}

\* Nothing is due.
ReconcileOnly(r) ==
    /\ step[r] = "idle"
    /\ Due = {} /\ Expired # {}
    /\ Reconcile({})
    /\ UNCHANGED <<attempts, due, receipt, history, linkVars, accepted,
                   workerVars, callbackVars, request>>

Reserve(r, d) ==
    /\ step[r] = "idle"
    /\ d \in Due /\ attempts[d] < MaxAttempts
    /\ Reconcile({d})
    /\ attempts' = [attempts EXCEPT ![d] = @ + 1]
    /\ history' = [history EXCEPT ![d][attempts[d] + 1] = "PROCESSING"]
    /\ job' = [job EXCEPT ![r] = <<d, attempts[d] + 1>>]
    /\ step' = [step EXCEPT ![r] = "reserved"]
    /\ UNCHANGED <<due, receipt, linkVars, accepted, answer, callbackVars, request>>

Quit(r) ==
    /\ job' = [job EXCEPT ![r] = None]
    /\ step' = [step EXCEPT ![r] = "idle"]
    /\ UNCHANGED answer

\* cancel and cancelDisabled: the channel is disabled, the link is gone, or it
\* cannot be read (an error of the database counts as a link that is gone).  Only
\* the attempt is guarded by its status.
Cancel(r, d, n) ==
    /\ step[r] = "reserved" /\ job[r] = <<d, n>>
    /\ LET status == IF attempt[d] = "PROCESSING" THEN "CANCELED" ELSE attempt[d]
       IN  /\ attempt' = [attempt EXCEPT ![d] = status]
           /\ lease' = IF attempt[d] = "PROCESSING"
                         THEN [lease EXCEPT ![d] = "none"] ELSE lease
           /\ UpdateDelivery(d, status)
    /\ history' = [history EXCEPT ![d][n] = "CANCELED"]
    /\ secret' = [secret EXCEPT ![d] = FALSE]
    /\ Quit(r)
    /\ UNCHANGED <<attempts, due, receipt, link, accepted, callbackVars, request>>

\* intent finds the link, if there is one, and renders the message.
Render(r, d, n) ==
    /\ d \notin Disabled
    /\ step[r] = "reserved" /\ job[r] = <<d, n>>
    /\ d \in Sealed => secret[d] /\ link[d]
    /\ step' = [step EXCEPT ![r] = "ready"]
    /\ UNCHANGED <<rowVars, deliveryVars, linkVars, accepted, job, answer,
                   callbackVars, request>>

\* intent fails on the template; a link that is gone is only missed there.
RenderFails(r, d, n) ==
    /\ d \notin Disabled
    /\ step[r] = "reserved" /\ job[r] = <<d, n>>
    /\ d \in Sealed => (secret[d] => link[d])
    /\ answer' = [answer EXCEPT ![r] = "permanent"]
    /\ step' = [step EXCEPT ![r] = "answered"]
    /\ UNCHANGED <<rowVars, deliveryVars, linkVars, accepted, job, callbackVars, request>>

\* What an adapter may return when the provider took the message or did not
\* (took is the execution accepted, or nothing).
\* The HTTP adapters call an error of the request pre-send also when the client's
\* timeout ran out on the answer or a gateway answered for the provider.
MayReturn(d, a, took) ==
    /\ a = "ok" => took # {}
    /\ a = "permanent" => took = {}
    /\ a = "transient" /\ d \in Email => took = {}

CallProvider(r, d, n) ==
    \E a \in Answers, took \in {{}, {n}} :
        /\ step[r] = "ready" /\ job[r] = <<d, n>>
        /\ MayReturn(d, a, took)
        /\ answer' = [answer EXCEPT ![r] = a]
        /\ accepted' = [accepted EXCEPT ![d] = @ \union took]
        /\ step' = [step EXCEPT ![r] = "answered"]
        /\ UNCHANGED <<rowVars, deliveryVars, linkVars, job, callbackVars, request>>

Outcome(d, a) ==
    CASE a = "ok"        -> "ACCEPTED"
      [] a = "permanent" -> "FAILED"
      [] a = "unknown"   -> "UNKNOWN"
      [] a = "transient" -> IF attempts[d] >= MaxAttempts THEN "FAILED" ELSE "QUEUED"

\* Mutant: the link is deleted with every outcome.
LinkErased(d, state) == secret' = [secret EXCEPT ![d] = FALSE]

EraseLink(d, state) ==
    secret' = IF state = "QUEUED" THEN secret ELSE [secret EXCEPT ![d] = FALSE]

\* callbacks.Replay, which only follows a stored receipt: an accepted attempt ends
\* in a state a provider reports.
Replayed(status, state, view) ==
    IF state = "ACCEPTED"
      THEN status \in Said(view) \union {state} /\ status = Correlated(state, view)
      ELSE status = state

\* persist, for an attempt that is still PROCESSING: the outcome, and the early
\* callbacks for the receipt that is stored with it.
Persist(r, d, n) ==
    /\ step[r] = "answered" /\ job[r] = <<d, n>>
    /\ attempt[d] = "PROCESSING"
    /\ LET state == Outcome(d, answer[r])
           view  == IF answer[r] = "ok" THEN Visible(d, n) ELSE {}
       IN  \E status \in States :
             /\ Replayed(status, state, view)
             /\ attempt' = [attempt EXCEPT ![d] = status]
             /\ UpdateDelivery(d, status)
             /\ correlated' = correlated \union view
             /\ history' = [history EXCEPT ![d][n] = state]
             /\ due' = [due EXCEPT ![d] = @ /\ state # "QUEUED"]
             /\ EraseLink(d, state)
    /\ lease' = [lease EXCEPT ![d] = "none"]
    /\ receipt' = IF answer[r] = "ok" THEN [receipt EXCEPT ![d] = n] ELSE receipt
    /\ Quit(r)
    /\ UNCHANGED <<attempts, link, accepted, arrived, recorded, request>>

\* Another transaction has moved the attempt on: the outcome is dropped.
PersistLate(r, d, n) ==
    /\ step[r] = "answered" /\ job[r] = <<d, n>>
    /\ attempt[d] # "PROCESSING"
    /\ Quit(r)
    /\ UNCHANGED <<rowVars, deliveryVars, linkVars, accepted, callbackVars, request>>

\* The process dies, or RunDue returns an error and ends it.
Crash(r) ==
    /\ step[r] # "idle"
    /\ Quit(r)
    /\ UNCHANGED <<rowVars, deliveryVars, linkVars, accepted, callbackVars, request>>

\* Time passes: a retry becomes due, a lease runs out under a live holder or not.
BackoffEnds(d) ==
    /\ attempt[d] = "QUEUED" /\ ~due[d]
    /\ due' = [due EXCEPT ![d] = TRUE]
    /\ UNCHANGED <<attempt, attempts, lease, receipt, history, deliveryVars, linkVars,
                   accepted, workerVars, callbackVars, request>>

LeaseExpires(d) ==
    /\ attempt[d] = "PROCESSING" /\ lease[d] = "held"
    /\ lease' = [lease EXCEPT ![d] = "expired"]
    /\ UNCHANGED <<attempt, attempts, due, receipt, history, deliveryVars, linkVars,
                   accepted, workerVars, callbackVars, request>>

-----------------------------------------------------------------------------
(* Webhook handlers: callbacks.Record in a READ COMMITTED transaction *)

\* Mutant: the attempt is found by its delivery, whatever receipt it has.
MatchDelivery(c) == attempt[c.delivery] # "ABSENT"

Matches(c) == receipt[c.delivery] = c.receipt

\* A provider reports a status of a message it accepted (again, when the last
\* report was not answered): the row is inserted and the attempt is read,
\* unlocked, through its receipt.  A committed duplicate is answered at once; an
\* uncommitted one is waited for.
Receive(h, c) ==
    /\ request[h] = None
    /\ c.delivery \notin Email /\ c.receipt \in accepted[c.delivery]
    /\ c \notin recorded
    /\ \A g \in Handlers : request[g] # None => request[g].callback # c
    /\ arrived' = Append(arrived, c)
    /\ request' = [request EXCEPT ![h] =
                     [callback |-> c, view |-> {},
                      step |-> IF Matches(c) THEN "correlate" ELSE "commit",
                      status |-> IF Matches(c) THEN attempt[c.delivery] ELSE "UNKNOWN"]]
    /\ UNCHANGED <<rowVars, deliveryVars, linkVars, accepted, workerVars,
                   recorded, correlated>>

At(h, s) == request[h] # None /\ request[h].step = s

\* The callbacks of the receipt are read and folded into the status read before.
Correlate(h) ==
    /\ At(h, "correlate")
    /\ LET q    == request[h]
           view == Visible(q.callback.delivery, q.callback.receipt) \union {q.callback}
       IN  \E status \in Said(view) \union {q.status} :
             /\ status = Correlated(q.status, view)
             /\ request' = [request EXCEPT ![h] =
                   [callback |-> q.callback, view |-> view, status |-> status,
                    step |-> IF \E c \in view : CanTransition(q.status, c.status)
                               THEN "write" ELSE "aggregate"]]
    /\ UNCHANGED <<rowVars, deliveryVars, linkVars, accepted, workerVars, callbackVars>>

Close(h) ==
    /\ recorded' = recorded \union {request[h].callback}
    /\ request' = [request EXCEPT ![h] = None]

\* The new status is written, by the attempt's id alone, and the delivery updated.
WriteStatus(h) ==
    /\ At(h, "write")
    /\ LET d == request[h].callback.delivery
       IN  /\ attempt' = [attempt EXCEPT ![d] = request[h].status]
           /\ UpdateDelivery(d, request[h].status)
    /\ correlated' = correlated \union request[h].view
    /\ Close(h)
    /\ UNCHANGED <<attempts, due, lease, receipt, history, linkVars, accepted,
                   workerVars, arrived>>

\* No status advances (an unsupported one): UpdateDelivery reads the attempt again ...
ReadAttempt(h) ==
    /\ At(h, "aggregate")
    /\ \E status \in States :
         /\ status = attempt[request[h].callback.delivery]
         /\ request' = [request EXCEPT ![h] = [@ EXCEPT !.step = "rewrite", !.status = status]]
    /\ UNCHANGED <<rowVars, deliveryVars, linkVars, accepted, workerVars, callbackVars>>

\* ... and writes the aggregate of what it read.
WriteDelivery(h) ==
    /\ At(h, "rewrite")
    /\ UpdateDelivery(request[h].callback.delivery, request[h].status)
    /\ correlated' = correlated \union request[h].view
    /\ Close(h)
    /\ UNCHANGED <<rowVars, linkVars, accepted, workerVars, arrived>>

\* No attempt has the receipt: the callback is kept for a replay.
KeepCallback(h) ==
    /\ At(h, "commit")
    /\ Close(h)
    /\ UNCHANGED <<rowVars, deliveryVars, linkVars, accepted, workerVars, arrived, correlated>>

\* The transaction fails (a conflict, a lost connection) and the provider,
\* answered 503, will report again.
Abort(h) ==
    /\ request[h] # None
    /\ \E i \in DOMAIN arrived :
          arrived[i] = request[h].callback /\ arrived' = RemoveAt(arrived, i)
    /\ request' = [request EXCEPT ![h] = None]
    /\ UNCHANGED <<rowVars, deliveryVars, linkVars, accepted, workerVars, recorded, correlated>>

-----------------------------------------------------------------------------

RunDue(r) ==
    \/ ReconcileOnly(r) \/ \E d \in Deliveries : Reserve(r, d)
    \/ \E d \in Deliveries, n \in 1..MaxAttempts :
          \/ Cancel(r, d, n) \/ Render(r, d, n) \/ RenderFails(r, d, n)
          \/ CallProvider(r, d, n) \/ Persist(r, d, n) \/ PersistLate(r, d, n)

Record(h) ==
    \/ \E c \in Callbacks : Receive(h, c)
    \/ Correlate(h) \/ WriteStatus(h) \/ ReadAttempt(h) \/ WriteDelivery(h)
    \/ KeepCallback(h) \/ Abort(h)

Next ==
    \/ \E d \in Deliveries : Request(d) \/ LinkEnds(d) \/ BackoffEnds(d) \/ LeaseExpires(d)
    \/ \E d, e \in Deliveries : Resend(d, e)
    \/ \E r \in Replicas : RunDue(r) \/ Crash(r)
    \/ \E h \in Handlers : Record(h)

Spec == Init /\ [][Next]_vars

\* The ticker of a worker process keeps calling RunDue, its supervisor restarts
\* it, and time passes.
Fairness ==
    /\ \A r \in Replicas : WF_vars(RunDue(r))
    /\ \A d \in Deliveries : WF_vars(BackoffEnds(d)) /\ WF_vars(LeaseExpires(d))

FairSpec == Spec /\ Fairness

-----------------------------------------------------------------------------
(* Properties *)

AcceptedOnce(d) == \A m, n \in accepted[d] : m = n

\* Retries, expired leases, crashes, resends and replicas that come back late
\* notwithstanding, an SMTP server accepts at most one message of a delivery:
\* what may have been sent is UNKNOWN, and nothing leaves UNKNOWN.
EmailAcceptedOnce == \A d \in Email : AcceptedOnce(d)

\* A committed attempt that FAILED, or whose outcome is UNKNOWN, has been
\* announced to the inspection, whichever transaction ended it.
TerminalAnnounced ==
    \A d \in Tracked : attempt[d] \in {"FAILED", "UNKNOWN"} => <<d, attempt[d]>> \in announced

\* The link an execution needs is there until it has been rendered for the last
\* time: no outcome, cancellation or late replica deletes it while a retry waits.
RetryKeepsLink ==
    \A d \in Sealed : attempt[d] = "QUEUED" => secret[d]

\* A status that only a provider can report is backed by a recorded callback
\* for the very receipt that is stored, of a message the provider accepted.
ReportedIsProven ==
    \A d \in Deliveries : attempt[d] \in {"SENT", "DELIVERED"} =>
        /\ [delivery |-> d, receipt |-> receipt[d], status |-> attempt[d]] \in recorded
        /\ receipt[d] \in accepted[d]

\* However many webhooks race each other: the lifecycle is left by nothing but the
\* unlocked update of a webhook, and that only moves what has settled to what a
\* provider reported; it never has a message executed again.
OnlyWebhooksRegress ==
    [][\A d \in Deliveries :
          attempt[d] # "ABSENT" /\ ~CanTransition(attempt[d], attempt'[d]) =>
            /\ \E h \in Handlers : WriteStatus(h) /\ request[h].callback.delivery = d
            /\ ~Open(d) /\ ~Open(d)']_vars

\* Every requested notification leaves the queue and its executor in the end.
DeliverySettles == \A d \in Deliveries : Open(d) ~> ~Open(d)

(* What the properties rest on: with TypeOK an inductive invariant            *)
(* (NotificationDeliveryProofs).                                               *)

Holds(r, d) == job[r] # None /\ job[r][1] = d

\* A delivery is executed by one replica at a time, and is not queued then.
ReservedOnce ==
    /\ \A r \in Replicas : job[r] = None <=> step[r] = "idle"
    /\ \A r, s \in Replicas, d \in Deliveries : Holds(r, d) /\ Holds(s, d) => r = s
    /\ \A r \in Replicas, d \in Deliveries :
          Holds(r, d) => attempt[d] \notin {"ABSENT", "QUEUED"}

\* What is queued, or held and not yet sent, no SMTP server has accepted; nor
\* has it when the adapter says that the failure came before the message.
NotYetAccepted ==
    /\ \A d \in Email : attempt[d] \in {"ABSENT", "QUEUED"} => accepted[d] = {}
    /\ \A r \in Replicas, d \in Email :
          /\ Holds(r, d)
          /\ step[r] \in {"reserved", "ready"}
                \/ (step[r] = "answered" /\ answer[r] = "transient")
          => accepted[d] = {}

NoEmailCallbacks ==
    \A h \in Handlers : request[h] # None => request[h].callback.delivery \notin Email

\* What has been rendered had its link, and keeps it for a retry.
RenderedWithLink ==
    \A r \in Replicas, d \in Sealed :
        /\ Holds(r, d) /\ attempt[d] = "PROCESSING"
        /\ step[r] = "ready" \/ (step[r] = "answered" /\ answer[r] = "transient")
        => secret[d]

\* A delivery is shown as failed or unknown only when that has been announced.
AggregateAnnounced ==
    \A d \in Tracked : delivery[d] \in {"FAILED", "UNKNOWN"} => <<d, delivery[d]>> \in announced

\* An attempt that a receipt has been stored for is never queued again.
ReceiptIsFinal ==
    /\ \A d \in Deliveries : receipt[d] # 0 => attempt[d] \notin {"ABSENT", "QUEUED", "PROCESSING"}
    /\ \A h \in Handlers : request[h] # None =>
          /\ request[h].status \notin {"QUEUED", "PROCESSING"}
          /\ request[h].step # "commit" => receipt[request[h].callback.delivery] # 0

\* An execution that was answered well has been accepted.
AnswerAccepted ==
    \A r \in Replicas :
        step[r] = "answered" /\ answer[r] = "ok" =>
          /\ job[r] # None
          /\ job[r][2] \in accepted[job[r][1]]

\* Between its reads and its write a webhook holds a callback for the receipt that
\* is stored, and the status it has computed is one that a provider has reported.
ReportInHand ==
    \A h \in Handlers : request[h] # None /\ request[h].step \in {"correlate", "write"} =>
        LET c == request[h].callback
        IN  /\ c.receipt = receipt[c.delivery] /\ c.receipt \in accepted[c.delivery]
            /\ request[h].status \in {"SENT", "DELIVERED"} =>
                 [delivery |-> c.delivery, receipt |-> c.receipt, status |-> request[h].status]
                   \in recorded \union {c}

IInv == /\ TypeOK /\ EmailAcceptedOnce /\ TerminalAnnounced /\ RetryKeepsLink
        /\ ReservedOnce /\ NotYetAccepted /\ NoEmailCallbacks /\ RenderedWithLink
        /\ AggregateAnnounced /\ ReceiptIsFinal

(* What the code says, and a run refutes. *)

\* core/state.go:4: "Terminal states never regress or restart implicitly."
TerminalStays ==
    [][\A d \in Deliveries : attempt[d] \in Final => attempt'[d] = attempt[d]]_vars
====

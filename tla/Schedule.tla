---- MODULE Schedule ----
(***************************************************************************)
(* The recurring schedules of one tenant: scheduler replicas read what is     *)
(* due, create an inspection for each due instant, record it and move the     *)
(* schedule on; managers edit and cancel schedules meanwhile.                 *)
(*                                                                            *)
(* Reading what is due, looking for an occurrence, creating it and recording  *)
(* it are transactions of their own, and nothing is locked between them.      *)
(* Instants are numbers.  A recurrence rule is a set of pairs: an instant     *)
(* that the rule yields, and the one that is made of its date at the clock    *)
(* of the schedule's start.  They differ when the rule names an hour of its   *)
(* own, and when the clock is changed over the hour.                          *)
(***************************************************************************)
EXTENDS Integers

CONSTANTS Schedules,    \* schedules of the tenant
          Replicas,     \* scheduler processes
          Rules,        \* the recurrence rules each may have
          Troubles,     \* what may keep each schedule's occurrence from being created
          Managed,      \* bound: the schedules that managers edit or cancel
          MaxDay,       \* bound: the last instant
          MaxFaults,    \* bound: processes that die and statements that fail
          MaxEdits,     \* bound: edits of schedules
          None          \* not an item, not an edit

ASSUME ScheduleAssumption ==
    /\ Rules \in [Schedules -> SUBSET SUBSET (Nat \X Nat)]
    /\ Managed \subseteq Schedules
    /\ Troubles \in [Schedules -> SUBSET {"origin", "refused"}]
    /\ MaxDay \in Nat /\ MaxFaults \in Nat /\ MaxEdits \in Nat

VARIABLES
    status,       \* status of each schedule
    due,          \* next_due_at
    version,      \* its optimistic version
    rule,         \* r_rule with its timezone and start
    blocked,      \* blocked_reason, and whether its backoff goes on
    trouble,      \* what the prerequisites of its occurrences lack
    inspections,  \* inspections created: schedule, due instant, replica
    recorded,     \* occurrence_materializations: schedule, due instant
    stage,        \* what each replica does next
    batch,        \* the due schedules it has read and not begun
    hand,         \* the one it works on
    edit,         \* an edit that has read its schedule
    today, faults, edits

scheduleVars == <<status, due, version, rule, blocked>>
occurrenceVars == <<inspections, recorded>>
replicaVars == <<stage, batch, hand>>
boundVars == <<today, faults, edits>>
vars == <<scheduleVars, trouble, occurrenceVars, replicaVars, edit, boundVars>>

OfItsRules(x) == x.rule \in Rules[x.schedule]
Items == {b \in [schedule : Schedules, due : Nat, rule : SUBSET (Nat \X Nat)] : OfItsRules(b)}
Edits == {e \in [schedule : Schedules, version : Nat, due : Nat, rule : SUBSET (Nat \X Nat)] : OfItsRules(e)}
Occurrences == Schedules \X Nat

TypeOK ==
    /\ status \in [Schedules -> {"ACTIVE", "CANCELED"}]
    /\ due \in [Schedules -> Nat] /\ version \in [Schedules -> Nat]
    /\ rule \in [Schedules -> SUBSET (Nat \X Nat)] /\ \A s \in Schedules : rule[s] \in Rules[s]
    /\ blocked \in [Schedules -> {"no", "waiting", "retry"}]
    /\ trouble \in [Schedules -> {"none", "origin", "refused"}]
    /\ inspections \subseteq Schedules \X Nat \X Replicas
    /\ recorded \subseteq Occurrences
    /\ stage \in [Replicas -> {"idle", "next", "block", "insert", "record"}]
    /\ batch \in [Replicas -> SUBSET Items]
    /\ hand \in [Replicas -> Items \union {None}]
    /\ \A r \in Replicas : stage[r] \in {"block", "insert", "record"} => hand[r] \in Items
    /\ edit \in Edits \union {None}
    /\ today \in Nat /\ faults \in Nat /\ edits \in Nat

\* The rule yields p[1] as its first instant after d: the next one is p[2].
IsNext(q, d, p) == p \in q /\ p[1] > d /\ \A o \in q : o[1] > d => p[1] <= o[1]

\* The instant may be made earlier than the rule has it, so that the "next" one after
\* it is the same again.
Late(q) == \E p \in q : p[2] < p[1]

Punctual == {s \in Schedules : \A q \in Rules[s] : ~Late(q)}

\* Every schedule has just been created.
Init ==
    /\ status = [s \in Schedules |-> "ACTIVE"]
    /\ rule \in {q \in [Schedules -> UNION {Rules[s] : s \in Schedules}] :
                   \A s \in Schedules : q[s] \in Rules[s]}
    /\ due \in [Schedules -> 0..MaxDay]
    /\ \A s \in Schedules : \E p \in rule[s] : IsNext(rule[s], 0, p) /\ due[s] = p[2]
    /\ version = [s \in Schedules |-> 1] /\ blocked = [s \in Schedules |-> "no"]
    /\ trouble = [s \in Schedules |-> "none"]
    /\ inspections = {} /\ recorded = {}
    /\ stage = [r \in Replicas |-> "idle"] /\ batch = [r \in Replicas |-> {}]
    /\ hand = [r \in Replicas |-> None] /\ edit = None
    /\ today = 0 /\ faults = 0 /\ edits = 0

-----------------------------------------------------------------------------
(* Materialization: MaterializeDue *)

Due(s) == status[s] = "ACTIVE" /\ due[s] <= today /\ blocked[s] # "waiting"

Created(s, d) == \E r \in Replicas : <<s, d, r>> \in inspections

ReadDue(r) ==
    /\ stage[r] = "idle" /\ \E s \in Schedules : Due(s)
    /\ batch' = [batch EXCEPT ![r] =
          {[schedule |-> s, due |-> due[s], rule |-> rule[s]] : s \in {s \in Schedules : Due(s)}}]
    /\ stage' = [stage EXCEPT ![r] = "next"]
    /\ UNCHANGED <<scheduleVars, trouble, occurrenceVars, hand, edit, boundVars>>

\* An error ends the pass: the rest of what was read is left for the next one.
GiveUp(r) ==
    /\ stage' = [stage EXCEPT ![r] = "idle"]
    /\ batch' = [batch EXCEPT ![r] = {}]
    /\ hand' = [hand EXCEPT ![r] = None]

\* The loop goes on with the next schedule, or ends.
GoOn(r) ==
    /\ stage' = [stage EXCEPT ![r] = IF batch[r] = {} THEN "idle" ELSE "next"]
    /\ hand' = [hand EXCEPT ![r] = None]
    /\ UNCHANGED batch

\* The oldest schedule's occurrence: its prerequisites are read, then the
\* inspection is looked for under its source key.
Take(r, b, next) ==
    /\ stage[r] = "next" /\ b \in batch[r] /\ \A c \in batch[r] : b.due <= c.due
    /\ batch' = [batch EXCEPT ![r] = @ \ {b}]
    /\ hand' = [hand EXCEPT ![r] = b]
    /\ stage' = [stage EXCEPT ![r] = next]

Look(r, b) ==
    /\ trouble[b.schedule] = "none"
    /\ Take(r, b, IF Created(b.schedule, b.due) THEN "record" ELSE "insert")
    /\ UNCHANGED <<scheduleVars, trouble, occurrenceVars, edit, boundVars>>

OriginUnavailable(r, b) ==
    /\ trouble[b.schedule] = "origin"
    /\ Take(r, b, "block")
    /\ UNCHANGED <<scheduleVars, trouble, occurrenceVars, edit, boundVars>>

\* The asset is archived, the participant is inactive: any other error.
Refused(r, b) ==
    /\ trouble[b.schedule] = "refused"
    /\ stage[r] = "next" /\ b \in batch[r] /\ \A c \in batch[r] : b.due <= c.due
    /\ GiveUp(r)
    /\ UNCHANGED <<scheduleVars, trouble, occurrenceVars, edit, boundVars>>

\* Mutant: an unavailable origin is an error like any other.
FailBlock(r) ==
    /\ stage[r] = "block"
    /\ GiveUp(r)
    /\ UNCHANGED <<scheduleVars, trouble, occurrenceVars, edit, boundVars>>

Block(r) ==
    /\ stage[r] = "block"
    /\ blocked' = [blocked EXCEPT ![hand[r].schedule] = IF due[hand[r].schedule] = hand[r].due THEN "waiting" ELSE @]
    /\ GoOn(r)
    /\ UNCHANGED <<status, due, version, rule, trouble, occurrenceVars, edit, boundVars>>

\* Mutant: no unique index on the source key.
InsertAgain(r) ==
    /\ stage[r] = "insert"
    /\ inspections' = inspections \union {<<hand[r].schedule, hand[r].due, r>>}
    /\ stage' = [stage EXCEPT ![r] = "record"]
    /\ UNCHANGED <<scheduleVars, trouble, recorded, batch, hand, edit, boundVars>>

\* The unique source key admits one inspection; the loser's pass ends.
Insert(r) ==
    /\ stage[r] = "insert"
    /\ \/ /\ ~Created(hand[r].schedule, hand[r].due)
          /\ inspections' = inspections \union {<<hand[r].schedule, hand[r].due, r>>}
          /\ stage' = [stage EXCEPT ![r] = "record"]
          /\ UNCHANGED <<batch, hand>>
       \/ /\ Created(hand[r].schedule, hand[r].due)
          /\ GiveUp(r)
          /\ UNCHANGED inspections
    /\ UNCHANGED <<scheduleVars, trouble, recorded, edit, boundVars>>

Exhausted(b) == \A p \in b.rule : p[1] <= b.due

\* Mutant: the schedule is moved on from wherever it is.
Advances(s, d) == TRUE

StillDue(s, d) == due[s] = d

\* The occurrence is recorded, and the schedule moves to the next instant, unless it
\* has moved already.  With a late rule that may be the same instant, which every
\* later pass then finds recorded.
Record(r) ==
    /\ stage[r] = "record" /\ ~Exhausted(hand[r])
    /\ LET s == hand[r].schedule
           d == hand[r].due
       IN /\ <<s, d>> \notin recorded
          /\ recorded' = recorded \union {<<s, d>>}
          /\ \/ /\ StillDue(s, d)
                /\ \E p \in hand[r].rule :
                      /\ IsNext(hand[r].rule, d, p)
                      /\ due' = [due EXCEPT ![s] = p[2]]
                /\ blocked' = [blocked EXCEPT ![s] = "no"]
                /\ version' = [version EXCEPT ![s] = @ + 1]
             \/ ~StillDue(s, d) /\ UNCHANGED <<due, blocked, version>>
    /\ GoOn(r)
    /\ UNCHANGED <<status, rule, trouble, inspections, edit, boundVars>>

\* The rule has no next instant, or the row is there: the transaction is aborted.
RecordFails(r) ==
    /\ stage[r] = "record"
    /\ Exhausted(hand[r]) \/ <<hand[r].schedule, hand[r].due>> \in recorded
    /\ GiveUp(r)
    /\ UNCHANGED <<scheduleVars, trouble, occurrenceVars, edit, boundVars>>

\* The process dies, or a statement fails.
Crash(r) ==
    /\ stage[r] # "idle" /\ faults < MaxFaults
    /\ faults' = faults + 1
    /\ GiveUp(r)
    /\ UNCHANGED <<scheduleVars, trouble, occurrenceVars, edit, today, edits>>

-----------------------------------------------------------------------------
(* Managers: Update, Cancel *)

\* The next due instant of an edited schedule is computed from what was read: after
\* today, or not before what is due.  A late rule may give an earlier one.
ReadEdit(s) ==
    /\ edit = None /\ edits < MaxEdits /\ status[s] = "ACTIVE"
    /\ \E q \in Rules[s] : \E p \in q :
          /\ IsNext(q, IF due[s] > today THEN due[s] - 1 ELSE today, p)
          /\ edit' = [schedule |-> s, version |-> version[s], due |-> p[2], rule |-> q]
    /\ edits' = edits + 1
    /\ UNCHANGED <<scheduleVars, trouble, occurrenceVars, replicaVars, today, faults>>

\* Mutant: the version is not checked.
AnyVersion(s) == status[s] = "ACTIVE"

\* WHERE version = ... AND status = 'ACTIVE', in the statement itself.
SameVersion(s) == version[s] = edit.version /\ status[s] = "ACTIVE"

WriteEdit ==
    /\ edit # None
    /\ LET s == edit.schedule IN
       \/ /\ SameVersion(s)
          /\ due' = [due EXCEPT ![s] = edit.due] /\ rule' = [rule EXCEPT ![s] = edit.rule]
          /\ version' = [version EXCEPT ![s] = @ + 1]
          /\ blocked' = [blocked EXCEPT ![s] = IF @ = "no" THEN "no" ELSE "waiting"]
       \/ /\ ~SameVersion(s)
          /\ UNCHANGED <<due, rule, version, blocked>>
    /\ edit' = None
    /\ UNCHANGED <<status, trouble, occurrenceVars, replicaVars, boundVars>>

Cancel(s) ==
    /\ status[s] = "ACTIVE"
    /\ status' = [status EXCEPT ![s] = "CANCELED"]
    /\ version' = [version EXCEPT ![s] = @ + 1]
    /\ UNCHANGED <<due, rule, blocked, trouble, occurrenceVars, replicaVars, edit, boundVars>>

-----------------------------------------------------------------------------
(* The environment *)

\* An origin is retired or activated, an asset archived, a participant deactivated.
TroubleChanges(s) ==
    /\ \E t \in ({"none"} \union Troubles[s]) \ {trouble[s]} : trouble' = [trouble EXCEPT ![s] = t]
    /\ UNCHANGED <<scheduleVars, occurrenceVars, replicaVars, edit, boundVars>>

BackoffEnds(s) ==
    /\ blocked[s] = "waiting"
    /\ blocked' = [blocked EXCEPT ![s] = "retry"]
    /\ UNCHANGED <<status, due, version, rule, trouble, occurrenceVars, replicaVars, edit, boundVars>>

Tomorrow ==
    /\ today < MaxDay
    /\ today' = today + 1
    /\ UNCHANGED <<scheduleVars, trouble, occurrenceVars, replicaVars, edit, faults, edits>>

-----------------------------------------------------------------------------

Materialize(r) ==
    \/ ReadDue(r) \/ Block(r) \/ Insert(r) \/ Record(r) \/ RecordFails(r)
    \/ \E b \in batch[r] : Look(r, b) \/ OriginUnavailable(r, b) \/ Refused(r, b)

Next ==
    \/ \E r \in Replicas : Materialize(r) \/ Crash(r)
    \/ \E s \in Managed : ReadEdit(s) \/ Cancel(s)
    \/ \E s \in Schedules : TroubleChanges(s) \/ BackoffEnds(s)
    \/ WriteEdit \/ Tomorrow

Spec == Init /\ [][Next]_vars

\* Each replica's ticker goes on, and so does the clock of a backoff.
Fairness ==
    /\ \A r \in Replicas : WF_vars(Materialize(r))
    /\ \A s \in Schedules : WF_vars(BackoffEnds(s))

FairSpec == Spec /\ Fairness

-----------------------------------------------------------------------------
(* Properties *)

\* "The same due occurrence is processed twice: one inspection is created",
\* although replicas read the same schedules and nothing is locked while they
\* create.
OneInspection ==
    \A x, y \in inspections : x[1] = y[1] /\ x[2] = y[2] => x = y

\* The update of a manager's edit of s is this step.
EditWritten(s) == edit # None /\ edit.schedule = s /\ edit' = None

\* "Next occurrence is calculated before current creation commits: no time is
\* skipped or duplicated": a schedule leaves an instant when that has its inspection
\* or by the update of a manager's edit, however late a replica records its
\* occurrence or an edit is written, and it never comes back to one, unless it has a
\* late rule (recurrence.go:60).
NothingSkipped ==
    [][\A s \in Schedules : due'[s] # due[s] =>
          /\ Created(s, due[s]) \/ EditWritten(s)
          /\ s \in Punctual => due'[s] > due[s]]_vars

Waits(s) == status[s] = "ACTIVE" /\ due[s] <= today /\ trouble[s] = "none"

\* What ends every pass that comes to s: a refusal, no instant after this one, or one
\* that is recorded and still the next.
Stops(s) ==
    /\ status[s] = "ACTIVE" /\ due[s] <= today
    /\ \/ trouble[s] = "refused"
       \/ \A p \in rule[s] : p[1] <= due[s]
       \/ <<s, due[s]>> \in recorded

\* A schedule that is due and lacks nothing moves on, or is canceled, as long as
\* no schedule stops the passes: one without an origin keeps no other waiting,
\* and neither does a replica that died half way.
DueCreated ==
    \A s \in Schedules : []<>(~Waits(s) \/ \E q \in Schedules : Stops(q))

\* "Many schedules become due together: every eligible occurrence is eventually
\* created once": whatever the others lack.
EveryoneServed ==
    \A s \in Schedules : []<>(~Waits(s) \/ Stops(s))
-----------------------------------------------------------------------------
(* The schedules as recurring work                                            *)

Recurring == INSTANCE RecurringWork WITH
    Workers <- Replicas,
    active <- [s \in Schedules |-> status[s] = "ACTIVE"],
    at <- due, done <- inspections, noted <- recorded, now <- today

\* However replicas, edits and cancellations interleave: an inspection is created
\* once and never before its instant, and each is recorded once, by whoever moves the
\* schedule on or comes too late to; and the schedules without a late rule go forward
\* only, with no inspection for an instant they have yet to reach.
ImplementsRecurring == Recurring!RSpec

(* What the refinement rests on, with the invariant of ScheduleProofs.         *)

\* What a replica has read, however long ago, has come, and its schedule is there
\* or further, when none of its rules is late.
Reached(b) == b.due <= today /\ (b.schedule \in Punctual => b.due <= due[b.schedule])

NothingAhead ==
    \A r \in Replicas :
        /\ \A b \in batch[r] : Reached(b)
        /\ stage[r] \in {"block", "insert", "record"} => Reached(hand[r])
====

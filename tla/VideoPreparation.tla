---- MODULE VideoPreparation ----
(***************************************************************************)
(* The preparation job of one h264 recording: claimed by one of several     *)
(* worker processes under a lease that a heartbeat renews, screened for     *)
(* sensitive content, cut into frames that are stored one by one, described *)
(* by a model and sealed as READY.  Uploads, deletions and the model's call  *)
(* happen outside transactions; every attempt starts by deleting what an    *)
(* earlier one stored and did not commit.                                    *)
(*                                                                          *)
(* A lease token is fresh for every reservation, so "the token matches" is   *)
(* "this worker is the holder".  A worker that outlives its lease spends one  *)
(* unit of MaxStalls; everything else that goes wrong one of MaxFaults.      *)
(***************************************************************************)
EXTENDS Integers, FiniteSets

CONSTANTS Workers,      \* video worker processes, one preparation at a time each
          NumFrames,    \* frames the selection retains, in the order it stores them
          MaxAttempts,  \* reservations until a transient failure is final (4)
          MaxFaults,    \* bound: crashes and failed attempts
          MaxStalls,    \* bound: leases that expire under a living holder
          MaxRetries,   \* bound: requests of an operator to prepare again
          None          \* not a worker

ASSUME VideoBounds ==
    /\ NumFrames \in Nat \ {0} /\ MaxAttempts \in Nat \ {0}
    /\ MaxFaults \in Nat /\ MaxStalls \in Nat /\ MaxRetries \in Nat
    /\ None \notin Workers

Frames == 1..NumFrames

Phases == {"RECEIVED", "SCREENING", "EXTRACTING", "DISCOVERING", "FRAME_BANK_READY", "READY"}

Stages == {"idle", "reserved", "orphans", "delete", "probe", "screen", "persist",
           "blocked", "extract", "frame", "record", "put", "verify", "commit",
           "bank", "discover", "seal"}

VARIABLES
    status,      \* status of the job
    phase,       \* its last checkpoint
    attempts,    \* reservations since the job was (re)queued
    holder,      \* the worker whose token is in lease_token
    expired,     \* lease_expires_at has passed
    pending,     \* pending_object_keys
    rows,        \* committed video_frames
    objects,     \* frame objects in the store
    anchored,    \* first_frame_ready_at is set (and the job's first_ready_at)
    screening,   \* screening_status of the source
    overridden,  \* a person has declared a detection a false positive
    media,       \* status of the recording
    announced,   \* types of the job's events in the outbox
    stage,       \* what each worker does next
    next,        \* the frame it works on
    keys,        \* the keys it has read: to delete, or to write back
    verdict,     \* the screening it has read or computed
    faults, stalls, retries

jobVars == <<status, phase, attempts, holder, expired>>
frameVars == <<pending, rows, objects, anchored>>
screenVars == <<screening, overridden>>
sourceVars == <<screenVars, media>>
localVars == <<stage, next, keys, verdict>>
budgetVars == <<faults, stalls, retries>>
vars == <<jobVars, frameVars, sourceVars, announced, localVars, budgetVars>>

TypeOK ==
    /\ status \in {"QUEUED", "PROCESSING", "READY", "FAILED"}
    /\ phase \in Phases
    /\ attempts \in Nat
    /\ holder \in Workers \union {None}
    /\ expired \in BOOLEAN /\ anchored \in BOOLEAN /\ overridden \in BOOLEAN
    /\ pending \subseteq Frames /\ rows \subseteq Frames /\ objects \subseteq Frames
    /\ screening \in {"ABSENT", "PENDING", "APPROVED", "BLOCKED"}
    /\ media \in {"RECEIVED", "SCREENED", "READY", "ABORTED"}
    /\ announced \subseteq {"prepared", "inventory"}
    /\ stage \in [Workers -> Stages]
    /\ next \in [Workers -> 1..(NumFrames + 1)]
    /\ keys \in [Workers -> SUBSET Frames]
    /\ verdict \in [Workers -> {"ABSENT", "PENDING", "APPROVED", "BLOCKED"}]
    /\ faults \in 0..MaxFaults /\ stalls \in 0..MaxStalls /\ retries \in 0..MaxRetries

Init ==
    /\ status = "QUEUED" /\ phase = "RECEIVED" /\ attempts = 0
    /\ holder = None /\ expired = FALSE
    /\ pending = {} /\ rows = {} /\ objects = {} /\ anchored = FALSE
    /\ screening = "ABSENT" /\ overridden = FALSE
    /\ media = "RECEIVED" /\ announced = {}
    /\ stage = [w \in Workers |-> "idle"]
    /\ next = [w \in Workers |-> 1]
    /\ keys = [w \in Workers |-> {}]
    /\ verdict = [w \in Workers |-> "ABSENT"]
    /\ faults = 0 /\ stalls = 0 /\ retries = 0

Fault == faults < MaxFaults /\ faults' = faults + 1 /\ UNCHANGED <<stalls, retries>>

\* w's attempt goes on with step s.
GoesTo(w, s) == stage' = [stage EXCEPT ![w] = s]

\* w's attempt is over; what it knew is gone.
Ends(w) ==
    /\ stage' = [stage EXCEPT ![w] = "idle"]
    /\ next' = [next EXCEPT ![w] = 1]
    /\ keys' = [keys EXCEPT ![w] = {}]
    /\ verdict' = [verdict EXCEPT ![w] = "ABSENT"]

\* WHERE status = 'PROCESSING' AND lease_token = <w's token>.
Fenced(w) == status = "PROCESSING" /\ holder = w

-----------------------------------------------------------------------------
(* The lease *)

\* Mutant: only queued jobs are claimed.
ClaimableQueued == status = "QUEUED"

Claimable == status = "QUEUED" \/ (status = "PROCESSING" /\ expired)

Reserve(w) ==
    /\ stage[w] = "idle" /\ Claimable
    /\ status' = "PROCESSING" /\ attempts' = attempts + 1
    /\ holder' = w /\ expired' = FALSE
    /\ GoesTo(w, "reserved")
    /\ UNCHANGED <<phase, frameVars, sourceVars, announced, next, keys, verdict, budgetVars>>

\* The lease runs out: at once when nobody renews it, and under a living holder
\* only when its process stands still or is cut off for two minutes.
LeaseExpires ==
    /\ status = "PROCESSING" /\ ~expired
    /\ expired' = TRUE
    /\ IF holder # None
         THEN stalls < MaxStalls /\ stalls' = stalls + 1
         ELSE UNCHANGED stalls
    /\ UNCHANGED <<status, phase, attempts, holder, frameVars, sourceVars, announced,
                   localVars, faults, retries>>

\* A heartbeat renews the lease, also one that has expired, while nobody else
\* has claimed the job.
Heartbeat(w) ==
    /\ Fenced(w) /\ expired
    /\ expired' = FALSE
    /\ UNCHANGED <<status, phase, attempts, holder, frameVars, sourceVars, announced,
                   localVars, budgetVars>>

\* The heartbeat, or a fenced statement, finds the token gone.  The failure that
\* is reported then finds no row either: "a newer fenced attempt owns the job".
LoseLease(w) ==
    /\ stage[w] # "idle" /\ ~Fenced(w)
    /\ Ends(w)
    /\ UNCHANGED <<jobVars, frameVars, sourceVars, announced, budgetVars>>

\* The process dies; the job stays PROCESSING under a token nobody has.
Crash(w) ==
    /\ stage[w] # "idle"
    /\ Fault
    /\ holder' = IF holder = w THEN None ELSE holder
    /\ Ends(w)
    /\ UNCHANGED <<status, phase, attempts, expired, frameVars, sourceVars, announced>>

\* Mutant: the failure is written by the id of the job.
FinishUnfenced(w, transient) ==
    /\ IF transient /\ attempts < MaxAttempts
         THEN status' = "QUEUED" /\ UNCHANGED announced
         ELSE status' = "FAILED" /\ announced' = announced \union {"inventory"}
    /\ holder' = None /\ expired' = FALSE
    /\ Ends(w)
    /\ UNCHANGED <<phase, attempts, frameVars, sourceVars>>

\* finishFailure: a transient code queues the job again until the attempts are
\* used up; otherwise the job is FAILED and the inventory is told.
Finish(w, transient) ==
    /\ Fenced(w)
    /\ IF transient /\ attempts < MaxAttempts
         THEN status' = "QUEUED" /\ UNCHANGED announced
         ELSE status' = "FAILED" /\ announced' = announced \union {"inventory"}
    /\ holder' = None /\ expired' = FALSE
    /\ Ends(w)
    /\ UNCHANGED <<phase, attempts, frameVars, sourceVars>>

\* Any step may fail: the provider, the database or the store for a moment, the
\* video or the model's answer for good.
Fail(w) ==
    /\ stage[w] \notin {"idle", "blocked"}
    /\ Fault
    /\ \E transient \in BOOLEAN : Finish(w, transient)

-----------------------------------------------------------------------------
(* prepare *)

\* Mutant: the checkpoint is looked for under another phase.
DiscoveringOnly == anchored /\ phase = "DISCOVERING"

\* The frame bank of an earlier attempt is complete.
BankCheckpoint ==
    \/ phase = "FRAME_BANK_READY"
    \/ anchored /\ phase \notin {"RECEIVED", "SCREENING", "EXTRACTING"}

\* The recording was aborted: it is not found, and the attempt fails.
MediaGone(w) ==
    /\ stage[w] = "reserved" /\ media = "ABORTED"
    /\ Finish(w, TRUE)
    /\ UNCHANGED budgetVars

Start(w) ==
    /\ stage[w] = "reserved" /\ media # "ABORTED"
    /\ verdict' = [verdict EXCEPT ![w] = screening]
    /\ GoesTo(w, IF BankCheckpoint /\ anchored /\ screening = "APPROVED" /\ rows # {}
                   THEN "discover" ELSE "orphans")
    /\ UNCHANGED <<jobVars, frameVars, sourceVars, announced, next, keys, budgetVars>>

Orphans == pending \ rows

ReadOrphans(w) ==
    /\ stage[w] = "orphans" /\ Fenced(w)
    /\ keys' = [keys EXCEPT ![w] = Orphans]
    /\ GoesTo(w, "delete")
    /\ UNCHANGED <<jobVars, frameVars, sourceVars, announced, next, verdict, budgetVars>>

\* Outside any transaction: nothing asks whether w still holds the lease.
DeleteOrphan(w) ==
    /\ stage[w] = "delete"
    /\ \E f \in keys[w] :
          /\ objects' = objects \ {f}
          /\ keys' = [keys EXCEPT ![w] = @ \ {f}]
    /\ UNCHANGED <<jobVars, pending, rows, anchored, sourceVars, announced,
                   stage, next, verdict, budgetVars>>

\* Mutant: the keys are forgotten before their objects are deleted.
ClearPendingFirst(w) ==
    /\ stage[w] = "delete" /\ Fenced(w)
    /\ pending' = {}
    /\ keys' = [keys EXCEPT ![w] = {}]
    /\ GoesTo(w, "probe")
    /\ UNCHANGED <<jobVars, rows, objects, anchored, sourceVars, announced,
                   next, verdict, budgetVars>>

ClearPending(w) ==
    /\ stage[w] = "delete" /\ keys[w] = {} /\ Fenced(w)
    /\ pending' = {}
    /\ GoesTo(w, "probe")
    /\ UNCHANGED <<jobVars, rows, objects, anchored, sourceVars, announced,
                   next, keys, verdict, budgetVars>>

\* Download, checksum and probe; persistProbe leaves an existing screening alone.
\* An approval is trusted only when a person gave it.
Probe(w) ==
    /\ stage[w] = "probe" /\ Fenced(w)
    /\ phase' = "SCREENING"
    /\ screening' = IF screening = "ABSENT" THEN "PENDING" ELSE screening
    /\ GoesTo(w, IF verdict[w] = "APPROVED" /\ overridden THEN "extract" ELSE "screen")
    /\ UNCHANGED <<status, attempts, holder, expired, frameVars, overridden, media,
                   announced, next, keys, verdict, budgetVars>>

\* persistScreening reads the token without a lock ...
Screen(w) ==
    /\ stage[w] = "screen" /\ Fenced(w)
    /\ \E v \in {"APPROVED", "BLOCKED"} : verdict' = [verdict EXCEPT ![w] = v]
    /\ GoesTo(w, "persist")
    /\ UNCHANGED <<jobVars, frameVars, sourceVars, announced, next, keys, budgetVars>>

\* ... and writes the source and the recording.
PersistScreening(w) ==
    /\ stage[w] = "persist"
    /\ screening' = verdict[w]
    /\ media' = IF verdict[w] = "BLOCKED" /\ media # "ABORTED" THEN "SCREENED" ELSE media
    /\ GoesTo(w, IF verdict[w] = "BLOCKED" THEN "blocked" ELSE "extract")
    /\ UNCHANGED <<jobVars, frameVars, overridden, announced, next, keys, verdict, budgetVars>>

\* SENSITIVE_CONTENT is final.
FinishBlocked(w) ==
    /\ stage[w] = "blocked"
    /\ Finish(w, FALSE)
    /\ UNCHANGED budgetVars

Extract(w) ==
    /\ stage[w] = "extract" /\ Fenced(w)
    /\ phase' = "EXTRACTING"
    /\ GoesTo(w, "frame")
    /\ UNCHANGED <<status, attempts, holder, expired, frameVars, sourceVars, announced,
                   next, keys, verdict, budgetVars>>

\* recordPendingKey, without a lock: it reads the keys under the token ...
ReadPending(w) ==
    /\ stage[w] = "frame" /\ next[w] \in Frames /\ Fenced(w)
    /\ keys' = [keys EXCEPT ![w] = pending]
    /\ GoesTo(w, IF next[w] \in pending THEN "put" ELSE "record")
    /\ UNCHANGED <<jobVars, frameVars, sourceVars, announced, next, verdict, budgetVars>>

\* ... and writes them back with its own by the id of the job.
WritePending(w) ==
    /\ stage[w] = "record"
    /\ pending' = keys[w] \union {next[w]}
    /\ GoesTo(w, "put")
    /\ UNCHANGED <<jobVars, rows, objects, anchored, sourceVars, announced,
                   next, keys, verdict, budgetVars>>

PutFrame(w) ==
    /\ stage[w] = "put"
    /\ objects' = objects \union {next[w]}
    /\ keys' = [keys EXCEPT ![w] = {}]
    /\ GoesTo(w, "verify")
    /\ UNCHANGED <<jobVars, pending, rows, anchored, sourceVars, announced,
                   next, verdict, budgetVars>>

\* verifyAndRecordFrame reads the object back ...
VerifyFrame(w) ==
    /\ stage[w] = "verify" /\ next[w] \in objects
    /\ GoesTo(w, "commit")
    /\ UNCHANGED <<jobVars, frameVars, sourceVars, announced, next, keys, verdict, budgetVars>>

\* ... and inserts its row under the job's lock.
RecordFrame(w) ==
    /\ stage[w] = "commit" /\ Fenced(w)
    /\ rows' = rows \union {next[w]}
    /\ next' = [next EXCEPT ![w] = @ + 1]
    /\ GoesTo(w, "frame")
    /\ UNCHANGED <<jobVars, pending, objects, anchored, sourceVars, announced,
                   keys, verdict, budgetVars>>

\* Mutant: the last frame is forgotten.
OnlyLastLeft(w) == next[w] >= NumFrames

AllStored(w) == next[w] = NumFrames + 1

Discovering(w) ==
    /\ stage[w] = "frame" /\ AllStored(w) /\ Fenced(w)
    /\ phase' = "DISCOVERING"
    /\ GoesTo(w, "bank")
    /\ UNCHANGED <<status, attempts, holder, expired, frameVars, sourceVars, announced,
                   next, keys, verdict, budgetVars>>

\* markFrameBankReady, under the lock of the source.
MarkFrameBankReady(w) ==
    /\ stage[w] = "bank" /\ Fenced(w) /\ screening = "APPROVED"
    /\ phase' = "FRAME_BANK_READY" /\ anchored' = TRUE
    /\ GoesTo(w, "discover")
    /\ UNCHANGED <<status, attempts, holder, expired, pending, rows, objects,
                   sourceVars, announced, next, keys, verdict, budgetVars>>

\* DiscoverScope opens the frames and calls the model.
Discover(w) ==
    /\ stage[w] = "discover" /\ rows \subseteq objects
    /\ GoesTo(w, "seal")
    /\ UNCHANGED <<jobVars, frameVars, sourceVars, announced, next, keys, verdict, budgetVars>>

\* The transaction that ends discoverAndSeal.
Seal(w) ==
    /\ stage[w] = "seal" /\ Fenced(w)
    /\ screening = "APPROVED" /\ anchored
    /\ status' = "READY" /\ phase' = "READY"
    /\ holder' = None /\ expired' = FALSE
    /\ pending' = {}
    /\ media' = IF media = "ABORTED" THEN media ELSE "READY"
    /\ announced' = announced \union {"prepared"}
    /\ Ends(w)
    /\ UNCHANGED <<attempts, rows, objects, anchored, screenVars, budgetVars>>

\* What a step looks for is not there: an object was deleted, or the source is
\* no longer approved.  PREPARATION_FAILED is transient.
Missing(w) ==
    \/ stage[w] = "verify" /\ next[w] \notin objects
    \/ stage[w] = "discover" /\ ~(rows \subseteq objects)
    \/ stage[w] \in {"bank", "seal"} /\ screening # "APPROVED"

NotFound(w) ==
    /\ Missing(w)
    /\ Finish(w, TRUE)
    /\ UNCHANGED budgetVars

-----------------------------------------------------------------------------
(* Operators, reviewers and the capture *)

\* RetryFailedPreparation.
Requeue ==
    /\ status = "FAILED"
    /\ retries < MaxRetries /\ retries' = retries + 1
    /\ status' = "QUEUED" /\ attempts' = 0
    /\ UNCHANGED <<phase, holder, expired, faults, stalls>>

RetryPreparation ==
    /\ screening # "BLOCKED"
    /\ Requeue
    /\ UNCHANGED <<frameVars, sourceVars, announced, localVars>>

\* DeclareFalsePositive: with an open capture it decides the source alone; after
\* the submission it resumes the preparation too, and fails while that runs.
DeclareFalsePositive ==
    /\ screening = "BLOCKED" /\ media = "SCREENED"
    /\ screening' = "APPROVED" /\ overridden' = TRUE
    /\ \/ UNCHANGED <<jobVars, budgetVars>>                  \* OPEN
       \/ Requeue                                            \* SUBMITTED
    /\ UNCHANGED <<frameVars, media, announced, localVars>>

\* Removing the environment, or replacing the clip, aborts the recording.
AbortMedia ==
    /\ media # "ABORTED"
    /\ media' = "ABORTED"
    /\ UNCHANGED <<jobVars, frameVars, screenVars, announced, localVars, budgetVars>>

-----------------------------------------------------------------------------

Attempt(w) ==
    \/ Reserve(w) \/ LoseLease(w) \/ MediaGone(w) \/ Start(w)
    \/ ReadOrphans(w) \/ DeleteOrphan(w) \/ ClearPending(w)
    \/ Probe(w) \/ Screen(w) \/ PersistScreening(w) \/ FinishBlocked(w) \/ Extract(w)
    \/ ReadPending(w) \/ WritePending(w) \/ PutFrame(w) \/ VerifyFrame(w) \/ RecordFrame(w)
    \/ Discovering(w) \/ MarkFrameBankReady(w) \/ Discover(w) \/ Seal(w) \/ NotFound(w)

Next ==
    \/ \E w \in Workers : Attempt(w) \/ Heartbeat(w) \/ Crash(w) \/ Fail(w)
    \/ LeaseExpires
    \/ RetryPreparation \/ DeclareFalsePositive \/ AbortMedia

Spec == Init /\ [][Next]_vars

\* Each process polls every two seconds and is restarted by its supervisor, and
\* a lease nobody renews runs out.
Fairness ==
    /\ \A w \in Workers : WF_vars(Attempt(w))
    /\ WF_vars(LeaseExpires)

FairSpec == Spec /\ Fairness

-----------------------------------------------------------------------------
(* Properties *)

\* "O token de fencing impede que o processo antigo publique um resultado
\* tardio": however late a worker that lost its lease comes back, a sealed
\* preparation is not queued, failed or sealed again, and keeps its frames.
SealedStays ==
    [][status = "READY" => status' = "READY" /\ rows' = rows]_vars

\* The frame bank is all or nothing, and nothing is sealed without it: an attempt
\* that resumes from the checkpoint of another finds every frame of the
\* selection committed.
BankComplete ==
    /\ anchored => rows = Frames
    /\ status = "READY" => anchored

\* Crashes and failed attempts at any point leave every committed frame in the
\* store (what an attempt deletes was not committed by an earlier one) and no
\* object that neither a row nor a durable record mentions, which nobody would
\* ever delete.  (A worker that outlives its lease can delete a frame of the next
\* holder.)
FramesAccounted ==
    stalls = 0 => rows \subseteq objects /\ objects \subseteq rows \union pending

\* Once the frame bank is ready no attempt screens, uploads or deletes again, as
\* long as no worker has outlived its lease: crashes and retries repeat the
\* discovery alone.  (The screening, the uploads and the deletions are not fenced:
\* a worker from before the bank that comes back late still does them.)
BankNotRedone ==
    [][stalls = 0 /\ anchored => UNCHANGED <<rows, objects, screening>>]_vars

\* However many workers die with it, a queued job is sealed or failed in the end.
JobSettles == status = "QUEUED" ~> status \in {"READY", "FAILED"}

-----------------------------------------------------------------------------
(* What the properties rest on, inductive together with TypeOK               *)
(* (VideoPreparationProofs).                                                  *)

\* A worker has committed the frames it has gone past.
GoesInOrder ==
    \A w \in Workers :
        /\ \A f \in Frames : f < next[w] => f \in rows
        /\ stage[w] \in {"record", "put", "verify", "commit"} => next[w] \in Frames
        /\ stage[w] = "bank" => AllStored(w)

FrameInv == TypeOK /\ GoesInOrder /\ BankComplete

\* Leases that expire only when nobody renews them leave one worker at a time.
SoleHolder ==
    /\ expired => holder = None
    /\ \A w \in Workers : stage[w] # "idle" => Fenced(w)

\* What the holder knows of the store is still so.
HolderKnows(w) ==
    /\ stage[w] = "delete" => keys[w] \cap rows = {} /\ objects \subseteq rows \union keys[w]
    /\ stage[w] = "record" => keys[w] = pending
    /\ stage[w] \in {"put", "verify", "commit"} => next[w] \in pending
    /\ stage[w] \in {"verify", "commit"} => next[w] \in objects

\* After the frame bank an attempt goes straight to the discovery.
BankRemembered ==
    anchored => /\ phase \in {"FRAME_BANK_READY", "READY"} /\ screening = "APPROVED"
                /\ \A w \in Workers : stage[w] \in {"idle", "reserved", "discover", "seal"}

StoreInv ==
    stalls = 0 => /\ SoleHolder /\ BankRemembered
                  /\ \A w \in Workers : HolderKnows(w)
                  /\ rows \subseteq objects /\ objects \subseteq rows \union pending

IInv == FrameInv /\ StoreInv
-----------------------------------------------------------------------------
(* The job as leased work                                                     *)

Progress ==
    CASE status = "QUEUED"     -> "waiting"
      [] status = "PROCESSING" -> "held"
      [] status = "READY"      -> "done"
      [] OTHER                 -> "failed"

\* The only job there is.
Preparation == "preparation"

Work == INSTANCE LeasedWork WITH
    Jobs <- {Preparation},
    state <- [j \in {Preparation} |-> Progress],
    owner <- [j \in {Preparation} |-> IF status = "PROCESSING" THEN holder ELSE None],
    lapsed <- [j \in {Preparation} |-> status = "PROCESSING" /\ expired],
    busy <- [w \in Workers |-> IF stage[w] = "idle" THEN None ELSE Preparation],
    told <- {p \in {Preparation} \X {"done", "failed"} :
               (IF p[2] = "done" THEN "prepared" ELSE "inventory") \in announced}

\* "O token de fencing impede que o processo antigo publique um resultado
\* tardio": the preparation is taken under a lease, sealed, failed or queued again
\* by nobody but the worker that has it, and announced with its end; a worker that
\* comes back late changes nothing of the job.
ImplementsWork == Work!LSpec
====

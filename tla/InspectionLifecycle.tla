---- MODULE InspectionLifecycle ----
(***************************************************************************)
(* One photo inspection, from its invitation to its classification: the       *)
(* responsible person is invited, answers and submits; managers cancel or       *)
(* invalidate it and ask for recaptures, each with a responsibility, a draft     *)
(* and a deadline of its own; workers compare what was submitted and classify    *)
(* the inspection.  The workers act on events of the outbox, which arrive late,  *)
(* in any order, and are given up when their handler keeps failing.              *)
(*                                                                            *)
(* A transaction is one step, except where a row is read without a lock or a     *)
(* lock is held while others work: closing an inspection, and classifying it.    *)
(* The inspection asks for one requirement, with one photo.                      *)
(***************************************************************************)
EXTENDS Integers, Sequences

CONSTANTS MaxRecaptures   \* recapture requests an inspection may have

ASSUME RecaptureBound == MaxRecaptures \in Nat

\* 0 is the responsibility of the inspection, i that of its i-th recapture
Captures == 0..MaxRecaptures
Recaptures == 1..MaxRecaptures

VARIABLES
    status,      \* status of the inspection
    version,     \* its optimistic version
    evidence,    \* evidence_count
    closing,     \* what a manager's request has validated, and the version it names
    resp,        \* status of each responsibility
    draft,       \* status of its capture draft
    answer,      \* the draft's answer to the requirement
    invitation,  \* status of its newest invitation; ENDED is COMPLETED or REVOKED
    late,        \* the captures whose deadline has passed
    request,     \* status of each recapture request
    jobs,        \* comparison jobs, in the order of created_at
    news,        \* the jobs updated since the last classification
    overlooked,  \* history: the jobs that ended while a classification that had not read them went on
    events,      \* outbox events not handled yet
    reading      \* classifications that hold the lock of the inspection: event, newest job

inspectionVars == <<status, version, evidence>>
captureVars == <<resp, draft, answer, invitation, request>>
analysisVars == <<jobs, news, overlooked, reading>>
vars == <<inspectionVars, closing, captureVars, late, analysisVars, events>>

Statuses == {"PLANNED", "INVITED", "ANALYZING", "RECAPTURE_PENDING", "COMPLETED", "CANCELED", "INVALIDATED"}
Closed == {"CANCELED", "INVALIDATED"}
\* COMPLETED stands for FAILED too: no handler below tells them apart.
Terminal == {"COMPLETED", "INCONCLUSIVE"}

Jobs == DOMAIN jobs
Latest == Len(jobs)

JobRecords == [draft : Captures, answer : {"impossible", "photo"}, status : Terminal \union {"PENDING"}, verdicts : Nat]

Messages == ({"created", "submitted", "corrected", "reanalyse", "deadline"} \X Captures) \union ({"compare", "compared"} \X (Nat \ {0}))

NotClosing == [target |-> "none", version |-> 0]

\* The variables range over the values the code gives them.
TypeOK ==
    /\ status \in Statuses /\ version \in Nat /\ evidence \in {0, 1}
    /\ closing \in [target : Closed, version : Nat] \union {NotClosing}
    /\ resp \in [Captures -> {"none", "PENDING", "ACCESSED", "SUBMITTED", "EXPIRED", "REVOKED", "CANCELED"}]
    /\ draft \in [Captures -> {"none", "OPEN", "SUBMITTED", "EXPIRED"}]
    /\ answer \in [Captures -> {"none", "impossible", "photo"}]
    /\ invitation \in [Captures -> {"none", "ACTIVE", "ENDED"}]
    /\ late \subseteq Captures
    /\ request \in [Recaptures -> {"none", "REQUESTED", "SUBMITTED", "EXPIRED"}]
    /\ jobs \in Seq(JobRecords) /\ news \subseteq Jobs /\ overlooked \subseteq Jobs
    /\ events \subseteq Messages
    /\ reading \subseteq Jobs \X Jobs

Init ==
    /\ status = "PLANNED" /\ version = 1 /\ evidence = 0
    /\ closing = NotClosing
    /\ resp = [i \in Captures |-> IF i = 0 THEN "PENDING" ELSE "none"]
    /\ draft = [i \in Captures |-> IF i = 0 THEN "OPEN" ELSE "none"]
    /\ answer = [i \in Captures |-> "none"]
    /\ invitation = [i \in Captures |-> "none"]
    /\ late = {}
    /\ request = [i \in Recaptures |-> "none"]
    /\ jobs = <<>> /\ news = {} /\ overlooked = {} /\ reading = {}
    /\ events = {<<"created", 0>>}

\* An update of the inspection waits for the classification that has locked it.
SetStatus(s) ==
    /\ reading = {}
    /\ status' = s
    /\ version' = version + 1

(***************************************************************************)
(* The invitation of the responsible person                                   *)
(***************************************************************************)
MarkInvited ==
    IF status = "PLANNED" THEN SetStatus("INVITED") ELSE UNCHANGED <<status, version>>

\* Mutant: the status of the responsibility is not looked at.
InvitedAnyway == TRUE

\* Nobody has used the invitation, and the inspection is not closed.
Awaited == resp[0] = "PENDING"

Invite ==
    /\ invitation' = [invitation EXCEPT ![0] = "ACTIVE"]
    /\ MarkInvited

\* The handler of inspection.created; without a channel the event is quarantined.
Dispatch ==
    /\ <<"created", 0>> \in events
    /\ events' = events \ {<<"created", 0>>}
    /\ \/ Awaited /\ Invite
       \/ /\ ~Awaited \/ invitation[0] # "ACTIVE"
          /\ UNCHANGED <<invitation, status, version>>
    /\ UNCHANGED <<evidence, closing, resp, draft, answer, request, late, analysisVars>>

\* A manager sends the link again while the inspection is in planning.
Resend ==
    /\ status \in {"PLANNED", "INVITED"} /\ 0 \notin late /\ Awaited
    /\ Invite
    /\ UNCHANGED <<evidence, closing, resp, draft, answer, request, late, analysisVars, events>>

\* A manager corrects the address and a new link goes there.
CorrectEmail ==
    /\ Awaited /\ 0 \notin late
    /\ Invite
    /\ UNCHANGED <<evidence, closing, resp, draft, answer, request, late, analysisVars, events>>

\* Whoever has the link gives it up.
Revoke(i) ==
    /\ invitation[i] = "ACTIVE"
    /\ invitation' = [invitation EXCEPT ![i] = "ENDED"]
    /\ UNCHANGED <<inspectionVars, closing, resp, draft, answer, request, late, analysisVars, events>>

\* The one-time code is right: first access of the responsible person.
VerifyOTP(i) ==
    /\ invitation[i] = "ACTIVE" /\ i \notin late
    /\ resp[i] = "PENDING"
    /\ resp' = [resp EXCEPT ![i] = "ACCESSED"]
    /\ UNCHANGED <<inspectionVars, closing, draft, answer, invitation, request, late, analysisVars, events>>

(***************************************************************************)
(* Capture                                                                    *)
(***************************************************************************)
\* A session was opened with the code, or can be, and its invitation still serves.
\* A session is checked before the transaction, so a deadline may pass between.
HasSession(i) == invitation[i] = "ACTIVE" /\ resp[i] # "PENDING"

SaveMetadata(i) ==
    /\ HasSession(i) /\ i \notin late
    /\ draft[i] = "OPEN" /\ answer[i] # "photo"
    /\ answer' = [answer EXCEPT ![i] = "photo"]
    /\ UNCHANGED <<inspectionVars, closing, resp, draft, invitation, request, late, analysisVars, events>>

\* Only the inspection's own requirement may be declared impossible.
DeclareImpossibility ==
    /\ HasSession(0) /\ 0 \notin late
    /\ draft[0] = "OPEN" /\ answer[0] = "none"
    /\ answer' = [answer EXCEPT ![0] = "impossible"]
    /\ UNCHANGED <<inspectionVars, closing, resp, draft, invitation, request, late, analysisVars, events>>

\* The inspection's own evidence is submitted, complete or knowingly incomplete.
SubmitInspection ==
    /\ HasSession(0) /\ draft[0] = "OPEN"
    /\ status = "INVITED"
    /\ SetStatus("ANALYZING")
    /\ evidence' = IF answer[0] = "photo" THEN 1 ELSE 0
    /\ draft' = [draft EXCEPT ![0] = "SUBMITTED"]
    /\ invitation' = [invitation EXCEPT ![0] = "ENDED"]
    /\ resp' = [resp EXCEPT ![0] = "SUBMITTED"]
    /\ events' = events \union {<<"submitted", 0>>}
    /\ UNCHANGED <<closing, answer, request, late, analysisVars>>

(***************************************************************************)
(* Recaptures                                                                 *)
(***************************************************************************)
Open(i) == request[i] = "REQUESTED"

\* A request while another is open only adds to the open one.
RequestRecapture(i) ==
    /\ status \in {"ANALYZING", "RECAPTURE_PENDING", "COMPLETED"}
    /\ \A k \in Recaptures : ~Open(k)
    /\ request[i] = "none" /\ \A k \in 1..(i - 1) : request[k] # "none"
    /\ IF status # "RECAPTURE_PENDING" THEN SetStatus("RECAPTURE_PENDING") ELSE reading = {} /\ UNCHANGED <<status, version>>
    /\ request' = [request EXCEPT ![i] = "REQUESTED"]
    /\ resp' = [resp EXCEPT ![i] = "PENDING"]
    /\ draft' = [draft EXCEPT ![i] = "OPEN"]
    /\ invitation' = [invitation EXCEPT ![i] = "ACTIVE"]
    /\ events' = events \union {<<"deadline", i>>}
    /\ UNCHANGED <<evidence, closing, answer, late, analysisVars>>

Ended(i) == {<<"corrected", i>>, <<"reanalyse", i>>}

\* FinalizeTx: refused once the inspection no longer waits for a recapture.
Finalizable(i) == Open(i) /\ status = "RECAPTURE_PENDING"

\* The correction is submitted before its deadline.
SubmitRecapture(i) ==
    /\ HasSession(i) /\ draft[i] = "OPEN"
    /\ i \notin late /\ answer[i] = "photo"
    /\ Finalizable(i)
    /\ SetStatus("ANALYZING")
    /\ request' = [request EXCEPT ![i] = "SUBMITTED"]
    /\ draft' = [draft EXCEPT ![i] = "SUBMITTED"]
    /\ invitation' = [invitation EXCEPT ![i] = "ENDED"]
    /\ resp' = [resp EXCEPT ![i] = "SUBMITTED"]
    /\ events' = events \union Ended(i)
    /\ UNCHANGED <<evidence, closing, answer, late, analysisVars>>

\* Mutant: the draft of the request that expires stays open.
ExpireRow(i) ==
    /\ i \in late /\ Finalizable(i) /\ SetStatus("ANALYZING")
    /\ request' = [request EXCEPT ![i] = "EXPIRED"]
    /\ invitation' = [invitation EXCEPT ![i] = IF @ = "ACTIVE" THEN "ENDED" ELSE @]
    /\ resp' = [resp EXCEPT ![i] = "EXPIRED"]
    /\ UNCHANGED <<evidence, closing, draft, answer, late, analysisVars>>

Expire(i) ==
    /\ i \in late
    /\ Finalizable(i)
    /\ SetStatus("ANALYZING")
    /\ request' = [request EXCEPT ![i] = "EXPIRED"]
    /\ draft' = [draft EXCEPT ![i] = IF @ = "OPEN" THEN "EXPIRED" ELSE @]
    /\ invitation' = [invitation EXCEPT ![i] = IF @ = "ACTIVE" THEN "ENDED" ELSE @]
    /\ resp' = [resp EXCEPT ![i] = "EXPIRED"]
    /\ UNCHANGED <<evidence, closing, answer, late, analysisVars>>

\* A manager finalizes a request whose deadline has passed.
ExpireRequest(i) ==
    /\ Expire(i)
    /\ events' = events \union Ended(i)

\* Mutant: the event of the deadline is not delayed.
DueAtOnce(i) == i \in Captures

\* The event of a deadline is published at the deadline.
Due(i) == i \in late

\* A request that has ended is left alone.
ProcessDeadline(i) ==
    /\ <<"deadline", i>> \in events /\ Due(i)
    /\ \/ /\ Expire(i)
          /\ events' = (events \ {<<"deadline", i>>}) \union Ended(i)
       \/ /\ ~Open(i)
          /\ events' = events \ {<<"deadline", i>>}
          /\ UNCHANGED <<inspectionVars, closing, captureVars, late, analysisVars>>

\* The deadline of the inspection concerns nobody after the submission.
DeadlinePasses(i) ==
    /\ draft[i] # "none" /\ i \notin late
    /\ i = 0 => draft[0] = "OPEN"
    /\ late' = late \union {i}
    /\ UNCHANGED <<inspectionVars, closing, captureVars, analysisVars, events>>

(***************************************************************************)
(* Cancelling and invalidating: the inspection is read and validated without   *)
(* a lock, then updated if it still has the version the manager saw.           *)
(***************************************************************************)
Valid(target) ==
    \/ target = "CANCELED" /\ evidence = 0 /\ status \in {"PLANNED", "INVITED"}
    \/ target = "INVALIDATED" /\ evidence > 0 /\ status \notin Closed

Validate(target) ==
    /\ closing = NotClosing
    /\ Valid(target)
    /\ closing' = [target |-> target, version |-> version]
    /\ UNCHANGED <<inspectionVars, captureVars, late, analysisVars, events>>

\* Mutant: the update does not name the version.
CheckedIsEnough == TRUE

Current == closing.version = version

Close ==
    /\ closing # NotClosing /\ Current
    /\ SetStatus(closing.target)
    /\ resp' = [i \in Captures |->
          IF resp[i] \in {"PENDING", "ACCESSED"}
          THEN IF closing.target = "CANCELED" THEN "CANCELED" ELSE "REVOKED"
          ELSE resp[i]]
    /\ closing' = NotClosing
    /\ UNCHANGED <<evidence, draft, answer, invitation, request, late, analysisVars, events>>

\* The version has moved, or the process dies between the two.
GiveUpClosing ==
    /\ closing # NotClosing
    /\ closing' = NotClosing
    /\ UNCHANGED <<inspectionVars, captureVars, late, analysisVars, events>>

(***************************************************************************)
(* Comparison and classification                                              *)
(***************************************************************************)
\* The newest draft of the inspection.
Newest(i) == draft[i] # "none" /\ \A k \in Captures : k > i => draft[k] = "none"

\* The draft whose answers an event has compared.
Compares(m, i) ==
    \/ m[1] = "submitted" /\ i = m[2]
    \/ m[1] \in {"corrected", "reanalyse"} /\ Newest(i)

Same(j, i) == jobs[j].draft = i /\ jobs[j].answer = answer[i]

\* Mutant: the work of a job that is born with its result is asked for.
FollowWithWork(j, s) == <<"compare", j>>

\* The event that follows a request to compare: a verdict, or the work.
Follow(j, s) == IF s = "INCONCLUSIVE" THEN <<"compared", j>> ELSE <<"compare", j>>

Unanswered(i) == answer[i] = "none"

\* Without an answer the event is quarantined.
RequestComparisons(m) ==
    /\ m \in events
    /\ \E i \in Captures :
         /\ Compares(m, i)
         /\ \/ /\ Unanswered(i)
               /\ events' = events \ {m}
               /\ UNCHANGED <<jobs, news>>
            \/ \E j \in Jobs :
                 /\ Same(j, i)
                 /\ events' = (events \ {m}) \union {Follow(j, jobs[j].status)}
                 /\ UNCHANGED <<jobs, news>>
            \/ /\ ~Unanswered(i) /\ \A j \in Jobs : ~Same(j, i)
               /\ LET s == IF answer[i] = "impossible" THEN "INCONCLUSIVE" ELSE "PENDING"
                  IN /\ jobs' = Append(jobs, [draft |-> i, answer |-> answer[i], status |-> s, verdicts |-> 0])
                     /\ news' = IF s = "INCONCLUSIVE" THEN news \union {Len(jobs) + 1} ELSE news
                     /\ events' = (events \ {m}) \union {Follow(Len(jobs) + 1, s)}
    /\ UNCHANGED <<inspectionVars, closing, captureVars, late, overlooked, reading>>

\* The model answers, or the attempts are exhausted.
ProcessComparison(j) ==
    /\ j \in Jobs /\ <<"compare", j>> \in events
    /\ \/ /\ jobs[j].status = "PENDING"
          /\ \E s \in Terminal : jobs' = [jobs EXCEPT ![j].status = s]
          /\ news' = news \union {j}
          /\ events' = (events \ {<<"compare", j>>}) \union {<<"compared", j>>}
       \/ /\ jobs[j].status # "PENDING"
          /\ events' = events \ {<<"compare", j>>}
          /\ UNCHANGED <<jobs, news>>
    /\ UNCHANGED <<inspectionVars, closing, captureVars, late, overlooked, reading>>

Judged == \E j \in Jobs : jobs[j].verdicts > 0

\* Mutant: the inspection is read without a lock.
FreeToAll == TRUE

Free == reading = {}

\* Mutant: an inspection is judged once.
NeedsFirst == jobs[Latest].status # "PENDING" /\ ~Judged

\* Nothing is judged again unless the job is newer than the last classification.
NeedsVerdict == jobs[Latest].status # "PENDING" /\ (Judged => Latest \in news)

\* A classification takes the lock and reads the newest job.
BeginClassify(j) ==
    /\ j \in Jobs /\ <<"compared", j>> \in events /\ Free
    /\ NeedsVerdict
    /\ events' = events \ {<<"compared", j>>}
    /\ reading' = reading \union {<<j, Latest>>}
    /\ UNCHANGED <<inspectionVars, closing, captureVars, late, jobs, news, overlooked>>

\* Nothing is newer than the last classification.
SkipClassify(j) ==
    /\ j \in Jobs /\ <<"compared", j>> \in events /\ Free
    /\ jobs[Latest].status # "PENDING" /\ ~NeedsVerdict
    /\ events' = events \ {<<"compared", j>>}
    /\ UNCHANGED <<inspectionVars, closing, captureVars, late, analysisVars>>

\* It writes its verdict and completes the inspection, whatever its status.  What
\* has ended since it read the jobs is not newer than its verdict.
Classify(r) ==
    /\ r \in reading
    /\ reading' = reading \ {r}
    /\ jobs' = [jobs EXCEPT ![r[2]].verdicts = @ + 1]
    /\ news' = {} /\ overlooked' = overlooked \union {j \in news : j > r[2]}
    /\ status' = "COMPLETED" /\ version' = version + 1
    /\ UNCHANGED <<evidence, closing, captureVars, late, events>>

\* The attempts of an event whose handler fails are exhausted: it is dead-lettered.
Exhaust(m) ==
    /\ m \in events
    /\ \/ m[1] = "compared" /\ jobs[Latest].status = "PENDING"
       \/ m[1] = "deadline" /\ Due(m[2]) /\ Open(m[2]) /\ (m[2] \notin late \/ ~Finalizable(m[2]))
    /\ events' = events \ {m}
    /\ UNCHANGED <<inspectionVars, closing, captureVars, late, analysisVars>>

Next ==
    \/ Dispatch \/ Resend \/ CorrectEmail
    \/ \E i \in Captures : Revoke(i) \/ VerifyOTP(i) \/ SaveMetadata(i) \/ DeadlinePasses(i)
    \/ DeclareImpossibility \/ SubmitInspection
    \/ \E i \in Recaptures : RequestRecapture(i) \/ SubmitRecapture(i) \/ ExpireRequest(i) \/ ProcessDeadline(i)
    \/ \E t \in Closed : Validate(t)
    \/ Close \/ GiveUpClosing
    \/ \E m \in events : RequestComparisons(m) \/ Exhaust(m)
    \/ \E j \in Jobs : ProcessComparison(j) \/ BeginClassify(j) \/ SkipClassify(j)
    \/ \E r \in reading : Classify(r)

Spec == Init /\ [][Next]_vars

\* The handlers keep being called, deadlines pass, and a transaction ends.
FairSpec ==
    /\ Spec
    /\ WF_vars(\E m \in events : RequestComparisons(m))
    /\ \A i \in Recaptures : WF_vars(ProcessDeadline(i)) /\ WF_vars(DeadlinePasses(i))
    /\ WF_vars(\E j \in Jobs : ProcessComparison(j))
    /\ WF_vars(\E j \in Jobs : BeginClassify(j) \/ SkipClassify(j))
    /\ WF_vars(\E r \in reading : Classify(r))

(***************************************************************************)
(* Properties                                                                 *)
(***************************************************************************)
\* When a submission and a cancellation race, the submitted evidence wins: no
\* canceled inspection has a submitted capture, although the cancellation was
\* validated on a row read before (_tests.md, US-014.EC-5).
SubmittedNeverCanceled == status = "CANCELED" => draft[0] # "SUBMITTED"

\* Submission and deadline of a recapture have one winner: the request and its
\* draft end the same way, at most one request is open, and while it is open the
\* inspection waits for it, was completed without it or was invalidated.
OneCutoff ==
    /\ \A i \in Recaptures : draft[i] = IF Open(i) THEN "OPEN" ELSE request[i]
    /\ \A i, k \in Recaptures : Open(i) /\ Open(k) => i = k
    /\ \A i \in Recaptures : Open(i) => status \in {"RECAPTURE_PENDING", "COMPLETED", "INVALIDATED"}

\* A link serves only a capture that can still be worked on, whatever is sent
\* again, corrected, submitted or expired, and however late the event of the
\* creation is handled.
AccessEnds == \A i \in Captures : invitation[i] = "ACTIVE" => draft[i] = "OPEN"

\* Repeated and reordered events give one classification, and one report, for
\* the outcome of a comparison.
JudgedOnce == \A j \in Jobs : jobs[j].verdicts <= 1

\* The newest comparison, once it has a result and as long as no verdict is about
\* it, still has the event that brings one or is being classified, in whatever order
\* results and events come.  The one exception is what the code does: a job that is
\* asked for and ends while a classification holds the lock is older than that
\* verdict, and its event is skipped (classify_inspection/setup.go:94-112).
ResultAwaitsVerdict ==
    Latest \in Jobs /\ jobs[Latest].status # "PENDING" /\ jobs[Latest].verdicts = 0 =>
        \/ <<"compared", Latest>> \in events
        \/ \E r \in reading : r[2] = Latest
        \/ Latest \in overlooked

\* A submission that answers something is classified in the end, whoever asks
\* for recaptures or invalidates the inspection meanwhile.
SubmissionJudged == draft[0] = "SUBMITTED" /\ answer[0] # "none" ~> Judged

\* A recapture that the inspection waits for ends, by a correction or its deadline.
RecaptureSettles ==
    \A i \in Recaptures : Open(i) /\ status = "RECAPTURE_PENDING" ~> ~Open(i) \/ status # "RECAPTURE_PENDING"
-----------------------------------------------------------------------------
(* The flow of the inspection                                                 *)

Flow == INSTANCE InspectionFlow WITH
    submitted <- draft[0] = "SUBMITTED",
    open <- \E i \in Recaptures : Open(i)

\* However late the events, the locks and the managers' requests come, what is
\* shown of the inspection goes through its flow: a submission, a correction and a
\* closing happen on the status they were decided on, a correction that is waited for
\* ends once, and only what was submitted is judged.  The flow has one departure, a
\* verdict that completes the inspection over an invalidation or an open correction.
ImplementsFlow == Flow!FSpec
====

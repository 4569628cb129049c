---- MODULE InspectionLifecycleProofs ----
(***************************************************************************)
(* Theorems about InspectionLifecycle, for any number of recaptures.         *)
(***************************************************************************)
EXTENDS InspectionLifecycle, TLAPS, SequenceTheorems

-----------------------------------------------------------------------------
(* Types, part by part *)

InspectionTyped ==
    /\ status \in Statuses /\ version \in Nat /\ evidence \in {0, 1}
    /\ closing \in [target : Closed, version : Nat] \union {NotClosing}

CaptureTyped ==
    /\ resp \in [Captures -> {"none", "PENDING", "ACCESSED", "SUBMITTED", "EXPIRED", "REVOKED", "CANCELED"}]
    /\ draft \in [Captures -> {"none", "OPEN", "SUBMITTED", "EXPIRED"}]
    /\ answer \in [Captures -> {"none", "impossible", "photo"}]
    /\ invitation \in [Captures -> {"none", "ACTIVE", "ENDED"}]
    /\ late \subseteq Captures
    /\ request \in [Recaptures -> {"none", "REQUESTED", "SUBMITTED", "EXPIRED"}]

JobsTyped ==
    /\ jobs \in Seq(JobRecords) /\ news \subseteq Jobs /\ overlooked \subseteq Jobs
    /\ reading \subseteq Jobs \X Jobs

EventsTyped == events \subseteq Messages

LEMMA TypeParts == TypeOK <=> InspectionTyped /\ CaptureTyped /\ JobsTyped /\ EventsTyped
  BY DEF TypeOK, InspectionTyped, CaptureTyped, JobsTyped, EventsTyped

LEMMA Numbers == MaxRecaptures \in Nat /\ 0 \in Captures /\ Recaptures \subseteq Captures
  BY RecaptureBound DEF Captures, Recaptures

\* Only these touch the comparisons.
LEMMA WhoCompares ==
    ASSUME [Next]_vars
    PROVE  \/ UNCHANGED analysisVars
           \/ \E m \in events : RequestComparisons(m)
           \/ \E j \in Jobs : ProcessComparison(j)
           \/ \E j \in Jobs : BeginClassify(j)
           \/ \E r \in reading : Classify(r)
<1>1. CASE Dispatch \/ Resend \/ CorrectEmail \/ DeclareImpossibility \/ SubmitInspection \/ Close \/ GiveUpClosing
  BY <1>1 DEF Dispatch, Resend, CorrectEmail, DeclareImpossibility, SubmitInspection, Close, GiveUpClosing
<1>2. ASSUME NEW i \in Captures, Revoke(i) \/ VerifyOTP(i) \/ SaveMetadata(i) \/ DeadlinePasses(i) PROVE UNCHANGED analysisVars
  BY <1>2 DEF Revoke, VerifyOTP, SaveMetadata, DeadlinePasses
<1>3. ASSUME NEW i \in Recaptures, RequestRecapture(i) \/ SubmitRecapture(i) \/ ExpireRequest(i) \/ ProcessDeadline(i) PROVE UNCHANGED analysisVars
  BY <1>3 DEF RequestRecapture, SubmitRecapture, ExpireRequest, ProcessDeadline, Expire
<1>4. ASSUME NEW t \in Closed, Validate(t) PROVE UNCHANGED analysisVars
  BY <1>4 DEF Validate
<1>5. ASSUME NEW m \in events, Exhaust(m) PROVE UNCHANGED analysisVars
  BY <1>5 DEF Exhaust
<1>6. ASSUME NEW j \in Jobs, SkipClassify(j) PROVE UNCHANGED analysisVars
  BY <1>6 DEF SkipClassify
<1>7. CASE UNCHANGED vars
  BY <1>7 DEF vars
<1> QED BY <1>1, <1>2, <1>3, <1>4, <1>5, <1>6, <1>7 DEF Next

\* The inspection and what is being closed.
LEMMA InspectionTypes ==
    ASSUME InspectionTyped, [Next]_vars
    PROVE  InspectionTyped'
<1>1. CASE Dispatch
  BY <1>1 DEF Dispatch, Awaited, Invite, MarkInvited, SetStatus, InspectionTyped, Statuses, Closed, NotClosing, inspectionVars, captureVars, vars
<1>2. CASE Resend
  BY <1>2 DEF Resend, Awaited, Invite, MarkInvited, SetStatus, InspectionTyped, Statuses, Closed, NotClosing, inspectionVars, captureVars, vars
<1>3. CASE CorrectEmail
  BY <1>3 DEF CorrectEmail, Awaited, Invite, MarkInvited, SetStatus, InspectionTyped, Statuses, Closed, NotClosing, inspectionVars, captureVars, vars
<1>4. ASSUME NEW i \in Captures, Revoke(i) PROVE InspectionTyped'
  BY <1>4 DEF Revoke, InspectionTyped, Statuses, Closed, NotClosing, inspectionVars, captureVars, vars
<1>5. ASSUME NEW i \in Captures, VerifyOTP(i) PROVE InspectionTyped'
  BY <1>5 DEF VerifyOTP, InspectionTyped, Statuses, Closed, NotClosing, inspectionVars, captureVars, vars
<1>6. ASSUME NEW i \in Captures, SaveMetadata(i) PROVE InspectionTyped'
  BY <1>6 DEF SaveMetadata, HasSession, InspectionTyped, Statuses, Closed, NotClosing, inspectionVars, captureVars, vars
<1>7. ASSUME NEW i \in Captures, DeadlinePasses(i) PROVE InspectionTyped'
  BY <1>7 DEF DeadlinePasses, InspectionTyped, Statuses, Closed, NotClosing, inspectionVars, captureVars, vars
<1>8. CASE DeclareImpossibility
  BY <1>8 DEF DeclareImpossibility, HasSession, InspectionTyped, Statuses, Closed, NotClosing, inspectionVars, captureVars, vars
<1>9. CASE SubmitInspection
  BY <1>9 DEF SubmitInspection, HasSession, SetStatus, InspectionTyped, Statuses, Closed, NotClosing, inspectionVars, captureVars, vars
<1>10. ASSUME NEW i \in Recaptures, RequestRecapture(i) PROVE InspectionTyped'
  BY <1>10 DEF RequestRecapture, Open, SetStatus, InspectionTyped, Statuses, Closed, NotClosing, inspectionVars, captureVars, vars
<1>11. ASSUME NEW i \in Recaptures, SubmitRecapture(i) PROVE InspectionTyped'
  BY <1>11 DEF SubmitRecapture, HasSession, Open, Finalizable, SetStatus, Ended, InspectionTyped, Statuses, Closed, NotClosing, inspectionVars, captureVars, vars
<1>12. ASSUME NEW i \in Recaptures, ExpireRequest(i) PROVE InspectionTyped'
  BY <1>12 DEF ExpireRequest, Expire, Open, Finalizable, SetStatus, Ended, InspectionTyped, Statuses, Closed, NotClosing, inspectionVars, captureVars, vars
<1>13. ASSUME NEW i \in Recaptures, ProcessDeadline(i) PROVE InspectionTyped'
  BY <1>13 DEF ProcessDeadline, Expire, Open, Finalizable, SetStatus, Ended, Due, InspectionTyped, Statuses, Closed, NotClosing, inspectionVars, captureVars, vars
<1>14. ASSUME NEW t \in Closed, Validate(t) PROVE InspectionTyped'
  BY <1>14 DEF Validate, Valid, InspectionTyped, Statuses, Closed, NotClosing, inspectionVars, captureVars, vars
<1>15. CASE Close
  BY <1>15 DEF Close, Current, SetStatus, InspectionTyped, Statuses, Closed, NotClosing, inspectionVars, captureVars, vars
<1>16. CASE GiveUpClosing
  BY <1>16 DEF GiveUpClosing, InspectionTyped, Statuses, Closed, NotClosing, inspectionVars, captureVars, vars
<1>17. ASSUME NEW m \in events, RequestComparisons(m) PROVE InspectionTyped'
  BY <1>17 DEF RequestComparisons, InspectionTyped, Statuses, Closed, NotClosing, inspectionVars, captureVars, vars
<1>18. ASSUME NEW m \in events, Exhaust(m) PROVE InspectionTyped'
  BY <1>18 DEF Exhaust, InspectionTyped, Statuses, Closed, NotClosing, inspectionVars, captureVars, vars
<1>19. ASSUME NEW j \in Jobs, ProcessComparison(j) PROVE InspectionTyped'
  BY <1>19 DEF ProcessComparison, InspectionTyped, Statuses, Closed, NotClosing, inspectionVars, captureVars, vars
<1>20. ASSUME NEW j \in Jobs, BeginClassify(j) PROVE InspectionTyped'
  BY <1>20 DEF BeginClassify, InspectionTyped, Statuses, Closed, NotClosing, inspectionVars, captureVars, vars
<1>21. ASSUME NEW j \in Jobs, SkipClassify(j) PROVE InspectionTyped'
  BY <1>21 DEF SkipClassify, InspectionTyped, Statuses, Closed, NotClosing, inspectionVars, captureVars, vars
<1>22. ASSUME NEW r \in reading, Classify(r) PROVE InspectionTyped'
  BY <1>22 DEF Classify, InspectionTyped, Statuses, Closed, NotClosing, inspectionVars, captureVars, vars
<1>23. CASE UNCHANGED vars
  BY <1>23 DEF vars, inspectionVars, captureVars, analysisVars, InspectionTyped, Statuses, Closed, NotClosing
<1> QED BY <1>1, <1>2, <1>3, <1>4, <1>5, <1>6, <1>7, <1>8, <1>9, <1>10, <1>11, <1>12, <1>13, <1>14, <1>15, <1>16, <1>17, <1>18, <1>19, <1>20, <1>21, <1>22, <1>23 DEF Next

\* The captures and the recaptures.
LEMMA CaptureTypes ==
    ASSUME CaptureTyped, [Next]_vars
    PROVE  CaptureTyped'
<1>1. CASE Dispatch
  BY <1>1, Numbers DEF Dispatch, Awaited, Invite, MarkInvited, SetStatus, CaptureTyped, inspectionVars, captureVars, vars
<1>2. CASE Resend
  BY <1>2, Numbers DEF Resend, Awaited, Invite, MarkInvited, SetStatus, CaptureTyped, inspectionVars, captureVars, vars
<1>3. CASE CorrectEmail
  BY <1>3, Numbers DEF CorrectEmail, Awaited, Invite, MarkInvited, SetStatus, CaptureTyped, inspectionVars, captureVars, vars
<1>4. ASSUME NEW i \in Captures, Revoke(i) PROVE CaptureTyped'
  BY <1>4, Numbers DEF Revoke, CaptureTyped, inspectionVars, captureVars, vars
<1>5. ASSUME NEW i \in Captures, VerifyOTP(i) PROVE CaptureTyped'
  BY <1>5, Numbers DEF VerifyOTP, CaptureTyped, inspectionVars, captureVars, vars
<1>6. ASSUME NEW i \in Captures, SaveMetadata(i) PROVE CaptureTyped'
  BY <1>6, Numbers DEF SaveMetadata, HasSession, CaptureTyped, inspectionVars, captureVars, vars
<1>7. ASSUME NEW i \in Captures, DeadlinePasses(i) PROVE CaptureTyped'
  BY <1>7, Numbers DEF DeadlinePasses, CaptureTyped, inspectionVars, captureVars, vars
<1>8. CASE DeclareImpossibility
  BY <1>8, Numbers DEF DeclareImpossibility, HasSession, CaptureTyped, inspectionVars, captureVars, vars
<1>9. CASE SubmitInspection
  BY <1>9, Numbers DEF SubmitInspection, HasSession, SetStatus, CaptureTyped, inspectionVars, captureVars, vars
<1>10. ASSUME NEW i \in Recaptures, RequestRecapture(i) PROVE CaptureTyped'
  BY <1>10, Numbers DEF RequestRecapture, Open, SetStatus, CaptureTyped, inspectionVars, captureVars, vars
<1>11. ASSUME NEW i \in Recaptures, SubmitRecapture(i) PROVE CaptureTyped'
  BY <1>11, Numbers DEF SubmitRecapture, HasSession, Open, Finalizable, SetStatus, Ended, CaptureTyped, inspectionVars, captureVars, vars
<1>12. ASSUME NEW i \in Recaptures, ExpireRequest(i) PROVE CaptureTyped'
  BY <1>12, Numbers DEF ExpireRequest, Expire, Open, Finalizable, SetStatus, Ended, CaptureTyped, inspectionVars, captureVars, vars
<1>13. ASSUME NEW i \in Recaptures, ProcessDeadline(i) PROVE CaptureTyped'
  BY <1>13, Numbers DEF ProcessDeadline, Expire, Open, Finalizable, SetStatus, Ended, Due, CaptureTyped, inspectionVars, captureVars, vars
<1>14. ASSUME NEW t \in Closed, Validate(t) PROVE CaptureTyped'
  BY <1>14, Numbers DEF Validate, Valid, CaptureTyped, inspectionVars, captureVars, vars
<1>15. CASE Close
  BY <1>15, Numbers DEF Close, Current, SetStatus, CaptureTyped, inspectionVars, captureVars, vars
<1>16. CASE GiveUpClosing
  BY <1>16, Numbers DEF GiveUpClosing, CaptureTyped, inspectionVars, captureVars, vars
<1>17. ASSUME NEW m \in events, RequestComparisons(m) PROVE CaptureTyped'
  BY <1>17, Numbers DEF RequestComparisons, CaptureTyped, inspectionVars, captureVars, vars
<1>18. ASSUME NEW m \in events, Exhaust(m) PROVE CaptureTyped'
  BY <1>18, Numbers DEF Exhaust, CaptureTyped, inspectionVars, captureVars, vars
<1>19. ASSUME NEW j \in Jobs, ProcessComparison(j) PROVE CaptureTyped'
  BY <1>19, Numbers DEF ProcessComparison, CaptureTyped, inspectionVars, captureVars, vars
<1>20. ASSUME NEW j \in Jobs, BeginClassify(j) PROVE CaptureTyped'
  BY <1>20, Numbers DEF BeginClassify, CaptureTyped, inspectionVars, captureVars, vars
<1>21. ASSUME NEW j \in Jobs, SkipClassify(j) PROVE CaptureTyped'
  BY <1>21, Numbers DEF SkipClassify, CaptureTyped, inspectionVars, captureVars, vars
<1>22. ASSUME NEW r \in reading, Classify(r) PROVE CaptureTyped'
  BY <1>22, Numbers DEF Classify, CaptureTyped, inspectionVars, captureVars, vars
<1>23. CASE UNCHANGED vars
  BY <1>23 DEF vars, inspectionVars, captureVars, analysisVars, CaptureTyped
<1> QED BY <1>1, <1>2, <1>3, <1>4, <1>5, <1>6, <1>7, <1>8, <1>9, <1>10, <1>11, <1>12, <1>13, <1>14, <1>15, <1>16, <1>17, <1>18, <1>19, <1>20, <1>21, <1>22, <1>23 DEF Next

\* What becomes of the jobs, when a comparison is requested, ...
LEMMA Requested ==
    ASSUME JobsTyped, CaptureTyped, NEW m, RequestComparisons(m)
    PROVE  \/ UNCHANGED <<jobs, news>>
           \/ /\ jobs' \in Seq(JobRecords) /\ Len(jobs') = Len(jobs) + 1
              /\ \A k \in Jobs : jobs'[k] = jobs[k]
              /\ jobs'[Len(jobs) + 1].verdicts = 0
              /\ \/ news' = news /\ jobs'[Len(jobs) + 1].status = "PENDING"
                 \/ /\ news' = news \union {Len(jobs) + 1}
                    /\ jobs'[Len(jobs) + 1].status # "PENDING"
                    /\ <<"compared", Len(jobs) + 1>> \in events'
<1> SUFFICES ASSUME ~UNCHANGED <<jobs, news>> PROVE
              /\ jobs' \in Seq(JobRecords) /\ Len(jobs') = Len(jobs) + 1
              /\ \A k \in Jobs : jobs'[k] = jobs[k]
              /\ jobs'[Len(jobs) + 1].verdicts = 0
              /\ \/ news' = news /\ jobs'[Len(jobs) + 1].status = "PENDING"
                 \/ /\ news' = news \union {Len(jobs) + 1}
                    /\ jobs'[Len(jobs) + 1].status # "PENDING"
                    /\ <<"compared", Len(jobs) + 1>> \in events'
  OBVIOUS
<1>1. PICK i \in Captures, s \in {"INCONCLUSIVE", "PENDING"} :
        /\ answer[i] # "none"
        /\ jobs' = Append(jobs, [draft |-> i, answer |-> answer[i], status |-> s, verdicts |-> 0])
        /\ news' = IF s = "INCONCLUSIVE" THEN news \union {Len(jobs) + 1} ELSE news
        /\ Follow(Len(jobs) + 1, s) \in events'
  BY DEF RequestComparisons, Unanswered
<1> DEFINE r == [draft |-> i, answer |-> answer[i], status |-> s, verdicts |-> 0]
<1>2. r \in JobRecords
  BY <1>1 DEF JobRecords, Terminal, CaptureTyped
<1>3. jobs \in Seq(JobRecords) /\ Jobs = 1..Len(jobs)
  BY DEF JobsTyped, Jobs
<1>4. /\ jobs' \in Seq(JobRecords) /\ Len(jobs') = Len(jobs) + 1
      /\ \A k \in 1..Len(jobs) : jobs'[k] = jobs[k]
      /\ jobs'[Len(jobs) + 1] = r
  BY <1>1, <1>2, <1>3, AppendProperties
<1>5. r.verdicts = 0 /\ r.status = s
  OBVIOUS
<1> QED BY <1>1, <1>3, <1>4, <1>5 DEF Follow

\* ... when the model answers ...
LEMMA Processed ==
    ASSUME JobsTyped, NEW j \in Jobs, ProcessComparison(j)
    PROVE  \/ UNCHANGED <<jobs, news>>
           \/ /\ jobs' \in Seq(JobRecords) /\ Len(jobs') = Len(jobs)
              /\ \A k \in Jobs : jobs'[k].verdicts = jobs[k].verdicts
              /\ \A k \in Jobs : k # j => jobs'[k] = jobs[k]
              /\ jobs[j].status = "PENDING" /\ jobs'[j].status # "PENDING"
              /\ news' = news \union {j} /\ <<"compared", j>> \in events'
<1>1. CASE jobs[j].status # "PENDING"
  BY <1>1 DEF ProcessComparison
<1>2. CASE jobs[j].status = "PENDING"
  <2>1. PICK s \in Terminal : jobs' = [jobs EXCEPT ![j].status = s]
    BY <1>2 DEF ProcessComparison
  <2> DEFINE r == [jobs[j] EXCEPT !.status = s]
  <2>2. jobs \in Seq(JobRecords) /\ Jobs = 1..Len(jobs) /\ jobs[j] \in JobRecords
    BY ElementOfSeq DEF JobsTyped, Jobs
  <2>3. r \in JobRecords /\ r.status = s /\ r.verdicts = jobs[j].verdicts
    BY <2>2 DEF JobRecords
  <2>4. jobs' = [jobs EXCEPT ![j] = r]
    BY <2>1
  <2>5. /\ jobs' \in Seq(JobRecords) /\ Len(jobs') = Len(jobs)
        /\ \A k \in 1..Len(jobs) : jobs'[k] = IF k = j THEN r ELSE jobs[k]
    <3> HIDE DEF r
    <3> QED BY <2>2, <2>3, <2>4, ExceptSeq
  <2>6. news' = news \union {j} /\ <<"compared", j>> \in events'
    BY <1>2 DEF ProcessComparison
  <2> QED BY <1>2, <2>2, <2>3, <2>5, <2>6 DEF Terminal
<1> QED BY <1>1, <1>2

\* ... and when the inspection is classified.
LEMMA Classified ==
    ASSUME JobsTyped, NEW r \in reading, Classify(r)
    PROVE  /\ jobs' \in Seq(JobRecords) /\ Len(jobs') = Len(jobs)
           /\ \A k \in Jobs : jobs'[k].status = jobs[k].status
           /\ \A k \in Jobs : k # r[2] => jobs'[k].verdicts = jobs[k].verdicts
           /\ r[2] \in Jobs /\ jobs'[r[2]].verdicts = jobs[r[2]].verdicts + 1
           /\ news' = {} /\ reading' = reading \ {r}
           /\ overlooked' = overlooked \union {j \in news : j > r[2]}
<1>1. /\ jobs \in Seq(JobRecords) /\ Jobs = 1..Len(jobs) /\ r[2] \in Jobs
  BY DEF JobsTyped, Jobs
<1>2. PICK k \in Jobs : k = r[2]
  BY <1>1
<1> DEFINE e == [jobs[k] EXCEPT !.verdicts = @ + 1]
<1>3. jobs[k] \in JobRecords
  BY <1>1, ElementOfSeq
<1>4. e \in JobRecords /\ e.status = jobs[k].status /\ e.verdicts = jobs[k].verdicts + 1
  BY <1>3 DEF JobRecords
<1>5. jobs' = [jobs EXCEPT ![k] = e]
  BY <1>2 DEF Classify
<1>6. /\ jobs' \in Seq(JobRecords) /\ Len(jobs') = Len(jobs)
      /\ \A n \in 1..Len(jobs) : jobs'[n] = IF n = k THEN e ELSE jobs[n]
  <2> HIDE DEF e
  <2> QED BY <1>1, <1>4, <1>5, ExceptSeq
<1>7. news' = {} /\ reading' = reading \ {r} /\ overlooked' = overlooked \union {j \in news : j > r[2]}
  BY DEF Classify
<1> QED BY <1>1, <1>2, <1>4, <1>6, <1>7

\* A sequence of jobs of a given length has these positions.
LEMMA Positions == ASSUME JobsTyped PROVE Jobs = 1..Len(jobs) /\ Len(jobs) \in Nat
  BY DEF JobsTyped, Jobs

LEMMA PositionsNext == ASSUME jobs' \in Seq(JobRecords) PROVE Jobs' = 1..Len(jobs') /\ Len(jobs') \in Nat
  BY DEF Jobs

\* The comparison jobs and their classifications.
LEMMA JobTypes ==
    ASSUME JobsTyped, CaptureTyped, [Next]_vars
    PROVE  JobsTyped'
<1>1. CASE UNCHANGED analysisVars
  BY <1>1 DEF JobsTyped, Jobs, analysisVars
<1>2. ASSUME NEW m \in events, RequestComparisons(m) PROVE JobsTyped'
  <2>1. UNCHANGED <<reading, overlooked>>
    BY <1>2 DEF RequestComparisons
  <2>2. CASE UNCHANGED <<jobs, news>>
    BY <2>1, <2>2 DEF JobsTyped, Jobs
  <2>3. CASE jobs' \in Seq(JobRecords) /\ Len(jobs') = Len(jobs) + 1 /\ news' \subseteq news \union {Len(jobs) + 1}
    <3>1. Jobs' = 1..(Len(jobs) + 1) /\ Jobs \subseteq Jobs'
      BY <2>3, Positions, PositionsNext
    <3> QED BY <2>1, <2>3, <3>1, Positions DEF JobsTyped
  <2> QED BY <1>2, <2>2, <2>3, Requested
<1>3. ASSUME NEW j \in Jobs, ProcessComparison(j) PROVE JobsTyped'
  <2>1. UNCHANGED <<reading, overlooked>>
    BY <1>3 DEF ProcessComparison
  <2>2. CASE UNCHANGED <<jobs, news>>
    BY <2>1, <2>2 DEF JobsTyped, Jobs
  <2>3. CASE jobs' \in Seq(JobRecords) /\ Len(jobs') = Len(jobs) /\ news' = news \union {j}
    <3>1. Jobs' = Jobs
      BY <2>3, Positions, PositionsNext
    <3> QED BY <2>1, <2>3, <3>1 DEF JobsTyped
  <2> QED BY <1>3, <2>2, <2>3, Processed
<1>4. ASSUME NEW j \in Jobs, BeginClassify(j) PROVE JobsTyped'
  <2>1. Latest \in Jobs
    BY Positions DEF Latest
  <2>2. UNCHANGED <<jobs, news, overlooked>> /\ reading' = reading \union {<<j, Latest>>}
    BY <1>4 DEF BeginClassify
  <2> QED BY <2>1, <2>2 DEF JobsTyped, Jobs
<1>5. ASSUME NEW r \in reading, Classify(r) PROVE JobsTyped'
  <2>1. /\ jobs' \in Seq(JobRecords) /\ Len(jobs') = Len(jobs) /\ news' = {} /\ reading' = reading \ {r}
        /\ overlooked' \subseteq overlooked \union news
    BY <1>5, Classified
  <2>2. Jobs' = Jobs
    BY <2>1, Positions, PositionsNext
  <2> QED BY <2>1, <2>2 DEF JobsTyped
<1> QED BY <1>1, <1>2, <1>3, <1>4, <1>5, WhoCompares

\* The events of the outbox.
LEMMA EventTypes ==
    ASSUME EventsTyped, JobsTyped, [Next]_vars
    PROVE  EventsTyped'
<1>1. CASE Dispatch
  BY <1>1, Numbers DEF Dispatch, Awaited, Invite, MarkInvited, SetStatus, EventsTyped, Messages, inspectionVars, captureVars, vars
<1>2. CASE Resend
  BY <1>2, Numbers DEF Resend, Awaited, Invite, MarkInvited, SetStatus, EventsTyped, Messages, inspectionVars, captureVars, vars
<1>3. CASE CorrectEmail
  BY <1>3, Numbers DEF CorrectEmail, Awaited, Invite, MarkInvited, SetStatus, EventsTyped, Messages, inspectionVars, captureVars, vars
<1>4. ASSUME NEW i \in Captures, Revoke(i) PROVE EventsTyped'
  BY <1>4, Numbers DEF Revoke, EventsTyped, Messages, inspectionVars, captureVars, vars
<1>5. ASSUME NEW i \in Captures, VerifyOTP(i) PROVE EventsTyped'
  BY <1>5, Numbers DEF VerifyOTP, EventsTyped, Messages, inspectionVars, captureVars, vars
<1>6. ASSUME NEW i \in Captures, SaveMetadata(i) PROVE EventsTyped'
  BY <1>6, Numbers DEF SaveMetadata, HasSession, EventsTyped, Messages, inspectionVars, captureVars, vars
<1>7. ASSUME NEW i \in Captures, DeadlinePasses(i) PROVE EventsTyped'
  BY <1>7, Numbers DEF DeadlinePasses, EventsTyped, Messages, inspectionVars, captureVars, vars
<1>8. CASE DeclareImpossibility
  BY <1>8, Numbers DEF DeclareImpossibility, HasSession, EventsTyped, Messages, inspectionVars, captureVars, vars
<1>9. CASE SubmitInspection
  BY <1>9, Numbers DEF SubmitInspection, HasSession, SetStatus, EventsTyped, Messages, inspectionVars, captureVars, vars
<1>10. ASSUME NEW i \in Recaptures, RequestRecapture(i) PROVE EventsTyped'
  BY <1>10, Numbers DEF RequestRecapture, Open, SetStatus, EventsTyped, Messages, inspectionVars, captureVars, vars
<1>11. ASSUME NEW i \in Recaptures, SubmitRecapture(i) PROVE EventsTyped'
  BY <1>11, Numbers DEF SubmitRecapture, HasSession, Open, Finalizable, SetStatus, Ended, EventsTyped, Messages, inspectionVars, captureVars, vars
<1>12. ASSUME NEW i \in Recaptures, ExpireRequest(i) PROVE EventsTyped'
  BY <1>12, Numbers DEF ExpireRequest, Expire, Open, Finalizable, SetStatus, Ended, EventsTyped, Messages, inspectionVars, captureVars, vars
<1>13. ASSUME NEW i \in Recaptures, ProcessDeadline(i) PROVE EventsTyped'
  BY <1>13, Numbers DEF ProcessDeadline, Expire, Open, Finalizable, SetStatus, Ended, Due, EventsTyped, Messages, inspectionVars, captureVars, vars
<1>14. ASSUME NEW t \in Closed, Validate(t) PROVE EventsTyped'
  BY <1>14, Numbers DEF Validate, Valid, EventsTyped, Messages, inspectionVars, captureVars, vars
<1>15. CASE Close
  BY <1>15, Numbers DEF Close, Current, SetStatus, EventsTyped, Messages, inspectionVars, captureVars, vars
<1>16. CASE GiveUpClosing
  BY <1>16, Numbers DEF GiveUpClosing, EventsTyped, Messages, inspectionVars, captureVars, vars
<1>17. ASSUME NEW m \in events, RequestComparisons(m) PROVE EventsTyped'
  <2>1. PICK j \in Nat \ {0} : \E s : events' \subseteq events \union {Follow(j, s)}
    BY <1>17, Positions DEF RequestComparisons
  <2> QED BY <2>1 DEF EventsTyped, Messages, Follow
<1>18. ASSUME NEW m \in events, Exhaust(m) PROVE EventsTyped'
  BY <1>18, Numbers DEF Exhaust, EventsTyped, Messages, inspectionVars, captureVars, vars
<1>19. ASSUME NEW j \in Jobs, ProcessComparison(j) PROVE EventsTyped'
  BY <1>19, Positions DEF ProcessComparison, EventsTyped, Messages
<1>20. ASSUME NEW j \in Jobs, BeginClassify(j) PROVE EventsTyped'
  BY <1>20, Numbers DEF BeginClassify, EventsTyped, Messages, inspectionVars, captureVars, vars
<1>21. ASSUME NEW j \in Jobs, SkipClassify(j) PROVE EventsTyped'
  BY <1>21, Numbers DEF SkipClassify, EventsTyped, Messages, inspectionVars, captureVars, vars
<1>22. ASSUME NEW r \in reading, Classify(r) PROVE EventsTyped'
  BY <1>22, Numbers DEF Classify, EventsTyped, Messages, inspectionVars, captureVars, vars
<1>23. CASE UNCHANGED vars
  BY <1>23 DEF vars, inspectionVars, captureVars, analysisVars, EventsTyped, Messages
<1> QED BY <1>1, <1>2, <1>3, <1>4, <1>5, <1>6, <1>7, <1>8, <1>9, <1>10, <1>11, <1>12, <1>13, <1>14, <1>15, <1>16, <1>17, <1>18, <1>19, <1>20, <1>21, <1>22, <1>23 DEF Next

\* Every value the variables take is one the code gives them.
THEOREM LifecycleTypeCorrect == Spec => []TypeOK
<1>1. Init => TypeOK
  <2>1. ASSUME Init PROVE JobsTyped /\ EventsTyped
    BY <2>1, Numbers, EmptySeq DEF Init, JobsTyped, Jobs, EventsTyped, Messages
  <2>2. ASSUME Init PROVE InspectionTyped /\ CaptureTyped
    BY <2>2, Numbers DEF Init, InspectionTyped, CaptureTyped, Statuses, Closed, NotClosing
  <2> QED BY <2>1, <2>2, TypeParts
<1>2. TypeOK /\ [Next]_vars => TypeOK'
  <2> SUFFICES ASSUME TypeOK, [Next]_vars PROVE TypeOK'
    OBVIOUS
  <2>1. InspectionTyped' /\ CaptureTyped' /\ JobsTyped' /\ EventsTyped'
    BY TypeParts, InspectionTypes, CaptureTypes, JobTypes, EventTypes
  <2> QED BY <2>1 DEF TypeOK, InspectionTyped, CaptureTyped, JobsTyped, EventsTyped
<1> QED BY <1>1, <1>2, PTL DEF Spec

-----------------------------------------------------------------------------
(* The inductive invariant *)

\* While the inspection can be canceled nobody has submitted it.
StillPlanned ==
    status \in {"PLANNED", "INVITED", "CANCELED"} => draft[0] = "OPEN"

\* What was validated holds as long as the version does: every writer of the
\* status takes a new version.
ClosingSound ==
    /\ closing.version <= version
    /\ closing.target = "CANCELED" /\ Current => status \in {"PLANNED", "INVITED"}

\* A responsibility somebody can still act for has an open draft.
InHand == \A i \in Captures : resp[i] \in {"PENDING", "ACCESSED"} => draft[i] = "OPEN"

\* One classification at a time holds the lock; what it judges has a result and no
\* verdict, and neither has a job that is newer than the last classification.
OneAtATime ==
    /\ \A r, s \in reading : r = s
    /\ \A r \in reading : jobs[r[2]].verdicts = 0 /\ jobs[r[2]].status # "PENDING"
    /\ \A j \in news : jobs[j].verdicts = 0 /\ jobs[j].status # "PENDING"
    /\ \A j \in Jobs : jobs[j].status = "PENDING" => jobs[j].verdicts = 0
    /\ JudgedOnce

\* The newest result without a verdict is newer than the last classification, unless
\* it ended while that went on.
SeenLate ==
    Latest \in Jobs /\ jobs[Latest].status # "PENDING" /\ jobs[Latest].verdicts = 0 =>
        Latest \in news \union overlooked

IInv ==
    /\ TypeOK /\ StillPlanned /\ ClosingSound /\ OneCutoff /\ InHand /\ AccessEnds
    /\ OneAtATime /\ SeenLate /\ ResultAwaitsVerdict

\* A cancellation leaves the draft open, and a submission leaves planning.
LEMMA PlannedStep ==
    ASSUME TypeOK, StillPlanned, ClosingSound, OneCutoff, [Next]_vars
    PROVE  StillPlanned'
<1>1. CASE Dispatch
  BY <1>1, Numbers DEF Dispatch, Awaited, Invite, MarkInvited, SetStatus, TypeOK, StillPlanned, ClosingSound, OneCutoff, Closed, Recaptures, NotClosing, inspectionVars, captureVars, vars
<1>2. CASE Resend
  BY <1>2, Numbers DEF Resend, Awaited, Invite, MarkInvited, SetStatus, TypeOK, StillPlanned, ClosingSound, OneCutoff, Closed, Recaptures, NotClosing, inspectionVars, captureVars, vars
<1>3. CASE CorrectEmail
  BY <1>3, Numbers DEF CorrectEmail, Awaited, Invite, MarkInvited, SetStatus, TypeOK, StillPlanned, ClosingSound, OneCutoff, Closed, Recaptures, NotClosing, inspectionVars, captureVars, vars
<1>4. ASSUME NEW i \in Captures, Revoke(i) PROVE StillPlanned'
  BY <1>4, Numbers DEF Revoke, TypeOK, StillPlanned, ClosingSound, OneCutoff, Closed, Recaptures, NotClosing, inspectionVars, captureVars, vars
<1>5. ASSUME NEW i \in Captures, VerifyOTP(i) PROVE StillPlanned'
  BY <1>5, Numbers DEF VerifyOTP, TypeOK, StillPlanned, ClosingSound, OneCutoff, Closed, Recaptures, NotClosing, inspectionVars, captureVars, vars
<1>6. ASSUME NEW i \in Captures, SaveMetadata(i) PROVE StillPlanned'
  BY <1>6, Numbers DEF SaveMetadata, HasSession, TypeOK, StillPlanned, ClosingSound, OneCutoff, Closed, Recaptures, NotClosing, inspectionVars, captureVars, vars
<1>7. ASSUME NEW i \in Captures, DeadlinePasses(i) PROVE StillPlanned'
  BY <1>7, Numbers DEF DeadlinePasses, TypeOK, StillPlanned, ClosingSound, OneCutoff, Closed, Recaptures, NotClosing, inspectionVars, captureVars, vars
<1>8. CASE DeclareImpossibility
  BY <1>8, Numbers DEF DeclareImpossibility, HasSession, TypeOK, StillPlanned, ClosingSound, OneCutoff, Closed, Recaptures, NotClosing, inspectionVars, captureVars, vars
<1>9. CASE SubmitInspection
  BY <1>9, Numbers DEF SubmitInspection, HasSession, SetStatus, TypeOK, StillPlanned, ClosingSound, OneCutoff, Closed, Recaptures, NotClosing, inspectionVars, captureVars, vars
<1>10. ASSUME NEW i \in Recaptures, RequestRecapture(i) PROVE StillPlanned'
  BY <1>10, Numbers DEF RequestRecapture, Open, SetStatus, TypeOK, StillPlanned, ClosingSound, OneCutoff, Closed, Recaptures, NotClosing, inspectionVars, captureVars, vars
<1>11. ASSUME NEW i \in Recaptures, SubmitRecapture(i) PROVE StillPlanned'
  BY <1>11, Numbers DEF SubmitRecapture, HasSession, Open, Finalizable, SetStatus, Ended, TypeOK, StillPlanned, ClosingSound, OneCutoff, Closed, Recaptures, NotClosing, inspectionVars, captureVars, vars
<1>12. ASSUME NEW i \in Recaptures, ExpireRequest(i) PROVE StillPlanned'
  BY <1>12, Numbers DEF ExpireRequest, Expire, Open, Finalizable, SetStatus, Ended, TypeOK, StillPlanned, ClosingSound, OneCutoff, Closed, Recaptures, NotClosing, inspectionVars, captureVars, vars
<1>13. ASSUME NEW i \in Recaptures, ProcessDeadline(i) PROVE StillPlanned'
  BY <1>13, Numbers DEF ProcessDeadline, Expire, Open, Finalizable, SetStatus, Ended, Due, TypeOK, StillPlanned, ClosingSound, OneCutoff, Closed, Recaptures, NotClosing, inspectionVars, captureVars, vars
<1>14. ASSUME NEW t \in Closed, Validate(t) PROVE StillPlanned'
  BY <1>14, Numbers DEF Validate, Valid, TypeOK, StillPlanned, ClosingSound, OneCutoff, Closed, Recaptures, NotClosing, inspectionVars, captureVars, vars
<1>15. CASE Close
  BY <1>15, Numbers DEF Close, Current, SetStatus, TypeOK, StillPlanned, ClosingSound, OneCutoff, Closed, Recaptures, NotClosing, inspectionVars, captureVars, vars
<1>16. CASE GiveUpClosing
  BY <1>16, Numbers DEF GiveUpClosing, TypeOK, StillPlanned, ClosingSound, OneCutoff, Closed, Recaptures, NotClosing, inspectionVars, captureVars, vars
<1>17. ASSUME NEW m \in events, RequestComparisons(m) PROVE StillPlanned'
  BY <1>17, Numbers DEF RequestComparisons, TypeOK, StillPlanned, ClosingSound, OneCutoff, Closed, Recaptures, NotClosing, inspectionVars, captureVars, vars
<1>18. ASSUME NEW m \in events, Exhaust(m) PROVE StillPlanned'
  BY <1>18, Numbers DEF Exhaust, TypeOK, StillPlanned, ClosingSound, OneCutoff, Closed, Recaptures, NotClosing, inspectionVars, captureVars, vars
<1>19. ASSUME NEW j \in Jobs, ProcessComparison(j) PROVE StillPlanned'
  BY <1>19, Numbers DEF ProcessComparison, TypeOK, StillPlanned, ClosingSound, OneCutoff, Closed, Recaptures, NotClosing, inspectionVars, captureVars, vars
<1>20. ASSUME NEW j \in Jobs, BeginClassify(j) PROVE StillPlanned'
  BY <1>20, Numbers DEF BeginClassify, TypeOK, StillPlanned, ClosingSound, OneCutoff, Closed, Recaptures, NotClosing, inspectionVars, captureVars, vars
<1>21. ASSUME NEW j \in Jobs, SkipClassify(j) PROVE StillPlanned'
  BY <1>21, Numbers DEF SkipClassify, TypeOK, StillPlanned, ClosingSound, OneCutoff, Closed, Recaptures, NotClosing, inspectionVars, captureVars, vars
<1>22. ASSUME NEW r \in reading, Classify(r) PROVE StillPlanned'
  BY <1>22, Numbers DEF Classify, TypeOK, StillPlanned, ClosingSound, OneCutoff, Closed, Recaptures, NotClosing, inspectionVars, captureVars, vars
<1>23. CASE UNCHANGED vars
  BY <1>23 DEF vars, inspectionVars, captureVars, analysisVars, TypeOK, StillPlanned, ClosingSound, OneCutoff, Closed, Recaptures, NotClosing
<1> QED BY <1>1, <1>2, <1>3, <1>4, <1>5, <1>6, <1>7, <1>8, <1>9, <1>10, <1>11, <1>12, <1>13, <1>14, <1>15, <1>16, <1>17, <1>18, <1>19, <1>20, <1>21, <1>22, <1>23 DEF Next

\* Whoever changes the status changes the version.
LEMMA ClosingStep ==
    ASSUME TypeOK, ClosingSound, [Next]_vars
    PROVE  ClosingSound'
<1>1. CASE Dispatch
  BY <1>1 DEF Dispatch, Awaited, Invite, MarkInvited, SetStatus, TypeOK, ClosingSound, Current, Closed, NotClosing, inspectionVars, captureVars, vars
<1>2. CASE Resend
  BY <1>2 DEF Resend, Awaited, Invite, MarkInvited, SetStatus, TypeOK, ClosingSound, Current, Closed, NotClosing, inspectionVars, captureVars, vars
<1>3. CASE CorrectEmail
  BY <1>3 DEF CorrectEmail, Awaited, Invite, MarkInvited, SetStatus, TypeOK, ClosingSound, Current, Closed, NotClosing, inspectionVars, captureVars, vars
<1>4. ASSUME NEW i \in Captures, Revoke(i) PROVE ClosingSound'
  BY <1>4 DEF Revoke, TypeOK, ClosingSound, Current, Closed, NotClosing, inspectionVars, captureVars, vars
<1>5. ASSUME NEW i \in Captures, VerifyOTP(i) PROVE ClosingSound'
  BY <1>5 DEF VerifyOTP, TypeOK, ClosingSound, Current, Closed, NotClosing, inspectionVars, captureVars, vars
<1>6. ASSUME NEW i \in Captures, SaveMetadata(i) PROVE ClosingSound'
  BY <1>6 DEF SaveMetadata, HasSession, TypeOK, ClosingSound, Current, Closed, NotClosing, inspectionVars, captureVars, vars
<1>7. ASSUME NEW i \in Captures, DeadlinePasses(i) PROVE ClosingSound'
  BY <1>7 DEF DeadlinePasses, TypeOK, ClosingSound, Current, Closed, NotClosing, inspectionVars, captureVars, vars
<1>8. CASE DeclareImpossibility
  BY <1>8 DEF DeclareImpossibility, HasSession, TypeOK, ClosingSound, Current, Closed, NotClosing, inspectionVars, captureVars, vars
<1>9. CASE SubmitInspection
  BY <1>9 DEF SubmitInspection, HasSession, SetStatus, TypeOK, ClosingSound, Current, Closed, NotClosing, inspectionVars, captureVars, vars
<1>10. ASSUME NEW i \in Recaptures, RequestRecapture(i) PROVE ClosingSound'
  BY <1>10 DEF RequestRecapture, Open, SetStatus, TypeOK, ClosingSound, Current, Closed, NotClosing, inspectionVars, captureVars, vars
<1>11. ASSUME NEW i \in Recaptures, SubmitRecapture(i) PROVE ClosingSound'
  BY <1>11 DEF SubmitRecapture, HasSession, Open, Finalizable, SetStatus, Ended, TypeOK, ClosingSound, Current, Closed, NotClosing, inspectionVars, captureVars, vars
<1>12. ASSUME NEW i \in Recaptures, ExpireRequest(i) PROVE ClosingSound'
  BY <1>12 DEF ExpireRequest, Expire, Open, Finalizable, SetStatus, Ended, TypeOK, ClosingSound, Current, Closed, NotClosing, inspectionVars, captureVars, vars
<1>13. ASSUME NEW i \in Recaptures, ProcessDeadline(i) PROVE ClosingSound'
  BY <1>13 DEF ProcessDeadline, Expire, Open, Finalizable, SetStatus, Ended, Due, TypeOK, ClosingSound, Current, Closed, NotClosing, inspectionVars, captureVars, vars
<1>14. ASSUME NEW t \in Closed, Validate(t) PROVE ClosingSound'
  <2>1. closing' = [target |-> t, version |-> version] /\ version' = version /\ status' = status /\ version \in Nat
    BY <1>14 DEF Validate, inspectionVars, TypeOK
  <2>2. t = "CANCELED" => status \in {"PLANNED", "INVITED"}
    BY <1>14 DEF Validate, Valid
  <2>3. closing'.target = t /\ closing'.version = version
    BY <2>1
  <2> QED BY <2>1, <2>2, <2>3 DEF ClosingSound
<1>15. CASE Close
  BY <1>15 DEF Close, Current, SetStatus, TypeOK, ClosingSound, Current, Closed, NotClosing, inspectionVars, captureVars, vars
<1>16. CASE GiveUpClosing
  BY <1>16 DEF GiveUpClosing, TypeOK, ClosingSound, Current, Closed, NotClosing, inspectionVars, captureVars, vars
<1>17. ASSUME NEW m \in events, RequestComparisons(m) PROVE ClosingSound'
  BY <1>17 DEF RequestComparisons, TypeOK, ClosingSound, Current, Closed, NotClosing, inspectionVars, captureVars, vars
<1>18. ASSUME NEW m \in events, Exhaust(m) PROVE ClosingSound'
  BY <1>18 DEF Exhaust, TypeOK, ClosingSound, Current, Closed, NotClosing, inspectionVars, captureVars, vars
<1>19. ASSUME NEW j \in Jobs, ProcessComparison(j) PROVE ClosingSound'
  BY <1>19 DEF ProcessComparison, TypeOK, ClosingSound, Current, Closed, NotClosing, inspectionVars, captureVars, vars
<1>20. ASSUME NEW j \in Jobs, BeginClassify(j) PROVE ClosingSound'
  BY <1>20 DEF BeginClassify, TypeOK, ClosingSound, Current, Closed, NotClosing, inspectionVars, captureVars, vars
<1>21. ASSUME NEW j \in Jobs, SkipClassify(j) PROVE ClosingSound'
  BY <1>21 DEF SkipClassify, TypeOK, ClosingSound, Current, Closed, NotClosing, inspectionVars, captureVars, vars
<1>22. ASSUME NEW r \in reading, Classify(r) PROVE ClosingSound'
  BY <1>22 DEF Classify, TypeOK, ClosingSound, Current, Closed, NotClosing, inspectionVars, captureVars, vars
<1>23. CASE UNCHANGED vars
  BY <1>23 DEF vars, inspectionVars, captureVars, analysisVars, TypeOK, ClosingSound, Current, Closed, NotClosing
<1> QED BY <1>1, <1>2, <1>3, <1>4, <1>5, <1>6, <1>7, <1>8, <1>9, <1>10, <1>11, <1>12, <1>13, <1>14, <1>15, <1>16, <1>17, <1>18, <1>19, <1>20, <1>21, <1>22, <1>23 DEF Next

\* A recapture and its draft end together.
LEMMA CutoffStep ==
    ASSUME TypeOK, OneCutoff, ClosingSound, [Next]_vars
    PROVE  OneCutoff'
<1>1. CASE Dispatch
  BY <1>1, Numbers DEF Dispatch, Awaited, Invite, MarkInvited, SetStatus, TypeOK, OneCutoff, ClosingSound, Closed, Captures, Recaptures, NotClosing, Open, inspectionVars, captureVars, vars
<1>2. CASE Resend
  BY <1>2, Numbers DEF Resend, Awaited, Invite, MarkInvited, SetStatus, TypeOK, OneCutoff, ClosingSound, Closed, Captures, Recaptures, NotClosing, Open, inspectionVars, captureVars, vars
<1>3. CASE CorrectEmail
  BY <1>3, Numbers DEF CorrectEmail, Awaited, Invite, MarkInvited, SetStatus, TypeOK, OneCutoff, ClosingSound, Closed, Captures, Recaptures, NotClosing, Open, inspectionVars, captureVars, vars
<1>4. ASSUME NEW i \in Captures, Revoke(i) PROVE OneCutoff'
  BY <1>4, Numbers DEF Revoke, TypeOK, OneCutoff, ClosingSound, Closed, Captures, Recaptures, NotClosing, Open, inspectionVars, captureVars, vars
<1>5. ASSUME NEW i \in Captures, VerifyOTP(i) PROVE OneCutoff'
  BY <1>5, Numbers DEF VerifyOTP, TypeOK, OneCutoff, ClosingSound, Closed, Captures, Recaptures, NotClosing, Open, inspectionVars, captureVars, vars
<1>6. ASSUME NEW i \in Captures, SaveMetadata(i) PROVE OneCutoff'
  BY <1>6, Numbers DEF SaveMetadata, HasSession, TypeOK, OneCutoff, ClosingSound, Closed, Captures, Recaptures, NotClosing, Open, inspectionVars, captureVars, vars
<1>7. ASSUME NEW i \in Captures, DeadlinePasses(i) PROVE OneCutoff'
  BY <1>7, Numbers DEF DeadlinePasses, TypeOK, OneCutoff, ClosingSound, Closed, Captures, Recaptures, NotClosing, Open, inspectionVars, captureVars, vars
<1>8. CASE DeclareImpossibility
  BY <1>8, Numbers DEF DeclareImpossibility, HasSession, TypeOK, OneCutoff, ClosingSound, Closed, Captures, Recaptures, NotClosing, Open, inspectionVars, captureVars, vars
<1>9. CASE SubmitInspection
  BY <1>9, Numbers DEF SubmitInspection, HasSession, SetStatus, TypeOK, OneCutoff, ClosingSound, Closed, Captures, Recaptures, NotClosing, Open, inspectionVars, captureVars, vars
<1>10. ASSUME NEW i \in Recaptures, RequestRecapture(i) PROVE OneCutoff'
  BY <1>10, Numbers DEF RequestRecapture, Open, SetStatus, TypeOK, OneCutoff, ClosingSound, Closed, Captures, Recaptures, NotClosing, Open, inspectionVars, captureVars, vars
<1>11. ASSUME NEW i \in Recaptures, SubmitRecapture(i) PROVE OneCutoff'
  BY <1>11, Numbers DEF SubmitRecapture, HasSession, Open, Finalizable, SetStatus, Ended, TypeOK, OneCutoff, ClosingSound, Closed, Captures, Recaptures, NotClosing, Open, inspectionVars, captureVars, vars
<1>12. ASSUME NEW i \in Recaptures, ExpireRequest(i) PROVE OneCutoff'
  BY <1>12, Numbers DEF ExpireRequest, Expire, Open, Finalizable, SetStatus, Ended, TypeOK, OneCutoff, ClosingSound, Closed, Captures, Recaptures, NotClosing, Open, inspectionVars, captureVars, vars
<1>13. ASSUME NEW i \in Recaptures, ProcessDeadline(i) PROVE OneCutoff'
  <2>1. CASE Expire(i)
    BY <2>1, Numbers DEF Expire, Open, Finalizable, SetStatus, TypeOK, OneCutoff, Captures, Recaptures
  <2>2. CASE UNCHANGED <<inspectionVars, captureVars>>
    BY <2>2 DEF inspectionVars, captureVars, OneCutoff, Open
  <2> QED BY <1>13, <2>1, <2>2 DEF ProcessDeadline
<1>14. ASSUME NEW t \in Closed, Validate(t) PROVE OneCutoff'
  BY <1>14, Numbers DEF Validate, Valid, TypeOK, OneCutoff, ClosingSound, Closed, Captures, Recaptures, NotClosing, Open, inspectionVars, captureVars, vars
<1>15. CASE Close
  BY <1>15, Numbers DEF Close, Current, SetStatus, TypeOK, OneCutoff, ClosingSound, Closed, Captures, Recaptures, NotClosing, Open, inspectionVars, captureVars, vars
<1>16. CASE GiveUpClosing
  BY <1>16, Numbers DEF GiveUpClosing, TypeOK, OneCutoff, ClosingSound, Closed, Captures, Recaptures, NotClosing, Open, inspectionVars, captureVars, vars
<1>17. ASSUME NEW m \in events, RequestComparisons(m) PROVE OneCutoff'
  BY <1>17, Numbers DEF RequestComparisons, TypeOK, OneCutoff, ClosingSound, Closed, Captures, Recaptures, NotClosing, Open, inspectionVars, captureVars, vars
<1>18. ASSUME NEW m \in events, Exhaust(m) PROVE OneCutoff'
  BY <1>18, Numbers DEF Exhaust, TypeOK, OneCutoff, ClosingSound, Closed, Captures, Recaptures, NotClosing, Open, inspectionVars, captureVars, vars
<1>19. ASSUME NEW j \in Jobs, ProcessComparison(j) PROVE OneCutoff'
  BY <1>19, Numbers DEF ProcessComparison, TypeOK, OneCutoff, ClosingSound, Closed, Captures, Recaptures, NotClosing, Open, inspectionVars, captureVars, vars
<1>20. ASSUME NEW j \in Jobs, BeginClassify(j) PROVE OneCutoff'
  BY <1>20, Numbers DEF BeginClassify, TypeOK, OneCutoff, ClosingSound, Closed, Captures, Recaptures, NotClosing, Open, inspectionVars, captureVars, vars
<1>21. ASSUME NEW j \in Jobs, SkipClassify(j) PROVE OneCutoff'
  BY <1>21, Numbers DEF SkipClassify, TypeOK, OneCutoff, ClosingSound, Closed, Captures, Recaptures, NotClosing, Open, inspectionVars, captureVars, vars
<1>22. ASSUME NEW r \in reading, Classify(r) PROVE OneCutoff'
  BY <1>22, Numbers DEF Classify, TypeOK, OneCutoff, ClosingSound, Closed, Captures, Recaptures, NotClosing, Open, inspectionVars, captureVars, vars
<1>23. CASE UNCHANGED vars
  BY <1>23 DEF vars, inspectionVars, captureVars, analysisVars, TypeOK, OneCutoff, ClosingSound, Closed, Captures, Recaptures, NotClosing, Open
<1> QED BY <1>1, <1>2, <1>3, <1>4, <1>5, <1>6, <1>7, <1>8, <1>9, <1>10, <1>11, <1>12, <1>13, <1>14, <1>15, <1>16, <1>17, <1>18, <1>19, <1>20, <1>21, <1>22, <1>23 DEF Next

\* A responsibility is closed with its draft, or before.
LEMMA InHandStep ==
    ASSUME TypeOK, OneCutoff, InHand, [Next]_vars
    PROVE  InHand'
<1>1. CASE Dispatch
  BY <1>1, Numbers DEF Dispatch, Awaited, Invite, MarkInvited, SetStatus, TypeOK, InHand, OneCutoff, Captures, Recaptures, Open, inspectionVars, captureVars, vars
<1>2. CASE Resend
  BY <1>2, Numbers DEF Resend, Awaited, Invite, MarkInvited, SetStatus, TypeOK, InHand, OneCutoff, Captures, Recaptures, Open, inspectionVars, captureVars, vars
<1>3. CASE CorrectEmail
  BY <1>3, Numbers DEF CorrectEmail, Awaited, Invite, MarkInvited, SetStatus, TypeOK, InHand, OneCutoff, Captures, Recaptures, Open, inspectionVars, captureVars, vars
<1>4. ASSUME NEW i \in Captures, Revoke(i) PROVE InHand'
  BY <1>4, Numbers DEF Revoke, TypeOK, InHand, OneCutoff, Captures, Recaptures, Open, inspectionVars, captureVars, vars
<1>5. ASSUME NEW i \in Captures, VerifyOTP(i) PROVE InHand'
  BY <1>5, Numbers DEF VerifyOTP, TypeOK, InHand, OneCutoff, Captures, Recaptures, Open, inspectionVars, captureVars, vars
<1>6. ASSUME NEW i \in Captures, SaveMetadata(i) PROVE InHand'
  BY <1>6, Numbers DEF SaveMetadata, HasSession, TypeOK, InHand, OneCutoff, Captures, Recaptures, Open, inspectionVars, captureVars, vars
<1>7. ASSUME NEW i \in Captures, DeadlinePasses(i) PROVE InHand'
  BY <1>7, Numbers DEF DeadlinePasses, TypeOK, InHand, OneCutoff, Captures, Recaptures, Open, inspectionVars, captureVars, vars
<1>8. CASE DeclareImpossibility
  BY <1>8, Numbers DEF DeclareImpossibility, HasSession, TypeOK, InHand, OneCutoff, Captures, Recaptures, Open, inspectionVars, captureVars, vars
<1>9. CASE SubmitInspection
  BY <1>9, Numbers DEF SubmitInspection, HasSession, SetStatus, TypeOK, InHand, OneCutoff, Captures, Recaptures, Open, inspectionVars, captureVars, vars
<1>10. ASSUME NEW i \in Recaptures, RequestRecapture(i) PROVE InHand'
  BY <1>10, Numbers DEF RequestRecapture, Open, SetStatus, TypeOK, InHand, OneCutoff, Captures, Recaptures, Open, inspectionVars, captureVars, vars
<1>11. ASSUME NEW i \in Recaptures, SubmitRecapture(i) PROVE InHand'
  BY <1>11, Numbers DEF SubmitRecapture, HasSession, Open, Finalizable, SetStatus, Ended, TypeOK, InHand, OneCutoff, Captures, Recaptures, Open, inspectionVars, captureVars, vars
<1>12. ASSUME NEW i \in Recaptures, ExpireRequest(i) PROVE InHand'
  BY <1>12, Numbers DEF ExpireRequest, Expire, Open, Finalizable, SetStatus, Ended, TypeOK, InHand, OneCutoff, Captures, Recaptures, Open, inspectionVars, captureVars, vars
<1>13. ASSUME NEW i \in Recaptures, ProcessDeadline(i) PROVE InHand'
  BY <1>13, Numbers DEF ProcessDeadline, Expire, Open, Finalizable, SetStatus, Ended, Due, TypeOK, InHand, OneCutoff, Captures, Recaptures, Open, inspectionVars, captureVars, vars
<1>14. ASSUME NEW t \in Closed, Validate(t) PROVE InHand'
  BY <1>14, Numbers DEF Validate, Valid, TypeOK, InHand, OneCutoff, Captures, Recaptures, Open, inspectionVars, captureVars, vars
<1>15. CASE Close
  BY <1>15, Numbers DEF Close, Current, SetStatus, TypeOK, InHand, OneCutoff, Captures, Recaptures, Open, inspectionVars, captureVars, vars
<1>16. CASE GiveUpClosing
  BY <1>16, Numbers DEF GiveUpClosing, TypeOK, InHand, OneCutoff, Captures, Recaptures, Open, inspectionVars, captureVars, vars
<1>17. ASSUME NEW m \in events, RequestComparisons(m) PROVE InHand'
  BY <1>17, Numbers DEF RequestComparisons, TypeOK, InHand, OneCutoff, Captures, Recaptures, Open, inspectionVars, captureVars, vars
<1>18. ASSUME NEW m \in events, Exhaust(m) PROVE InHand'
  BY <1>18, Numbers DEF Exhaust, TypeOK, InHand, OneCutoff, Captures, Recaptures, Open, inspectionVars, captureVars, vars
<1>19. ASSUME NEW j \in Jobs, ProcessComparison(j) PROVE InHand'
  BY <1>19, Numbers DEF ProcessComparison, TypeOK, InHand, OneCutoff, Captures, Recaptures, Open, inspectionVars, captureVars, vars
<1>20. ASSUME NEW j \in Jobs, BeginClassify(j) PROVE InHand'
  BY <1>20, Numbers DEF BeginClassify, TypeOK, InHand, OneCutoff, Captures, Recaptures, Open, inspectionVars, captureVars, vars
<1>21. ASSUME NEW j \in Jobs, SkipClassify(j) PROVE InHand'
  BY <1>21, Numbers DEF SkipClassify, TypeOK, InHand, OneCutoff, Captures, Recaptures, Open, inspectionVars, captureVars, vars
<1>22. ASSUME NEW r \in reading, Classify(r) PROVE InHand'
  BY <1>22, Numbers DEF Classify, TypeOK, InHand, OneCutoff, Captures, Recaptures, Open, inspectionVars, captureVars, vars
<1>23. CASE UNCHANGED vars
  BY <1>23 DEF vars, inspectionVars, captureVars, analysisVars, TypeOK, InHand, OneCutoff, Captures, Recaptures, Open
<1> QED BY <1>1, <1>2, <1>3, <1>4, <1>5, <1>6, <1>7, <1>8, <1>9, <1>10, <1>11, <1>12, <1>13, <1>14, <1>15, <1>16, <1>17, <1>18, <1>19, <1>20, <1>21, <1>22, <1>23 DEF Next

\* Who submits or ends a capture ends its invitation.
LEMMA AccessStep ==
    ASSUME TypeOK, OneCutoff, InHand, AccessEnds, [Next]_vars
    PROVE  AccessEnds'
<1>1. CASE Dispatch
  BY <1>1, Numbers DEF Dispatch, Awaited, Invite, MarkInvited, SetStatus, TypeOK, AccessEnds, InHand, OneCutoff, Captures, Recaptures, Open, inspectionVars, captureVars, vars
<1>2. CASE Resend
  BY <1>2, Numbers DEF Resend, Awaited, Invite, MarkInvited, SetStatus, TypeOK, AccessEnds, InHand, OneCutoff, Captures, Recaptures, Open, inspectionVars, captureVars, vars
<1>3. CASE CorrectEmail
  BY <1>3, Numbers DEF CorrectEmail, Awaited, Invite, MarkInvited, SetStatus, TypeOK, AccessEnds, InHand, OneCutoff, Captures, Recaptures, Open, inspectionVars, captureVars, vars
<1>4. ASSUME NEW i \in Captures, Revoke(i) PROVE AccessEnds'
  BY <1>4, Numbers DEF Revoke, TypeOK, AccessEnds, InHand, OneCutoff, Captures, Recaptures, Open, inspectionVars, captureVars, vars
<1>5. ASSUME NEW i \in Captures, VerifyOTP(i) PROVE AccessEnds'
  BY <1>5, Numbers DEF VerifyOTP, TypeOK, AccessEnds, InHand, OneCutoff, Captures, Recaptures, Open, inspectionVars, captureVars, vars
<1>6. ASSUME NEW i \in Captures, SaveMetadata(i) PROVE AccessEnds'
  BY <1>6, Numbers DEF SaveMetadata, HasSession, TypeOK, AccessEnds, InHand, OneCutoff, Captures, Recaptures, Open, inspectionVars, captureVars, vars
<1>7. ASSUME NEW i \in Captures, DeadlinePasses(i) PROVE AccessEnds'
  BY <1>7, Numbers DEF DeadlinePasses, TypeOK, AccessEnds, InHand, OneCutoff, Captures, Recaptures, Open, inspectionVars, captureVars, vars
<1>8. CASE DeclareImpossibility
  BY <1>8, Numbers DEF DeclareImpossibility, HasSession, TypeOK, AccessEnds, InHand, OneCutoff, Captures, Recaptures, Open, inspectionVars, captureVars, vars
<1>9. CASE SubmitInspection
  BY <1>9, Numbers DEF SubmitInspection, HasSession, SetStatus, TypeOK, AccessEnds, InHand, OneCutoff, Captures, Recaptures, Open, inspectionVars, captureVars, vars
<1>10. ASSUME NEW i \in Recaptures, RequestRecapture(i) PROVE AccessEnds'
  BY <1>10, Numbers DEF RequestRecapture, Open, SetStatus, TypeOK, AccessEnds, InHand, OneCutoff, Captures, Recaptures, Open, inspectionVars, captureVars, vars
<1>11. ASSUME NEW i \in Recaptures, SubmitRecapture(i) PROVE AccessEnds'
  BY <1>11, Numbers DEF SubmitRecapture, HasSession, Open, Finalizable, SetStatus, Ended, TypeOK, AccessEnds, InHand, OneCutoff, Captures, Recaptures, Open, inspectionVars, captureVars, vars
<1>12. ASSUME NEW i \in Recaptures, ExpireRequest(i) PROVE AccessEnds'
  BY <1>12, Numbers DEF ExpireRequest, Expire, Open, Finalizable, SetStatus, Ended, TypeOK, AccessEnds, InHand, OneCutoff, Captures, Recaptures, Open, inspectionVars, captureVars, vars
<1>13. ASSUME NEW i \in Recaptures, ProcessDeadline(i) PROVE AccessEnds'
  BY <1>13, Numbers DEF ProcessDeadline, Expire, Open, Finalizable, SetStatus, Ended, Due, TypeOK, AccessEnds, InHand, OneCutoff, Captures, Recaptures, Open, inspectionVars, captureVars, vars
<1>14. ASSUME NEW t \in Closed, Validate(t) PROVE AccessEnds'
  BY <1>14, Numbers DEF Validate, Valid, TypeOK, AccessEnds, InHand, OneCutoff, Captures, Recaptures, Open, inspectionVars, captureVars, vars
<1>15. CASE Close
  BY <1>15, Numbers DEF Close, Current, SetStatus, TypeOK, AccessEnds, InHand, OneCutoff, Captures, Recaptures, Open, inspectionVars, captureVars, vars
<1>16. CASE GiveUpClosing
  BY <1>16, Numbers DEF GiveUpClosing, TypeOK, AccessEnds, InHand, OneCutoff, Captures, Recaptures, Open, inspectionVars, captureVars, vars
<1>17. ASSUME NEW m \in events, RequestComparisons(m) PROVE AccessEnds'
  BY <1>17, Numbers DEF RequestComparisons, TypeOK, AccessEnds, InHand, OneCutoff, Captures, Recaptures, Open, inspectionVars, captureVars, vars
<1>18. ASSUME NEW m \in events, Exhaust(m) PROVE AccessEnds'
  BY <1>18, Numbers DEF Exhaust, TypeOK, AccessEnds, InHand, OneCutoff, Captures, Recaptures, Open, inspectionVars, captureVars, vars
<1>19. ASSUME NEW j \in Jobs, ProcessComparison(j) PROVE AccessEnds'
  BY <1>19, Numbers DEF ProcessComparison, TypeOK, AccessEnds, InHand, OneCutoff, Captures, Recaptures, Open, inspectionVars, captureVars, vars
<1>20. ASSUME NEW j \in Jobs, BeginClassify(j) PROVE AccessEnds'
  BY <1>20, Numbers DEF BeginClassify, TypeOK, AccessEnds, InHand, OneCutoff, Captures, Recaptures, Open, inspectionVars, captureVars, vars
<1>21. ASSUME NEW j \in Jobs, SkipClassify(j) PROVE AccessEnds'
  BY <1>21, Numbers DEF SkipClassify, TypeOK, AccessEnds, InHand, OneCutoff, Captures, Recaptures, Open, inspectionVars, captureVars, vars
<1>22. ASSUME NEW r \in reading, Classify(r) PROVE AccessEnds'
  BY <1>22, Numbers DEF Classify, TypeOK, AccessEnds, InHand, OneCutoff, Captures, Recaptures, Open, inspectionVars, captureVars, vars
<1>23. CASE UNCHANGED vars
  BY <1>23 DEF vars, inspectionVars, captureVars, analysisVars, TypeOK, AccessEnds, InHand, OneCutoff, Captures, Recaptures, Open
<1> QED BY <1>1, <1>2, <1>3, <1>4, <1>5, <1>6, <1>7, <1>8, <1>9, <1>10, <1>11, <1>12, <1>13, <1>14, <1>15, <1>16, <1>17, <1>18, <1>19, <1>20, <1>21, <1>22, <1>23 DEF Next

\* The lock gives each outcome one verdict.
LEMMA OneAtATimeStep ==
    ASSUME TypeOK, OneAtATime, [Next]_vars
    PROVE  OneAtATime'
<1>0. JobsTyped /\ CaptureTyped /\ Jobs = 1..Len(jobs) /\ Len(jobs) \in Nat
  BY TypeParts, Positions
<1>1. CASE UNCHANGED analysisVars
  BY <1>1 DEF OneAtATime, JudgedOnce, Jobs, analysisVars
<1>2. ASSUME NEW m \in events, RequestComparisons(m) PROVE OneAtATime'
  <2>1. reading' = reading
    BY <1>2 DEF RequestComparisons
  <2>2. CASE UNCHANGED <<jobs, news>>
    BY <2>1, <2>2 DEF OneAtATime, JudgedOnce, Jobs
  <2>3. CASE /\ jobs' \in Seq(JobRecords) /\ Len(jobs') = Len(jobs) + 1
             /\ \A k \in Jobs : jobs'[k] = jobs[k]
             /\ jobs'[Len(jobs) + 1].verdicts = 0
             /\ \/ news' = news
                \/ news' = news \union {Len(jobs) + 1} /\ jobs'[Len(jobs) + 1].status # "PENDING"
    <3>1. Jobs' = Jobs \union {Len(jobs) + 1}
      BY <1>0, <2>3, PositionsNext
    <3>2. \A r \in reading : r[2] \in Jobs
      BY <1>0 DEF JobsTyped
    <3>3. news \subseteq Jobs
      BY <1>0 DEF JobsTyped
    <3> QED BY <2>1, <2>3, <3>1, <3>2, <3>3 DEF OneAtATime, JudgedOnce
  <2> QED BY <1>0, <1>2, <2>2, <2>3, Requested
<1>3. ASSUME NEW j \in Jobs, ProcessComparison(j) PROVE OneAtATime'
  <2>1. reading' = reading
    BY <1>3 DEF ProcessComparison
  <2>2. CASE UNCHANGED <<jobs, news>>
    BY <2>1, <2>2 DEF OneAtATime, JudgedOnce, Jobs
  <2>3. CASE /\ jobs' \in Seq(JobRecords) /\ Len(jobs') = Len(jobs)
             /\ \A k \in Jobs : jobs'[k].verdicts = jobs[k].verdicts
             /\ \A k \in Jobs : k # j => jobs'[k] = jobs[k]
             /\ jobs[j].status = "PENDING" /\ jobs'[j].status # "PENDING"
             /\ news' = news \union {j}
    <3>1. Jobs' = Jobs
      BY <1>0, <2>3, PositionsNext
    <3>2. \A r \in reading : r[2] \in Jobs
      BY <1>0 DEF JobsTyped
    <3>3. news \subseteq Jobs
      BY <1>0 DEF JobsTyped
    <3> QED BY <2>1, <2>3, <3>1, <3>2, <3>3 DEF OneAtATime, JudgedOnce
  <2> QED BY <1>0, <1>3, <2>2, <2>3, Processed
<1>4. ASSUME NEW j \in Jobs, BeginClassify(j) PROVE OneAtATime'
  <2>1. UNCHANGED <<jobs, news>> /\ reading' = {<<j, Latest>>} /\ Jobs' = Jobs
    BY <1>4 DEF BeginClassify, Free, Jobs
  <2>2. Latest \in Jobs /\ jobs[Latest].status # "PENDING"
    BY <1>0, <1>4 DEF Latest, BeginClassify, NeedsVerdict
  <2>3. jobs[Latest].verdicts = 0
    <3>1. CASE Latest \in news
      BY <3>1 DEF OneAtATime
    <3>2. CASE ~Judged
      <4>1. jobs[Latest].verdicts \in Nat
        <5>1. jobs[Latest] \in JobRecords
          BY <1>0, <2>2, ElementOfSeq DEF JobsTyped
        <5> QED BY <5>1 DEF JobRecords
      <4> QED BY <2>2, <3>2, <4>1 DEF Judged
    <3> QED BY <1>4, <3>1, <3>2 DEF BeginClassify, NeedsVerdict
  <2> QED BY <2>1, <2>2, <2>3 DEF OneAtATime, JudgedOnce
<1>5. ASSUME NEW r \in reading, Classify(r) PROVE OneAtATime'
  <2>1. /\ jobs' \in Seq(JobRecords) /\ Len(jobs') = Len(jobs)
        /\ \A k \in Jobs : jobs'[k].status = jobs[k].status
        /\ \A k \in Jobs : k # r[2] => jobs'[k].verdicts = jobs[k].verdicts
        /\ r[2] \in Jobs /\ jobs'[r[2]].verdicts = jobs[r[2]].verdicts + 1
        /\ news' = {} /\ reading' = reading \ {r}
    BY <1>0, <1>5, Classified
  <2>2. Jobs' = Jobs
    BY <1>0, <2>1, PositionsNext
  <2>3. jobs'[r[2]].verdicts = 1 /\ jobs'[r[2]].status # "PENDING"
    BY <2>1 DEF OneAtATime
  <2>4. reading' = {}
    BY <2>1 DEF OneAtATime
  <2> QED BY <2>1, <2>2, <2>3, <2>4 DEF OneAtATime, JudgedOnce
<1> QED BY <1>1, <1>2, <1>3, <1>4, <1>5, WhoCompares

\* A result is news when it comes, and its verdict is given to it or to an older one.
LEMMA SeenLateStep ==
    ASSUME TypeOK, OneAtATime, SeenLate, [Next]_vars
    PROVE  SeenLate'
<1>0. JobsTyped /\ CaptureTyped /\ Jobs = 1..Len(jobs) /\ Len(jobs) \in Nat
  BY TypeParts, Positions
<1>1. CASE UNCHANGED analysisVars
  BY <1>1 DEF SeenLate, Latest, Jobs, analysisVars
<1>2. ASSUME NEW m \in events, RequestComparisons(m) PROVE SeenLate'
  <2>1. overlooked' = overlooked
    BY <1>2 DEF RequestComparisons
  <2>2. CASE UNCHANGED <<jobs, news>>
    BY <2>1, <2>2 DEF SeenLate, Latest, Jobs
  <2>3. CASE /\ Len(jobs') = Len(jobs) + 1
             /\ \/ jobs'[Len(jobs) + 1].status = "PENDING"
                \/ news' = news \union {Len(jobs) + 1}
    BY <2>3 DEF SeenLate, Latest
  <2> QED BY <1>0, <1>2, <2>2, <2>3, Requested
<1>3. ASSUME NEW j \in Jobs, ProcessComparison(j) PROVE SeenLate'
  <2>1. overlooked' = overlooked
    BY <1>3 DEF ProcessComparison
  <2>2. CASE UNCHANGED <<jobs, news>>
    BY <2>1, <2>2 DEF SeenLate, Latest, Jobs
  <2>3. CASE /\ jobs' \in Seq(JobRecords) /\ Len(jobs') = Len(jobs)
             /\ \A k \in Jobs : k # j => jobs'[k] = jobs[k]
             /\ news' = news \union {j}
    <3>1. Jobs' = Jobs
      BY <1>0, <2>3, PositionsNext
    <3> QED BY <2>1, <2>3, <3>1 DEF SeenLate, Latest
  <2> QED BY <1>0, <1>3, <2>2, <2>3, Processed
<1>4. ASSUME NEW j \in Jobs, BeginClassify(j) PROVE SeenLate'
  BY <1>4 DEF BeginClassify, SeenLate, Latest, Jobs
<1>5. ASSUME NEW r \in reading, Classify(r) PROVE SeenLate'
  <2>1. /\ jobs' \in Seq(JobRecords) /\ Len(jobs') = Len(jobs)
        /\ \A k \in Jobs : jobs'[k].status = jobs[k].status
        /\ \A k \in Jobs : k # r[2] => jobs'[k].verdicts = jobs[k].verdicts
        /\ r[2] \in Jobs /\ jobs'[r[2]].verdicts = jobs[r[2]].verdicts + 1
        /\ overlooked' = overlooked \union {j \in news : j > r[2]}
    BY <1>0, <1>5, Classified
  <2>2. Jobs' = Jobs /\ Latest' = Latest
    BY <1>0, <2>1, PositionsNext DEF Latest
  <2>3. CASE r[2] = Latest
    BY <2>1, <2>2, <2>3 DEF OneAtATime, SeenLate
  <2>4. CASE r[2] # Latest
    <3>1. Latest \in Jobs => Latest > r[2]
      BY <1>0, <2>1, <2>4 DEF Latest
    <3> QED BY <2>1, <2>2, <2>4, <3>1 DEF SeenLate
  <2> QED BY <2>3, <2>4
<1> QED BY <1>1, <1>2, <1>3, <1>4, <1>5, WhoCompares

\* The event of a result outlives everything but its verdict, and a verdict that
\* overlooks it.
LEMMA AwaitStep ==
    ASSUME TypeOK, OneAtATime, SeenLate, ResultAwaitsVerdict, [Next]_vars
    PROVE  ResultAwaitsVerdict'
<1>0. JobsTyped /\ CaptureTyped /\ Jobs = 1..Len(jobs) /\ Len(jobs) \in Nat
  BY TypeParts, Positions
<1>1. CASE Dispatch
  <2>1. UNCHANGED analysisVars /\ (<<"compared", Latest>> \in events => <<"compared", Latest>> \in events')
    BY <1>1 DEF Dispatch, Awaited, Invite, MarkInvited, SetStatus, inspectionVars, captureVars
  <2> QED BY <2>1 DEF ResultAwaitsVerdict, Latest, Jobs, analysisVars
<1>2. CASE Resend
  <2>1. UNCHANGED analysisVars /\ (<<"compared", Latest>> \in events => <<"compared", Latest>> \in events')
    BY <1>2 DEF Resend, Awaited, Invite, MarkInvited, SetStatus, inspectionVars, captureVars
  <2> QED BY <2>1 DEF ResultAwaitsVerdict, Latest, Jobs, analysisVars
<1>3. CASE CorrectEmail
  <2>1. UNCHANGED analysisVars /\ (<<"compared", Latest>> \in events => <<"compared", Latest>> \in events')
    BY <1>3 DEF CorrectEmail, Awaited, Invite, MarkInvited, SetStatus, inspectionVars, captureVars
  <2> QED BY <2>1 DEF ResultAwaitsVerdict, Latest, Jobs, analysisVars
<1>4. ASSUME NEW i \in Captures, Revoke(i) PROVE ResultAwaitsVerdict'
  <2>1. UNCHANGED analysisVars /\ (<<"compared", Latest>> \in events => <<"compared", Latest>> \in events')
    BY <1>4 DEF Revoke, inspectionVars, captureVars
  <2> QED BY <2>1 DEF ResultAwaitsVerdict, Latest, Jobs, analysisVars
<1>5. ASSUME NEW i \in Captures, VerifyOTP(i) PROVE ResultAwaitsVerdict'
  <2>1. UNCHANGED analysisVars /\ (<<"compared", Latest>> \in events => <<"compared", Latest>> \in events')
    BY <1>5 DEF VerifyOTP, inspectionVars, captureVars
  <2> QED BY <2>1 DEF ResultAwaitsVerdict, Latest, Jobs, analysisVars
<1>6. ASSUME NEW i \in Captures, SaveMetadata(i) PROVE ResultAwaitsVerdict'
  <2>1. UNCHANGED analysisVars /\ (<<"compared", Latest>> \in events => <<"compared", Latest>> \in events')
    BY <1>6 DEF SaveMetadata, HasSession, inspectionVars, captureVars
  <2> QED BY <2>1 DEF ResultAwaitsVerdict, Latest, Jobs, analysisVars
<1>7. ASSUME NEW i \in Captures, DeadlinePasses(i) PROVE ResultAwaitsVerdict'
  <2>1. UNCHANGED analysisVars /\ (<<"compared", Latest>> \in events => <<"compared", Latest>> \in events')
    BY <1>7 DEF DeadlinePasses, inspectionVars, captureVars
  <2> QED BY <2>1 DEF ResultAwaitsVerdict, Latest, Jobs, analysisVars
<1>8. CASE DeclareImpossibility
  <2>1. UNCHANGED analysisVars /\ (<<"compared", Latest>> \in events => <<"compared", Latest>> \in events')
    BY <1>8 DEF DeclareImpossibility, HasSession, inspectionVars, captureVars
  <2> QED BY <2>1 DEF ResultAwaitsVerdict, Latest, Jobs, analysisVars
<1>9. CASE SubmitInspection
  <2>1. UNCHANGED analysisVars /\ (<<"compared", Latest>> \in events => <<"compared", Latest>> \in events')
    BY <1>9 DEF SubmitInspection, HasSession, SetStatus, inspectionVars, captureVars
  <2> QED BY <2>1 DEF ResultAwaitsVerdict, Latest, Jobs, analysisVars
<1>10. ASSUME NEW i \in Recaptures, RequestRecapture(i) PROVE ResultAwaitsVerdict'
  <2>1. UNCHANGED analysisVars /\ (<<"compared", Latest>> \in events => <<"compared", Latest>> \in events')
    BY <1>10 DEF RequestRecapture, Open, SetStatus, inspectionVars, captureVars
  <2> QED BY <2>1 DEF ResultAwaitsVerdict, Latest, Jobs, analysisVars
<1>11. ASSUME NEW i \in Recaptures, SubmitRecapture(i) PROVE ResultAwaitsVerdict'
  <2>1. UNCHANGED analysisVars /\ (<<"compared", Latest>> \in events => <<"compared", Latest>> \in events')
    BY <1>11 DEF SubmitRecapture, HasSession, Open, Finalizable, SetStatus, Ended, inspectionVars, captureVars
  <2> QED BY <2>1 DEF ResultAwaitsVerdict, Latest, Jobs, analysisVars
<1>12. ASSUME NEW i \in Recaptures, ExpireRequest(i) PROVE ResultAwaitsVerdict'
  <2>1. UNCHANGED analysisVars /\ (<<"compared", Latest>> \in events => <<"compared", Latest>> \in events')
    BY <1>12 DEF ExpireRequest, Expire, Open, Finalizable, SetStatus, Ended, inspectionVars, captureVars
  <2> QED BY <2>1 DEF ResultAwaitsVerdict, Latest, Jobs, analysisVars
<1>13. ASSUME NEW i \in Recaptures, ProcessDeadline(i) PROVE ResultAwaitsVerdict'
  <2>1. UNCHANGED analysisVars /\ (<<"compared", Latest>> \in events => <<"compared", Latest>> \in events')
    BY <1>13 DEF ProcessDeadline, Expire, Open, Finalizable, SetStatus, Ended, Due, inspectionVars, captureVars
  <2> QED BY <2>1 DEF ResultAwaitsVerdict, Latest, Jobs, analysisVars
<1>14. ASSUME NEW t \in Closed, Validate(t) PROVE ResultAwaitsVerdict'
  <2>1. UNCHANGED analysisVars /\ (<<"compared", Latest>> \in events => <<"compared", Latest>> \in events')
    BY <1>14 DEF Validate, Valid, inspectionVars, captureVars
  <2> QED BY <2>1 DEF ResultAwaitsVerdict, Latest, Jobs, analysisVars
<1>15. CASE Close
  <2>1. UNCHANGED analysisVars /\ (<<"compared", Latest>> \in events => <<"compared", Latest>> \in events')
    BY <1>15 DEF Close, Current, SetStatus, inspectionVars, captureVars
  <2> QED BY <2>1 DEF ResultAwaitsVerdict, Latest, Jobs, analysisVars
<1>16. CASE GiveUpClosing
  <2>1. UNCHANGED analysisVars /\ (<<"compared", Latest>> \in events => <<"compared", Latest>> \in events')
    BY <1>16 DEF GiveUpClosing, inspectionVars, captureVars
  <2> QED BY <2>1 DEF ResultAwaitsVerdict, Latest, Jobs, analysisVars
<1>17. ASSUME NEW m \in events, RequestComparisons(m) PROVE ResultAwaitsVerdict'
  <2>1. UNCHANGED <<reading, overlooked>> /\ \A n : <<"compared", n>> \in events => <<"compared", n>> \in events'
    BY <1>17 DEF RequestComparisons, Compares
  <2>2. CASE UNCHANGED <<jobs, news>>
    BY <2>1, <2>2 DEF ResultAwaitsVerdict, Latest, Jobs
  <2>3. CASE /\ Len(jobs') = Len(jobs) + 1
             /\ \/ jobs'[Len(jobs) + 1].status = "PENDING"
                \/ <<"compared", Len(jobs) + 1>> \in events'
    BY <2>3 DEF ResultAwaitsVerdict, Latest
  <2> QED BY <1>0, <1>17, <2>2, <2>3, Requested
<1>18. ASSUME NEW m \in events, Exhaust(m) PROVE ResultAwaitsVerdict'
  <2>1. UNCHANGED analysisVars /\ events' = events \ {m}
    BY <1>18 DEF Exhaust
  <2>2. m = <<"compared", Latest>> => jobs[Latest].status = "PENDING"
    BY <1>18 DEF Exhaust
  <2> QED BY <2>1, <2>2 DEF ResultAwaitsVerdict, Latest, Jobs, analysisVars
<1>19. ASSUME NEW j \in Jobs, ProcessComparison(j) PROVE ResultAwaitsVerdict'
  <2>1. UNCHANGED <<reading, overlooked>> /\ \A n : <<"compared", n>> \in events => <<"compared", n>> \in events'
    BY <1>19 DEF ProcessComparison
  <2>2. CASE UNCHANGED <<jobs, news>>
    BY <2>1, <2>2 DEF ResultAwaitsVerdict, Latest, Jobs
  <2>3. CASE /\ jobs' \in Seq(JobRecords) /\ Len(jobs') = Len(jobs)
             /\ \A k \in Jobs : k # j => jobs'[k] = jobs[k]
             /\ <<"compared", j>> \in events'
    <3>1. Jobs' = Jobs
      BY <1>0, <2>3, PositionsNext
    <3> QED BY <2>1, <2>3, <3>1 DEF ResultAwaitsVerdict, Latest
  <2> QED BY <1>0, <1>19, <2>2, <2>3, Processed
<1>20. ASSUME NEW j \in Jobs, BeginClassify(j) PROVE ResultAwaitsVerdict'
  <2>1. <<j, Latest>> \in reading' /\ Latest' = Latest
    BY <1>20 DEF BeginClassify, Latest
  <2> QED BY <2>1 DEF ResultAwaitsVerdict
<1>21. ASSUME NEW j \in Jobs, SkipClassify(j) PROVE ResultAwaitsVerdict'
  <2>1. UNCHANGED analysisVars /\ Latest \notin news
    BY <1>21 DEF SkipClassify, NeedsVerdict
  <2> QED BY <2>1 DEF SeenLate, ResultAwaitsVerdict, Latest, Jobs, analysisVars
<1>22. ASSUME NEW r \in reading, Classify(r) PROVE ResultAwaitsVerdict'
  <2>1. /\ jobs' \in Seq(JobRecords) /\ Len(jobs') = Len(jobs)
        /\ \A k \in Jobs : jobs'[k].status = jobs[k].status
        /\ \A k \in Jobs : k # r[2] => jobs'[k].verdicts = jobs[k].verdicts
        /\ r[2] \in Jobs /\ jobs'[r[2]].verdicts = jobs[r[2]].verdicts + 1
        /\ overlooked \subseteq overlooked' /\ events' = events
    BY <1>0, <1>22, Classified DEF Classify
  <2>2. Jobs' = Jobs /\ Latest' = Latest
    BY <1>0, <2>1, PositionsNext DEF Latest
  <2>3. CASE r[2] = Latest
    BY <2>1, <2>2, <2>3 DEF OneAtATime, ResultAwaitsVerdict
  <2>4. CASE r[2] # Latest
    <3>1. \A q \in reading : q[2] # Latest
      BY <2>4 DEF OneAtATime
    <3> QED BY <2>1, <2>2, <2>4, <3>1 DEF ResultAwaitsVerdict
  <2> QED BY <2>3, <2>4
<1>23. CASE UNCHANGED vars
  BY <1>23 DEF vars, analysisVars, ResultAwaitsVerdict, Latest, Jobs
<1> QED BY <1>1, <1>2, <1>3, <1>4, <1>5, <1>6, <1>7, <1>8, <1>9, <1>10, <1>11, <1>12, <1>13, <1>14, <1>15, <1>16, <1>17, <1>18, <1>19, <1>20, <1>21, <1>22, <1>23 DEF Next

\* The invariant is inductive.
LEMMA Inductive == IInv /\ [Next]_vars => IInv'
<1> SUFFICES ASSUME IInv, [Next]_vars PROVE IInv'
  OBVIOUS
<1>1. TypeOK'
  <2>1. InspectionTyped' /\ CaptureTyped' /\ JobsTyped' /\ EventsTyped'
    BY TypeParts, InspectionTypes, CaptureTypes, JobTypes, EventTypes DEF IInv
  <2> QED BY <2>1 DEF TypeOK, InspectionTyped, CaptureTyped, JobsTyped, EventsTyped
<1>2. StillPlanned' /\ ClosingSound' /\ OneCutoff' /\ InHand' /\ AccessEnds'
  BY PlannedStep, ClosingStep, CutoffStep, InHandStep, AccessStep DEF IInv
<1>3. OneAtATime' /\ SeenLate' /\ ResultAwaitsVerdict'
  BY OneAtATimeStep, SeenLateStep, AwaitStep DEF IInv
<1> QED BY <1>1, <1>2, <1>3 DEF IInv

LEMMA InvariantHolds == Spec => []IInv
<1>1. Init => IInv
  <2> SUFFICES ASSUME Init PROVE IInv
    OBVIOUS
  <2>1. InspectionTyped /\ CaptureTyped
    BY Numbers DEF Init, InspectionTyped, CaptureTyped, Statuses, Closed, NotClosing
  <2>2. JobsTyped /\ EventsTyped /\ Jobs = {} /\ news = {} /\ reading = {}
    BY Numbers, EmptySeq DEF Init, JobsTyped, Jobs, EventsTyped, Messages
  <2>3. TypeOK
    BY <2>1, <2>2, TypeParts
  <2>4. StillPlanned /\ ClosingSound
    BY Numbers DEF Init, StillPlanned, ClosingSound, Current, NotClosing
  <2>5. OneCutoff /\ InHand /\ AccessEnds
    <3>1. \A i \in Captures : draft[i] = (IF i = 0 THEN "OPEN" ELSE "none") /\ resp[i] = (IF i = 0 THEN "PENDING" ELSE "none") /\ invitation[i] = "none"
      BY DEF Init
    <3>2. \A i \in Recaptures : i \in Captures /\ i # 0 /\ request[i] = "none"
      BY Numbers DEF Init, Recaptures
    <3> QED BY <3>1, <3>2 DEF OneCutoff, InHand, AccessEnds, Open
  <2>6. OneAtATime /\ SeenLate /\ ResultAwaitsVerdict
    BY <2>2 DEF OneAtATime, JudgedOnce, SeenLate, ResultAwaitsVerdict
  <2> QED BY <2>3, <2>4, <2>5, <2>6 DEF IInv
<1> QED BY <1>1, Inductive, PTL DEF Spec

-----------------------------------------------------------------------------
(* What it gives *)

\* A submission and a cancellation never both succeed.
THEOREM SubmissionWins == Spec => []SubmittedNeverCanceled
<1>1. IInv => SubmittedNeverCanceled
  BY DEF IInv, StillPlanned, SubmittedNeverCanceled
<1> QED BY <1>1, InvariantHolds, PTL

\* A recapture has one end, and its draft the same.
THEOREM CutoffIsOne == Spec => []OneCutoff
<1>1. IInv => OneCutoff
  BY DEF IInv
<1> QED BY <1>1, InvariantHolds, PTL

\* No link outlives the capture it opens.
THEOREM LinksEnd == Spec => []AccessEnds
<1>1. IInv => AccessEnds
  BY DEF IInv
<1> QED BY <1>1, InvariantHolds, PTL

\* No outcome is judged twice, however often its event comes.
THEOREM OneVerdict == Spec => []JudgedOnce
<1>1. IInv => JudgedOnce
  BY DEF IInv, OneAtATime
<1> QED BY <1>1, InvariantHolds, PTL

\* The newest result that no verdict is about has an event or a classification that
\* brings one, unless it ended while a classification held the lock.
THEOREM ResultsAreAwaited == Spec => []ResultAwaitsVerdict
<1>1. IInv => ResultAwaitsVerdict
  BY DEF IInv
<1> QED BY <1>1, InvariantHolds, PTL

-----------------------------------------------------------------------------
(* The lifecycle implements the flow                                          *)

flowVars == <<inspectionVars, draft, request>>

\* The steps that concern the flow; all others leave it and the closing as they are.
LEMMA FlowSteps ==
    ASSUME [Next]_vars
    PROVE  \/ UNCHANGED <<flowVars, closing>>
           \/ MarkInvited /\ UNCHANGED <<evidence, draft, request, closing, jobs>>
           \/ SubmitInspection
           \/ \E i \in Recaptures : RequestRecapture(i) \/ SubmitRecapture(i) \/ Expire(i)
           \/ \E t \in Closed : Validate(t)
           \/ Close \/ GiveUpClosing
           \/ \E r \in reading : Classify(r)
<1> USE DEF flowVars, inspectionVars, captureVars, analysisVars
<1>1. CASE Dispatch \/ Resend \/ CorrectEmail
  BY <1>1 DEF Dispatch, Resend, CorrectEmail, Invite
<1>2. ASSUME NEW i \in Captures, Revoke(i) \/ VerifyOTP(i) \/ SaveMetadata(i) \/ DeadlinePasses(i)
      PROVE  UNCHANGED <<flowVars, closing>>
  BY <1>2 DEF Revoke, VerifyOTP, SaveMetadata, DeadlinePasses
<1>3. CASE DeclareImpossibility
  BY <1>3 DEF DeclareImpossibility
<1>4. ASSUME NEW i \in Recaptures, ExpireRequest(i) \/ ProcessDeadline(i)
      PROVE  Expire(i) \/ UNCHANGED <<flowVars, closing>>
  BY <1>4 DEF ExpireRequest, ProcessDeadline
<1>5. ASSUME NEW m \in events, RequestComparisons(m) \/ Exhaust(m) PROVE UNCHANGED <<flowVars, closing>>
  BY <1>5 DEF RequestComparisons, Exhaust
<1>6. ASSUME NEW j \in Jobs, ProcessComparison(j) \/ BeginClassify(j) \/ SkipClassify(j)
      PROVE  UNCHANGED <<flowVars, closing>>
  BY <1>6 DEF ProcessComparison, BeginClassify, SkipClassify
<1>7. CASE UNCHANGED vars
  BY <1>7 DEF vars
<1> QED BY <1>1, <1>2, <1>3, <1>4, <1>5, <1>6, <1>7 DEF Next

Submitted == draft[0] = "SUBMITTED"

\* Only these make the work that leads to a comparison.
AnalysisKinds == {"submitted", "corrected", "reanalyse"}

\* Nothing is compared, judged or counted as evidence before the submission.
SubmittedFirst ==
    \/ Submitted
    \/ /\ status \in {"PLANNED", "INVITED", "CANCELED"} /\ evidence = 0 /\ jobs = <<>>
       /\ \A m \in events : m[1] \notin AnalysisKinds
       /\ closing.target # "INVALIDATED"

\* What a manager may invalidate is not closed as long as its version lasts.
InvalidatesOpen ==
    closing.target = "INVALIDATED" => evidence = 1 /\ (Current => status \notin Closed)

\* An inspection that waits for a recapture has one to wait for.
WaitsForSomething == status = "RECAPTURE_PENDING" => \E i \in Recaptures : Open(i)

FlowInv == IInv /\ SubmittedFirst /\ InvalidatesOpen /\ WaitsForSomething

\* A submission is never taken back.
LEMMA StaysSubmitted ==
    ASSUME TypeOK, Submitted, [Next]_vars
    PROVE  Submitted'
<1> USE Numbers DEF Submitted, TypeOK, Recaptures, flowVars
<1>1. ASSUME NEW i \in Recaptures, RequestRecapture(i) \/ SubmitRecapture(i) \/ Expire(i)
      PROVE  Submitted'
  <2>1. i \in Captures /\ i # 0
    OBVIOUS
  <2> QED BY <1>1, <2>1 DEF RequestRecapture, SubmitRecapture, Expire
<1>2. CASE SubmitInspection
  BY <1>2 DEF SubmitInspection
<1>3. ASSUME \/ UNCHANGED <<flowVars, closing>> \/ UNCHANGED draft
             \/ \E t \in Closed : Validate(t)
             \/ Close \/ GiveUpClosing
             \/ \E r \in reading : Classify(r)
      PROVE  Submitted'
  BY <1>3 DEF Validate, Close, GiveUpClosing, Classify, captureVars
<1> QED BY <1>1, <1>2, <1>3, FlowSteps

\* Before it, nothing but the invitation and a cancellation goes on.
LEMMA SubmittedFirstStep ==
    ASSUME TypeOK, SubmittedFirst, [Next]_vars
    PROVE  SubmittedFirst'
<1>1. CASE Submitted
  BY <1>1, StaysSubmitted DEF SubmittedFirst
<1>2. CASE ~Submitted
  <2> USE <1>2 DEF SubmittedFirst, AnalysisKinds, inspectionVars, captureVars, analysisVars, SetStatus
  <2>1. jobs = <<>> /\ Jobs = {} /\ reading = {}
    BY EmptySeq DEF TypeOK, Jobs
  <2>2. CASE Dispatch \/ Resend \/ CorrectEmail
    BY <2>2 DEF Dispatch, Resend, CorrectEmail, Invite, MarkInvited
  <2>3. ASSUME NEW i \in Captures, Revoke(i) \/ VerifyOTP(i) \/ SaveMetadata(i) \/ DeadlinePasses(i)
        PROVE  SubmittedFirst'
    BY <2>3 DEF Revoke, VerifyOTP, SaveMetadata, DeadlinePasses
  <2>4. CASE DeclareImpossibility
    BY <2>4 DEF DeclareImpossibility
  <2>5. CASE SubmitInspection
    <3>1. Submitted'
      BY <2>5, Numbers DEF SubmitInspection, Submitted, TypeOK
    <3> QED BY <3>1
  <2>6. ASSUME NEW i \in Recaptures,
               RequestRecapture(i) \/ SubmitRecapture(i) \/ ExpireRequest(i) \/ ProcessDeadline(i)
        PROVE  SubmittedFirst'
    <3>1. ~Expire(i) /\ ~RequestRecapture(i) /\ ~SubmitRecapture(i)
      BY DEF Expire, RequestRecapture, SubmitRecapture, Finalizable
    <3> QED BY <2>6, <3>1 DEF ExpireRequest, ProcessDeadline
  <2>7. ASSUME NEW t \in Closed, Validate(t) PROVE SubmittedFirst'
    <3>1. t # "INVALIDATED" /\ closing'.target = t
      BY <2>7 DEF Validate, Valid
    <3> QED BY <2>7, <3>1 DEF Validate
  <2>8. CASE Close
    <3>1. closing.target = "CANCELED"
      BY <2>8 DEF Close, TypeOK, Closed
    <3> QED BY <2>8, <3>1 DEF Close, NotClosing
  <2>9. CASE GiveUpClosing
    BY <2>9 DEF GiveUpClosing, NotClosing
  <2>10. ASSUME NEW m \in events, RequestComparisons(m) PROVE SubmittedFirst'
    BY <2>10 DEF RequestComparisons, Compares
  <2>11. ASSUME NEW m \in events, Exhaust(m) PROVE SubmittedFirst'
    BY <2>11 DEF Exhaust
  <2>12. CASE UNCHANGED vars
    BY <2>12 DEF vars, Submitted
  <2> QED
    BY <2>1, <2>2, <2>3, <2>4, <2>5, <2>6, <2>7, <2>8, <2>9, <2>10, <2>11, <2>12 DEF Next
<1> QED BY <1>1, <1>2

\* Every change of the status takes a new version, so that what was validated holds
\* while the version does.
LEMMA InvalidatesOpenStep ==
    ASSUME TypeOK, ClosingSound, SubmittedFirst, InvalidatesOpen, [Next]_vars
    PROVE  InvalidatesOpen'
<1> USE DEF InvalidatesOpen, flowVars, inspectionVars, SetStatus
<1>1. ASSUME UNCHANGED closing, evidence' = evidence \/ ~Submitted,
             UNCHANGED <<status, version>> \/ version' = version + 1
      PROVE  InvalidatesOpen'
  <2> SUFFICES ASSUME closing.target = "INVALIDATED" PROVE InvalidatesOpen'
    BY <1>1
  <2>1. evidence' = evidence
    BY <1>1 DEF SubmittedFirst
  <2>2. closing.version \in Nat /\ version \in Nat /\ closing.version <= version
    BY DEF TypeOK, ClosingSound, NotClosing
  <2> QED BY <1>1, <2>1, <2>2 DEF Current
<1>2. CASE UNCHANGED <<flowVars, closing>>
  BY <1>1, <1>2
<1>3. CASE MarkInvited /\ UNCHANGED <<evidence, draft, request, closing>>
  BY <1>1, <1>3 DEF MarkInvited
<1>4. CASE SubmitInspection
  BY <1>1, <1>4 DEF SubmitInspection, Submitted
<1>5. ASSUME NEW i \in Recaptures, RequestRecapture(i) \/ SubmitRecapture(i) \/ Expire(i)
      PROVE  InvalidatesOpen'
  BY <1>1, <1>5 DEF RequestRecapture, SubmitRecapture, Expire
<1>6. ASSUME NEW t \in Closed, Validate(t) PROVE InvalidatesOpen'
  <2>1. closing'.target = t /\ UNCHANGED <<status, evidence>> /\ Valid(t)
    BY <1>6 DEF Validate
  <2> QED BY <2>1 DEF Valid, TypeOK
<1>7. CASE Close \/ GiveUpClosing
  BY <1>7 DEF Close, GiveUpClosing, NotClosing
<1>8. ASSUME NEW r \in reading, Classify(r) PROVE InvalidatesOpen'
  BY <1>1, <1>8 DEF Classify
<1> QED BY <1>2, <1>3, <1>4, <1>5, <1>6, <1>7, <1>8, FlowSteps

\* The request that ends was the one that was waited for.
LEMMA WaitsStep ==
    ASSUME TypeOK, WaitsForSomething, [Next]_vars
    PROVE  WaitsForSomething'
<1> USE DEF WaitsForSomething, Open, flowVars, inspectionVars, captureVars, SetStatus
<1>1. CASE UNCHANGED <<flowVars, closing>>
  BY <1>1
<1>2. CASE MarkInvited /\ UNCHANGED <<evidence, draft, request, closing>>
  BY <1>2 DEF MarkInvited
<1>3. CASE SubmitInspection
  BY <1>3 DEF SubmitInspection
<1>4. ASSUME NEW i \in Recaptures, RequestRecapture(i) PROVE WaitsForSomething'
  BY <1>4 DEF RequestRecapture, TypeOK
<1>5. ASSUME NEW i \in Recaptures, SubmitRecapture(i) \/ Expire(i) PROVE WaitsForSomething'
  BY <1>5 DEF SubmitRecapture, Expire
<1>6. ASSUME NEW t \in Closed, Validate(t) PROVE WaitsForSomething'
  BY <1>6 DEF Validate
<1>7. CASE Close
  BY <1>7 DEF Close, TypeOK, NotClosing, Closed
<1>8. CASE GiveUpClosing
  BY <1>8 DEF GiveUpClosing
<1>9. ASSUME NEW r \in reading, Classify(r) PROVE WaitsForSomething'
  BY <1>9 DEF Classify
<1> QED BY <1>1, <1>2, <1>3, <1>4, <1>5, <1>6, <1>7, <1>8, <1>9, FlowSteps

LEMMA FlowInvHolds == Spec => []FlowInv
<1>1. Init => SubmittedFirst /\ InvalidatesOpen /\ WaitsForSomething
  BY DEF Init, SubmittedFirst, AnalysisKinds, InvalidatesOpen, WaitsForSomething, NotClosing
<1>2. FlowInv /\ [Next]_vars => SubmittedFirst' /\ InvalidatesOpen' /\ WaitsForSomething'
  BY SubmittedFirstStep, InvalidatesOpenStep, WaitsStep DEF FlowInv, IInv
<1> QED BY <1>1, <1>2, InvariantHolds, PTL DEF Spec, FlowInv

\* Each step of the lifecycle is one of the flow, or invisible there.
LEMMA FlowStep ==
    ASSUME FlowInv, [Next]_vars
    PROVE  [Flow!FNext]_(Flow!fvars)
<1> USE DEF FlowInv, IInv, Flow!FNext, Flow!Goes, Submitted
<1>1. CASE UNCHANGED flowVars
  BY <1>1 DEF flowVars, inspectionVars, Flow!fvars, Open
<1>2. CASE MarkInvited /\ UNCHANGED <<evidence, draft, request, closing>>
  <2>1. CASE status = "PLANNED"
    <3>1. Flow!Invite
      BY <1>2, <2>1 DEF MarkInvited, SetStatus, Flow!Invite, Open
    <3> QED BY <3>1
  <2>2. CASE status # "PLANNED"
    BY <1>1, <1>2, <2>2 DEF MarkInvited, flowVars, inspectionVars
  <2> QED BY <2>1, <2>2
<1>3. CASE SubmitInspection
  <2>1. /\ status = "INVITED" /\ status' = "ANALYZING" /\ version' = version + 1
        /\ draft[0] = "OPEN" /\ draft'[0] = "SUBMITTED" /\ evidence' \in {0, 1}
        /\ UNCHANGED request
    BY <1>3, Numbers DEF SubmitInspection, SetStatus, TypeOK
  <2>2. Flow!Submit
    BY <2>1 DEF Flow!Submit, Open
  <2> QED BY <2>2
<1>4. ASSUME NEW i \in Recaptures, RequestRecapture(i) PROVE Flow!FNext
  <2>1. status \in {"ANALYZING", "COMPLETED"} /\ \A k \in Recaptures : ~Open(k)
    BY <1>4 DEF RequestRecapture, WaitsForSomething
  <2>2. status' = "RECAPTURE_PENDING" /\ version' = version + 1 /\ UNCHANGED evidence
    BY <1>4, <2>1 DEF RequestRecapture, SetStatus
  <2>3. Open(i)' /\ draft'[0] = draft[0]
    BY <1>4, Numbers DEF RequestRecapture, TypeOK, Open, Recaptures
  <2>4. Flow!AskAgain
    BY <2>1, <2>2, <2>3 DEF Flow!AskAgain
  <2> QED BY <2>4
<1>5. ASSUME NEW i \in Recaptures, SubmitRecapture(i) \/ Expire(i) PROVE Flow!FNext
  <2>1. /\ status = "RECAPTURE_PENDING" /\ Open(i)
        /\ status' = "ANALYZING" /\ version' = version + 1 /\ UNCHANGED evidence
    BY <1>5 DEF SubmitRecapture, Expire, Finalizable, SetStatus
  <2>2. draft'[0] = draft[0]
    BY <1>5, Numbers DEF SubmitRecapture, Expire, TypeOK, Recaptures
  <2>3. \A k \in Recaptures : ~Open(k)'
    <3>1. \A k \in Recaptures : Open(k) => k = i
      BY <2>1 DEF OneCutoff
    <3>2. request'[i] # "REQUESTED" /\ \A k \in Recaptures \ {i} : request'[k] = request[k]
      BY <1>5 DEF SubmitRecapture, Expire, TypeOK
    <3> QED BY <3>1, <3>2 DEF Open
  <2>4. Flow!EndCorrection
    BY <2>1, <2>2, <2>3 DEF Flow!EndCorrection
  <2> QED BY <2>4
<1>6. ASSUME (\E t \in Closed : Validate(t)) \/ GiveUpClosing PROVE UNCHANGED flowVars
  BY <1>6 DEF Validate, GiveUpClosing, flowVars, captureVars
<1>7. CASE Close
  <2>1. /\ closing.target \in Closed /\ Current
        /\ status' = closing.target /\ version' = version + 1
        /\ UNCHANGED <<evidence, draft, request>>
    BY <1>7 DEF Close, SetStatus, TypeOK
  <2>2. CASE closing.target = "CANCELED"
    <3>1. status \in {"PLANNED", "INVITED"} /\ draft[0] = "OPEN"
      BY <2>1, <2>2 DEF ClosingSound, StillPlanned
    <3>2. Flow!Cancel
      BY <2>1, <2>2, <3>1 DEF Flow!Cancel, Open
    <3> QED BY <3>2
  <2>3. CASE closing.target = "INVALIDATED"
    <3>1. evidence = 1 /\ status \notin Closed /\ Submitted
      BY <2>1, <2>3 DEF InvalidatesOpen, SubmittedFirst
    <3>2. status \in {"ANALYZING", "RECAPTURE_PENDING", "COMPLETED"}
      BY <3>1 DEF StillPlanned, TypeOK, Statuses, Closed
    <3>3. Flow!Invalidate
      BY <2>1, <2>3, <3>1, <3>2 DEF Flow!Invalidate, Open
    <3> QED BY <3>3
  <2> QED BY <2>1, <2>2, <2>3 DEF Closed
<1>8. ASSUME NEW r \in reading, Classify(r) PROVE Flow!FNext
  <2>1. Submitted
    <3>1. Jobs # {}
      BY DEF TypeOK
    <3> QED BY <3>1, EmptySeq DEF SubmittedFirst, Jobs
  <2>2. status \in {"ANALYZING", "RECAPTURE_PENDING", "COMPLETED", "INVALIDATED"}
    BY <2>1 DEF StillPlanned, TypeOK, Statuses
  <2>3. status' = "COMPLETED" /\ version' = version + 1 /\ UNCHANGED <<evidence, draft, request>>
    BY <1>8 DEF Classify, captureVars
  <2>4. CASE \E i \in Recaptures : Open(i)
    <3>1. status # "ANALYZING"
      BY <2>4 DEF OneCutoff
    <3>2. Flow!CompleteAnyway
      BY <2>1, <2>2, <2>3, <2>4, <3>1 DEF Flow!CompleteAnyway, Open
    <3> QED BY <3>2
  <2>5. CASE \A i \in Recaptures : ~Open(i)
    <3>1. status # "RECAPTURE_PENDING"
      BY <2>5 DEF WaitsForSomething
    <3>2. Flow!Judge \/ Flow!CompleteAnyway
      BY <2>1, <2>2, <2>3, <2>5, <3>1 DEF Flow!Judge, Flow!CompleteAnyway, Open
    <3> QED BY <3>2
  <2> QED BY <2>4, <2>5
<1> QED BY <1>1, <1>2, <1>3, <1>4, <1>5, <1>6, <1>7, <1>8, FlowSteps DEF flowVars

\* However late its events and the requests of its managers come, an inspection goes
\* through its flow: ImplementsFlow, about the version of the inspection, the lock of
\* its classification and the status its recaptures look for.
THEOREM LifecycleIsFlow == Spec => ImplementsFlow
<1>1. Init => Flow!FInit
  <2> SUFFICES ASSUME Init PROVE Flow!FInit
    OBVIOUS
  <2>1. draft[0] = "OPEN" /\ \A i \in Recaptures : ~Open(i)
    BY Numbers DEF Init, Open
  <2> QED BY <2>1 DEF Init, Flow!FInit
<1>2. FlowInv /\ [Next]_vars => [Flow!FNext]_(Flow!fvars)
  BY FlowStep
<1> QED BY <1>1, <1>2, FlowInvHolds, PTL DEF Spec, ImplementsFlow, Flow!FSpec

====

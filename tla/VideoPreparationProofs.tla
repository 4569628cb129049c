---- MODULE VideoPreparationProofs ----
(***************************************************************************)
(* Theorems about VideoPreparation, for any number of workers, frames,       *)
(* attempts, faults and stalls.                                               *)
(***************************************************************************)
EXTENDS VideoPreparation, TLAPS

\* The report of a failure keeps the variables in their types.
LEMMA FinishTyped ==
    ASSUME TypeOK, NEW w \in Workers, NEW transient \in BOOLEAN, Finish(w, transient),
           faults' \in 0..MaxFaults, UNCHANGED <<stalls, retries>>
    PROVE  TypeOK'
<1> USE VideoBounds DEF TypeOK, jobVars, frameVars, screenVars, sourceVars, Frames, Phases, Stages
<1>1. expired' \in BOOLEAN
  BY DEF Finish
<1>2. UNCHANGED <<phase, attempts, pending, rows, objects, anchored, screening, overridden, media>>
  BY DEF Finish
<1>3. holder' \in Workers \union {None}
  BY DEF Finish
<1>4. /\ status' \in {"QUEUED", "FAILED"}
      /\ announced' = announced \/ announced' = announced \union {"inventory"}
  BY DEF Finish
<1>5. /\ stage' \in [Workers -> Stages]
      /\ next' \in [Workers -> 1..(NumFrames + 1)]
      /\ keys' \in [Workers -> SUBSET Frames]
      /\ verdict' \in [Workers -> {"ABSENT", "PENDING", "APPROVED", "BLOCKED"}]
  BY DEF Finish, Ends
<1>6. anchored' \in BOOLEAN /\ overridden' \in BOOLEAN
  BY <1>2
<1> QED BY <1>1, <1>2, <1>3, <1>4, <1>5, <1>6

\* One step keeps the variables in their types.
LEMMA PTypeStep ==
    ASSUME TypeOK, GoesInOrder, [Next]_vars
    PROVE  TypeOK'
<1> USE VideoBounds DEF TypeOK, jobVars, frameVars, screenVars, sourceVars, localVars, budgetVars, Frames, Phases, Stages
<1>1. ASSUME NEW w \in Workers, Attempt(w) \/ Heartbeat(w) \/ Crash(w) \/ Fail(w) PROVE TypeOK'
  <2>1. CASE Reserve(w)
    <3>1. expired' \in BOOLEAN
      BY <2>1 DEF Reserve, Claimable, GoesTo
    <3> QED BY <2>1, <3>1 DEF Reserve, Claimable, GoesTo
  <2>2. CASE LoseLease(w)
    BY <2>2 DEF LoseLease, Ends
  <2>3. CASE MediaGone(w)
    BY <2>3, FinishTyped DEF MediaGone
  <2>4. CASE Start(w)
    BY <2>4 DEF Start, GoesTo
  <2>5. CASE ReadOrphans(w)
    BY <2>5 DEF ReadOrphans, Orphans, GoesTo
  <2>6. CASE DeleteOrphan(w)
    BY <2>6 DEF DeleteOrphan
  <2>7. CASE ClearPending(w)
    BY <2>7 DEF ClearPending, GoesTo
  <2>8. CASE Probe(w)
    BY <2>8 DEF Probe, GoesTo
  <2>9. CASE Screen(w)
    BY <2>9 DEF Screen, GoesTo
  <2>10. CASE PersistScreening(w)
    BY <2>10 DEF PersistScreening, GoesTo
  <2>11. CASE FinishBlocked(w)
    BY <2>11, FinishTyped DEF FinishBlocked
  <2>12. CASE Extract(w)
    BY <2>12 DEF Extract, GoesTo
  <2>13. CASE ReadPending(w)
    BY <2>13 DEF ReadPending, GoesTo
  <2>14. CASE WritePending(w)
    BY <2>14 DEF GoesInOrder, WritePending, GoesTo
  <2>15. CASE PutFrame(w)
    <3>1. next[w] \in Frames
      BY <2>15 DEF PutFrame, GoesInOrder
    <3>2. objects' \subseteq Frames
      BY <2>15, <3>1 DEF PutFrame
    <3> QED BY <2>15, <3>2 DEF PutFrame, GoesTo
  <2>16. CASE VerifyFrame(w)
    BY <2>16 DEF VerifyFrame, GoesTo
  <2>17. CASE RecordFrame(w)
    <3>1. next[w] \in Frames
      BY <2>17 DEF RecordFrame, GoesInOrder
    <3>2. rows' \subseteq Frames
      BY <2>17, <3>1 DEF RecordFrame
    <3>3. next' \in [Workers -> 1..(NumFrames + 1)]
      BY <2>17, <3>1 DEF RecordFrame
    <3> QED BY <2>17, <3>2, <3>3 DEF RecordFrame, GoesTo
  <2>18. CASE Discovering(w)
    BY <2>18 DEF Discovering, GoesTo
  <2>19. CASE MarkFrameBankReady(w)
    BY <2>19 DEF MarkFrameBankReady, GoesTo
  <2>20. CASE Discover(w)
    BY <2>20 DEF Discover, GoesTo
  <2>21. CASE Seal(w)
    <3>1. expired' \in BOOLEAN
      BY <2>21 DEF Seal, Ends
    <3> QED BY <2>21, <3>1 DEF Seal, Ends
  <2>22. CASE NotFound(w)
    BY <2>22, FinishTyped DEF NotFound
  <2>23. CASE Heartbeat(w)
    <3>1. expired' \in BOOLEAN
      BY <2>23 DEF Heartbeat
    <3> QED BY <2>23, <3>1 DEF Heartbeat
  <2>24. CASE Crash(w)
    BY <2>24 DEF Crash, Fault, Ends
  <2>25. CASE Fail(w)
    <3>1. faults' \in 0..MaxFaults /\ UNCHANGED <<stalls, retries>>
      BY <2>25 DEF Fail, Fault
    <3> QED BY <2>25, <3>1, FinishTyped DEF Fail
  <2> QED
    BY <1>1, <2>1, <2>2, <2>3, <2>4, <2>5, <2>6, <2>7, <2>8, <2>9, <2>10, <2>11, <2>12, <2>13, <2>14, <2>15, <2>16, <2>17, <2>18, <2>19, <2>20, <2>21, <2>22, <2>23, <2>24, <2>25 DEF Attempt
<1>2. CASE LeaseExpires
  BY <1>2 DEF LeaseExpires
<1>3. CASE RetryPreparation
  BY <1>3 DEF RetryPreparation, Requeue
<1>4. CASE DeclareFalsePositive
  BY <1>4 DEF DeclareFalsePositive, Requeue
<1>5. CASE AbortMedia
  BY <1>5 DEF AbortMedia
<1>6. CASE UNCHANGED vars
  BY <1>6 DEF vars
<1> QED
  BY <1>1, <1>2, <1>3, <1>4, <1>5, <1>6 DEF Next

\* One step keeps what the workers have gone past committed.
LEMMA OrderStep ==
    ASSUME FrameInv, [Next]_vars
    PROVE  GoesInOrder'
<1> USE VideoBounds DEF FrameInv, TypeOK, GoesInOrder, AllStored, jobVars, frameVars, screenVars, sourceVars, localVars, budgetVars, Frames, Stages
<1>1. ASSUME NEW w \in Workers, Attempt(w) \/ Heartbeat(w) \/ Crash(w) \/ Fail(w) PROVE GoesInOrder'
  <2>1. CASE Reserve(w)
    BY <2>1 DEF Reserve, Claimable, GoesTo
  <2>2. CASE LoseLease(w)
    BY <2>2 DEF LoseLease, Ends
  <2>3. CASE MediaGone(w)
    BY <2>3 DEF MediaGone, Finish, Ends
  <2>4. CASE Start(w)
    BY <2>4 DEF Start, GoesTo
  <2>5. CASE ReadOrphans(w)
    BY <2>5 DEF ReadOrphans, Orphans, GoesTo
  <2>6. CASE DeleteOrphan(w)
    BY <2>6 DEF DeleteOrphan
  <2>7. CASE ClearPending(w)
    BY <2>7 DEF ClearPending, GoesTo
  <2>8. CASE Probe(w)
    BY <2>8 DEF Probe, GoesTo
  <2>9. CASE Screen(w)
    BY <2>9 DEF Screen, GoesTo
  <2>10. CASE PersistScreening(w)
    BY <2>10 DEF PersistScreening, GoesTo
  <2>11. CASE FinishBlocked(w)
    BY <2>11 DEF FinishBlocked, Finish, Ends
  <2>12. CASE Extract(w)
    BY <2>12 DEF Extract, GoesTo
  <2>13. CASE ReadPending(w)
    BY <2>13 DEF ReadPending, GoesTo
  <2>14. CASE WritePending(w)
    BY <2>14 DEF WritePending, GoesTo
  <2>15. CASE PutFrame(w)
    BY <2>15 DEF PutFrame, GoesTo
  <2>16. CASE VerifyFrame(w)
    BY <2>16 DEF VerifyFrame, GoesTo
  <2>17. CASE RecordFrame(w)
    BY <2>17 DEF RecordFrame, GoesTo
  <2>18. CASE Discovering(w)
    BY <2>18 DEF Discovering, GoesTo
  <2>19. CASE MarkFrameBankReady(w)
    BY <2>19 DEF MarkFrameBankReady, GoesTo
  <2>20. CASE Discover(w)
    BY <2>20 DEF Discover, GoesTo
  <2>21. CASE Seal(w)
    BY <2>21 DEF Seal, Ends
  <2>22. CASE NotFound(w)
    BY <2>22 DEF NotFound, Finish, Ends
  <2>23. CASE Heartbeat(w)
    BY <2>23 DEF Heartbeat
  <2>24. CASE Crash(w)
    BY <2>24 DEF Crash, Fault, Ends
  <2>25. CASE Fail(w)
    BY <2>25 DEF Fail, Fault, Finish, Ends
  <2> QED
    BY <1>1, <2>1, <2>2, <2>3, <2>4, <2>5, <2>6, <2>7, <2>8, <2>9, <2>10, <2>11, <2>12, <2>13, <2>14, <2>15, <2>16, <2>17, <2>18, <2>19, <2>20, <2>21, <2>22, <2>23, <2>24, <2>25 DEF Attempt
<1>2. CASE LeaseExpires
  BY <1>2 DEF LeaseExpires
<1>3. CASE RetryPreparation
  BY <1>3 DEF RetryPreparation, Requeue
<1>4. CASE DeclareFalsePositive
  BY <1>4 DEF DeclareFalsePositive, Requeue
<1>5. CASE AbortMedia
  BY <1>5 DEF AbortMedia
<1>6. CASE UNCHANGED vars
  BY <1>6 DEF vars
<1> QED
  BY <1>1, <1>2, <1>3, <1>4, <1>5, <1>6 DEF Next

\* Until a worker marks the frame bank, or seals, the bank stays as it is.
LEMMA BankStep ==
    ASSUME FrameInv, [Next]_vars
    PROVE  BankComplete'
<1> USE VideoBounds DEF FrameInv, BankComplete, jobVars, frameVars, screenVars, sourceVars, localVars, budgetVars
<1>1. ASSUME NEW w \in Workers, Attempt(w) \/ Heartbeat(w) \/ Crash(w) \/ Fail(w) PROVE BankComplete'
  <2>1. CASE Reserve(w)
    BY <2>1 DEF Reserve, Claimable, GoesTo
  <2>2. CASE LoseLease(w)
    BY <2>2 DEF LoseLease, Ends
  <2>3. CASE MediaGone(w)
    BY <2>3 DEF MediaGone, Finish, Ends
  <2>4. CASE Start(w)
    BY <2>4 DEF Start, GoesTo
  <2>5. CASE ReadOrphans(w)
    BY <2>5 DEF ReadOrphans, Orphans, GoesTo
  <2>6. CASE DeleteOrphan(w)
    BY <2>6 DEF DeleteOrphan
  <2>7. CASE ClearPending(w)
    BY <2>7 DEF ClearPending, GoesTo
  <2>8. CASE Probe(w)
    BY <2>8 DEF Probe, GoesTo
  <2>9. CASE Screen(w)
    BY <2>9 DEF Screen, GoesTo
  <2>10. CASE PersistScreening(w)
    BY <2>10 DEF PersistScreening, GoesTo
  <2>11. CASE FinishBlocked(w)
    BY <2>11 DEF FinishBlocked, Finish, Ends
  <2>12. CASE Extract(w)
    BY <2>12 DEF Extract, GoesTo
  <2>13. CASE ReadPending(w)
    BY <2>13 DEF ReadPending, GoesTo
  <2>14. CASE WritePending(w)
    BY <2>14 DEF WritePending, GoesTo
  <2>15. CASE PutFrame(w)
    BY <2>15 DEF PutFrame, GoesTo
  <2>16. CASE VerifyFrame(w)
    BY <2>16 DEF VerifyFrame, GoesTo
  <2>17. CASE RecordFrame(w)
    <3>1. anchored => rows' = rows
      BY <2>17 DEF RecordFrame, GoesInOrder, TypeOK
    <3> QED BY <2>17, <3>1 DEF RecordFrame
  <2>18. CASE Discovering(w)
    BY <2>18 DEF Discovering, GoesTo
  <2>19. CASE MarkFrameBankReady(w)
    <3>1. next[w] = NumFrames + 1
      BY <2>19 DEF MarkFrameBankReady, GoesInOrder, AllStored
    <3>2. \A f \in Frames : f < next[w]
      BY <3>1 DEF Frames
    <3>3. rows = Frames
      BY <3>2 DEF GoesInOrder, TypeOK
    <3> QED BY <2>19, <3>3 DEF MarkFrameBankReady
  <2>20. CASE Discover(w)
    BY <2>20 DEF Discover, GoesTo
  <2>21. CASE Seal(w)
    BY <2>21 DEF Seal, Ends
  <2>22. CASE NotFound(w)
    BY <2>22 DEF NotFound, Finish, Ends
  <2>23. CASE Heartbeat(w)
    BY <2>23 DEF Heartbeat
  <2>24. CASE Crash(w)
    BY <2>24 DEF Crash, Fault, Ends
  <2>25. CASE Fail(w)
    BY <2>25 DEF Fail, Fault, Finish, Ends
  <2> QED
    BY <1>1, <2>1, <2>2, <2>3, <2>4, <2>5, <2>6, <2>7, <2>8, <2>9, <2>10, <2>11, <2>12, <2>13, <2>14, <2>15, <2>16, <2>17, <2>18, <2>19, <2>20, <2>21, <2>22, <2>23, <2>24, <2>25 DEF Attempt
<1>2. CASE LeaseExpires
  BY <1>2 DEF LeaseExpires
<1>3. CASE RetryPreparation
  BY <1>3 DEF RetryPreparation, Requeue
<1>4. CASE DeclareFalsePositive
  BY <1>4 DEF DeclareFalsePositive, Requeue
<1>5. CASE AbortMedia
  BY <1>5 DEF AbortMedia
<1>6. CASE UNCHANGED vars
  BY <1>6 DEF vars
<1> QED
  BY <1>1, <1>2, <1>3, <1>4, <1>5, <1>6 DEF Next

LEMMA FrameAlways == Spec => []FrameInv
<1>1. Init => FrameInv
  <2>1. ASSUME Init PROVE expired \in BOOLEAN /\ anchored \in BOOLEAN /\ overridden \in BOOLEAN
    BY <2>1 DEF Init
  <2>4. ASSUME Init PROVE /\ stage \in [Workers -> Stages] /\ next \in [Workers -> 1..(NumFrames + 1)]
                          /\ keys \in [Workers -> SUBSET Frames]
                          /\ verdict \in [Workers -> {"ABSENT", "PENDING", "APPROVED", "BLOCKED"}]
    BY <2>4, VideoBounds DEF Init, Frames, Stages
  <2>5. ASSUME Init PROVE faults \in 0..MaxFaults /\ stalls \in 0..MaxStalls /\ retries \in 0..MaxRetries
    BY <2>5, VideoBounds DEF Init
  <2>6. ASSUME Init PROVE attempts \in Nat /\ pending \subseteq Frames /\ rows \subseteq Frames /\ objects \subseteq Frames
    BY <2>6 DEF Init
  <2>7. ASSUME Init PROVE announced \subseteq {"prepared", "inventory"}
    BY <2>7 DEF Init
  <2>8. ASSUME Init PROVE /\ status = "QUEUED" /\ phase \in Phases /\ holder = None
                          /\ screening = "ABSENT" /\ media = "RECEIVED"
    BY <2>8 DEF Init, Phases
  <2>2. ASSUME Init PROVE TypeOK
    BY <2>2, <2>1, <2>4, <2>5, <2>6, <2>7, <2>8 DEF TypeOK
  <2>3. ASSUME Init PROVE GoesInOrder /\ BankComplete
    BY <2>3, VideoBounds DEF Init, GoesInOrder, BankComplete, Frames
  <2> QED BY <2>2, <2>3 DEF FrameInv
<1>2. FrameInv /\ [Next]_vars => FrameInv'
  BY PTypeStep, OrderStep, BankStep DEF FrameInv
<1> QED BY <1>1, <1>2, PTL DEF Spec

\* Every variable of the preparation keeps its type: in particular no attempt
\* goes past the last frame of the selection.
THEOREM PreparationTypeCorrect == Spec => []TypeOK
BY FrameAlways, PTL DEF FrameInv

\* The frame bank is complete when it is marked, and marked before the
\* preparation is sealed, however many workers lose their leases on the way.
THEOREM BankAlwaysComplete == Spec => []BankComplete
BY FrameAlways, PTL DEF FrameInv

\* Only the holder changes a job's outcome, and it leaves none that is sealed.
LEMMA SealStep ==
    ASSUME [Next]_vars, status = "READY"
    PROVE  status' = "READY" /\ rows' = rows
<1> USE DEF Fenced, jobVars, frameVars, screenVars, sourceVars, localVars, budgetVars
<1>1. ASSUME NEW w \in Workers, Attempt(w) \/ Heartbeat(w) \/ Crash(w) \/ Fail(w) PROVE status' = "READY" /\ rows' = rows
  <2>1. CASE Reserve(w)
    BY <2>1 DEF Reserve, Claimable, GoesTo
  <2>2. CASE LoseLease(w)
    BY <2>2 DEF LoseLease, Ends
  <2>3. CASE MediaGone(w)
    BY <2>3 DEF MediaGone, Finish, Ends
  <2>4. CASE Start(w)
    BY <2>4 DEF Start, GoesTo
  <2>5. CASE ReadOrphans(w)
    BY <2>5 DEF ReadOrphans, Orphans, GoesTo
  <2>6. CASE DeleteOrphan(w)
    BY <2>6 DEF DeleteOrphan
  <2>7. CASE ClearPending(w)
    BY <2>7 DEF ClearPending, GoesTo
  <2>8. CASE Probe(w)
    BY <2>8 DEF Probe, GoesTo
  <2>9. CASE Screen(w)
    BY <2>9 DEF Screen, GoesTo
  <2>10. CASE PersistScreening(w)
    BY <2>10 DEF PersistScreening, GoesTo
  <2>11. CASE FinishBlocked(w)
    BY <2>11 DEF FinishBlocked, Finish, Ends
  <2>12. CASE Extract(w)
    BY <2>12 DEF Extract, GoesTo
  <2>13. CASE ReadPending(w)
    BY <2>13 DEF ReadPending, GoesTo
  <2>14. CASE WritePending(w)
    BY <2>14 DEF WritePending, GoesTo
  <2>15. CASE PutFrame(w)
    BY <2>15 DEF PutFrame, GoesTo
  <2>16. CASE VerifyFrame(w)
    BY <2>16 DEF VerifyFrame, GoesTo
  <2>17. CASE RecordFrame(w)
    BY <2>17 DEF RecordFrame, GoesTo
  <2>18. CASE Discovering(w)
    BY <2>18 DEF Discovering, GoesTo
  <2>19. CASE MarkFrameBankReady(w)
    BY <2>19 DEF MarkFrameBankReady, GoesTo
  <2>20. CASE Discover(w)
    BY <2>20 DEF Discover, GoesTo
  <2>21. CASE Seal(w)
    BY <2>21 DEF Seal, Ends
  <2>22. CASE NotFound(w)
    BY <2>22 DEF NotFound, Finish, Ends
  <2>23. CASE Heartbeat(w)
    BY <2>23 DEF Heartbeat
  <2>24. CASE Crash(w)
    BY <2>24 DEF Crash, Fault, Ends
  <2>25. CASE Fail(w)
    BY <2>25 DEF Fail, Fault, Finish, Ends
  <2> QED
    BY <1>1, <2>1, <2>2, <2>3, <2>4, <2>5, <2>6, <2>7, <2>8, <2>9, <2>10, <2>11, <2>12, <2>13, <2>14, <2>15, <2>16, <2>17, <2>18, <2>19, <2>20, <2>21, <2>22, <2>23, <2>24, <2>25 DEF Attempt
<1>2. CASE LeaseExpires
  BY <1>2 DEF LeaseExpires
<1>3. CASE RetryPreparation
  BY <1>3 DEF RetryPreparation, Requeue
<1>4. CASE DeclareFalsePositive
  BY <1>4 DEF DeclareFalsePositive, Requeue
<1>5. CASE AbortMedia
  BY <1>5 DEF AbortMedia
<1>6. CASE UNCHANGED vars
  BY <1>6 DEF vars
<1> QED
  BY <1>1, <1>2, <1>3, <1>4, <1>5, <1>6 DEF Next

\* A worker that lost its lease changes neither the outcome of a sealed
\* preparation nor its frames.
THEOREM SealIsFinal == Spec => SealedStays
<1>1. [Next]_vars => [status = "READY" => status' = "READY" /\ rows' = rows]_vars
  BY SealStep
<1> QED BY <1>1, PTL DEF Spec, SealedStays


\* While no holder has outlived its lease there is one worker at a time.
LEMMA SoleStep ==
    ASSUME FrameInv, SoleHolder, [Next]_vars, stalls' = stalls
    PROVE  SoleHolder'
<1> USE VideoBounds DEF FrameInv, TypeOK, SoleHolder, Fenced, jobVars, frameVars, screenVars, sourceVars, localVars, budgetVars
<1>1. ASSUME NEW w \in Workers, Attempt(w) \/ Heartbeat(w) \/ Crash(w) \/ Fail(w) PROVE SoleHolder'
  <2>1. CASE Reserve(w)
    BY <2>1 DEF Reserve, Claimable, GoesTo
  <2>2. CASE LoseLease(w)
    BY <2>2 DEF LoseLease, Ends
  <2>3. CASE MediaGone(w)
    BY <2>3 DEF MediaGone, Finish, Ends
  <2>4. CASE Start(w)
    BY <2>4 DEF Start, GoesTo
  <2>5. CASE ReadOrphans(w)
    BY <2>5 DEF ReadOrphans, Orphans, GoesTo
  <2>6. CASE DeleteOrphan(w)
    BY <2>6 DEF DeleteOrphan
  <2>7. CASE ClearPending(w)
    BY <2>7 DEF ClearPending, GoesTo
  <2>8. CASE Probe(w)
    BY <2>8 DEF Probe, GoesTo
  <2>9. CASE Screen(w)
    BY <2>9 DEF Screen, GoesTo
  <2>10. CASE PersistScreening(w)
    BY <2>10 DEF PersistScreening, GoesTo
  <2>11. CASE FinishBlocked(w)
    BY <2>11 DEF FinishBlocked, Finish, Ends
  <2>12. CASE Extract(w)
    BY <2>12 DEF Extract, GoesTo
  <2>13. CASE ReadPending(w)
    BY <2>13 DEF ReadPending, GoesTo
  <2>14. CASE WritePending(w)
    BY <2>14 DEF WritePending, GoesTo
  <2>15. CASE PutFrame(w)
    BY <2>15 DEF PutFrame, GoesTo
  <2>16. CASE VerifyFrame(w)
    BY <2>16 DEF VerifyFrame, GoesTo
  <2>17. CASE RecordFrame(w)
    BY <2>17 DEF RecordFrame, GoesTo
  <2>18. CASE Discovering(w)
    BY <2>18 DEF Discovering, GoesTo
  <2>19. CASE MarkFrameBankReady(w)
    BY <2>19 DEF MarkFrameBankReady, GoesTo
  <2>20. CASE Discover(w)
    BY <2>20 DEF Discover, GoesTo
  <2>21. CASE Seal(w)
    BY <2>21 DEF Seal, Ends
  <2>22. CASE NotFound(w)
    BY <2>22 DEF NotFound, Finish, Ends
  <2>23. CASE Heartbeat(w)
    BY <2>23 DEF Heartbeat
  <2>24. CASE Crash(w)
    BY <2>24 DEF Crash, Fault, Ends
  <2>25. CASE Fail(w)
    BY <2>25 DEF Fail, Fault, Finish, Ends
  <2> QED
    BY <1>1, <2>1, <2>2, <2>3, <2>4, <2>5, <2>6, <2>7, <2>8, <2>9, <2>10, <2>11, <2>12, <2>13, <2>14, <2>15, <2>16, <2>17, <2>18, <2>19, <2>20, <2>21, <2>22, <2>23, <2>24, <2>25 DEF Attempt
<1>2. CASE LeaseExpires
  BY <1>2 DEF LeaseExpires
<1>3. CASE RetryPreparation
  BY <1>3 DEF RetryPreparation, Requeue
<1>4. CASE DeclareFalsePositive
  BY <1>4 DEF DeclareFalsePositive, Requeue
<1>5. CASE AbortMedia
  BY <1>5 DEF AbortMedia
<1>6. CASE UNCHANGED vars
  BY <1>6 DEF vars
<1> QED
  BY <1>1, <1>2, <1>3, <1>4, <1>5, <1>6 DEF Next

\* An attempt that starts after the frame bank is ready resumes from it.
LEMMA ResumesFromBank ==
    ASSUME FrameInv, BankRemembered, anchored, NEW w \in Workers, Start(w)
    PROVE  stage' = [stage EXCEPT ![w] = "discover"]
<1>1. 1 \in Frames /\ rows = Frames
  BY VideoBounds DEF FrameInv, BankComplete, Frames
<1>2. BankCheckpoint /\ screening = "APPROVED"
  BY DEF BankRemembered, BankCheckpoint
<1> QED BY <1>1, <1>2 DEF Start, GoesTo

\* After the frame bank no attempt leaves the way to the discovery.
LEMMA RememberedStep ==
    ASSUME FrameInv, SoleHolder, BankRemembered, [Next]_vars, stalls' = stalls
    PROVE  BankRemembered'
<1> USE DEF FrameInv, TypeOK, SoleHolder, BankRemembered, Fenced, jobVars, frameVars, screenVars, sourceVars, localVars, budgetVars
<1>1. ASSUME NEW w \in Workers, Attempt(w) \/ Heartbeat(w) \/ Crash(w) \/ Fail(w) PROVE BankRemembered'
  <2>1. CASE Reserve(w)
    BY <2>1 DEF Reserve, Claimable, GoesTo
  <2>2. CASE LoseLease(w)
    BY <2>2 DEF LoseLease, Ends
  <2>3. CASE MediaGone(w)
    BY <2>3 DEF MediaGone, Finish, Ends
  <2>4. CASE Start(w)
    <3>1. CASE anchored
      BY <2>4, <3>1, ResumesFromBank DEF Start
    <3>2. CASE ~anchored
      BY <2>4, <3>2 DEF Start
    <3> QED BY <3>1, <3>2
  <2>5. CASE ReadOrphans(w)
    BY <2>5 DEF ReadOrphans, Orphans, GoesTo
  <2>6. CASE DeleteOrphan(w)
    BY <2>6 DEF DeleteOrphan
  <2>7. CASE ClearPending(w)
    BY <2>7 DEF ClearPending, GoesTo
  <2>8. CASE Probe(w)
    BY <2>8 DEF Probe, GoesTo
  <2>9. CASE Screen(w)
    BY <2>9 DEF Screen, GoesTo
  <2>10. CASE PersistScreening(w)
    BY <2>10 DEF PersistScreening, GoesTo
  <2>11. CASE FinishBlocked(w)
    BY <2>11 DEF FinishBlocked, Finish, Ends
  <2>12. CASE Extract(w)
    BY <2>12 DEF Extract, GoesTo
  <2>13. CASE ReadPending(w)
    BY <2>13 DEF ReadPending, GoesTo
  <2>14. CASE WritePending(w)
    BY <2>14 DEF WritePending, GoesTo
  <2>15. CASE PutFrame(w)
    BY <2>15 DEF PutFrame, GoesTo
  <2>16. CASE VerifyFrame(w)
    BY <2>16 DEF VerifyFrame, GoesTo
  <2>17. CASE RecordFrame(w)
    BY <2>17 DEF RecordFrame, GoesTo
  <2>18. CASE Discovering(w)
    BY <2>18 DEF Discovering, GoesTo
  <2>19. CASE MarkFrameBankReady(w)
    BY <2>19 DEF MarkFrameBankReady, GoesTo
  <2>20. CASE Discover(w)
    BY <2>20 DEF Discover, GoesTo
  <2>21. CASE Seal(w)
    BY <2>21 DEF Seal, Ends
  <2>22. CASE NotFound(w)
    BY <2>22 DEF NotFound, Finish, Ends
  <2>23. CASE Heartbeat(w)
    BY <2>23 DEF Heartbeat
  <2>24. CASE Crash(w)
    BY <2>24 DEF Crash, Fault, Ends
  <2>25. CASE Fail(w)
    BY <2>25 DEF Fail, Fault, Finish, Ends
  <2> QED
    BY <1>1, <2>1, <2>2, <2>3, <2>4, <2>5, <2>6, <2>7, <2>8, <2>9, <2>10, <2>11, <2>12, <2>13, <2>14, <2>15, <2>16, <2>17, <2>18, <2>19, <2>20, <2>21, <2>22, <2>23, <2>24, <2>25 DEF Attempt
<1>2. CASE LeaseExpires
  BY <1>2 DEF LeaseExpires
<1>3. CASE RetryPreparation
  BY <1>3 DEF RetryPreparation, Requeue
<1>4. CASE DeclareFalsePositive
  BY <1>4 DEF DeclareFalsePositive, Requeue
<1>5. CASE AbortMedia
  BY <1>5 DEF AbortMedia
<1>6. CASE UNCHANGED vars
  BY <1>6 DEF vars
<1> QED
  BY <1>1, <1>2, <1>3, <1>4, <1>5, <1>6 DEF Next

\* What the holder knows stays so: nobody else touches the store.
LEMMA KnowsStep ==
    ASSUME FrameInv, SoleHolder, \A w \in Workers : HolderKnows(w),
           objects \subseteq rows \union pending, [Next]_vars, stalls' = stalls
    PROVE  \A w \in Workers : HolderKnows(w)'
<1> USE DEF FrameInv, TypeOK, GoesInOrder, SoleHolder, HolderKnows, Fenced, jobVars, frameVars, screenVars, sourceVars, localVars, budgetVars
<1>1. ASSUME NEW w \in Workers, Attempt(w) \/ Heartbeat(w) \/ Crash(w) \/ Fail(w) PROVE \A v \in Workers : HolderKnows(v)'
  <2>1. CASE Reserve(w)
    BY <2>1 DEF Reserve, Claimable, GoesTo
  <2>2. CASE LoseLease(w)
    BY <2>2 DEF LoseLease, Ends
  <2>3. CASE MediaGone(w)
    BY <2>3 DEF MediaGone, Finish, Ends
  <2>4. CASE Start(w)
    BY <2>4 DEF Start, GoesTo
  <2>5. CASE ReadOrphans(w)
    BY <2>5 DEF ReadOrphans, Orphans, GoesTo
  <2>6. CASE DeleteOrphan(w)
    BY <2>6 DEF DeleteOrphan
  <2>7. CASE ClearPending(w)
    BY <2>7 DEF ClearPending, GoesTo
  <2>8. CASE Probe(w)
    BY <2>8 DEF Probe, GoesTo
  <2>9. CASE Screen(w)
    BY <2>9 DEF Screen, GoesTo
  <2>10. CASE PersistScreening(w)
    BY <2>10 DEF PersistScreening, GoesTo
  <2>11. CASE FinishBlocked(w)
    BY <2>11 DEF FinishBlocked, Finish, Ends
  <2>12. CASE Extract(w)
    BY <2>12 DEF Extract, GoesTo
  <2>13. CASE ReadPending(w)
    BY <2>13 DEF ReadPending, GoesTo
  <2>14. CASE WritePending(w)
    BY <2>14 DEF WritePending, GoesTo
  <2>15. CASE PutFrame(w)
    BY <2>15 DEF PutFrame, GoesTo
  <2>16. CASE VerifyFrame(w)
    BY <2>16 DEF VerifyFrame, GoesTo
  <2>17. CASE RecordFrame(w)
    BY <2>17 DEF RecordFrame, GoesTo
  <2>18. CASE Discovering(w)
    BY <2>18 DEF Discovering, GoesTo
  <2>19. CASE MarkFrameBankReady(w)
    BY <2>19 DEF MarkFrameBankReady, GoesTo
  <2>20. CASE Discover(w)
    BY <2>20 DEF Discover, GoesTo
  <2>21. CASE Seal(w)
    BY <2>21 DEF Seal, Ends
  <2>22. CASE NotFound(w)
    BY <2>22 DEF NotFound, Finish, Ends
  <2>23. CASE Heartbeat(w)
    BY <2>23 DEF Heartbeat
  <2>24. CASE Crash(w)
    BY <2>24 DEF Crash, Fault, Ends
  <2>25. CASE Fail(w)
    BY <2>25 DEF Fail, Fault, Finish, Ends
  <2> QED
    BY <1>1, <2>1, <2>2, <2>3, <2>4, <2>5, <2>6, <2>7, <2>8, <2>9, <2>10, <2>11, <2>12, <2>13, <2>14, <2>15, <2>16, <2>17, <2>18, <2>19, <2>20, <2>21, <2>22, <2>23, <2>24, <2>25 DEF Attempt
<1>2. CASE LeaseExpires
  BY <1>2 DEF LeaseExpires
<1>3. CASE RetryPreparation
  BY <1>3 DEF RetryPreparation, Requeue
<1>4. CASE DeclareFalsePositive
  BY <1>4 DEF DeclareFalsePositive, Requeue
<1>5. CASE AbortMedia
  BY <1>5 DEF AbortMedia
<1>6. CASE UNCHANGED vars
  BY <1>6 DEF vars
<1> QED
  BY <1>1, <1>2, <1>3, <1>4, <1>5, <1>6 DEF Next

\* The frames committed, recorded and stored agree after each step.
LEMMA StoredStep ==
    ASSUME FrameInv, SoleHolder, \A w \in Workers : HolderKnows(w),
           rows \subseteq objects, objects \subseteq rows \union pending, [Next]_vars, stalls' = stalls
    PROVE  rows' \subseteq objects' /\ objects' \subseteq rows' \union pending'
<1> USE DEF FrameInv, TypeOK, GoesInOrder, BankComplete, SoleHolder, HolderKnows, Fenced, jobVars, frameVars, screenVars, sourceVars, localVars, budgetVars
<1>1. ASSUME NEW w \in Workers, Attempt(w) \/ Heartbeat(w) \/ Crash(w) \/ Fail(w) PROVE rows' \subseteq objects' /\ objects' \subseteq rows' \union pending'
  <2>1. CASE Reserve(w)
    BY <2>1 DEF Reserve, Claimable, GoesTo
  <2>2. CASE LoseLease(w)
    BY <2>2 DEF LoseLease, Ends
  <2>3. CASE MediaGone(w)
    BY <2>3 DEF MediaGone, Finish, Ends
  <2>4. CASE Start(w)
    BY <2>4 DEF Start, GoesTo
  <2>5. CASE ReadOrphans(w)
    BY <2>5 DEF ReadOrphans, Orphans, GoesTo
  <2>6. CASE DeleteOrphan(w)
    BY <2>6 DEF DeleteOrphan
  <2>7. CASE ClearPending(w)
    BY <2>7 DEF ClearPending, GoesTo
  <2>8. CASE Probe(w)
    BY <2>8 DEF Probe, GoesTo
  <2>9. CASE Screen(w)
    BY <2>9 DEF Screen, GoesTo
  <2>10. CASE PersistScreening(w)
    BY <2>10 DEF PersistScreening, GoesTo
  <2>11. CASE FinishBlocked(w)
    BY <2>11 DEF FinishBlocked, Finish, Ends
  <2>12. CASE Extract(w)
    BY <2>12 DEF Extract, GoesTo
  <2>13. CASE ReadPending(w)
    BY <2>13 DEF ReadPending, GoesTo
  <2>14. CASE WritePending(w)
    BY <2>14 DEF WritePending, GoesTo
  <2>15. CASE PutFrame(w)
    BY <2>15 DEF PutFrame, GoesTo
  <2>16. CASE VerifyFrame(w)
    BY <2>16 DEF VerifyFrame, GoesTo
  <2>17. CASE RecordFrame(w)
    BY <2>17 DEF RecordFrame, GoesTo
  <2>18. CASE Discovering(w)
    BY <2>18 DEF Discovering, GoesTo
  <2>19. CASE MarkFrameBankReady(w)
    BY <2>19 DEF MarkFrameBankReady, GoesTo
  <2>20. CASE Discover(w)
    BY <2>20 DEF Discover, GoesTo
  <2>21. CASE Seal(w)
    BY <2>21 DEF Seal, Ends
  <2>22. CASE NotFound(w)
    BY <2>22 DEF NotFound, Finish, Ends
  <2>23. CASE Heartbeat(w)
    BY <2>23 DEF Heartbeat
  <2>24. CASE Crash(w)
    BY <2>24 DEF Crash, Fault, Ends
  <2>25. CASE Fail(w)
    BY <2>25 DEF Fail, Fault, Finish, Ends
  <2> QED
    BY <1>1, <2>1, <2>2, <2>3, <2>4, <2>5, <2>6, <2>7, <2>8, <2>9, <2>10, <2>11, <2>12, <2>13, <2>14, <2>15, <2>16, <2>17, <2>18, <2>19, <2>20, <2>21, <2>22, <2>23, <2>24, <2>25 DEF Attempt
<1>2. CASE LeaseExpires
  BY <1>2 DEF LeaseExpires
<1>3. CASE RetryPreparation
  BY <1>3 DEF RetryPreparation, Requeue
<1>4. CASE DeclareFalsePositive
  BY <1>4 DEF DeclareFalsePositive, Requeue
<1>5. CASE AbortMedia
  BY <1>5 DEF AbortMedia
<1>6. CASE UNCHANGED vars
  BY <1>6 DEF vars
<1> QED
  BY <1>1, <1>2, <1>3, <1>4, <1>5, <1>6 DEF Next

\* Stalls are only counted up.
LEMMA StallsCounted ==
    ASSUME [Next]_vars
    PROVE  stalls' = stalls \/ stalls' = stalls + 1
<1> USE DEF budgetVars
<1>1. ASSUME NEW w \in Workers, Attempt(w) \/ Heartbeat(w) \/ Crash(w) \/ Fail(w) PROVE stalls' = stalls \/ stalls' = stalls + 1
  <2>1. CASE Reserve(w)
    BY <2>1 DEF Reserve, Claimable, GoesTo
  <2>2. CASE LoseLease(w)
    BY <2>2 DEF LoseLease, Ends
  <2>3. CASE MediaGone(w)
    BY <2>3 DEF MediaGone, Finish, Ends
  <2>4. CASE Start(w)
    BY <2>4 DEF Start, GoesTo
  <2>5. CASE ReadOrphans(w)
    BY <2>5 DEF ReadOrphans, Orphans, GoesTo
  <2>6. CASE DeleteOrphan(w)
    BY <2>6 DEF DeleteOrphan
  <2>7. CASE ClearPending(w)
    BY <2>7 DEF ClearPending, GoesTo
  <2>8. CASE Probe(w)
    BY <2>8 DEF Probe, GoesTo
  <2>9. CASE Screen(w)
    BY <2>9 DEF Screen, GoesTo
  <2>10. CASE PersistScreening(w)
    BY <2>10 DEF PersistScreening, GoesTo
  <2>11. CASE FinishBlocked(w)
    BY <2>11 DEF FinishBlocked, Finish, Ends
  <2>12. CASE Extract(w)
    BY <2>12 DEF Extract, GoesTo
  <2>13. CASE ReadPending(w)
    BY <2>13 DEF ReadPending, GoesTo
  <2>14. CASE WritePending(w)
    BY <2>14 DEF WritePending, GoesTo
  <2>15. CASE PutFrame(w)
    BY <2>15 DEF PutFrame, GoesTo
  <2>16. CASE VerifyFrame(w)
    BY <2>16 DEF VerifyFrame, GoesTo
  <2>17. CASE RecordFrame(w)
    BY <2>17 DEF RecordFrame, GoesTo
  <2>18. CASE Discovering(w)
    BY <2>18 DEF Discovering, GoesTo
  <2>19. CASE MarkFrameBankReady(w)
    BY <2>19 DEF MarkFrameBankReady, GoesTo
  <2>20. CASE Discover(w)
    BY <2>20 DEF Discover, GoesTo
  <2>21. CASE Seal(w)
    BY <2>21 DEF Seal, Ends
  <2>22. CASE NotFound(w)
    BY <2>22 DEF NotFound, Finish, Ends
  <2>23. CASE Heartbeat(w)
    BY <2>23 DEF Heartbeat
  <2>24. CASE Crash(w)
    BY <2>24 DEF Crash, Fault, Ends
  <2>25. CASE Fail(w)
    BY <2>25 DEF Fail, Fault, Finish, Ends
  <2> QED
    BY <1>1, <2>1, <2>2, <2>3, <2>4, <2>5, <2>6, <2>7, <2>8, <2>9, <2>10, <2>11, <2>12, <2>13, <2>14, <2>15, <2>16, <2>17, <2>18, <2>19, <2>20, <2>21, <2>22, <2>23, <2>24, <2>25 DEF Attempt
<1>2. CASE LeaseExpires
  BY <1>2 DEF LeaseExpires
<1>3. CASE RetryPreparation
  BY <1>3 DEF RetryPreparation, Requeue
<1>4. CASE DeclareFalsePositive
  BY <1>4 DEF DeclareFalsePositive, Requeue
<1>5. CASE AbortMedia
  BY <1>5 DEF AbortMedia
<1>6. CASE UNCHANGED vars
  BY <1>6 DEF vars
<1> QED
  BY <1>1, <1>2, <1>3, <1>4, <1>5, <1>6 DEF Next

LEMMA StoreAlways == Spec => []IInv
<1>1. Init => StoreInv
  BY DEF Init, StoreInv, SoleHolder, BankRemembered, HolderKnows
<1>2. ASSUME FrameInv, StoreInv, [Next]_vars PROVE StoreInv'
  <2> SUFFICES ASSUME stalls' = 0
               PROVE  /\ SoleHolder' /\ BankRemembered' /\ \A w \in Workers : HolderKnows(w)'
                      /\ rows' \subseteq objects' /\ objects' \subseteq rows' \union pending'
    BY DEF StoreInv
  <2>1. stalls = 0
    <3>1. stalls' = stalls \/ stalls' = stalls + 1
      BY <1>2, StallsCounted
    <3> QED BY <1>2, <3>1 DEF FrameInv, TypeOK
  <2>2. /\ SoleHolder /\ BankRemembered /\ \A w \in Workers : HolderKnows(w)
        /\ rows \subseteq objects /\ objects \subseteq rows \union pending
        /\ stalls' = stalls
    BY <1>2, <2>1 DEF StoreInv
  <2> QED BY <1>2, <2>2, SoleStep, RememberedStep, KnowsStep, StoredStep
<1>3. StoreInv /\ FrameInv /\ [Next]_vars => StoreInv'
  BY <1>2
<1> QED BY <1>1, <1>3, FrameAlways, PTL DEF Spec, IInv

\* For any number of crashes and failed attempts every committed frame is in the
\* store, and every stored one committed or recorded, while no worker outlives its
\* lease.
THEOREM FramesKept == Spec => []FramesAccounted
BY StoreAlways, PTL DEF IInv, StoreInv, FramesAccounted

\* While no worker outlives its lease, an attempt that runs after the frame bank
\* is ready changes neither it nor the decision on the source.
LEMMA BankUntouched ==
    ASSUME IInv, [Next]_vars, stalls = 0, anchored
    PROVE  UNCHANGED <<rows, objects, screening>>
<1>0. SoleHolder /\ BankRemembered
  BY DEF IInv, StoreInv
<1> USE <1>0 DEF SoleHolder, BankRemembered, Fenced, jobVars, frameVars, screenVars, sourceVars, localVars, budgetVars
<1>1. ASSUME NEW w \in Workers, Attempt(w) \/ Heartbeat(w) \/ Crash(w) \/ Fail(w) PROVE UNCHANGED <<rows, objects, screening>>
  <2>1. CASE Reserve(w)
    BY <2>1 DEF Reserve, Claimable, GoesTo
  <2>2. CASE LoseLease(w)
    BY <2>2 DEF LoseLease, Ends
  <2>3. CASE MediaGone(w)
    BY <2>3 DEF MediaGone, Finish, Ends
  <2>4. CASE Start(w)
    BY <2>4 DEF Start, GoesTo
  <2>5. CASE ReadOrphans(w)
    BY <2>5 DEF ReadOrphans, Orphans, GoesTo
  <2>6. CASE DeleteOrphan(w)
    BY <2>6 DEF DeleteOrphan
  <2>7. CASE ClearPending(w)
    BY <2>7 DEF ClearPending, GoesTo
  <2>8. CASE Probe(w)
    BY <2>8 DEF Probe, GoesTo
  <2>9. CASE Screen(w)
    BY <2>9 DEF Screen, GoesTo
  <2>10. CASE PersistScreening(w)
    BY <2>10 DEF PersistScreening, GoesTo
  <2>11. CASE FinishBlocked(w)
    BY <2>11 DEF FinishBlocked, Finish, Ends
  <2>12. CASE Extract(w)
    BY <2>12 DEF Extract, GoesTo
  <2>13. CASE ReadPending(w)
    BY <2>13 DEF ReadPending, GoesTo
  <2>14. CASE WritePending(w)
    BY <2>14 DEF WritePending, GoesTo
  <2>15. CASE PutFrame(w)
    BY <2>15 DEF PutFrame, GoesTo
  <2>16. CASE VerifyFrame(w)
    BY <2>16 DEF VerifyFrame, GoesTo
  <2>17. CASE RecordFrame(w)
    BY <2>17 DEF RecordFrame, GoesTo
  <2>18. CASE Discovering(w)
    BY <2>18 DEF Discovering, GoesTo
  <2>19. CASE MarkFrameBankReady(w)
    BY <2>19 DEF MarkFrameBankReady, GoesTo
  <2>20. CASE Discover(w)
    BY <2>20 DEF Discover, GoesTo
  <2>21. CASE Seal(w)
    BY <2>21 DEF Seal, Ends
  <2>22. CASE NotFound(w)
    BY <2>22 DEF NotFound, Finish, Ends
  <2>23. CASE Heartbeat(w)
    BY <2>23 DEF Heartbeat
  <2>24. CASE Crash(w)
    BY <2>24 DEF Crash, Fault, Ends
  <2>25. CASE Fail(w)
    BY <2>25 DEF Fail, Fault, Finish, Ends
  <2> QED
    BY <1>1, <2>1, <2>2, <2>3, <2>4, <2>5, <2>6, <2>7, <2>8, <2>9, <2>10, <2>11, <2>12, <2>13, <2>14, <2>15, <2>16, <2>17, <2>18, <2>19, <2>20, <2>21, <2>22, <2>23, <2>24, <2>25 DEF Attempt
<1>2. CASE LeaseExpires
  BY <1>2 DEF LeaseExpires
<1>3. CASE RetryPreparation
  BY <1>3 DEF RetryPreparation, Requeue
<1>4. CASE DeclareFalsePositive
  BY <1>4 DEF DeclareFalsePositive, Requeue
<1>5. CASE AbortMedia
  BY <1>5 DEF AbortMedia
<1>6. CASE UNCHANGED vars
  BY <1>6 DEF vars
<1> QED
  BY <1>1, <1>2, <1>3, <1>4, <1>5, <1>6 DEF Next

\* Crashes and retries after the frame bank repeat the discovery alone, for any
\* number of them, while no worker outlives its lease.
THEOREM BankReused == Spec => BankNotRedone
<1>1. IInv /\ [Next]_vars =>
        [stalls = 0 /\ anchored => UNCHANGED <<rows, objects, screening>>]_vars
  BY BankUntouched
<1> QED BY <1>1, StoreAlways, PTL DEF Spec, BankNotRedone

-----------------------------------------------------------------------------
(* The preparation implements LeasedWork. *)

\* What is seen of the job when one worker's part in it changes, or nobody's.
LEMMA WorkSame ==
    ASSUME UNCHANGED <<status, holder, expired, announced>>,
           \A w \in Workers : stage'[w] = "idle" <=> stage[w] = "idle"
    PROVE  UNCHANGED Work!lvars
BY DEF Work!lvars, Progress

LEMMA BusySame ==
    ASSUME \A w \in Workers : stage'[w] = "idle" <=> stage[w] = "idle"
    PROVE  [w \in Workers |-> IF stage'[w] = "idle" THEN None ELSE Preparation]
             = [w \in Workers |-> IF stage[w] = "idle" THEN None ELSE Preparation]
OBVIOUS

LEMMA BusyNot ==
    ASSUME TypeOK, NEW w \in Workers, stage' = [stage EXCEPT ![w] = "idle"]
    PROVE  [v \in Workers |-> IF stage'[v] = "idle" THEN None ELSE Preparation]
             = [[v \in Workers |-> IF stage[v] = "idle" THEN None ELSE Preparation]
                  EXCEPT ![w] = None]
BY DEF TypeOK

\* The holder's report of a failure ends the job, or gives it back.
LEMMA FinishWorks ==
    ASSUME TypeOK, NEW w \in Workers, NEW transient \in BOOLEAN,
           stage[w] # "idle", Finish(w, transient)
    PROVE  Work!LNext
<1> DEFINE ann == {p \in {Preparation} \X {"done", "failed"} :
                     (IF p[2] = "done" THEN "prepared" ELSE "inventory") \in announced}
<1>1. /\ status = "PROCESSING" /\ holder = w
      /\ holder' = None /\ expired' = FALSE
      /\ stage' = [stage EXCEPT ![w] = "idle"]
  BY DEF Finish, Fenced, Ends
<1>2. Work!Has(w, Preparation)
  BY <1>1 DEF Work!Has, Progress
<1>3. CASE status' = "QUEUED" /\ announced' = announced
  <2>1. Work!Becomes(Preparation, "waiting")
    BY <1>1, <1>3 DEF Work!Becomes, Progress
  <2>2. Work!GiveBack(w, Preparation)
    BY <1>1, <1>2, <1>3, <2>1, BusyNot DEF Work!GiveBack
  <2> QED BY <2>2 DEF Work!LNext
<1>4. CASE status' = "FAILED" /\ announced' = announced \union {"inventory"}
  <2>1. Work!Becomes(Preparation, "failed")
    BY <1>1, <1>4 DEF Work!Becomes, Progress
  <2>2. ann' = ann \union {<<Preparation, "failed">>}
    BY <1>4
  <2>3. Work!Fail(w, Preparation)
    BY <1>1, <1>2, <2>1, <2>2, BusyNot DEF Work!Fail
  <2> QED BY <2>3 DEF Work!LNext
<1> QED BY <1>3, <1>4 DEF Finish

\* Each step of a preparation is a step of leased work, or invisible.
LEMMA WorkStep ==
    ASSUME TypeOK, [Next]_vars
    PROVE  [Work!LNext]_(Work!lvars)
<1> DEFINE job == Preparation
<1> USE DEF jobVars, frameVars, screenVars, sourceVars, localVars, budgetVars
<1>1. ASSUME NEW w \in Workers, Attempt(w) \/ Heartbeat(w) \/ Crash(w) \/ Fail(w)
      PROVE  [Work!LNext]_(Work!lvars)
  <2>1. CASE Reserve(w)
    <3>1. /\ stage' = [stage EXCEPT ![w] = "reserved"] /\ stage[w] = "idle"
          /\ status' = "PROCESSING" /\ holder' = w /\ expired' = FALSE
          /\ Claimable /\ UNCHANGED announced
      BY <2>1 DEF Reserve, GoesTo
    <3>2. Work!Free(job)
      BY <3>1 DEF Claimable, Work!Free, Progress
    <3>3. [v \in Workers |-> IF stage'[v] = "idle" THEN None ELSE job]
            = [[v \in Workers |-> IF stage[v] = "idle" THEN None ELSE job] EXCEPT ![w] = job]
      BY <3>1 DEF TypeOK
    <3>4. Work!Take(w, job)
      BY <3>1, <3>2, <3>3 DEF Work!Take, Progress
    <3> QED BY <3>4 DEF Work!LNext
  <2>2. CASE LoseLease(w)
    <3>1. /\ stage' = [stage EXCEPT ![w] = "idle"] /\ stage[w] # "idle"
          /\ UNCHANGED <<status, holder, expired, announced>>
      BY <2>2 DEF LoseLease, Ends
    <3>2. Work!Leave(w, job)
      BY <3>1, BusyNot DEF Work!Leave, Progress
    <3> QED BY <3>2 DEF Work!LNext
  <2>3. CASE MediaGone(w)
    BY <2>3, FinishWorks DEF MediaGone
  <2>4. CASE FinishBlocked(w)
    BY <2>4, FinishWorks DEF FinishBlocked
  <2>5. CASE NotFound(w)
    BY <2>5, FinishWorks DEF NotFound, Missing
  <2>6. CASE Fail(w)
    BY <2>6, FinishWorks DEF Fail
  <2>7. CASE Start(w) \/ ReadOrphans(w) \/ ClearPending(w) \/ Screen(w) \/ ReadPending(w)
             \/ WritePending(w) \/ PutFrame(w) \/ VerifyFrame(w) \/ RecordFrame(w) \/ Discover(w)
    <3>1. /\ UNCHANGED <<status, holder, expired, announced>>
          /\ \E s \in Stages \ {"idle"} : stage' = [stage EXCEPT ![w] = s]
          /\ stage[w] # "idle"
      BY <2>7 DEF Start, ReadOrphans, ClearPending, Screen, ReadPending, WritePending,
                  PutFrame, VerifyFrame, RecordFrame, Discover, GoesTo, Stages
    <3>2. \A v \in Workers : stage'[v] = "idle" <=> stage[v] = "idle"
      BY <3>1 DEF TypeOK
    <3> QED BY <3>1, <3>2, WorkSame
  <2>8. CASE Probe(w) \/ PersistScreening(w) \/ Extract(w) \/ Discovering(w)
             \/ MarkFrameBankReady(w)
    <3>1. /\ UNCHANGED <<status, holder, expired, announced>>
          /\ \E s \in Stages \ {"idle"} : stage' = [stage EXCEPT ![w] = s]
          /\ stage[w] # "idle"
      BY <2>8 DEF Probe, PersistScreening, Extract, Discovering, MarkFrameBankReady,
                  GoesTo, Stages
    <3>2. \A v \in Workers : stage'[v] = "idle" <=> stage[v] = "idle"
      BY <3>1 DEF TypeOK
    <3> QED BY <3>1, <3>2, WorkSame
  <2>9. CASE DeleteOrphan(w)
    BY <2>9, WorkSame DEF DeleteOrphan
  <2>10. CASE Seal(w)
    <3>1. /\ status = "PROCESSING" /\ holder = w /\ stage[w] # "idle"
          /\ status' = "READY" /\ holder' = None /\ expired' = FALSE
          /\ announced' = announced \union {"prepared"}
          /\ stage' = [stage EXCEPT ![w] = "idle"]
      BY <2>10 DEF Seal, Fenced, Ends
    <3>2. Work!Has(w, job)
      BY <3>1 DEF Work!Has, Progress
    <3>3. Work!Becomes(job, "done")
      BY <3>1 DEF Work!Becomes, Progress
    <3>4. {p \in {job} \X {"done", "failed"} :
             (IF p[2] = "done" THEN "prepared" ELSE "inventory") \in announced'}
            = {p \in {job} \X {"done", "failed"} :
                 (IF p[2] = "done" THEN "prepared" ELSE "inventory") \in announced}
              \union {<<job, "done">>}
      BY <3>1
    <3>5. Work!Complete(w, job)
      BY <3>1, <3>2, <3>3, <3>4, BusyNot DEF Work!Complete
    <3> QED BY <3>5 DEF Work!LNext
  <2>11. CASE Heartbeat(w)
    <3>1. /\ status = "PROCESSING" /\ holder = w /\ expired' = FALSE
          /\ UNCHANGED <<status, holder, announced, stage>>
      BY <2>11 DEF Heartbeat, Fenced
    <3>2. Work!Renew(w, job)
      BY <3>1, BusySame DEF Work!Renew, Progress
    <3> QED BY <3>2 DEF Work!LNext
  <2>12. CASE Crash(w)
    <3>1. /\ stage[w] # "idle" /\ stage' = [stage EXCEPT ![w] = "idle"]
          /\ holder' = IF holder = w THEN None ELSE holder
          /\ UNCHANGED <<status, expired, announced>>
      BY <2>12 DEF Crash, Ends
    <3>2. CASE status = "PROCESSING" /\ holder = w
      <4>1. Work!Leave(w, job)
        BY <3>1, <3>2, BusyNot DEF Work!Leave, Progress
      <4> QED BY <4>1 DEF Work!LNext
    <3>3. CASE ~(status = "PROCESSING" /\ holder = w)
      <4>1. Work!Leave(w, job)
        BY <3>1, <3>3, BusyNot DEF Work!Leave, Progress
      <4> QED BY <4>1 DEF Work!LNext
    <3> QED BY <3>2, <3>3
  <2> QED
    BY <1>1, <2>1, <2>2, <2>3, <2>4, <2>5, <2>6, <2>7, <2>8, <2>9, <2>10, <2>11, <2>12 DEF Attempt
<1>2. CASE LeaseExpires
  <2>1. /\ status = "PROCESSING" /\ ~expired /\ expired' = TRUE
        /\ UNCHANGED <<status, holder, announced, stage>>
    BY <1>2 DEF LeaseExpires
  <2>2. Work!Lapse(job)
    BY <2>1, BusySame DEF Work!Lapse, Progress
  <2> QED BY <2>2 DEF Work!LNext
<1>3. ASSUME Requeue, UNCHANGED <<announced, stage>> PROVE Work!LNext
  <2>1. /\ status = "FAILED" /\ status' = "QUEUED"
        /\ UNCHANGED <<holder, expired, announced, stage>>
    BY <1>3 DEF Requeue
  <2>2. Work!Submit(job)
    BY <2>1, BusySame DEF Work!Submit, Work!Becomes, Progress
  <2> QED BY <2>2 DEF Work!LNext
<1>4. CASE RetryPreparation
  BY <1>3, <1>4 DEF RetryPreparation
<1>5. CASE DeclareFalsePositive
  <2>1. UNCHANGED <<announced, stage>>
    BY <1>5 DEF DeclareFalsePositive
  <2>2. CASE UNCHANGED <<jobVars, budgetVars>>
    BY <2>1, <2>2, WorkSame
  <2> QED BY <1>3, <1>5, <2>1, <2>2 DEF DeclareFalsePositive
<1>6. CASE AbortMedia
  BY <1>6, WorkSame DEF AbortMedia
<1>7. CASE UNCHANGED vars
  BY <1>7, WorkSame DEF vars
<1> QED
  BY <1>1, <1>2, <1>4, <1>5, <1>6, <1>7 DEF Next

\* A worker that lost its lease neither seals nor fails nor requeues the job, and
\* every end of it is announced in the transaction that ends it.
THEOREM PreparationIsLeasedWork == Spec => ImplementsWork
<1>1. Init => Work!LInit
  BY DEF Init, Work!LInit, Progress
<1>2. TypeOK /\ [Next]_vars => [Work!LNext]_(Work!lvars)
  BY WorkStep
<1> QED BY <1>1, <1>2, PreparationTypeCorrect, PTL DEF Spec, ImplementsWork, Work!LSpec
====

---- MODULE VideoSourceProofs ----
(***************************************************************************)
(* Theorems about VideoSource, for any number of workers, versions, days,    *)
(* faults, stalls, inherited holds and preparations.                          *)
(***************************************************************************)
EXTENDS VideoSource, TLAPS, WellFoundedInduction

\* Days that lie before a bound have a last one among them: latestRelease always
\* finds its maximum, however many versions there are.
LEMMA LastOfDays ==
    ASSUME NEW T, T # {}, NEW n \in Nat, \A d \in T : d \in Int /\ d <= n
    PROVE  \E d \in T : \A e \in T : e <= d
<1> DEFINE S == {n - d : d \in T}
<1>1. S \subseteq Nat /\ S # {}
  OBVIOUS
<1>2. \E x \in S : \A y \in S : <<y, x>> \notin OpToRel(<, Nat)
  <2> HIDE DEF S
  <2> QED BY <1>1, WFMin, NatLessThanWellFounded, Zenon
<1>3. PICK x \in S : \A y \in S : <<y, x>> \notin OpToRel(<, Nat)
  BY <1>2
<1>4. \A y \in S : ~(y < x)
  BY <1>1, <1>3, Zenon DEF OpToRel
<1>5. PICK d \in T : x = n - d
  BY <1>3
<1>6. ASSUME NEW e \in T PROVE e <= d
  <2>1. n - e \in S /\ ~(n - e < n - d)
    BY <1>4, <1>5
  <2>2. e \in Int /\ d \in Int
    OBVIOUS
  <2> QED BY <2>1, <2>2
<1> QED BY <1>6

\* The day latestRelease finds is one on which a version left, or none.
LEMMA LatestLeftTyped ==
    ASSUME MaxDay \in Nat, left' \in [Versions -> 0..MaxDay \union {NoDay}]
    PROVE  LatestLeft \in 0..MaxDay \union {NoDay}
<1> DEFINE gone == {v \in Versions : version'[v] \in {"SUPERSEDED", "INVALIDATED"}}
           T == {left'[v] : v \in gone} \union {NoDay}
<1>1. T \subseteq 0..MaxDay \union {NoDay}
  OBVIOUS
<1>2. \E d \in T : \A e \in T : e <= d
  <2>1. \A d \in T : d \in Int /\ d <= MaxDay
    BY <1>1 DEF NoDay
  <2>2. T # {}
    OBVIOUS
  <2> HIDE DEF T
  <2> QED BY <2>1, <2>2, LastOfDays
<1>3. \E d \in T : \A v \in gone : left'[v] <= d
  BY <1>2
<1>4. LatestLeft \in T
  BY <1>3 DEF LatestLeft
<1> QED BY <1>1, <1>4

\* What a baseline that comes or goes does to the retention window.
LEMMA TransitionTyped ==
    ASSUME TypeOK, Transition, left' \in [Versions -> 0..MaxDay \union {NoDay}], today' = today
    PROVE  /\ anchor' \in {"FIXED", "ACTIVE_BASELINE"}
           /\ expiry' \in Days \union {NoDay} /\ floor' \in Days \union {NoDay}
<1>1. MaxDay \in Nat /\ CurrentDays \in Nat /\ SupersededDays \in Nat
  BY SourceBounds
<1>2. LatestLeft \in 0..MaxDay \union {NoDay}
  BY <1>1, LatestLeftTyped
<1>3. LastDay \in 0..MaxDay
  BY <1>1, <1>2 DEF LastDay, TypeOK
<1>4. anchor \in {"FIXED", "ACTIVE_BASELINE"} /\ expiry \in Days \union {NoDay} /\ floor \in Days \union {NoDay}
  BY DEF TypeOK
<1>5. Later(floor, expiry) \in Days \union {NoDay}
  BY <1>4 DEF Later
<1>6. Later(LastDay + SupersededDays, Later(floor, expiry)) \in Days
  <2>1. LastDay + SupersededDays \in Days
    BY <1>1, <1>3 DEF Days
  <2> QED BY <1>1, <1>5, <2>1 DEF Later, Days, NoDay
<1> QED BY <1>4, <1>5, <1>6 DEF Transition

\* The versions keep their type when one of them moves.
LEMMA MovesTyped ==
    ASSUME TypeOK, NEW v \in Versions, NEW s \in {"ACTIVE", "SUPERSEDED", "INVALIDATED"}, Moves(v, s)
    PROVE  TypeOK'
<1>1. version' \in [Versions -> {"DRAFT", "ACTIVE", "SUPERSEDED", "INVALIDATED"}]
  BY DEF TypeOK, Moves
<1>2. left' \in [Versions -> 0..MaxDay \union {NoDay}]
  BY DEF TypeOK, Moves
<1>3. Transition /\ today' = today
  BY DEF Moves, budgetVars
<1>4. /\ anchor' \in {"FIXED", "ACTIVE_BASELINE"}
      /\ expiry' \in Days \union {NoDay} /\ floor' \in Days \union {NoDay}
  BY <1>2, <1>3, TransitionTyped
<1> QED BY <1>1, <1>2, <1>4
        DEF TypeOK, Moves, claimVars, holdVars, storeVars, workerVars, budgetVars

\* One step keeps the variables in their types.
LEMMA TypeStep ==
    ASSUME TypeOK, [Next]_vars
    PROVE  TypeOK'
<1> USE SourceBounds DEF TypeOK, Objects, claimVars, expiryVars, versionVars, holdVars, storeVars, workerVars, budgetVars
<1>1. ASSUME NEW w \in Workers,
            \/ ClaimDue(w) \/ TakeRequest(w) \/ Deletion(w) \/ DeletionFails(w) \/ Crash(w)
     PROVE  TypeOK'
  <2>1. CASE ClaimDue(w)
    BY <2>1 DEF ClaimDue, Found, Due, Claim, Owned, EffectivelyHeld
  <2>2. CASE TakeRequest(w)
    BY <2>2 DEF TakeRequest
  <2>3. CASE CheckClaim(w)
    <3>1. lapsed' \in BOOLEAN
      BY <2>3 DEF CheckClaim, Fenced, Owned, EffectivelyHeld, Ends
    <3> QED BY <2>3, <3>1 DEF CheckClaim, Fenced, Owned, EffectivelyHeld, Ends
  <2>4. CASE DeleteObject(w)
    BY <2>4 DEF DeleteObject
  <2>5. CASE MarkExpired(w)
    <3>1. lapsed' \in BOOLEAN
      BY <2>5 DEF MarkExpired, Fenced, Ends
    <3> QED BY <2>5, <3>1 DEF MarkExpired, Fenced, Ends
  <2>6. CASE LoseClaim(w)
    BY <2>6 DEF LoseClaim, Fenced, Ends
  <2>7. CASE AnswerRequest(w)
    BY <2>7 DEF AnswerRequest, Ends
  <2>8. CASE RefuseRequest(w)
    BY <2>8 DEF RefuseRequest
  <2>9. CASE ClaimRequested(w)
    <3>1. lapsed' \in BOOLEAN
      BY <2>9 DEF ClaimRequested, Blocked, Claim, Owned, EffectivelyHeld
    <3> QED BY <2>9, <3>1 DEF ClaimRequested, Blocked, Claim, Owned, EffectivelyHeld
  <2>10. CASE DeletionFails(w)
    <3>1. lapsed' \in BOOLEAN
      BY <2>10 DEF DeletionFails, Fault, Fenced, Ends
    <3> QED BY <2>10, <3>1 DEF DeletionFails, Fault, Fenced, Ends
  <2>11. CASE Crash(w)
    BY <2>11 DEF Crash, Fault, Ends
  <2> QED
    BY <1>1, <2>1, <2>2, <2>3, <2>4, <2>5, <2>6, <2>7, <2>8, <2>9, <2>10, <2>11 DEF Deletion
<1>2. CASE ReleaseStale
  <2>1. lapsed' \in BOOLEAN
    BY <1>2 DEF ReleaseStale, Owned, EffectivelyHeld
  <2> QED BY <1>2, <2>1 DEF ReleaseStale, Owned, EffectivelyHeld
<1>3. CASE ClaimLapses
  BY <1>3 DEF ClaimLapses
<1>4. CASE SetHold
  BY <1>4 DEF SetHold
<1>5. CASE TakeInherited
  BY <1>5 DEF TakeInherited
<1>6. CASE ReleaseInherited
  <2>1. inherited' \in BOOLEAN
    BY <1>6 DEF ReleaseInherited
  <2> QED BY <1>6, <2>1 DEF ReleaseInherited
<1>7. CASE Contest
  BY <1>7 DEF Contest
<1>8. CASE ResolveContestation
  BY <1>8 DEF ResolveContestation
<1>9. CASE Watch
  BY <1>9 DEF Watch
<1>10. CASE StopWatching
  <2>1. watching' \in BOOLEAN
    BY <1>10 DEF StopWatching
  <2> QED BY <1>10, <2>1 DEF StopWatching
<1>11. CASE Baseline
  <2>1. CASE \E v \in Versions : Activate(v)
    BY <2>1, MovesTyped DEF Activate
  <2>2. CASE \E v \in Versions : Supersede(v)
    BY <2>2, MovesTyped DEF Supersede
  <2>3. CASE \E v \in Versions : Invalidate(v)
    BY <2>3, MovesTyped DEF Invalidate
  <2> QED BY <1>11, <2>1, <2>2, <2>3 DEF Baseline
<1>12. CASE ReservePreparation
  BY <1>12 DEF ReservePreparation, Prepares
<1>13. CASE LoadOriginal
  <2>1. objects' \subseteq Objects /\ prep' \in {"done", "loaded", "failed"}
    BY <1>13 DEF LoadOriginal, Prepares
  <2>2. UNCHANGED <<ready, proxied>>
    BY <1>13 DEF LoadOriginal, Prepares
  <2> QED BY <1>13, <2>1, <2>2 DEF LoadOriginal, Prepares
<1>14. CASE PutProxy
  BY <1>14 DEF PutProxy, Prepares
<1>15. CASE RecordProxy
  BY <1>15 DEF RecordProxy, Prepares
<1>16. CASE ProxyMissing
  BY <1>16 DEF ProxyMissing, Prepares
<1>17. CASE FrameBankReady
  <2>1. ready' \in BOOLEAN /\ UNCHANGED proxied /\ prep' = "done"
    BY <1>17 DEF FrameBankReady, Prepares
  <2>2. expiry' \in Days \union {NoDay} /\ floor' \in Days \union {NoDay}
    <3>1. today + CurrentDays \in Days
      BY DEF Days
    <3>2. expiry \in Days \union {NoDay} /\ floor \in Days \union {NoDay}
      OBVIOUS
    <3> QED BY <1>17, <3>1, <3>2 DEF FrameBankReady, Later
  <2> QED BY <1>17, <2>1, <2>2 DEF FrameBankReady, Prepares
<1>18. CASE PreparationFails
  BY <1>18 DEF PreparationFails, Fault
<1>19. CASE PrepareAgain
  BY <1>19 DEF PrepareAgain
<1>20. CASE RequestDeletion
  BY <1>20 DEF RequestDeletion
<1>21. CASE Tomorrow
  BY <1>21 DEF Tomorrow
<1>22. CASE UNCHANGED vars
  BY <1>22 DEF vars
<1> QED
  BY <1>1, <1>2, <1>3, <1>4, <1>5, <1>6, <1>7, <1>8, <1>9, <1>10, <1>11, <1>12, <1>13, <1>14, <1>15, <1>16, <1>17, <1>18, <1>19, <1>20, <1>21, <1>22 DEF Next, Preparation

\* The source starts in its types.
LEMMA InitTyped == Init => TypeOK
<1> SUFFICES ASSUME Init PROVE TypeOK
  OBVIOUS
<1>1. /\ lapsed \in BOOLEAN /\ ready \in BOOLEAN /\ held \in BOOLEAN /\ inherited \in BOOLEAN
      /\ watching \in BOOLEAN /\ proxied \in BOOLEAN
  BY DEF Init
<1>2. asked \in [Workers -> BOOLEAN]
  BY DEF Init
<1> QED BY <1>1, <1>2, SourceBounds DEF Init, TypeOK, Objects, NoDay

\* Every variable keeps its type: TypeOK, the state of the source and its workers.
THEOREM SourceTypeCorrect == Spec => []TypeOK
BY InitTyped, TypeStep, PTL DEF Spec

-----------------------------------------------------------------------------
(* The inductive invariant *)

\* A source that is being deleted belonged to nobody when it was claimed, and only
\* a hold on its inspection or on a version can have come since.
ClaimedUnowned ==
    status = "DELETING" =>
        ~held /\ contestation # "OPEN" /\ ~ActiveBaseline /\ ~watching /\ anchor = "FIXED"

\* Unless it stood still, a worker that deletes still has its claim.
ClaimKept ==
    stalls = 0 => \A w \in Workers : stage[w] \in {"check", "delete"} => Fenced(w) /\ ~lapsed

\* Nothing but such a hold gives a source back once it was claimed.
NotGivenBack ==
    inheritances = 0 =>
        /\ ~inherited
        /\ status = "RETAINED" =>
              /\ "original" \in objects
              /\ \A w \in Workers : stage[w] \notin {"check", "delete"}

\* A worker leaves no object behind but those it has still to delete.
LeavesNothing ==
    /\ ready => proxied
    /\ \A w \in Workers : stage[w] = "asked" => request # "none"
    /\ request = "none" =>
          /\ status # "RETAINED" => ready
          /\ status = "EXPIRED" => objects = {}
          /\ \A w \in Workers : stage[w] \in {"check", "delete"} => ready
          /\ \A w \in Workers : stage[w] = "delete" => objects \subseteq keys[w]

\* The original is gone once nobody has it to delete.
OriginalGone ==
    /\ status = "EXPIRED" => "original" \notin objects
    /\ \A w \in Workers : stage[w] = "delete" /\ "original" \notin keys[w] => "original" \notin objects
    /\ inheritances = 0 =>
          /\ \A w \in Workers : stage[w] = "answer" => "original" \notin objects
          /\ request = "COMPLETED" => "original" \notin objects

\* A source has a window of its own, or a baseline and the floor of the next.
OneWindow ==
    /\ anchor = "ACTIVE_BASELINE" => expiry = NoDay
    /\ ~ready => expiry = NoDay /\ floor = NoDay

IInv ==
    /\ TypeOK /\ ClaimedUnowned /\ ClaimKept /\ NotGivenBack /\ LeavesNothing
    /\ OriginalGone /\ OneWindow

\* What is being deleted stays unowned but for inherited holds.
LEMMA UnownedStep ==
    ASSUME TypeOK, ClaimedUnowned, [Next]_vars
    PROVE  ClaimedUnowned'
<1> USE DEF TypeOK, ClaimedUnowned, ActiveBaseline, claimVars, expiryVars, versionVars, holdVars, storeVars, workerVars, budgetVars
<1>1. ASSUME NEW w \in Workers,
            \/ ClaimDue(w) \/ TakeRequest(w) \/ Deletion(w) \/ DeletionFails(w) \/ Crash(w)
     PROVE  ClaimedUnowned'
  <2>1. CASE ClaimDue(w)
    BY <2>1 DEF ClaimDue, Found, Due, Claim, Owned, EffectivelyHeld
  <2>2. CASE TakeRequest(w)
    BY <2>2 DEF TakeRequest
  <2>3. CASE CheckClaim(w)
    BY <2>3 DEF CheckClaim, Fenced, Owned, EffectivelyHeld, Ends
  <2>4. CASE DeleteObject(w)
    BY <2>4 DEF DeleteObject
  <2>5. CASE MarkExpired(w)
    BY <2>5 DEF MarkExpired, Fenced, Ends
  <2>6. CASE LoseClaim(w)
    BY <2>6 DEF LoseClaim, Fenced, Ends
  <2>7. CASE AnswerRequest(w)
    BY <2>7 DEF AnswerRequest, Ends
  <2>8. CASE RefuseRequest(w)
    BY <2>8 DEF RefuseRequest
  <2>9. CASE ClaimRequested(w)
    BY <2>9 DEF ClaimRequested, Blocked, Claim, Owned, EffectivelyHeld
  <2>10. CASE DeletionFails(w)
    BY <2>10 DEF DeletionFails, Fault, Fenced, Ends
  <2>11. CASE Crash(w)
    BY <2>11 DEF Crash, Fault, Ends
  <2> QED
    BY <1>1, <2>1, <2>2, <2>3, <2>4, <2>5, <2>6, <2>7, <2>8, <2>9, <2>10, <2>11 DEF Deletion
<1>2. CASE ReleaseStale
  BY <1>2 DEF ReleaseStale, Owned, EffectivelyHeld
<1>3. CASE ClaimLapses
  BY <1>3 DEF ClaimLapses
<1>4. CASE SetHold
  BY <1>4 DEF SetHold
<1>5. CASE TakeInherited
  BY <1>5 DEF TakeInherited
<1>6. CASE ReleaseInherited
  BY <1>6 DEF ReleaseInherited
<1>7. CASE Contest
  BY <1>7 DEF Contest
<1>8. CASE ResolveContestation
  BY <1>8 DEF ResolveContestation
<1>9. CASE Watch
  BY <1>9 DEF Watch
<1>10. CASE StopWatching
  BY <1>10 DEF StopWatching
<1>11. CASE Baseline
  BY <1>11 DEF Baseline, Activate, Supersede, Invalidate, Moves
<1>12. CASE ReservePreparation
  BY <1>12 DEF ReservePreparation, Prepares
<1>13. CASE LoadOriginal
  BY <1>13 DEF LoadOriginal, Prepares
<1>14. CASE PutProxy
  BY <1>14 DEF PutProxy, Prepares
<1>15. CASE RecordProxy
  BY <1>15 DEF RecordProxy, Prepares
<1>16. CASE ProxyMissing
  BY <1>16 DEF ProxyMissing, Prepares
<1>17. CASE FrameBankReady
  BY <1>17 DEF FrameBankReady, Prepares
<1>18. CASE PreparationFails
  BY <1>18 DEF PreparationFails, Fault
<1>19. CASE PrepareAgain
  BY <1>19 DEF PrepareAgain
<1>20. CASE RequestDeletion
  BY <1>20 DEF RequestDeletion
<1>21. CASE Tomorrow
  BY <1>21 DEF Tomorrow
<1>22. CASE UNCHANGED vars
  BY <1>22 DEF vars
<1> QED
  BY <1>1, <1>2, <1>3, <1>4, <1>5, <1>6, <1>7, <1>8, <1>9, <1>10, <1>11, <1>12, <1>13, <1>14, <1>15, <1>16, <1>17, <1>18, <1>19, <1>20, <1>21, <1>22 DEF Next, Preparation

\* A lease that never ran out is never taken over.
LEMMA ClaimKeptStep ==
    ASSUME TypeOK, ClaimKept, [Next]_vars
    PROVE  ClaimKept'
<1> USE DEF TypeOK, ClaimKept, Fenced, claimVars, expiryVars, versionVars, holdVars, storeVars, workerVars, budgetVars
<1>1. ASSUME NEW w \in Workers,
            \/ ClaimDue(w) \/ TakeRequest(w) \/ Deletion(w) \/ DeletionFails(w) \/ Crash(w)
     PROVE  ClaimKept'
  <2>1. CASE ClaimDue(w)
    BY <2>1 DEF ClaimDue, Found, Due, Claim, Owned, EffectivelyHeld
  <2>2. CASE TakeRequest(w)
    BY <2>2 DEF TakeRequest
  <2>3. CASE CheckClaim(w)
    BY <2>3 DEF CheckClaim, Fenced, Owned, EffectivelyHeld, Ends
  <2>4. CASE DeleteObject(w)
    BY <2>4 DEF DeleteObject
  <2>5. CASE MarkExpired(w)
    BY <2>5 DEF MarkExpired, Fenced, Ends
  <2>6. CASE LoseClaim(w)
    BY <2>6 DEF LoseClaim, Fenced, Ends
  <2>7. CASE AnswerRequest(w)
    BY <2>7 DEF AnswerRequest, Ends
  <2>8. CASE RefuseRequest(w)
    BY <2>8 DEF RefuseRequest
  <2>9. CASE ClaimRequested(w)
    BY <2>9 DEF ClaimRequested, Blocked, Claim, Owned, EffectivelyHeld
  <2>10. CASE DeletionFails(w)
    BY <2>10 DEF DeletionFails, Fault, Fenced, Ends
  <2>11. CASE Crash(w)
    BY <2>11 DEF Crash, Fault, Ends
  <2> QED
    BY <1>1, <2>1, <2>2, <2>3, <2>4, <2>5, <2>6, <2>7, <2>8, <2>9, <2>10, <2>11 DEF Deletion
<1>2. CASE ReleaseStale
  BY <1>2 DEF ReleaseStale, Owned, EffectivelyHeld
<1>3. CASE ClaimLapses
  <2>1. UNCHANGED <<status, claimant, stage>> /\ (claimant # None => stalls' = stalls + 1)
    BY <1>3 DEF ClaimLapses
  <2>2. claimant = None => stalls' = stalls
    BY <1>3 DEF ClaimLapses
  <2>3. stalls \in Nat
    BY SourceBounds
  <2> QED BY <2>1, <2>2, <2>3, SourceBounds
<1>4. CASE SetHold
  BY <1>4 DEF SetHold
<1>5. CASE TakeInherited
  BY <1>5 DEF TakeInherited
<1>6. CASE ReleaseInherited
  BY <1>6 DEF ReleaseInherited
<1>7. CASE Contest
  BY <1>7 DEF Contest
<1>8. CASE ResolveContestation
  BY <1>8 DEF ResolveContestation
<1>9. CASE Watch
  BY <1>9 DEF Watch
<1>10. CASE StopWatching
  BY <1>10 DEF StopWatching
<1>11. CASE Baseline
  BY <1>11 DEF Baseline, Activate, Supersede, Invalidate, Moves
<1>12. CASE ReservePreparation
  BY <1>12 DEF ReservePreparation, Prepares
<1>13. CASE LoadOriginal
  BY <1>13 DEF LoadOriginal, Prepares
<1>14. CASE PutProxy
  BY <1>14 DEF PutProxy, Prepares
<1>15. CASE RecordProxy
  BY <1>15 DEF RecordProxy, Prepares
<1>16. CASE ProxyMissing
  BY <1>16 DEF ProxyMissing, Prepares
<1>17. CASE FrameBankReady
  BY <1>17 DEF FrameBankReady, Prepares
<1>18. CASE PreparationFails
  BY <1>18 DEF PreparationFails, Fault
<1>19. CASE PrepareAgain
  BY <1>19 DEF PrepareAgain
<1>20. CASE RequestDeletion
  BY <1>20 DEF RequestDeletion
<1>21. CASE Tomorrow
  BY <1>21 DEF Tomorrow
<1>22. CASE UNCHANGED vars
  BY <1>22 DEF vars
<1> QED
  BY <1>1, <1>2, <1>3, <1>4, <1>5, <1>6, <1>7, <1>8, <1>9, <1>10, <1>11, <1>12, <1>13, <1>14, <1>15, <1>16, <1>17, <1>18, <1>19, <1>20, <1>21, <1>22 DEF Next, Preparation

\* A claim ends in EXPIRED, or goes to another worker.
LEMMA GivenBackStep ==
    ASSUME TypeOK, ClaimedUnowned, NotGivenBack, [Next]_vars
    PROVE  NotGivenBack'
<1> USE DEF TypeOK, ClaimedUnowned, NotGivenBack, ActiveBaseline, claimVars, expiryVars, versionVars, holdVars, storeVars, workerVars, budgetVars
<1>1. ASSUME NEW w \in Workers,
            \/ ClaimDue(w) \/ TakeRequest(w) \/ Deletion(w) \/ DeletionFails(w) \/ Crash(w)
     PROVE  NotGivenBack'
  <2>1. CASE ClaimDue(w)
    BY <2>1 DEF ClaimDue, Found, Due, Claim, Owned, EffectivelyHeld
  <2>2. CASE TakeRequest(w)
    BY <2>2 DEF TakeRequest
  <2>3. CASE CheckClaim(w)
    BY <2>3 DEF CheckClaim, Fenced, Owned, EffectivelyHeld, Ends
  <2>4. CASE DeleteObject(w)
    BY <2>4 DEF DeleteObject
  <2>5. CASE MarkExpired(w)
    BY <2>5 DEF MarkExpired, Fenced, Ends
  <2>6. CASE LoseClaim(w)
    BY <2>6 DEF LoseClaim, Fenced, Ends
  <2>7. CASE AnswerRequest(w)
    BY <2>7 DEF AnswerRequest, Ends
  <2>8. CASE RefuseRequest(w)
    BY <2>8 DEF RefuseRequest
  <2>9. CASE ClaimRequested(w)
    BY <2>9 DEF ClaimRequested, Blocked, Claim, Owned, EffectivelyHeld
  <2>10. CASE DeletionFails(w)
    BY <2>10 DEF DeletionFails, Fault, Fenced, Ends
  <2>11. CASE Crash(w)
    BY <2>11 DEF Crash, Fault, Ends
  <2> QED
    BY <1>1, <2>1, <2>2, <2>3, <2>4, <2>5, <2>6, <2>7, <2>8, <2>9, <2>10, <2>11 DEF Deletion
<1>2. CASE ReleaseStale
  BY <1>2 DEF ReleaseStale, Owned, EffectivelyHeld
<1>3. CASE ClaimLapses
  BY <1>3 DEF ClaimLapses
<1>4. CASE SetHold
  BY <1>4 DEF SetHold
<1>5. CASE TakeInherited
  BY <1>5 DEF TakeInherited
<1>6. CASE ReleaseInherited
  BY <1>6 DEF ReleaseInherited
<1>7. CASE Contest
  BY <1>7 DEF Contest
<1>8. CASE ResolveContestation
  BY <1>8 DEF ResolveContestation
<1>9. CASE Watch
  BY <1>9 DEF Watch
<1>10. CASE StopWatching
  BY <1>10 DEF StopWatching
<1>11. CASE Baseline
  <2>1. UNCHANGED <<status, inheritances, inherited, objects, stage>>
    BY <1>11 DEF Baseline, Activate, Supersede, Invalidate, Moves
  <2> QED BY <2>1
<1>12. CASE ReservePreparation
  BY <1>12 DEF ReservePreparation, Prepares
<1>13. CASE LoadOriginal
  BY <1>13 DEF LoadOriginal, Prepares
<1>14. CASE PutProxy
  BY <1>14 DEF PutProxy, Prepares
<1>15. CASE RecordProxy
  BY <1>15 DEF RecordProxy, Prepares
<1>16. CASE ProxyMissing
  BY <1>16 DEF ProxyMissing, Prepares
<1>17. CASE FrameBankReady
  BY <1>17 DEF FrameBankReady, Prepares
<1>18. CASE PreparationFails
  BY <1>18 DEF PreparationFails, Fault
<1>19. CASE PrepareAgain
  BY <1>19 DEF PrepareAgain
<1>20. CASE RequestDeletion
  BY <1>20 DEF RequestDeletion
<1>21. CASE Tomorrow
  BY <1>21 DEF Tomorrow
<1>22. CASE UNCHANGED vars
  BY <1>22 DEF vars
<1> QED
  BY <1>1, <1>2, <1>3, <1>4, <1>5, <1>6, <1>7, <1>8, <1>9, <1>10, <1>11, <1>12, <1>13, <1>14, <1>15, <1>16, <1>17, <1>18, <1>19, <1>20, <1>21, <1>22 DEF Next, Preparation

\* What the schedule deletes is deleted whole.
LEMMA NothingLeftStep ==
    ASSUME TypeOK, LeavesNothing, [Next]_vars
    PROVE  LeavesNothing'
<1> USE DEF TypeOK, LeavesNothing, Objects, claimVars, expiryVars, versionVars, holdVars, storeVars, workerVars, budgetVars
<1>1. ASSUME NEW w \in Workers,
            \/ ClaimDue(w) \/ TakeRequest(w) \/ Deletion(w) \/ DeletionFails(w) \/ Crash(w)
     PROVE  LeavesNothing'
  <2>1. CASE ClaimDue(w)
    BY <2>1 DEF ClaimDue, Found, Due, Claim, Owned, EffectivelyHeld
  <2>2. CASE TakeRequest(w)
    BY <2>2 DEF TakeRequest
  <2>3. CASE CheckClaim(w)
    BY <2>3 DEF CheckClaim, Fenced, Owned, EffectivelyHeld, Ends
  <2>4. CASE DeleteObject(w)
    BY <2>4 DEF DeleteObject
  <2>5. CASE MarkExpired(w)
    BY <2>5 DEF MarkExpired, Fenced, Ends
  <2>6. CASE LoseClaim(w)
    BY <2>6 DEF LoseClaim, Fenced, Ends
  <2>7. CASE AnswerRequest(w)
    BY <2>7 DEF AnswerRequest, Ends
  <2>8. CASE RefuseRequest(w)
    BY <2>8 DEF RefuseRequest
  <2>9. CASE ClaimRequested(w)
    BY <2>9 DEF ClaimRequested, Blocked, Claim, Owned, EffectivelyHeld
  <2>10. CASE DeletionFails(w)
    BY <2>10 DEF DeletionFails, Fault, Fenced, Ends
  <2>11. CASE Crash(w)
    BY <2>11 DEF Crash, Fault, Ends
  <2> QED
    BY <1>1, <2>1, <2>2, <2>3, <2>4, <2>5, <2>6, <2>7, <2>8, <2>9, <2>10, <2>11 DEF Deletion
<1>2. CASE ReleaseStale
  BY <1>2 DEF ReleaseStale, Owned, EffectivelyHeld
<1>3. CASE ClaimLapses
  BY <1>3 DEF ClaimLapses
<1>4. CASE SetHold
  BY <1>4 DEF SetHold
<1>5. CASE TakeInherited
  BY <1>5 DEF TakeInherited
<1>6. CASE ReleaseInherited
  BY <1>6 DEF ReleaseInherited
<1>7. CASE Contest
  BY <1>7 DEF Contest
<1>8. CASE ResolveContestation
  BY <1>8 DEF ResolveContestation
<1>9. CASE Watch
  BY <1>9 DEF Watch
<1>10. CASE StopWatching
  BY <1>10 DEF StopWatching
<1>11. CASE Baseline
  <2>1. UNCHANGED <<ready, proxied, status, objects, stage, keys, request>>
    BY <1>11 DEF Baseline, Activate, Supersede, Invalidate, Moves
  <2> QED BY <2>1
<1>12. CASE ReservePreparation
  BY <1>12 DEF ReservePreparation, Prepares
<1>13. CASE LoadOriginal
  BY <1>13 DEF LoadOriginal, Prepares
<1>14. CASE PutProxy
  BY <1>14 DEF PutProxy, Prepares
<1>15. CASE RecordProxy
  BY <1>15 DEF RecordProxy, Prepares
<1>16. CASE ProxyMissing
  BY <1>16 DEF ProxyMissing, Prepares
<1>17. CASE FrameBankReady
  BY <1>17 DEF FrameBankReady, Prepares
<1>18. CASE PreparationFails
  BY <1>18 DEF PreparationFails, Fault
<1>19. CASE PrepareAgain
  BY <1>19 DEF PrepareAgain
<1>20. CASE RequestDeletion
  BY <1>20 DEF RequestDeletion
<1>21. CASE Tomorrow
  BY <1>21 DEF Tomorrow
<1>22. CASE UNCHANGED vars
  BY <1>22 DEF vars
<1> QED
  BY <1>1, <1>2, <1>3, <1>4, <1>5, <1>6, <1>7, <1>8, <1>9, <1>10, <1>11, <1>12, <1>13, <1>14, <1>15, <1>16, <1>17, <1>18, <1>19, <1>20, <1>21, <1>22 DEF Next, Preparation

\* The original is gone before anybody says so.
LEMMA OriginalGoneStep ==
    ASSUME TypeOK, ClaimedUnowned, NotGivenBack, OriginalGone, [Next]_vars
    PROVE  OriginalGone'
<1> USE DEF TypeOK, ClaimedUnowned, NotGivenBack, OriginalGone, ActiveBaseline, Objects, claimVars, expiryVars, versionVars, holdVars, storeVars, workerVars, budgetVars
<1>1. ASSUME NEW w \in Workers,
            \/ ClaimDue(w) \/ TakeRequest(w) \/ Deletion(w) \/ DeletionFails(w) \/ Crash(w)
     PROVE  OriginalGone'
  <2>1. CASE ClaimDue(w)
    BY <2>1 DEF ClaimDue, Found, Due, Claim, Owned, EffectivelyHeld
  <2>2. CASE TakeRequest(w)
    BY <2>2 DEF TakeRequest
  <2>3. CASE CheckClaim(w)
    BY <2>3 DEF CheckClaim, Fenced, Owned, EffectivelyHeld, Ends
  <2>4. CASE DeleteObject(w)
    BY <2>4 DEF DeleteObject
  <2>5. CASE MarkExpired(w)
    BY <2>5 DEF MarkExpired, Fenced, Ends
  <2>6. CASE LoseClaim(w)
    BY <2>6 DEF LoseClaim, Fenced, Ends
  <2>7. CASE AnswerRequest(w)
    BY <2>7 DEF AnswerRequest, Ends
  <2>8. CASE RefuseRequest(w)
    BY <2>8 DEF RefuseRequest
  <2>9. CASE ClaimRequested(w)
    BY <2>9 DEF ClaimRequested, Blocked, Claim, Owned, EffectivelyHeld
  <2>10. CASE DeletionFails(w)
    BY <2>10 DEF DeletionFails, Fault, Fenced, Ends
  <2>11. CASE Crash(w)
    BY <2>11 DEF Crash, Fault, Ends
  <2> QED
    BY <1>1, <2>1, <2>2, <2>3, <2>4, <2>5, <2>6, <2>7, <2>8, <2>9, <2>10, <2>11 DEF Deletion
<1>2. CASE ReleaseStale
  BY <1>2 DEF ReleaseStale, Owned, EffectivelyHeld
<1>3. CASE ClaimLapses
  BY <1>3 DEF ClaimLapses
<1>4. CASE SetHold
  BY <1>4 DEF SetHold
<1>5. CASE TakeInherited
  BY <1>5 DEF TakeInherited
<1>6. CASE ReleaseInherited
  BY <1>6 DEF ReleaseInherited
<1>7. CASE Contest
  BY <1>7 DEF Contest
<1>8. CASE ResolveContestation
  BY <1>8 DEF ResolveContestation
<1>9. CASE Watch
  BY <1>9 DEF Watch
<1>10. CASE StopWatching
  BY <1>10 DEF StopWatching
<1>11. CASE Baseline
  <2>1. UNCHANGED <<status, inheritances, objects, stage, keys, request>>
    BY <1>11 DEF Baseline, Activate, Supersede, Invalidate, Moves
  <2> QED BY <2>1
<1>12. CASE ReservePreparation
  BY <1>12 DEF ReservePreparation, Prepares
<1>13. CASE LoadOriginal
  BY <1>13 DEF LoadOriginal, Prepares
<1>14. CASE PutProxy
  BY <1>14 DEF PutProxy, Prepares
<1>15. CASE RecordProxy
  BY <1>15 DEF RecordProxy, Prepares
<1>16. CASE ProxyMissing
  BY <1>16 DEF ProxyMissing, Prepares
<1>17. CASE FrameBankReady
  BY <1>17 DEF FrameBankReady, Prepares
<1>18. CASE PreparationFails
  BY <1>18 DEF PreparationFails, Fault
<1>19. CASE PrepareAgain
  BY <1>19 DEF PrepareAgain
<1>20. CASE RequestDeletion
  BY <1>20 DEF RequestDeletion
<1>21. CASE Tomorrow
  BY <1>21 DEF Tomorrow
<1>22. CASE UNCHANGED vars
  BY <1>22 DEF vars
<1> QED
  BY <1>1, <1>2, <1>3, <1>4, <1>5, <1>6, <1>7, <1>8, <1>9, <1>10, <1>11, <1>12, <1>13, <1>14, <1>15, <1>16, <1>17, <1>18, <1>19, <1>20, <1>21, <1>22 DEF Next, Preparation

\* The windows of a source exclude each other.
LEMMA WindowStep ==
    ASSUME TypeOK, OneWindow, [Next]_vars
    PROVE  OneWindow'
<1> USE DEF TypeOK, OneWindow, claimVars, expiryVars, versionVars, holdVars, storeVars, workerVars, budgetVars
<1>1. ASSUME NEW w \in Workers,
            \/ ClaimDue(w) \/ TakeRequest(w) \/ Deletion(w) \/ DeletionFails(w) \/ Crash(w)
     PROVE  OneWindow'
  <2>1. CASE ClaimDue(w)
    BY <2>1 DEF ClaimDue, Found, Due, Claim, Owned, EffectivelyHeld
  <2>2. CASE TakeRequest(w)
    BY <2>2 DEF TakeRequest
  <2>3. CASE CheckClaim(w)
    BY <2>3 DEF CheckClaim, Fenced, Owned, EffectivelyHeld, Ends
  <2>4. CASE DeleteObject(w)
    BY <2>4 DEF DeleteObject
  <2>5. CASE MarkExpired(w)
    BY <2>5 DEF MarkExpired, Fenced, Ends
  <2>6. CASE LoseClaim(w)
    BY <2>6 DEF LoseClaim, Fenced, Ends
  <2>7. CASE AnswerRequest(w)
    BY <2>7 DEF AnswerRequest, Ends
  <2>8. CASE RefuseRequest(w)
    BY <2>8 DEF RefuseRequest
  <2>9. CASE ClaimRequested(w)
    BY <2>9 DEF ClaimRequested, Blocked, Claim, Owned, EffectivelyHeld
  <2>10. CASE DeletionFails(w)
    BY <2>10 DEF DeletionFails, Fault, Fenced, Ends
  <2>11. CASE Crash(w)
    BY <2>11 DEF Crash, Fault, Ends
  <2> QED
    BY <1>1, <2>1, <2>2, <2>3, <2>4, <2>5, <2>6, <2>7, <2>8, <2>9, <2>10, <2>11 DEF Deletion
<1>2. CASE ReleaseStale
  BY <1>2 DEF ReleaseStale, Owned, EffectivelyHeld
<1>3. CASE ClaimLapses
  BY <1>3 DEF ClaimLapses
<1>4. CASE SetHold
  BY <1>4 DEF SetHold
<1>5. CASE TakeInherited
  BY <1>5 DEF TakeInherited
<1>6. CASE ReleaseInherited
  BY <1>6 DEF ReleaseInherited
<1>7. CASE Contest
  BY <1>7 DEF Contest
<1>8. CASE ResolveContestation
  BY <1>8 DEF ResolveContestation
<1>9. CASE Watch
  BY <1>9 DEF Watch
<1>10. CASE StopWatching
  BY <1>10 DEF StopWatching
<1>11. CASE Baseline
  <2>1. ready /\ ready' = ready /\ Transition
    BY <1>11 DEF Baseline, Activate, Supersede, Invalidate, Moves
  <2> QED BY <2>1 DEF Transition
<1>12. CASE ReservePreparation
  BY <1>12 DEF ReservePreparation, Prepares
<1>13. CASE LoadOriginal
  BY <1>13 DEF LoadOriginal, Prepares
<1>14. CASE PutProxy
  BY <1>14 DEF PutProxy, Prepares
<1>15. CASE RecordProxy
  BY <1>15 DEF RecordProxy, Prepares
<1>16. CASE ProxyMissing
  BY <1>16 DEF ProxyMissing, Prepares
<1>17. CASE FrameBankReady
  BY <1>17 DEF FrameBankReady, Prepares
<1>18. CASE PreparationFails
  BY <1>18 DEF PreparationFails, Fault
<1>19. CASE PrepareAgain
  BY <1>19 DEF PrepareAgain
<1>20. CASE RequestDeletion
  BY <1>20 DEF RequestDeletion
<1>21. CASE Tomorrow
  BY <1>21 DEF Tomorrow
<1>22. CASE UNCHANGED vars
  BY <1>22 DEF vars
<1> QED
  BY <1>1, <1>2, <1>3, <1>4, <1>5, <1>6, <1>7, <1>8, <1>9, <1>10, <1>11, <1>12, <1>13, <1>14, <1>15, <1>16, <1>17, <1>18, <1>19, <1>20, <1>21, <1>22 DEF Next, Preparation

\* The invariant is inductive.
LEMMA Inductive == IInv /\ [Next]_vars => IInv'
BY TypeStep, UnownedStep, ClaimKeptStep, GivenBackStep, NothingLeftStep, OriginalGoneStep, WindowStep
   DEF IInv

\* The first probe has left the source RETAINED, unowned and without a window.
LEMMA Initial == Init => IInv
<1> SUFFICES ASSUME Init PROVE IInv
  OBVIOUS
<1>1. TypeOK
  BY InitTyped
<1>2. ClaimedUnowned /\ ClaimKept
  BY DEF Init, ClaimedUnowned, ClaimKept
<1>3. NotGivenBack /\ OriginalGone
  BY DEF Init, NotGivenBack, OriginalGone
<1>4. LeavesNothing
  BY DEF Init, LeavesNothing
<1>5. OneWindow
  BY DEF Init, OneWindow
<1> QED BY <1>1, <1>2, <1>3, <1>4, <1>5 DEF IInv

LEMMA IInvAlways == Spec => []IInv
BY Initial, Inductive, PTL DEF Spec

-----------------------------------------------------------------------------
(* The theorems *)

\* A source offered as retained has its original, whatever crashes, fails or
\* overtakes: RetainedHasOriginal, about the claims of expire_video_sources.
THEOREM RetainedKeepsOriginal == Spec => []RetainedHasOriginal
<1>1. IInv => RetainedHasOriginal
  BY DEF IInv, NotGivenBack, RetainedHasOriginal
<1> QED BY <1>1, IInvAlways, PTL

\* What the schedule has expired is gone and stays gone: ExpiredIsGone, about
\* deleteClaim and the preparation that may be under way.
THEOREM ExpiredLeavesNothing == Spec => []ExpiredIsGone
<1>1. IInv => ExpiredIsGone
  BY DEF IInv, LeavesNothing, ExpiredIsGone
<1> QED BY <1>1, IInvAlways, PTL

\* COMPLETED says the truth: CompletedIsDone, about process_deletion_requests.
THEOREM CompletedSaysDone == Spec => []CompletedIsDone
<1>1. IInv => CompletedIsDone
  BY DEF IInv, OriginalGone, CompletedIsDone
<1> QED BY <1>1, IInvAlways, PTL

\* A step deletes something recorded only as a worker with its claim.
LEMMA ProtectedStep ==
    ASSUME IInv, [Next]_vars, stalls = 0, ~(Recorded \subseteq objects')
    PROVE  ~held /\ contestation # "OPEN" /\ ~ActiveBaseline /\ ~watching
<1> DEFINE Safe == ~held /\ contestation # "OPEN" /\ ~ActiveBaseline /\ ~watching
<1> USE DEF Recorded, Objects, claimVars, expiryVars, versionVars, holdVars, storeVars, workerVars, budgetVars
<1>1. ASSUME NEW w \in Workers,
            \/ ClaimDue(w) \/ TakeRequest(w) \/ Deletion(w) \/ DeletionFails(w) \/ Crash(w)
     PROVE  Safe
  <2>1. CASE ClaimDue(w)
    BY <2>1 DEF ClaimDue, Found, Due, Claim, Owned, EffectivelyHeld
  <2>2. CASE TakeRequest(w)
    BY <2>2 DEF TakeRequest
  <2>3. CASE CheckClaim(w)
    BY <2>3 DEF CheckClaim, Fenced, Owned, EffectivelyHeld, Ends
  <2>4. CASE DeleteObject(w)
    <3>1. stage[w] = "delete"
      BY <2>4 DEF DeleteObject
    <3>2. status = "DELETING"
      BY <3>1 DEF IInv, ClaimKept, Fenced
    <3> QED BY <3>2 DEF IInv, ClaimedUnowned
  <2>5. CASE MarkExpired(w)
    BY <2>5 DEF MarkExpired, Fenced, Ends
  <2>6. CASE LoseClaim(w)
    BY <2>6 DEF LoseClaim, Fenced, Ends
  <2>7. CASE AnswerRequest(w)
    BY <2>7 DEF AnswerRequest, Ends
  <2>8. CASE RefuseRequest(w)
    BY <2>8 DEF RefuseRequest
  <2>9. CASE ClaimRequested(w)
    BY <2>9 DEF ClaimRequested, Blocked, Claim, Owned, EffectivelyHeld
  <2>10. CASE DeletionFails(w)
    BY <2>10 DEF DeletionFails, Fault, Fenced, Ends
  <2>11. CASE Crash(w)
    BY <2>11 DEF Crash, Fault, Ends
  <2> QED
    BY <1>1, <2>1, <2>2, <2>3, <2>4, <2>5, <2>6, <2>7, <2>8, <2>9, <2>10, <2>11 DEF Deletion
<1>2. CASE ReleaseStale
  BY <1>2 DEF ReleaseStale, Owned, EffectivelyHeld
<1>3. CASE ClaimLapses
  BY <1>3 DEF ClaimLapses
<1>4. CASE SetHold
  BY <1>4 DEF SetHold
<1>5. CASE TakeInherited
  BY <1>5 DEF TakeInherited
<1>6. CASE ReleaseInherited
  BY <1>6 DEF ReleaseInherited
<1>7. CASE Contest
  BY <1>7 DEF Contest
<1>8. CASE ResolveContestation
  BY <1>8 DEF ResolveContestation
<1>9. CASE Watch
  BY <1>9 DEF Watch
<1>10. CASE StopWatching
  BY <1>10 DEF StopWatching
<1>11. CASE Baseline
  BY <1>11 DEF Baseline, Activate, Supersede, Invalidate, Moves
<1>12. CASE ReservePreparation
  BY <1>12 DEF ReservePreparation, Prepares
<1>13. CASE LoadOriginal
  BY <1>13 DEF LoadOriginal, Prepares
<1>14. CASE PutProxy
  BY <1>14 DEF PutProxy, Prepares
<1>15. CASE RecordProxy
  BY <1>15 DEF RecordProxy, Prepares
<1>16. CASE ProxyMissing
  BY <1>16 DEF ProxyMissing, Prepares
<1>17. CASE FrameBankReady
  BY <1>17 DEF FrameBankReady, Prepares
<1>18. CASE PreparationFails
  BY <1>18 DEF PreparationFails, Fault
<1>19. CASE PrepareAgain
  BY <1>19 DEF PrepareAgain
<1>20. CASE RequestDeletion
  BY <1>20 DEF RequestDeletion
<1>21. CASE Tomorrow
  BY <1>21 DEF Tomorrow
<1>22. CASE UNCHANGED vars
  BY <1>22 DEF vars
<1> QED
  BY <1>1, <1>2, <1>3, <1>4, <1>5, <1>6, <1>7, <1>8, <1>9, <1>10, <1>11, <1>12, <1>13, <1>14, <1>15, <1>16, <1>17, <1>18, <1>19, <1>20, <1>21, <1>22 DEF Next, Preparation

\* Nothing that a hold, a contestation, a baseline or a viewer protects is deleted:
\* ProtectedKept, about the claims, the locks on the source and the leases.
THEOREM ProtectedIsKept == Spec => ProtectedKept
<1>1. IInv /\ [Next]_vars =>
         [stalls = 0 /\ ~(Recorded \subseteq objects') =>
             ~held /\ contestation # "OPEN" /\ ~ActiveBaseline /\ ~watching]_vars
  BY ProtectedStep
<1> QED BY <1>1, IInvAlways, PTL DEF Spec, ProtectedKept

\* A transition of the baselines, and the frame bank, never shorten the window.
LEMMA KeptStep ==
    ASSUME TypeOK, OneWindow, [Next]_vars
    PROVE  KeptUntil' >= KeptUntil
<1> USE DEF TypeOK, OneWindow, KeptUntil, Later, Days, NoDay, claimVars, expiryVars, versionVars, holdVars, storeVars, workerVars, budgetVars
<1>1. ASSUME NEW w \in Workers,
            \/ ClaimDue(w) \/ TakeRequest(w) \/ Deletion(w) \/ DeletionFails(w) \/ Crash(w)
     PROVE  KeptUntil' >= KeptUntil
  <2>1. CASE ClaimDue(w)
    BY <2>1 DEF ClaimDue, Found, Due, Claim, Owned, EffectivelyHeld
  <2>2. CASE TakeRequest(w)
    BY <2>2 DEF TakeRequest
  <2>3. CASE CheckClaim(w)
    BY <2>3 DEF CheckClaim, Fenced, Owned, EffectivelyHeld, Ends
  <2>4. CASE DeleteObject(w)
    BY <2>4 DEF DeleteObject
  <2>5. CASE MarkExpired(w)
    BY <2>5 DEF MarkExpired, Fenced, Ends
  <2>6. CASE LoseClaim(w)
    BY <2>6 DEF LoseClaim, Fenced, Ends
  <2>7. CASE AnswerRequest(w)
    BY <2>7 DEF AnswerRequest, Ends
  <2>8. CASE RefuseRequest(w)
    BY <2>8 DEF RefuseRequest
  <2>9. CASE ClaimRequested(w)
    BY <2>9 DEF ClaimRequested, Blocked, Claim, Owned, EffectivelyHeld
  <2>10. CASE DeletionFails(w)
    BY <2>10 DEF DeletionFails, Fault, Fenced, Ends
  <2>11. CASE Crash(w)
    BY <2>11 DEF Crash, Fault, Ends
  <2> QED
    BY <1>1, <2>1, <2>2, <2>3, <2>4, <2>5, <2>6, <2>7, <2>8, <2>9, <2>10, <2>11 DEF Deletion
<1>2. CASE ReleaseStale
  BY <1>2 DEF ReleaseStale, Owned, EffectivelyHeld
<1>3. CASE ClaimLapses
  BY <1>3 DEF ClaimLapses
<1>4. CASE SetHold
  BY <1>4 DEF SetHold
<1>5. CASE TakeInherited
  BY <1>5 DEF TakeInherited
<1>6. CASE ReleaseInherited
  BY <1>6 DEF ReleaseInherited
<1>7. CASE Contest
  BY <1>7 DEF Contest
<1>8. CASE ResolveContestation
  BY <1>8 DEF ResolveContestation
<1>9. CASE Watch
  BY <1>9 DEF Watch
<1>10. CASE StopWatching
  BY <1>10 DEF StopWatching
<1>11. CASE Baseline
  <2>1. Transition /\ today' = today /\ left' \in [Versions -> 0..MaxDay \union {NoDay}]
    BY <1>11 DEF Baseline, Activate, Supersede, Invalidate, Moves
  <2>2. LastDay \in 0..MaxDay
    BY <2>1, SourceBounds, LatestLeftTyped DEF LastDay
  <2>3. SupersededDays \in Nat /\ MaxDay \in Nat /\ CurrentDays \in Nat
    BY SourceBounds
  <2>4. expiry \in Int /\ floor \in Int /\ LastDay + SupersededDays \in Int
    BY <2>2, <2>3
  <2> QED BY <2>1, <2>4 DEF Transition
<1>12. CASE ReservePreparation
  BY <1>12 DEF ReservePreparation, Prepares
<1>13. CASE LoadOriginal
  BY <1>13 DEF LoadOriginal, Prepares
<1>14. CASE PutProxy
  BY <1>14 DEF PutProxy, Prepares
<1>15. CASE RecordProxy
  BY <1>15 DEF RecordProxy, Prepares
<1>16. CASE ProxyMissing
  BY <1>16 DEF ProxyMissing, Prepares
<1>17. CASE FrameBankReady
  <2>1. CurrentDays \in Nat /\ SupersededDays \in Nat /\ MaxDay \in Nat
    BY SourceBounds
  <2>2. CASE ready
    BY <1>17, <2>1, <2>2 DEF FrameBankReady, Prepares
  <2>3. CASE ~ready
    <3>1. floor = NoDay /\ expiry = NoDay
      BY <2>3
    <3>2. floor' \in Int /\ floor' >= NoDay /\ expiry' \in Int /\ expiry' >= NoDay
      BY <1>17, <2>1, <2>3, <3>1 DEF FrameBankReady, Prepares
    <3> QED BY <3>1, <3>2
  <2> QED BY <2>2, <2>3
<1>18. CASE PreparationFails
  BY <1>18 DEF PreparationFails, Fault
<1>19. CASE PrepareAgain
  BY <1>19 DEF PrepareAgain
<1>20. CASE RequestDeletion
  BY <1>20 DEF RequestDeletion
<1>21. CASE Tomorrow
  BY <1>21 DEF Tomorrow
<1>22. CASE UNCHANGED vars
  BY <1>22 DEF vars
<1> QED
  BY <1>1, <1>2, <1>3, <1>4, <1>5, <1>6, <1>7, <1>8, <1>9, <1>10, <1>11, <1>12, <1>13, <1>14, <1>15, <1>16, <1>17, <1>18, <1>19, <1>20, <1>21, <1>22 DEF Next, Preparation

\* The retention promised once is never shortened: KeptAsPromised, about
\* BaselineTransition.Transition and markFrameBankReady.
THEOREM PromiseKept == Spec => KeptAsPromised
<1>1. IInv /\ [Next]_vars => [KeptUntil' >= KeptUntil]_vars
  BY KeptStep DEF IInv
<1> QED BY <1>1, IInvAlways, PTL DEF Spec, KeptAsPromised

-----------------------------------------------------------------------------
(* The deletion implements leased work                                        *)

\* Who has the claim is at work on it.
ClaimantAtWork ==
    \A w \in Workers : claimant = w => status = "DELETING" /\ stage[w] \in {"check", "delete"}

\* A step of the source is one of a worker, or of its claim, or concerns neither.
LEMMA ClaimSteps ==
    ASSUME [Next]_vars
    PROVE  \/ \E w \in Workers :
                \/ ClaimDue(w) \/ TakeRequest(w) \/ Deletion(w) \/ DeletionFails(w) \/ Crash(w)
           \/ ReleaseStale \/ ClaimLapses
           \/ UNCHANGED <<claimVars, workerVars>>
<1>1. CASE SetHold \/ TakeInherited \/ ReleaseInherited \/ Contest \/ ResolveContestation
           \/ Watch \/ StopWatching
  BY <1>1 DEF SetHold, TakeInherited, ReleaseInherited, Contest, ResolveContestation, Watch, StopWatching
<1>2. CASE Baseline
  BY <1>2 DEF Baseline, Activate, Supersede, Invalidate, Moves
<1>3. CASE Preparation
  BY <1>3 DEF Preparation, ReservePreparation, LoadOriginal, PutProxy, RecordProxy, ProxyMissing,
              FrameBankReady, Prepares
<1>4. CASE PreparationFails \/ PrepareAgain \/ RequestDeletion \/ Tomorrow
  BY <1>4 DEF PreparationFails, PrepareAgain, RequestDeletion, Tomorrow
<1>5. CASE UNCHANGED vars
  BY <1>5 DEF vars
<1> QED BY <1>1, <1>2, <1>3, <1>4, <1>5 DEF Next

\* A claim ends before its worker goes on to something else.
LEMMA ClaimantStep ==
    ASSUME TypeOK, ClaimantAtWork, [Next]_vars
    PROVE  ClaimantAtWork'
<1> USE SourceBounds DEF TypeOK, ClaimantAtWork, claimVars, workerVars
<1>1. ASSUME NEW w \in Workers,
            \/ ClaimDue(w) \/ TakeRequest(w) \/ Deletion(w) \/ DeletionFails(w) \/ Crash(w)
      PROVE  ClaimantAtWork'
  <2>1. CASE ClaimDue(w)
    BY <2>1 DEF ClaimDue, Claim
  <2>2. CASE TakeRequest(w) \/ RefuseRequest(w)
    BY <2>2 DEF TakeRequest, RefuseRequest
  <2>3. CASE CheckClaim(w)
    BY <2>3 DEF CheckClaim, Fenced, Ends
  <2>4. CASE DeleteObject(w)
    BY <2>4 DEF DeleteObject
  <2>5. CASE MarkExpired(w)
    BY <2>5 DEF MarkExpired, Fenced, Ends
  <2>6. CASE LoseClaim(w)
    BY <2>6 DEF LoseClaim, Fenced, Ends
  <2>7. CASE AnswerRequest(w)
    BY <2>7 DEF AnswerRequest, Ends
  <2>8. CASE ClaimRequested(w)
    BY <2>8 DEF ClaimRequested, Claim
  <2>9. CASE DeletionFails(w)
    BY <2>9 DEF DeletionFails, Fenced, Ends
  <2>10. CASE Crash(w)
    BY <2>10 DEF Crash, Ends
  <2> QED
    BY <1>1, <2>1, <2>2, <2>3, <2>4, <2>5, <2>6, <2>7, <2>8, <2>9, <2>10 DEF Deletion
<1>2. CASE ReleaseStale
  BY <1>2 DEF ReleaseStale
<1>3. CASE ClaimLapses
  BY <1>3 DEF ClaimLapses
<1>4. CASE UNCHANGED <<claimVars, workerVars>>
  BY <1>4
<1> QED BY <1>1, <1>2, <1>3, <1>4, ClaimSteps

LEMMA ClaimantAlways == Spec => [](TypeOK /\ ClaimantAtWork)
<1>1. Init => ClaimantAtWork
  BY SourceBounds DEF Init, ClaimantAtWork
<1>2. TypeOK /\ ClaimantAtWork /\ [Next]_vars => TypeOK' /\ ClaimantAtWork'
  BY TypeStep, ClaimantStep
<1> QED BY InitTyped, <1>1, <1>2, PTL DEF Spec

\* A worker has the job from its claim until the deletion ends.
AtWork(w) == stage[w] \in {"check", "delete"}

\* The job looks the same when neither its claim nor who is at work on it changes.
LEMMA WorkSame ==
    ASSUME UNCHANGED claimVars, \A w \in Workers : AtWork(w)' <=> AtWork(w)
    PROVE  UNCHANGED Work!lvars
BY DEF claimVars, AtWork, Work!lvars, Progress

\* A worker that ends its part has no job any more.
LEMMA BusyNot ==
    ASSUME TypeOK, NEW w \in Workers, NEW s \in {"idle", "answer"}, stage' = [stage EXCEPT ![w] = s]
    PROVE  [v \in Workers |-> IF stage'[v] \in {"check", "delete"} THEN Expiry ELSE None]
             = [[v \in Workers |-> IF stage[v] \in {"check", "delete"} THEN Expiry ELSE None]
                  EXCEPT ![w] = None]
BY DEF TypeOK

\* Both ways to claim take the job.
LEMMA ClaimTakes ==
    ASSUME TypeOK, NEW w \in Workers, ~AtWork(w), Claim(w),
           status = "RETAINED" \/ (status = "DELETING" /\ lapsed)
    PROVE  Work!LNext
<1>1. /\ status' = "DELETING" /\ claimant' = w /\ lapsed' = FALSE
      /\ stage' = [stage EXCEPT ![w] = "check"]
  BY DEF Claim
<1>2. Work!Free(Expiry)
  BY DEF Work!Free, Progress
<1>3. [v \in Workers |-> IF stage'[v] \in {"check", "delete"} THEN Expiry ELSE None]
        = [[v \in Workers |-> IF stage[v] \in {"check", "delete"} THEN Expiry ELSE None]
             EXCEPT ![w] = Expiry]
  BY <1>1 DEF TypeOK
<1>4. Work!Take(w, Expiry)
  BY <1>1, <1>2, <1>3 DEF Work!Take, Progress, AtWork
<1> QED BY <1>4 DEF Work!LNext

\* Each step of a deletion is a step of leased work, or invisible.
LEMMA WorkStep ==
    ASSUME TypeOK, ClaimantAtWork, [Next]_vars
    PROVE  [Work!LNext]_(Work!lvars)
<1> USE DEF claimVars, workerVars
<1>1. ASSUME NEW w \in Workers,
            \/ ClaimDue(w) \/ TakeRequest(w) \/ Deletion(w) \/ DeletionFails(w) \/ Crash(w)
      PROVE  [Work!LNext]_(Work!lvars)
  <2>1. CASE ClaimDue(w)
    BY <2>1, ClaimTakes DEF ClaimDue, Found, Due, AtWork
  <2>2. CASE ClaimRequested(w)
    <3>1. CASE status = "EXPIRED"
      <4>1. UNCHANGED claimVars /\ stage[w] = "asked" /\ stage' = [stage EXCEPT ![w] = "answer"]
        BY <2>2, <3>1 DEF ClaimRequested
      <4> QED BY <4>1, WorkSame DEF AtWork, TypeOK
    <3>2. CASE status # "EXPIRED"
      BY <2>2, <3>2, ClaimTakes DEF ClaimRequested, Blocked, AtWork, TypeOK
    <3> QED BY <3>1, <3>2
  <2>3. CASE TakeRequest(w) \/ RefuseRequest(w) \/ AnswerRequest(w)
    <3>1. /\ UNCHANGED claimVars /\ ~AtWork(w)
          /\ \E s \in {"asked", "refused", "idle"} : stage' = [stage EXCEPT ![w] = s]
      BY <2>3 DEF TakeRequest, RefuseRequest, AnswerRequest, Ends, AtWork
    <3> QED BY <3>1, WorkSame DEF AtWork, TypeOK
  <2>4. CASE CheckClaim(w)
    <3>1. CASE Owned \/ anchor = "ACTIVE_BASELINE"
      <4>1. PICK s \in {"idle", "answer"} :
              /\ status = "DELETING" /\ claimant = w /\ AtWork(w)
              /\ status' = "RETAINED" /\ claimant' = None /\ lapsed' = FALSE
              /\ stage' = [stage EXCEPT ![w] = s]
        BY <2>4, <3>1 DEF CheckClaim, Fenced, Ends, AtWork
      <4>2. Work!Has(w, Expiry)
        BY <4>1 DEF Work!Has, Progress, AtWork
      <4>3. Work!Becomes(Expiry, "waiting")
        BY <4>1 DEF Work!Becomes, Progress
      <4>4. Work!GiveBack(w, Expiry)
        BY <4>1, <4>2, <4>3, BusyNot DEF Work!GiveBack
      <4> QED BY <4>4 DEF Work!LNext
    <3>2. CASE ~(Owned \/ anchor = "ACTIVE_BASELINE")
      <4>1. UNCHANGED claimVars /\ AtWork(w) /\ stage' = [stage EXCEPT ![w] = "delete"]
        BY <2>4, <3>2 DEF CheckClaim, AtWork
      <4> QED BY <4>1, WorkSame DEF AtWork, TypeOK
    <3> QED BY <3>1, <3>2
  <2>5. CASE DeleteObject(w)
    BY <2>5, WorkSame DEF DeleteObject, AtWork
  <2>6. CASE MarkExpired(w)
    <3>1. PICK s \in {"idle", "answer"} :
            /\ status = "DELETING" /\ claimant = w /\ AtWork(w)
            /\ status' = "EXPIRED" /\ claimant' = None /\ lapsed' = FALSE
            /\ stage' = [stage EXCEPT ![w] = s]
      BY <2>6 DEF MarkExpired, Fenced, Ends, AtWork
    <3>2. Work!Has(w, Expiry)
      BY <3>1 DEF Work!Has, Progress, AtWork
    <3>3. Work!Becomes(Expiry, "done")
      BY <3>1 DEF Work!Becomes, Progress
    <3>4. Work!Complete(w, Expiry)
      BY <3>1, <3>2, <3>3, BusyNot DEF Work!Complete
    <3> QED BY <3>4 DEF Work!LNext
  <2>7. CASE LoseClaim(w)
    <3>1. UNCHANGED claimVars /\ AtWork(w) /\ stage' = [stage EXCEPT ![w] = "idle"]
      BY <2>7 DEF LoseClaim, Ends, AtWork
    <3>2. Work!Leave(w, Expiry)
      BY <3>1, BusyNot DEF Work!Leave, Progress, AtWork
    <3> QED BY <3>2 DEF Work!LNext
  <2>8. CASE DeletionFails(w)
    <3>1. UNCHANGED status /\ AtWork(w) /\ stage' = [stage EXCEPT ![w] = "idle"]
      BY <2>8 DEF DeletionFails, Ends, AtWork
    <3>2. CASE Fenced(w)
      <4>1. status = "DELETING" /\ claimant = w /\ claimant' = None /\ lapsed' = TRUE
        BY <2>8, <3>2 DEF DeletionFails, Fenced
      <4>2. Work!Leave(w, Expiry)
        BY <3>1, <4>1, BusyNot DEF Work!Leave, Progress, AtWork
      <4> QED BY <4>2 DEF Work!LNext
    <3>3. CASE ~Fenced(w)
      <4>1. UNCHANGED claimVars
        BY <2>8, <3>3 DEF DeletionFails
      <4>2. Work!Leave(w, Expiry)
        BY <3>1, <4>1, BusyNot DEF Work!Leave, Progress, AtWork
      <4> QED BY <4>2 DEF Work!LNext
    <3> QED BY <3>2, <3>3
  <2>9. CASE Crash(w)
    <3>1. /\ UNCHANGED <<status, lapsed>> /\ stage' = [stage EXCEPT ![w] = "idle"]
          /\ claimant' = IF claimant = w THEN None ELSE claimant
      BY <2>9 DEF Crash, Ends
    <3>2. CASE AtWork(w) /\ claimant = w
      <4>1. status = "DELETING"
        BY <3>2 DEF ClaimantAtWork
      <4>2. Work!Leave(w, Expiry)
        BY <3>1, <3>2, <4>1, BusyNot DEF Work!Leave, Progress, AtWork
      <4> QED BY <4>2 DEF Work!LNext
    <3>3. CASE AtWork(w) /\ claimant # w
      <4>1. Work!Leave(w, Expiry)
        BY <3>1, <3>3, BusyNot DEF Work!Leave, Progress, AtWork
      <4> QED BY <4>1 DEF Work!LNext
    <3>4. CASE ~AtWork(w)
      <4>1. UNCHANGED claimVars
        BY <3>1, <3>4 DEF ClaimantAtWork, AtWork
      <4> QED BY <3>1, <3>4, <4>1, WorkSame DEF AtWork, TypeOK
    <3> QED BY <3>2, <3>3, <3>4
  <2> QED
    BY <1>1, <2>1, <2>2, <2>3, <2>4, <2>5, <2>6, <2>7, <2>8, <2>9 DEF Deletion
<1>2. CASE ReleaseStale
  <2>1. /\ status = "DELETING" /\ lapsed /\ UNCHANGED stage
        /\ status' = "RETAINED" /\ claimant' = None /\ lapsed' = FALSE
    BY <1>2 DEF ReleaseStale
  <2>2. Work!Becomes(Expiry, "waiting")
    BY <2>1 DEF Work!Becomes, Progress
  <2>3. Work!Recover(Expiry)
    BY <2>1, <2>2 DEF Work!Recover, Progress
  <2> QED BY <2>3 DEF Work!LNext
<1>3. CASE ClaimLapses
  <2>1. /\ status = "DELETING" /\ ~lapsed /\ lapsed' = TRUE
        /\ UNCHANGED <<status, claimant, stage>>
    BY <1>3 DEF ClaimLapses
  <2>2. Work!Lapse(Expiry)
    BY <2>1 DEF Work!Lapse, Progress
  <2> QED BY <2>2 DEF Work!LNext
<1>4. CASE UNCHANGED <<claimVars, workerVars>>
  BY <1>4, WorkSame DEF AtWork
<1> QED BY <1>1, <1>2, <1>3, <1>4, ClaimSteps

\* A deletion is taken over only when its claim has lapsed, and only the claimant
\* gives the source back or expires it, which is for good: ImplementsWork, about
\* the token of expire_video_sources.
THEOREM DeletionIsLeasedWork == Spec => ImplementsWork
<1>1. Init => Work!LInit
  BY DEF Init, Work!LInit, Progress
<1>2. TypeOK /\ ClaimantAtWork /\ [Next]_vars => [Work!LNext]_(Work!lvars)
  BY WorkStep
<1> QED BY <1>1, <1>2, ClaimantAlways, PTL DEF Spec, ImplementsWork, Work!LSpec

====

---- MODULE VoiceNoteProofs ----
(***************************************************************************)
(* Theorems about VoiceNote, for any number of workers, scanners, requests,  *)
(* attempts and generations.                                                  *)
(***************************************************************************)
EXTENDS VoiceNote, TLAPS

\* A worker about to complete with a transcript has one that is stored.
StagedSeen == \A w \in Workers : work[w] = "staged" => Staged(handling[w])

\* What an Append to the revisions does to the operators that read them.
LEMMA TextAdded ==
    ASSUME TypeOK, NEW e \in 0..MaxGenerations, texts' = Append(texts, e)
    PROVE  /\ texts' \in Seq(0..MaxGenerations)
           /\ Len(texts') = Len(texts) + 1
           /\ \A h \in Generations : Staged(h)' <=> Staged(h) \/ h = e
           /\ ModelText' <=> ModelText \/ e # 0
<1>1. /\ texts' \in Seq(0..MaxGenerations)
      /\ Len(texts') = Len(texts) + 1
      /\ DOMAIN texts = 1..Len(texts) /\ DOMAIN texts' = 1..(Len(texts) + 1)
      /\ \A i \in 1..Len(texts) : texts'[i] = texts[i]
      /\ texts'[Len(texts) + 1] = e
      /\ Len(texts) \in Nat
  BY DEF TypeOK
<1>2. ASSUME NEW h \in Generations PROVE Staged(h)' <=> Staged(h) \/ h = e
  <2>1. ASSUME Staged(h) PROVE Staged(h)'
    BY <1>1, <2>1 DEF Staged
  <2>2. ASSUME h = e PROVE Staged(h)'
    BY <1>1, <2>2 DEF Staged
  <2>3. ASSUME Staged(h)', h # e PROVE Staged(h)
    BY <1>1, <2>3 DEF Staged
  <2> QED BY <2>1, <2>2, <2>3
<1>3. ModelText' <=> ModelText \/ e # 0
  <2>1. ASSUME ModelText PROVE ModelText'
    BY <1>1, <2>1 DEF ModelText
  <2>2. ASSUME e # 0 PROVE ModelText'
    BY <1>1, <2>2 DEF ModelText
  <2>3. ASSUME ModelText', e = 0 PROVE ModelText
    BY <1>1, <2>3 DEF ModelText
  <2> QED BY <2>1, <2>2, <2>3
<1> QED BY <1>1, <1>2, <1>3

\* A model revision names a generation.
LEMMA ModelStaged ==
    ASSUME TypeOK, ModelText
    PROVE  \E g \in Generations : Staged(g)
<1>1. PICK i \in DOMAIN texts : texts[i] # 0
  BY DEF ModelText
<1>2. texts[i] \in Generations
  BY <1>1, VoiceTyped DEF TypeOK, Generations
<1> QED BY <1>2 DEF Staged

\* While the revisions stay, so does what is staged.
LEMMA TextKept ==
    ASSUME UNCHANGED texts
    PROVE  /\ \A h \in Generations : Staged(h)' <=> Staged(h)
           /\ ModelText' <=> ModelText
BY DEF Staged, ModelText

\* One step keeps the variables in their types.
LEMMA VTypeStep ==
    ASSUME TypeOK, StagedSeen, [Next]_vars
    PROVE  TypeOK'
<1> USE VoiceTyped DEF TypeOK, noteVars, textVars, jobVars, callVars, workVars, uploadVars,
                       eraseVars, scanVars, Pending, Terminal, Statuses, Answers
<1>1. ASSUME NEW r \in Requests, CompleteUpload(r) PROVE TypeOK'
  <2>1. 1 \in Generations
    BY DEF Generations
  <2>2. CASE UploadRead(r)
    BY <2>2 DEF UploadRead
  <2>5. CASE CompleteAudio(r)
    BY <2>5 DEF CompleteAudio
  <2>6. CASE GiveUp(r)
    BY <2>6 DEF GiveUp
  <2>7. CASE RejectUpload(r)
    BY <2>7 DEF RejectUpload
  <2>3. CASE AcceptUpload(r)
    BY <2>1, <2>3 DEF AcceptUpload, Enqueue
  <2>4. CASE CloseUpload(r)
    BY <2>4 DEF CloseUpload, RestartErasure
  <2>8. CASE ReturnLate(r)
    BY <2>8 DEF ReturnLate, RestartErasure
  <2> QED BY <1>1, <2>2, <2>3, <2>4, <2>5, <2>6, <2>7, <2>8 DEF CompleteUpload
<1>2. CASE Discard
  <2>1. job' \in [Generations -> Pending \union Terminal \union {"none", "FAILED"}]
    BY <1>2 DEF Discard
  <2>2. /\ erasure' \in {"none", "PENDING", "PROCESSING", "FAILED", "DELETED"}
        /\ deletion' \in {"PENDING", "SCHEDULED", "FAILED", "DELETED", "EXPIRED"}
        /\ erasable' \in BOOLEAN /\ UNCHANGED <<eraser, erasing>>
    BY <1>2 DEF Discard, RequireErasure
  <2> QED BY <1>2, <2>1, <2>2 DEF Discard
<1>3. CASE AbortUpload \/ Confirm \/ CloseDraft \/ EraserExpires \/ ErasureDue
  <2>1. CASE AbortUpload
    BY <2>1 DEF AbortUpload
  <2>2. CASE Confirm
    BY <2>2 DEF Confirm
  <2>3. CASE CloseDraft
    <3>1. draft' \in BOOLEAN
      BY <2>3 DEF CloseDraft
    <3> QED BY <2>3, <3>1 DEF CloseDraft
  <2>4. CASE EraserExpires
    <3>1. erasing' \in BOOLEAN
      BY <2>4 DEF EraserExpires
    <3> QED BY <2>4, <3>1 DEF EraserExpires
  <2>5. CASE ErasureDue
    BY <2>5 DEF ErasureDue
  <2> QED BY <1>3, <2>1, <2>2, <2>3, <2>4, <2>5
<1>4. CASE Revise
  <2>1. texts' = Append(texts, 0) /\ current' = Len(texts) + 1 /\ confirmed' = FALSE
    BY <1>4 DEF Revise, WriteText
  <2>2. Len(texts) \in Nat /\ 0 \in 0..MaxGenerations
    OBVIOUS
  <2>3. texts' \in Seq(0..MaxGenerations) /\ Len(texts') = Len(texts) + 1
    BY <2>1, <2>2, TextAdded
  <2>4. current' \in 0..Len(texts')
    BY <2>1, <2>2, <2>3
  <2>5. UNCHANGED <<noteVars, jobVars, callVars, wake, workVars, uploadVars, eraseVars, scanVars>>
    BY <1>4 DEF Revise
  <2>6. confirmed' \in BOOLEAN
    BY <2>1
  <2> QED BY <2>3, <2>4, <2>5, <2>6
<1>5. ASSUME NEW w \in Workers, Stop(w) \/ AttemptEnds(w) PROVE TypeOK'
  <2>1. CASE Stop(w)
    BY <2>1 DEF Stop, Quit, Goes
  <2>2. CASE AttemptEnds(w)
    BY <2>2 DEF AttemptEnds
  <2> QED BY <1>5, <2>1, <2>2
<1>6. ASSUME NEW w \in Workers, NEW g \in Generations, ProcessNote(w, g) PROVE TypeOK'
  <2>1. CASE Claim(w, g)
    BY <2>1 DEF Claim
  <2>2. CASE ClaimExhausted(w, g)
    BY <2>2 DEF ClaimExhausted, Exhaust, Release
  <2>3. CASE ReadStaged(w, g)
    BY <2>3 DEF ReadStaged, Goes
  <2>4. CASE StartCall(w, g)
    BY <2>4 DEF StartCall, Goes
  <2>5. CASE Answer(w, g)
    BY <2>5 DEF Answer, Goes
  <2>6. CASE StageResult(w, g)
    <3>1. texts' = Append(texts, g) /\ UNCHANGED current
      BY <2>6 DEF StageResult
    <3>2. texts' \in Seq(0..MaxGenerations) /\ current' \in 0..Len(texts')
      BY <3>1, TextAdded DEF Generations
    <3> QED BY <2>6, <3>2 DEF StageResult, Goes
  <2>7. CASE Fail(w, g)
    BY <2>7 DEF Fail, Release, Quit, Goes
  <2>8. CASE Complete(w, g)
    <3>1. current' \in 0..Len(texts)
      <4>1. CASE work[w] = "staged" /\ ~HumanText
        <5>1. \E i \in DOMAIN texts : texts[i] = g
          BY <2>8, <4>1 DEF Complete, At, StagedSeen, Staged
        <5>2. current' = CHOOSE i \in DOMAIN texts : texts[i] = g
          BY <2>8, <4>1 DEF Complete, Show
        <5>3. current' \in DOMAIN texts
          BY <5>1, <5>2
        <5> QED BY <5>3
      <4>2. CASE ~(work[w] = "staged" /\ ~HumanText)
        BY <2>8, <4>2 DEF Complete, Show
      <4> QED BY <4>1, <4>2
    <3> QED BY <2>8, <3>1 DEF Complete, Release, RequireErasure, Quit, Goes
  <2> QED BY <1>6, <2>1, <2>2, <2>3, <2>4, <2>5, <2>6, <2>7, <2>8 DEF ProcessNote
<1>7. ASSUME NEW g \in Generations,
             Retry(g) \/ Settle(g) \/ LeaseExpires(g) \/ BackoffEnds(g) \/ Scan(g)
      PROVE  TypeOK'
  <2>1. CASE Retry(g)
    BY <2>1 DEF Retry, Enqueue
  <2>2. CASE Settle(g)
    BY <2>2 DEF Settle
  <2>3. CASE LeaseExpires(g)
    BY <2>3 DEF LeaseExpires
  <2>4. CASE BackoffEnds(g)
    BY <2>4 DEF BackoffEnds
  <2>5. CASE RecoverLease(g)
    BY <2>5 DEF RecoverLease, Release
  <2>6. CASE CloseExhausted(g)
    BY <2>6 DEF CloseExhausted, Exhaust, Release
  <2>7. CASE RequeueDue(g)
    BY <2>7 DEF RequeueDue
  <2> QED BY <1>7, <2>1, <2>2, <2>3, <2>4, <2>5, <2>6, <2>7 DEF Scan
<1>8. ASSUME NEW s \in Scanners, Erase(s) \/ StopScan(s) PROVE TypeOK'
  <2>1. CASE ClaimDeletion(s)
    BY <2>1 DEF ClaimDeletion, UploadKnown
  <2>2. CASE EraseObject(s)
    BY <2>2 DEF EraseObject, Erased
  <2>3. CASE EraseFails(s)
    BY <2>3 DEF EraseFails, Erased
  <2>4. CASE CompleteDeletion(s)
    BY <2>4 DEF CompleteDeletion
  <2>5. CASE FailDeletion(s)
    BY <2>5 DEF FailDeletion
  <2>6. CASE StopScan(s)
    BY <2>6 DEF StopScan
  <2> QED BY <1>8, <2>1, <2>2, <2>3, <2>4, <2>5, <2>6 DEF Erase
<1>9. CASE ExpireNote
  <2>1. /\ job' \in [Generations -> Pending \union Terminal \union {"none", "FAILED"}]
        /\ retry' \in [Generations -> {"none", "later", "due"}]
        /\ told' \in [Generations -> SUBSET {"completed", "failed"}]
    BY <1>9 DEF ExpireNote, TellExpired
  <2>2. /\ erasure' \in {"none", "PENDING", "PROCESSING", "FAILED", "DELETED"}
        /\ erasable' \in BOOLEAN /\ UNCHANGED <<eraser, erasing>>
    BY <1>9 DEF ExpireNote, RequireErasure
  <2>3. deletion' \in {"PENDING", "SCHEDULED", "FAILED", "DELETED", "EXPIRED"}
    BY <1>9 DEF ExpireNote
  <2> QED BY <1>9, <2>1, <2>2, <2>3 DEF ExpireNote
<1>10. ASSUME NEW what \in {"upload", "audio"}, Ages(what) PROVE TypeOK'
  BY <1>10 DEF Ages
<1>11. CASE UNCHANGED vars
  BY <1>11 DEF vars
<1> QED
  BY <1>1, <1>2, <1>3, <1>4, <1>5, <1>6, <1>7, <1>8, <1>9, <1>10, <1>11 DEF Next

LEMMA SeenStep ==
    ASSUME TypeOK, StagedSeen, [Next]_vars
    PROVE  StagedSeen'
<1> USE DEF StagedSeen
<1>1. CASE UNCHANGED <<texts, work, handling>>
  BY <1>1, TextKept DEF TypeOK
<1>2. CASE Revise
  <2>1. texts' = Append(texts, 0) /\ UNCHANGED <<work, handling>>
    BY <1>2 DEF Revise, WriteText, workVars
  <2>2. \A h \in Generations : Staged(h)' <=> Staged(h) \/ h = 0
    BY <2>1, TextAdded, VoiceTyped
  <2> QED BY <2>1, <2>2 DEF TypeOK
<1>3. ASSUME NEW w \in Workers, Stop(w) PROVE StagedSeen'
  BY <1>3, TextKept DEF Stop, Quit, Goes, textVars, TypeOK
<1>4. ASSUME NEW w \in Workers, NEW g \in Generations, ProcessNote(w, g) PROVE StagedSeen'
  <2>1. CASE Claim(w, g)
    BY <2>1, TextKept DEF Claim, textVars, TypeOK
  <2>2. CASE ReadStaged(w, g)
    BY <2>2, TextKept DEF ReadStaged, At, Goes, textVars, TypeOK
  <2>3. CASE StartCall(w, g) \/ Answer(w, g)
    BY <2>3, TextKept DEF StartCall, Answer, Goes, textVars, TypeOK
  <2>4. CASE StageResult(w, g)
    <3>1. texts' = Append(texts, g) /\ g \in 0..MaxGenerations
      BY <2>4, VoiceTyped DEF StageResult, Generations
    <3>2. \A h \in Generations : Staged(h)' <=> Staged(h) \/ h = g
      BY <3>1, TextAdded
    <3> QED BY <2>4, <3>2 DEF StageResult, At, Goes, TypeOK
  <2>5. CASE Fail(w, g) \/ Complete(w, g)
    BY <2>5, TextKept DEF Fail, Complete, Quit, Goes, textVars, TypeOK
  <2>6. CASE ClaimExhausted(w, g)
    BY <1>1, <2>6 DEF ClaimExhausted, textVars, workVars
  <2> QED BY <1>4, <2>1, <2>2, <2>3, <2>4, <2>5, <2>6 DEF ProcessNote
<1>5. ASSUME NEW r \in Requests, CompleteUpload(r) PROVE UNCHANGED <<texts, work, handling>>
  BY <1>5 DEF CompleteUpload, UploadRead, CompleteAudio, GiveUp, AcceptUpload, RejectUpload,
              CloseUpload, ReturnLate, textVars, workVars
<1>6. ASSUME NEW g \in Generations,
             Retry(g) \/ Settle(g) \/ LeaseExpires(g) \/ BackoffEnds(g) \/ Scan(g)
      PROVE  UNCHANGED <<texts, work, handling>>
  BY <1>6 DEF Retry, Settle, LeaseExpires, BackoffEnds, Scan, RecoverLease, CloseExhausted,
              RequeueDue, textVars, workVars
<1>7. ASSUME NEW s \in Scanners, Erase(s) \/ StopScan(s) PROVE UNCHANGED <<texts, work, handling>>
  BY <1>7 DEF Erase, StopScan, ClaimDeletion, EraseObject, EraseFails, CompleteDeletion,
              FailDeletion, textVars, workVars
<1>8. ASSUME \/ Discard \/ AbortUpload \/ Confirm \/ CloseDraft
             \/ ExpireNote \/ EraserExpires \/ ErasureDue
             \/ \E what \in {"upload", "audio"} : Ages(what)
             \/ \E w \in Workers : AttemptEnds(w)
             \/ UNCHANGED vars
      PROVE  UNCHANGED <<texts, work, handling>>
  BY <1>8 DEF Discard, AbortUpload, Confirm, CloseDraft, ExpireNote, EraserExpires,
              ErasureDue, Ages, AttemptEnds, vars, textVars, workVars
<1> QED BY <1>1, <1>2, <1>3, <1>4, <1>5, <1>6, <1>7, <1>8 DEF Next

LEMMA VInit == Init => TypeOK /\ StagedSeen
<1> SUFFICES ASSUME Init PROVE TypeOK /\ StagedSeen
  OBVIOUS
<1>1. 1 \in Generations
  BY VoiceTyped DEF Generations
<1>2. texts \in Seq(0..MaxGenerations) /\ Len(texts) = 0
  BY DEF Init
<1>3. TypeOK
  <2>1. /\ status \in Statuses
        /\ deletion \in {"PENDING", "SCHEDULED", "FAILED", "DELETED", "EXPIRED"}
        /\ key \in BOOLEAN /\ confirmed \in BOOLEAN
    BY DEF Init, Statuses
  <2>5. current \in 0..Len(texts)
    <3>1. current = 0
      BY DEF Init
    <3> QED BY <1>2, <3>1
  <2>2. /\ job \in [Generations -> Pending \union Terminal \union {"none", "FAILED"}]
        /\ attempts \in [Generations -> 0..MaxAttempts]
        /\ holder \in [Generations -> Workers \union {NoOne}]
        /\ live \in [Generations -> BOOLEAN]
        /\ retry \in [Generations -> {"none", "later", "due"}]
        /\ calls \in [Generations -> Nat]
        /\ told \in [Generations -> SUBSET {"completed", "failed"}]
        /\ wake \subseteq Generations
    BY VoiceTyped DEF Init
  <2>3. /\ work \in [Workers -> {"idle", "claimed", "probing", "calling", "answered", "staged"}]
        /\ handling \in [Workers -> Generations]
        /\ running \in [Workers -> BOOLEAN]
        /\ answer \in [Workers -> Answers]
    BY <1>1 DEF Init, Answers
  <2>4. /\ object \in {"parts", "stored", "gone"}
        /\ upload \in [Requests -> {"idle", "verifying", "verified", "rejected"}]
        /\ draft \in BOOLEAN
        /\ aged \subseteq {"upload", "audio"}
        /\ erasure \in {"none", "PENDING", "PROCESSING", "FAILED", "DELETED"}
        /\ eraser \in Scanners \union {NoOne}
        /\ erasing \in BOOLEAN
        /\ erasable \in BOOLEAN
        /\ cleanup \in [Scanners -> {"idle", "claimed", "erased", "failed"}]
        /\ aborts \in [Scanners -> BOOLEAN]
    BY DEF Init
  <2> QED BY <1>2, <2>1, <2>2, <2>3, <2>4, <2>5 DEF TypeOK
<1> QED BY <1>3 DEF Init, StagedSeen

\* Every variable keeps its type; no job is claimed more often than the limit.
THEOREM VoiceTypeCorrect == Spec => []TypeOK
<1>1. TypeOK /\ StagedSeen /\ [Next]_vars => TypeOK' /\ StagedSeen'
  BY VTypeStep, SeenStep
<1> QED BY VInit, <1>1, PTL DEF Spec

-----------------------------------------------------------------------------
(* The note, its jobs and its workers *)

core == <<status, job, attempts, holder, live, texts, calls, told, work, handling, running>>

\* The steps that touch them; all others leave them as they are.
LEMMA Moves ==
    ASSUME [Next]_vars
    PROVE  \/ UNCHANGED core
           \/ \E r \in Requests : AcceptUpload(r) \/ CloseUpload(r)
           \/ Discard \/ Revise \/ ExpireNote
           \/ \E w \in Workers : Stop(w) \/ AttemptEnds(w)
           \/ \E w \in Workers, g \in Generations : ProcessNote(w, g)
           \/ \E g \in Generations :
                 Retry(g) \/ LeaseExpires(g) \/ RecoverLease(g) \/ CloseExhausted(g)
<1> USE DEF core, noteVars, textVars, jobVars, callVars, workVars
<1>1. ASSUME NEW r \in Requests, CompleteUpload(r)
      PROVE  UNCHANGED core \/ AcceptUpload(r) \/ CloseUpload(r)
  BY <1>1 DEF CompleteUpload, UploadRead, CompleteAudio, GiveUp, RejectUpload, ReturnLate
<1>2. ASSUME NEW g \in Generations, Settle(g) \/ BackoffEnds(g) \/ RequeueDue(g)
      PROVE  UNCHANGED core
  BY <1>2 DEF Settle, BackoffEnds, RequeueDue
<1>3. ASSUME NEW s \in Scanners, Erase(s) \/ StopScan(s) PROVE UNCHANGED core
  BY <1>3 DEF Erase, StopScan, ClaimDeletion, EraseObject, EraseFails, CompleteDeletion,
              FailDeletion
<1>4. ASSUME \/ AbortUpload \/ Confirm \/ CloseDraft \/ EraserExpires \/ ErasureDue
             \/ \E what \in {"upload", "audio"} : Ages(what)
             \/ UNCHANGED vars
      PROVE  UNCHANGED core
  BY <1>4 DEF AbortUpload, Confirm, CloseDraft, EraserExpires, ErasureDue, Ages, vars
<1> QED BY <1>1, <1>2, <1>3, <1>4 DEF Next, Scan

\* The generations are made in turn, each when no earlier one is pending, and the
\* note's status is the pending one's.
Jobs ==
    /\ OneJobBehindNote
    /\ \A g, h \in Generations : g < h /\ job[h] # "none" => job[g] # "none"
    /\ \A g, h \in Generations : g < h /\ job[g] \in Pending => job[h] = "none"
    /\ status = "UPLOADING" => \A g \in Generations : job[g] = "none"

\* The one job that was pending, and its note, take the same new status.
LEMMA JobMoves ==
    ASSUME TypeOK, Jobs, NEW g \in Generations, job[g] \in Pending,
           NEW next \in Pending \union {"FAILED", "COMPLETED"},
           job' = [job EXCEPT ![g] = next], status' = next
    PROVE  Jobs'
<1> USE DEF TypeOK, Pending, Terminal, Statuses
<1>1. \A h \in Generations : job'[h] = IF h = g THEN next ELSE job[h]
  OBVIOUS
<1>2. \A h \in Generations : h # g => job[h] \notin Pending
  BY DEF Jobs, OneJobBehindNote
<1>3. OneJobBehindNote'
  BY <1>1, <1>2 DEF OneJobBehindNote
<1>4. \A h, k \in Generations : h < k /\ job'[k] # "none" => job'[h] # "none"
  BY <1>1 DEF Jobs
<1>5. \A h, k \in Generations : h < k /\ job'[h] \in Pending => job'[k] = "none"
  BY <1>1, <1>2 DEF Jobs, Generations
<1> QED BY <1>3, <1>4, <1>5 DEF Jobs

\* The first job that is missing becomes the pending one.
LEMMA JobMade ==
    ASSUME TypeOK, Jobs, NEW g \in Generations, job[g] = "none",
           \A h \in Generations : job[h] \notin Pending,
           \A h \in 1..(g - 1) : job[h] # "none",
           job' = [job EXCEPT ![g] = "QUEUED"], status' = "QUEUED"
    PROVE  Jobs'
<1> USE DEF TypeOK, Pending, Terminal, Statuses
<1>1. \A h \in Generations : job'[h] = IF h = g THEN "QUEUED" ELSE job[h]
  OBVIOUS
<1>2. OneJobBehindNote'
  BY <1>1 DEF OneJobBehindNote
<1>3. \A h, k \in Generations : h < k /\ job'[k] # "none" => job'[h] # "none"
  BY <1>1, VoiceTyped DEF Jobs, Generations
<1>4. \A h, k \in Generations : h < k /\ job'[h] \in Pending => job'[k] = "none"
  <2>1. \A h \in Generations : job'[h] \in Pending => h = g
    BY <1>1
  <2>2. \A k \in Generations : g < k => job[k] = "none"
    BY DEF Jobs
  <2> QED BY <1>1, <2>1, <2>2 DEF Generations
<1> QED BY <1>2, <1>3, <1>4 DEF Jobs

\* The pending job, if there is one, ends with its note.
LEMMA JobEnds ==
    ASSUME TypeOK, Jobs, NEW next \in Terminal, status' = next,
           \A g \in Generations : job[g] # "PROCESSING",
           job' = [g \in Generations |->
                     IF job[g] \in {"QUEUED", "RETRY_WAIT"} THEN next ELSE job[g]]
    PROVE  Jobs'
<1> USE DEF TypeOK, Pending, Terminal, Statuses
<1>1. \A g \in Generations : job'[g] \notin Pending /\ (job'[g] = "none" <=> job[g] = "none")
  OBVIOUS
<1>2. OneJobBehindNote'
  BY <1>1 DEF OneJobBehindNote
<1> QED BY <1>1, <1>2 DEF Jobs

LEMMA JobsStep ==
    ASSUME TypeOK, Jobs, [Next]_vars
    PROVE  Jobs'
<1> USE DEF noteVars, jobVars
<1>1. CASE UNCHANGED <<status, job>>
  BY <1>1 DEF Jobs, OneJobBehindNote
<1>2. CASE UNCHANGED core
  BY <1>1, <1>2 DEF core
<1>3. ASSUME NEW r \in Requests, AcceptUpload(r) PROVE Jobs'
  <2>1. /\ 1 \in Generations /\ job[1] = "none"
        /\ \A h \in Generations : job[h] \notin Pending
        /\ \A h \in 1..(1 - 1) : job[h] # "none"
    BY <1>3, VoiceTyped DEF AcceptUpload, Jobs, Pending, Generations
  <2> QED BY <1>3, <2>1, JobMade DEF AcceptUpload, Enqueue
<1>4. ASSUME NEW r \in Requests, CloseUpload(r) PROVE Jobs'
  <2>1. status' = "EXPIRED" /\ job' = job /\ \A g \in Generations : job[g] = "none"
    BY <1>4 DEF CloseUpload, Jobs
  <2> QED BY <2>1 DEF Jobs, OneJobBehindNote, Pending
<1>5. CASE Discard
  <2>1. \A g \in Generations : job[g] # "PROCESSING"
    BY <1>5 DEF Discard, Jobs, OneJobBehindNote, Pending
  <2> QED BY <1>5, <2>1, JobEnds DEF Discard, Terminal
<1>6. CASE Revise
  BY <1>1, <1>6 DEF Revise
<1>7. CASE ExpireNote
  BY <1>7, JobEnds DEF ExpireNote, Expirable, Terminal
<1>8. ASSUME NEW w \in Workers, Stop(w) \/ AttemptEnds(w) PROVE Jobs'
  BY <1>1, <1>8 DEF Stop, AttemptEnds
<1>9. ASSUME NEW w \in Workers, NEW g \in Generations, ProcessNote(w, g) PROVE Jobs'
  <2>1. CASE Claim(w, g)
    <3>1. job[g] \in Pending
      BY <2>1 DEF Claim, Claimable, Pending
    <3> QED BY <2>1, <3>1, JobMoves DEF Claim, Pending
  <2>2. CASE ClaimExhausted(w, g)
    <3>1. job[g] \in Pending
      BY <2>2 DEF ClaimExhausted, Claimable, Pending
    <3>2. status = job[g]
      BY <3>1 DEF Jobs, OneJobBehindNote
    <3> QED BY <2>2, <3>1, <3>2, JobMoves DEF ClaimExhausted, Exhaust, Release
  <2>3. CASE ReadStaged(w, g) \/ StartCall(w, g) \/ Answer(w, g) \/ StageResult(w, g)
    BY <1>1, <2>3 DEF ReadStaged, StartCall, Answer, StageResult
  <2>4. CASE Fail(w, g)
    BY <2>4, JobMoves DEF Fail, Release, Fenced, Pending
  <2>5. CASE Complete(w, g)
    BY <2>5, JobMoves DEF Complete, Release, Fenced, Pending
  <2> QED BY <1>9, <2>1, <2>2, <2>3, <2>4, <2>5 DEF ProcessNote
<1>10. ASSUME NEW g \in Generations,
              Retry(g) \/ LeaseExpires(g) \/ RecoverLease(g) \/ CloseExhausted(g)
       PROVE  Jobs'
  <2>1. CASE Retry(g)
    BY <2>1, JobMade DEF Retry, Enqueue
  <2>2. CASE LeaseExpires(g)
    BY <1>1, <2>2 DEF LeaseExpires
  <2>3. CASE RecoverLease(g) \/ CloseExhausted(g)
    <3>1. job[g] = "PROCESSING" /\ job[g] \in Pending /\ status = "PROCESSING"
      BY <2>3 DEF RecoverLease, CloseExhausted, Abandoned, Jobs, OneJobBehindNote, Pending
    <3> QED BY <2>3, <3>1, JobMoves
            DEF RecoverLease, CloseExhausted, Exhaust, Release, Pending
  <2> QED BY <1>10, <2>1, <2>2, <2>3
<1> QED BY <1>2, <1>3, <1>4, <1>5, <1>6, <1>7, <1>8, <1>9, <1>10, Moves

\* An attempt that is still running holds the lease of its job.
Leases ==
    \A w \in Workers : running[w] => Fenced(w, handling[w]) /\ work[w] # "idle"

LEMMA LeasesStep ==
    ASSUME TypeOK, Jobs, Leases, [Next]_vars
    PROVE  Leases'
<1> USE DEF Leases, Fenced, TypeOK
<1>1. CASE UNCHANGED <<job, holder, live, work, handling, running>>
  BY <1>1
<1>2. CASE UNCHANGED core
  BY <1>1, <1>2 DEF core
<1>3. ASSUME NEW r \in Requests, AcceptUpload(r) PROVE Leases'
  <2>1. \A g \in Generations : job[g] = "none"
    BY <1>3 DEF AcceptUpload, Jobs
  <2>2. \A w \in Workers : ~running[w]
    BY <2>1
  <2> QED BY <1>3, <2>2 DEF AcceptUpload, workVars
<1>4. ASSUME NEW r \in Requests, CloseUpload(r) PROVE Leases'
  BY <1>1, <1>4 DEF CloseUpload, jobVars, workVars
<1>5. CASE Revise
  BY <1>1, <1>5 DEF Revise, jobVars, workVars
<1>6. CASE Discard \/ ExpireNote
  <2>1. /\ \A g \in Generations : job[g] = "PROCESSING" => job'[g] = "PROCESSING"
        /\ UNCHANGED <<holder, live, work, handling, running>>
    <3>1. CASE Discard
      BY <3>1 DEF Discard, workVars
    <3>2. CASE ExpireNote
      BY <3>2 DEF ExpireNote, workVars
    <3> QED BY <1>6, <3>1, <3>2
  <2> QED BY <2>1
<1>7. ASSUME NEW w \in Workers, Stop(w) \/ AttemptEnds(w) PROVE Leases'
  <2>1. CASE Stop(w)
    BY <2>1 DEF Stop, Quit, Goes, jobVars
  <2>2. CASE AttemptEnds(w)
    BY <2>2 DEF AttemptEnds, jobVars
  <2> QED BY <1>7, <2>1, <2>2
<1>8. ASSUME NEW w \in Workers, NEW g \in Generations, ProcessNote(w, g) PROVE Leases'
  <2>1. CASE Claim(w, g)
    <3>1. \A v \in Workers : running[v] => handling[v] # g
      BY <2>1 DEF Claim, Claimable
    <3> QED BY <2>1, <3>1 DEF Claim
  <2>2. CASE ClaimExhausted(w, g)
    <3>1. \A v \in Workers : running[v] => handling[v] # g
      BY <2>2 DEF ClaimExhausted, Claimable
    <3> QED BY <2>2, <3>1 DEF ClaimExhausted, Exhaust, Release, workVars
  <2>3. CASE ReadStaged(w, g) \/ StartCall(w, g) \/ Answer(w, g) \/ StageResult(w, g)
    <3>1. /\ \E next \in {"staged", "probing", "calling", "answered"} :
               work' = [work EXCEPT ![w] = next]
          /\ UNCHANGED <<job, holder, live, handling, running>>
      BY <2>3 DEF ReadStaged, StartCall, Answer, StageResult, Goes, jobVars
    <3> QED BY <3>1
  <2>4. CASE Fail(w, g) \/ Complete(w, g)
    <3>1. \A v \in Workers : running[v] /\ v # w => handling[v] # g
      BY <2>4 DEF Fail, Complete
    <3>2. /\ \E next, when : Release(g, next, when)
          /\ Quit(w)
      BY <2>4 DEF Fail, Complete
    <3> QED BY <3>1, <3>2 DEF Release, Quit, Goes
  <2> QED BY <1>8, <2>1, <2>2, <2>3, <2>4 DEF ProcessNote
<1>9. ASSUME NEW g \in Generations,
             Retry(g) \/ LeaseExpires(g) \/ RecoverLease(g) \/ CloseExhausted(g)
      PROVE  Leases'
  <2>1. CASE Retry(g)
    BY <2>1 DEF Retry, Enqueue, workVars
  <2>2. CASE LeaseExpires(g)
    BY <2>2 DEF LeaseExpires, workVars
  <2>3. CASE RecoverLease(g) \/ CloseExhausted(g)
    <3>1. \A v \in Workers : running[v] => handling[v] # g
      BY <2>3 DEF RecoverLease, CloseExhausted, Abandoned
    <3>2. /\ \E next, when : Release(g, next, when)
          /\ UNCHANGED workVars
      BY <2>3 DEF RecoverLease, CloseExhausted, Exhaust
    <3> QED BY <3>1, <3>2 DEF Release, workVars
  <2> QED BY <1>9, <2>1, <2>2, <2>3
<1> QED BY <1>2, <1>3, <1>4, <1>5, <1>6, <1>7, <1>8, <1>9, Moves

-----------------------------------------------------------------------------
(* The calls that are paid and their transcripts *)

\* A stored transcript belongs to the pending job or to one that ended well, and
\* a worker that may still fail the job has looked and found none.
Paid ==
    /\ ModelText => status \in {"PROCESSING", "RETRY_WAIT", "COMPLETED", "CANCELED"}
    /\ \A g, h \in Generations : Staged(g) /\ job[h] \in Pending => g = h
    /\ \A w \in Workers :
         work[w] \in {"probing", "calling", "answered"} /\ Fenced(w, handling[w])
         => ~Staged(handling[w])

\* A job whose own transcript is not stored is pending: then there is none at all.
LEMMA NothingPaid ==
    ASSUME TypeOK, Paid, NEW g \in Generations, job[g] \in Pending, ~Staged(g)
    PROVE  ~ModelText
BY ModelStaged DEF Paid

\* No worker takes a lease over, nothing is stored and no job begins.
LEMMA PaidKept ==
    ASSUME TypeOK, Paid, UNCHANGED texts,
           ModelText => status' \in {"PROCESSING", "RETRY_WAIT", "COMPLETED", "CANCELED"},
           \A g \in Generations : job'[g] \in Pending => job[g] \in Pending \/ ~ModelText,
           \A w \in Workers :
               work'[w] \in {"probing", "calling", "answered"} /\ Fenced(w, handling[w])'
               => /\ work[w] \in {"probing", "calling", "answered"} /\ Fenced(w, handling[w])
                  /\ handling'[w] = handling[w]
    PROVE  Paid'
<1>1. \A g \in Generations : Staged(g) => ModelText
  BY VoiceTyped DEF Staged, ModelText, Generations
<1>2. /\ \A h \in Generations : Staged(h)' <=> Staged(h)
      /\ ModelText' <=> ModelText
  BY TextKept
<1>3. ModelText' => status' \in {"PROCESSING", "RETRY_WAIT", "COMPLETED", "CANCELED"}
  BY <1>2
<1>4. \A g, h \in Generations : Staged(g)' /\ job'[h] \in Pending => g = h
  BY <1>1, <1>2 DEF Paid
<1>5. \A w \in Workers :
        work'[w] \in {"probing", "calling", "answered"} /\ Fenced(w, handling[w])'
        => ~Staged(handling[w])'
  BY <1>2, TextKept DEF Paid, TypeOK, Staged
<1> QED BY <1>3, <1>4, <1>5 DEF Paid

LEMMA PaidStep ==
    ASSUME TypeOK, StagedSeen, Jobs, Leases, Paid, [Next]_vars
    PROVE  Paid'
<1> USE DEF noteVars, textVars, jobVars, workVars
<1>1. CASE UNCHANGED <<status, job, holder, live, texts, work, handling>>
  BY <1>1, PaidKept DEF Paid, Fenced
<1>2. CASE UNCHANGED core
  BY <1>1, <1>2 DEF core
<1>3. ASSUME NEW r \in Requests, AcceptUpload(r) \/ CloseUpload(r) PROVE Paid'
  <2>1. ~ModelText
    BY <1>3 DEF AcceptUpload, CloseUpload, Paid
  <2>2. UNCHANGED <<texts, holder, live, work, handling>>
    BY <1>3 DEF AcceptUpload, CloseUpload
  <2>3. \A w \in Workers : Fenced(w, handling[w])' => Fenced(w, handling[w])
    BY <1>3, <2>2 DEF AcceptUpload, CloseUpload, Enqueue, Fenced, TypeOK
  <2> QED BY <2>1, <2>2, <2>3, PaidKept
<1>4. CASE Discard
  <2>1. /\ status' = "CANCELED" /\ UNCHANGED <<texts, holder, live, work, handling>>
        /\ \A g \in Generations :
             /\ job'[g] \in Pending => job[g] \in Pending
             /\ job'[g] = "PROCESSING" => job[g] = "PROCESSING"
    BY <1>4 DEF Discard, Pending, Terminal
  <2> QED BY <2>1, PaidKept DEF Fenced, TypeOK
<1>5. CASE ExpireNote
  <2>1. /\ ~ModelText /\ UNCHANGED <<texts, holder, live, work, handling>>
        /\ \A g \in Generations : job'[g] = "PROCESSING" => job[g] = "PROCESSING"
    BY <1>5 DEF ExpireNote, Expirable
  <2> QED BY <2>1, PaidKept DEF Fenced, TypeOK
<1>6. CASE Revise
  <2>1. /\ texts' = Append(texts, 0) /\ 0 \in 0..MaxGenerations
        /\ UNCHANGED <<status, job, holder, live, work, handling>>
    BY <1>6, VoiceTyped DEF Revise, WriteText
  <2>2. /\ \A h \in Generations : Staged(h)' <=> Staged(h)
        /\ ModelText' <=> ModelText
    BY <2>1, TextAdded DEF Generations
  <2>3. \A w \in Workers : handling'[w] \in Generations
                           /\ (Staged(handling[w])' <=> Staged(handling[w]))
    BY <2>1, <2>2 DEF TypeOK
  <2> QED BY <2>1, <2>2, <2>3 DEF Paid, Fenced
<1>7. ASSUME NEW w \in Workers, Stop(w) \/ AttemptEnds(w) PROVE Paid'
  <2>1. CASE Stop(w)
    BY <2>1, PaidKept DEF Stop, Quit, Goes, Fenced, TypeOK, Paid
  <2>2. CASE AttemptEnds(w)
    BY <1>1, <2>2 DEF AttemptEnds
  <2> QED BY <1>7, <2>1, <2>2
<1>8. ASSUME NEW w \in Workers, NEW g \in Generations, ProcessNote(w, g) PROVE Paid'
  <2>1. CASE Claim(w, g)
    <3>1. job[g] \in Pending
      BY <2>1 DEF Claim, Claimable, Pending
    <3>2. /\ status' = "PROCESSING" /\ UNCHANGED texts
          /\ job' = [job EXCEPT ![g] = "PROCESSING"]
          /\ holder' = [holder EXCEPT ![g] = w] /\ live' = [live EXCEPT ![g] = TRUE]
          /\ work' = [work EXCEPT ![w] = "claimed"]
          /\ handling' = [handling EXCEPT ![w] = g]
      BY <2>1 DEF Claim
    <3>3. \A v \in Workers :
            work'[v] \in {"probing", "calling", "answered"} /\ Fenced(v, handling[v])'
            => /\ work[v] \in {"probing", "calling", "answered"} /\ Fenced(v, handling[v])
               /\ handling'[v] = handling[v]
      BY <3>2 DEF Fenced, TypeOK
    <3> QED BY <3>1, <3>2, <3>3, PaidKept DEF TypeOK
  <2>2. CASE ClaimExhausted(w, g)
    <3>1. job[g] \in Pending /\ ~Staged(g) /\ ~ModelText
      BY <2>2, NothingPaid DEF ClaimExhausted, Claimable, Exhausted, Pending
    <3>2. /\ UNCHANGED <<texts, work, handling>>
          /\ Release(g, "FAILED", "none")
      BY <2>2 DEF ClaimExhausted, Exhaust
    <3> QED BY <3>1, <3>2, PaidKept DEF Release, Fenced, TypeOK
  <2>3. CASE ReadStaged(w, g)
    <3>1. /\ work' = [work EXCEPT ![w] = IF Staged(g) THEN "staged" ELSE "probing"]
          /\ handling[w] = g
          /\ UNCHANGED <<status, job, holder, live, texts, handling>>
      BY <2>3 DEF ReadStaged, At, Goes
    <3>2. \A h \in Generations : Staged(h)' <=> Staged(h)
      BY <3>1, TextKept
    <3>3. ModelText' <=> ModelText
      BY <3>1, TextKept
    <3>4. \A v \in Workers : Staged(handling[v])' <=> Staged(handling[v])
      BY <3>1, <3>2 DEF TypeOK
    <3> QED BY <3>1, <3>2, <3>3, <3>4 DEF Paid, Fenced, TypeOK
  <2>4. CASE StartCall(w, g) \/ Answer(w, g)
    <3>1. /\ work[w] \in {"probing", "calling"}
          /\ \E next \in {"calling", "answered"} : work' = [work EXCEPT ![w] = next]
          /\ UNCHANGED <<status, job, holder, live, texts, handling>>
      BY <2>4 DEF StartCall, Answer, At, Goes
    <3> QED BY <3>1, PaidKept DEF Paid, Fenced, TypeOK
  <2>5. CASE StageResult(w, g)
    <3>1. /\ texts' = Append(texts, g) /\ g \in 0..MaxGenerations
          /\ Fenced(w, g) /\ handling[w] = g
          /\ work' = [work EXCEPT ![w] = "staged"]
          /\ UNCHANGED <<status, job, holder, live, handling>>
      BY <2>5 DEF StageResult, At, Goes, Generations
    <3>2. \A h \in Generations : Staged(h)' <=> Staged(h) \/ h = g
      BY <3>1, TextAdded
    <3>3. status = "PROCESSING" /\ \A h \in Generations : job[h] \in Pending => h = g
      BY <3>1 DEF Jobs, OneJobBehindNote, Fenced, Pending
    <3>4. \A h, k \in Generations : Staged(h)' /\ job'[k] \in Pending => h = k
      <4>1. ~ModelText \/ Staged(g)
        BY <3>1, NothingPaid DEF Fenced, Pending
      <4>2. \A h \in Generations : Staged(h) => h = g
        BY <3>1 DEF Paid, Fenced, Pending
      <4> QED BY <3>1, <3>2, <3>3, <4>2
    <3>5. \A v \in Workers :
            work'[v] \in {"probing", "calling", "answered"} /\ Fenced(v, handling[v])'
            => ~Staged(handling[v])'
      <4>1. ASSUME NEW v \in Workers, Fenced(v, handling[v])',
                   work'[v] \in {"probing", "calling", "answered"}
            PROVE  ~Staged(handling[v])'
        <5>1. v # w /\ handling[v] # g
          BY <3>1, <4>1 DEF Fenced, TypeOK
        <5>2. ~Staged(handling[v])
          BY <3>1, <4>1, <5>1 DEF Paid, Fenced, TypeOK
        <5>3. handling[v] \in Generations /\ handling'[v] = handling[v]
          BY <3>1 DEF TypeOK
        <5>4. Staged(handling[v])' <=> (\E i \in DOMAIN texts' : texts'[i] = handling[v])
          BY <5>3 DEF Staged
        <5>5. ~(\E i \in DOMAIN texts' : texts'[i] = handling[v])
          BY <3>2, <5>1, <5>2, <5>3 DEF Staged
        <5> QED BY <5>4, <5>5
      <4> QED BY <4>1
    <3> QED BY <3>1, <3>3, <3>4, <3>5 DEF Paid
  <2>6. CASE Fail(w, g)
    <3>1. Fenced(w, g) /\ job[g] \in Pending /\ ~Staged(g)
      BY <2>6 DEF Fail, At, Paid, Fenced, Pending
    <3>2. ~ModelText
      BY <3>1, NothingPaid
    <3>3. /\ \E next, when : Release(g, next, when)
          /\ work' = [work EXCEPT ![w] = "idle"]
          /\ UNCHANGED <<texts, handling>>
      BY <2>6 DEF Fail, Quit, Goes
    <3> QED BY <3>2, <3>3, PaidKept DEF Release, Fenced, TypeOK
  <2>7. CASE Complete(w, g)
    <3>1. /\ Release(g, "COMPLETED", "none") /\ status' = "COMPLETED"
          /\ work' = [work EXCEPT ![w] = "idle"]
          /\ UNCHANGED <<texts, handling>>
      BY <2>7 DEF Complete, Quit, Goes
    <3> QED BY <3>1, PaidKept DEF Release, Fenced, TypeOK, Pending
  <2> QED BY <1>8, <2>1, <2>2, <2>3, <2>4, <2>5, <2>6, <2>7 DEF ProcessNote
<1>9. ASSUME NEW g \in Generations,
             Retry(g) \/ LeaseExpires(g) \/ RecoverLease(g) \/ CloseExhausted(g)
      PROVE  Paid'
  <2>1. CASE Retry(g)
    <3>1. ~ModelText /\ UNCHANGED <<texts, holder, live, work, handling>>
          /\ job' = [job EXCEPT ![g] = "QUEUED"]
      BY <2>1 DEF Retry, Enqueue, Paid
    <3> QED BY <3>1, PaidKept DEF Fenced, TypeOK
  <2>2. CASE LeaseExpires(g)
    BY <2>2, PaidKept DEF LeaseExpires, Fenced, TypeOK, Paid
  <2>3. CASE RecoverLease(g)
    <3>1. job[g] \in Pending /\ status = "PROCESSING"
      BY <2>3 DEF RecoverLease, Abandoned, Jobs, OneJobBehindNote, Pending
    <3>2. /\ \E when : Release(g, "RETRY_WAIT", when)
          /\ status' = "RETRY_WAIT" /\ UNCHANGED <<texts, work, handling>>
      BY <2>3, <3>1 DEF RecoverLease
    <3> QED BY <3>1, <3>2, PaidKept DEF Release, Fenced, TypeOK
  <2>4. CASE CloseExhausted(g)
    <3>1. job[g] \in Pending /\ ~Staged(g) /\ ~ModelText
      BY <2>4, NothingPaid DEF CloseExhausted, Abandoned, Exhausted, Pending
    <3>2. Release(g, "FAILED", "none") /\ UNCHANGED <<texts, work, handling>>
      BY <2>4 DEF CloseExhausted, Exhaust
    <3> QED BY <3>1, <3>2, PaidKept DEF Release, Fenced, TypeOK
  <2> QED BY <1>9, <2>1, <2>2, <2>3, <2>4
<1> QED BY <1>2, <1>3, <1>4, <1>5, <1>6, <1>7, <1>8, <1>9, Moves

\* A running attempt was counted before it calls, unless it only has to store what
\* an earlier one paid for.
Counts ==
    /\ CallsCounted
    /\ \A w \in Workers : running[w] =>
         /\ work[w] = "probing" => calls[handling[w]] < attempts[handling[w]]
         /\ work[w] = "claimed" => \/ calls[handling[w]] < attempts[handling[w]]
                                   \/ Staged(handling[w])

LEMMA CountsStep ==
    ASSUME TypeOK, Jobs, Leases, Paid, Counts, [Next]_vars
    PROVE  Counts'
<1> USE DEF textVars, jobVars, callVars, workVars
<1>1. CASE UNCHANGED <<calls, attempts, texts, work, handling, running>>
  BY <1>1 DEF Counts, CallsCounted, Staged
<1>2. CASE UNCHANGED core
  BY <1>1, <1>2 DEF core
<1>3. ASSUME NEW r \in Requests, AcceptUpload(r) \/ CloseUpload(r) PROVE Counts'
  BY <1>1, <1>3 DEF AcceptUpload, CloseUpload
<1>4. CASE Discard \/ ExpireNote
  BY <1>1, <1>4 DEF Discard, ExpireNote
<1>5. CASE Revise
  <2>1. /\ texts' = Append(texts, 0) /\ 0 \in 0..MaxGenerations
        /\ UNCHANGED <<calls, attempts, work, handling, running>>
    BY <1>5, VoiceTyped DEF Revise, WriteText
  <2>2. \A h \in Generations : Staged(h)' <=> Staged(h)
    BY <2>1, TextAdded DEF Generations
  <2>3. \A w \in Workers : handling'[w] \in Generations
                           /\ (Staged(handling[w])' <=> Staged(handling[w]))
    BY <2>1, <2>2 DEF TypeOK
  <2> QED BY <2>1, <2>3 DEF Counts, CallsCounted
<1>6. ASSUME NEW w \in Workers, Stop(w) \/ AttemptEnds(w) PROVE Counts'
  <2>1. /\ running' = [running EXCEPT ![w] = FALSE]
        /\ \A v \in Workers : v # w => work'[v] = work[v]
        /\ UNCHANGED <<calls, attempts, texts, handling>>
    BY <1>6 DEF Stop, AttemptEnds, Quit, Goes, TypeOK
  <2> QED BY <2>1 DEF Counts, CallsCounted, Staged, TypeOK
<1>7. ASSUME NEW w \in Workers, NEW g \in Generations, ProcessNote(w, g) PROVE Counts'
  <2>1. CASE Claim(w, g)
    <3>1. /\ attempts' = [attempts EXCEPT ![g] = IF @ < MaxAttempts THEN @ + 1 ELSE @]
          /\ work' = [work EXCEPT ![w] = "claimed"]
          /\ handling' = [handling EXCEPT ![w] = g]
          /\ running' = [running EXCEPT ![w] = TRUE]
          /\ UNCHANGED <<calls, texts>>
          /\ attempts[g] < MaxAttempts \/ Staged(g)
      BY <2>1, VoiceTyped DEF Claim, Exhausted, TypeOK
    <3>2. \A h \in Generations : attempts'[h] \in Nat /\ attempts[h] \in Nat
                                 /\ calls[h] \in Nat /\ attempts[h] <= attempts'[h]
      BY <3>1, VoiceTyped DEF TypeOK
    <3>3. calls[g] < attempts'[g] \/ Staged(g)
      BY <3>1, <3>2, VoiceTyped DEF Counts, CallsCounted, TypeOK
    <3>4. CallsCounted'
      BY <3>1, <3>2 DEF Counts, CallsCounted
    <3>5. ASSUME NEW v \in Workers, v # w, running'[v]
          PROVE  /\ handling'[v] = handling[v] /\ handling[v] \in Generations
                 /\ work'[v] = work[v] /\ running[v]
      BY <3>1, <3>5 DEF TypeOK
    <3>6. ASSUME NEW v \in Workers, running'[v]
          PROVE  /\ work'[v] = "probing" => calls'[handling'[v]] < attempts'[handling'[v]]
                 /\ work'[v] = "claimed" => \/ calls'[handling'[v]] < attempts'[handling'[v]]
                                            \/ Staged(handling[v])'
      <4>1. CASE v = w
        BY <3>1, <3>3, <4>1 DEF Staged, TypeOK
      <4>2. CASE v # w
        BY <3>1, <3>2, <3>5, <3>6, <4>2 DEF Counts, Staged
      <4> QED BY <4>1, <4>2
    <3> QED BY <3>4, <3>6 DEF Counts
  <2>2. CASE ClaimExhausted(w, g)
    BY <1>1, <2>2 DEF ClaimExhausted
  <2>3. CASE ReadStaged(w, g)
    <3>1. /\ work' = [work EXCEPT ![w] = IF Staged(g) THEN "staged" ELSE "probing"]
          /\ work[w] = "claimed" /\ handling[w] = g
          /\ UNCHANGED <<calls, attempts, texts, handling, running>>
      BY <2>3 DEF ReadStaged, At, Goes
    <3> QED BY <3>1 DEF Counts, CallsCounted, Staged, TypeOK
  <2>4. CASE StartCall(w, g)
    <3>1. /\ work[w] = "probing" /\ handling[w] = g /\ running[w]
          /\ calls' = [calls EXCEPT ![g] = @ + 1]
          /\ work' = [work EXCEPT ![w] = "calling"]
          /\ UNCHANGED <<attempts, texts, handling, running>>
      BY <2>4 DEF StartCall, At, Goes
    <3>2. calls[g] < attempts[g]
      BY <3>1 DEF Counts
    <3>3. CallsCounted'
      BY <3>1, <3>2 DEF Counts, CallsCounted, TypeOK
    <3>4. \A v \in Workers : running[v] /\ v # w => handling[v] # g
      BY <3>1 DEF Leases, Fenced
    <3>5. \A v \in Workers : running'[v] /\ work'[v] \in {"probing", "claimed"}
            => /\ work'[v] = work[v] /\ running[v] /\ handling'[v] \in Generations
               /\ handling'[v] = handling[v] /\ calls'[handling[v]] = calls[handling[v]]
      BY <3>1, <3>4 DEF TypeOK
    <3> QED BY <3>1, <3>3, <3>5 DEF Counts, Staged
  <2>5. CASE Answer(w, g)
    <3>1. /\ work' = [work EXCEPT ![w] = "answered"]
          /\ UNCHANGED <<calls, attempts, texts, handling, running>>
      BY <2>5 DEF Answer, Goes
    <3> QED BY <3>1 DEF Counts, CallsCounted, Staged, TypeOK
  <2>6. CASE StageResult(w, g)
    <3>1. /\ texts' = Append(texts, g) /\ g \in 0..MaxGenerations
          /\ work' = [work EXCEPT ![w] = "staged"]
          /\ UNCHANGED <<calls, attempts, handling, running>>
      BY <2>6 DEF StageResult, Goes, Generations
    <3>2. \A h \in Generations : Staged(h) => Staged(h)'
      BY <3>1, TextAdded
    <3>3. \A v \in Workers : handling'[v] \in Generations
                             /\ (Staged(handling[v]) => Staged(handling[v])')
      BY <3>1, <3>2 DEF TypeOK
    <3> QED BY <3>1, <3>3 DEF Counts, CallsCounted, TypeOK
  <2>7. CASE Fail(w, g) \/ Complete(w, g)
    <3>1. /\ running' = [running EXCEPT ![w] = FALSE]
          /\ work' = [work EXCEPT ![w] = "idle"]
          /\ UNCHANGED <<calls, attempts, texts, handling>>
      BY <2>7 DEF Fail, Complete, Quit, Goes
    <3> QED BY <3>1 DEF Counts, CallsCounted, Staged, TypeOK
  <2> QED BY <1>7, <2>1, <2>2, <2>3, <2>4, <2>5, <2>6, <2>7 DEF ProcessNote
<1>8. ASSUME NEW g \in Generations,
             Retry(g) \/ LeaseExpires(g) \/ RecoverLease(g) \/ CloseExhausted(g)
      PROVE  Counts'
  BY <1>1, <1>8 DEF Retry, LeaseExpires, RecoverLease, CloseExhausted
<1> QED BY <1>2, <1>3, <1>4, <1>5, <1>6, <1>7, <1>8, Moves

-----------------------------------------------------------------------------
(* The inductive invariant of the work, and what follows *)

WorkInv == TypeOK /\ StagedSeen /\ Jobs /\ Leases /\ Paid /\ Counts

LEMMA WorkInit == Init => WorkInv
<1> SUFFICES ASSUME Init PROVE WorkInv
  OBVIOUS
<1>1. \A g \in Generations : ~Staged(g)
  BY DEF Init, Staged
<1>2. ~ModelText
  BY DEF Init, ModelText
<1>3. Jobs
  BY DEF Init, Jobs, OneJobBehindNote, Pending
<1>4. Leases
  BY DEF Init, Leases
<1>5. Paid
  BY <1>1, <1>2 DEF Init, Paid
<1>6. Counts
  BY DEF Init, Counts, CallsCounted
<1> QED BY VInit, <1>3, <1>4, <1>5, <1>6 DEF WorkInv

LEMMA WorkStep == WorkInv /\ [Next]_vars => WorkInv'
BY VTypeStep, SeenStep, JobsStep, LeasesStep, PaidStep, CountsStep DEF WorkInv

LEMMA WorkAlways == Spec => []WorkInv
BY WorkInit, WorkStep, PTL DEF Spec

\* Whatever the workers, the scans and the participant do in any order, the note's
\* status is that of its only pending job.
THEOREM OneJob == Spec => []OneJobBehindNote
<1>1. WorkInv => OneJobBehindNote
  BY DEF WorkInv, Jobs
<1> QED BY WorkAlways, <1>1, PTL

\* However many workers take the leases of the note over, one of them at most has a
\* provider call in flight.
THEOREM OneCall == Spec => []OneCallInFlight
<1>1. WorkInv => OneCallInFlight
  <2> SUFFICES ASSUME WorkInv, NEW v \in Workers, NEW w \in Workers, running[v], running[w]
               PROVE  v = w
    BY DEF OneCallInFlight
  <2>1. Fenced(v, handling[v]) /\ Fenced(w, handling[w])
    BY DEF WorkInv, Leases
  <2>2. handling[v] = handling[w]
    BY <2>1 DEF WorkInv, TypeOK, Jobs, OneJobBehindNote, Fenced, Pending
  <2> QED BY <2>1, <2>2 DEF Fenced
<1> QED BY WorkAlways, <1>1, PTL

\* No crash, late failure, expiry or exhausted job ends a note whose transcript is
\* stored.
THEOREM PaidKeptAlways == Spec => []PaidResultKept
<1>1. WorkInv => PaidResultKept
  BY DEF WorkInv, Paid, PaidResultKept
<1> QED BY WorkAlways, <1>1, PTL

\* A job is never called for more often than it was claimed.
THEOREM CallsBounded == Spec => []CallsCounted
<1>1. WorkInv => CallsCounted
  BY DEF WorkInv, Counts
<1> QED BY WorkAlways, <1>1, PTL

\* Once a job's transcript is stored, no step calls the provider for it again.
THEOREM PaidOnce == Spec => NotPaidAgain
<1>1. WorkInv /\ [Next]_vars
      => [\A g \in Generations : Staged(g) => calls'[g] = calls[g]]_vars
  <2> SUFFICES ASSUME WorkInv, [Next]_vars, NEW g \in Generations, Staged(g)
               PROVE  calls'[g] = calls[g]
    OBVIOUS
  <2>1. CASE UNCHANGED calls
    BY <2>1
  <2>2. CASE UNCHANGED core
    BY <2>1, <2>2 DEF core
  <2>3. ASSUME NEW w \in Workers, NEW h \in Generations, ProcessNote(w, h)
        PROVE  calls'[g] = calls[g]
    <3>1. CASE StartCall(w, h)
      <4>1. /\ work[w] = "probing" /\ handling[w] = h /\ running[w]
            /\ calls' = [calls EXCEPT ![h] = @ + 1]
        BY <3>1 DEF StartCall, At
      <4>2. ~Staged(h)
        BY <4>1 DEF WorkInv, Leases, Paid
      <4> QED BY <4>1, <4>2 DEF WorkInv, TypeOK
    <3> QED BY <2>1, <2>3, <3>1
            DEF ProcessNote, Claim, ClaimExhausted, ReadStaged, Answer, StageResult, Fail,
                Complete, callVars
  <2>4. ASSUME \/ \E r \in Requests : AcceptUpload(r) \/ CloseUpload(r)
               \/ Discard \/ Revise \/ ExpireNote
               \/ \E w \in Workers : Stop(w) \/ AttemptEnds(w)
               \/ \E h \in Generations :
                     Retry(h) \/ LeaseExpires(h) \/ RecoverLease(h) \/ CloseExhausted(h)
        PROVE  UNCHANGED calls
    BY <2>4 DEF AcceptUpload, CloseUpload, Discard, Revise, ExpireNote, Stop, AttemptEnds,
                Retry, LeaseExpires, RecoverLease, CloseExhausted, callVars
  <2> QED BY <2>1, <2>2, <2>3, <2>4, Moves
<1> QED BY WorkAlways, <1>1, PTL DEF Spec, NotPaidAgain

LEMMA ToldStep ==
    ASSUME TypeOK, Jobs, EndTold, [Next]_vars
    PROVE  EndTold'
<1> USE DEF jobVars, callVars, TypeOK
<1>1. CASE UNCHANGED <<job, told>>
  BY <1>1 DEF EndTold
<1>2. CASE UNCHANGED core
  BY <1>1, <1>2 DEF core
<1>3. ASSUME NEW g \in Generations, NEW next \in Pending \union {"none"},
             job' = [job EXCEPT ![g] = next],
             \A h \in Generations : told[h] \subseteq told'[h]
      PROVE  EndTold'
  BY <1>3 DEF EndTold, Pending
<1>4. ASSUME NEW g \in Generations, NEW next \in {"FAILED", "COMPLETED"}, NEW kind,
             job' = [job EXCEPT ![g] = next], told' = [told EXCEPT ![g] = @ \union {kind}],
             kind = IF next = "FAILED" THEN "failed" ELSE "completed"
      PROVE  EndTold'
  BY <1>4 DEF EndTold
<1>5. ASSUME NEW r \in Requests, AcceptUpload(r) PROVE EndTold'
  <2>1. 1 \in Generations
    BY VoiceTyped DEF Generations
  <2> QED BY <1>3, <1>5, <2>1 DEF AcceptUpload, Enqueue, Pending
<1>6. ASSUME NEW r \in Requests, CloseUpload(r) PROVE EndTold'
  BY <1>1, <1>6 DEF CloseUpload
<1>7. CASE Discard
  BY <1>7 DEF Discard, EndTold
<1>8. CASE ExpireNote
  <2>1. \A g \in Generations : job[g] \in Pending => "failed" \in told'[g]
    <3>1. ASSUME NEW g \in Generations, job[g] \in Pending
          PROVE  Latest(g) /\ status \notin {"UPLOADING", "FAILED"}
      <4>1. status = job[g] /\ \A h \in Generations : g < h => job[h] = "none"
        BY <3>1 DEF Jobs, OneJobBehindNote
      <4> QED BY <3>1, <4>1 DEF Latest, Pending, Generations
    <3> QED BY <1>8, <3>1 DEF ExpireNote, TellExpired
  <2>2. \A g \in Generations : told[g] \subseteq told'[g]
    BY <1>8 DEF ExpireNote, TellExpired
  <2>3. \A g \in Generations :
          \/ job'[g] = job[g]
          \/ job[g] \in Pending /\ job'[g] = "EXPIRED"
    BY <1>8 DEF ExpireNote, Pending
  <2> QED BY <2>1, <2>2, <2>3 DEF EndTold
<1>9. CASE Revise
  BY <1>1, <1>9 DEF Revise
<1>10. ASSUME NEW w \in Workers, Stop(w) \/ AttemptEnds(w) PROVE EndTold'
  BY <1>1, <1>10 DEF Stop, AttemptEnds
<1>11. ASSUME NEW w \in Workers, NEW g \in Generations, ProcessNote(w, g) PROVE EndTold'
  <2>1. CASE Claim(w, g)
    BY <1>3, <2>1 DEF Claim, Pending
  <2>2. CASE ClaimExhausted(w, g)
    BY <1>4, <2>2 DEF ClaimExhausted, Exhaust, Release
  <2>3. CASE ReadStaged(w, g) \/ StartCall(w, g) \/ Answer(w, g) \/ StageResult(w, g)
    BY <1>1, <2>3 DEF ReadStaged, StartCall, Answer, StageResult
  <2>4. CASE Fail(w, g)
    <3>1. told' = [told EXCEPT ![g] = @ \union {"failed"}]
      BY <2>4 DEF Fail
    <3>2. PICK next \in {"RETRY_WAIT", "FAILED"} : job' = [job EXCEPT ![g] = next]
      BY <2>4 DEF Fail, Release
    <3> QED BY <1>3, <1>4, <3>1, <3>2 DEF Pending
  <2>5. CASE Complete(w, g)
    BY <1>4, <2>5 DEF Complete, Release
  <2> QED BY <1>11, <2>1, <2>2, <2>3, <2>4, <2>5 DEF ProcessNote
<1>12. ASSUME NEW g \in Generations,
              Retry(g) \/ LeaseExpires(g) \/ RecoverLease(g) \/ CloseExhausted(g)
       PROVE  EndTold'
  <2>1. CASE Retry(g)
    BY <1>3, <2>1 DEF Retry, Enqueue, Pending
  <2>2. CASE LeaseExpires(g)
    BY <1>1, <2>2 DEF LeaseExpires
  <2>3. CASE RecoverLease(g)
    BY <1>3, <2>3 DEF RecoverLease, Release, Pending
  <2>4. CASE CloseExhausted(g)
    BY <1>4, <2>4 DEF CloseExhausted, Exhaust, Release
  <2> QED BY <1>12, <2>1, <2>2, <2>3, <2>4
<1> QED BY <1>2, <1>5, <1>6, <1>7, <1>8, <1>9, <1>10, <1>11, <1>12, Moves

\* Every job that ends has its event in the outbox, whoever ended it.
THEOREM EndsTold == Spec => []EndTold
<1>1. Init => EndTold
  BY DEF Init, EndTold
<1>2. WorkInv /\ EndTold /\ [Next]_vars => EndTold'
  BY ToldStep DEF WorkInv
<1> QED BY WorkAlways, <1>1, <1>2, PTL DEF Spec

\* Only a note that was completed has a confirmed text.
ReviewedEnd == confirmed => status \in {"COMPLETED", "CANCELED"}

\* The steps that touch the text that is shown.
LEMMA TextMoves ==
    ASSUME [Next]_vars
    PROVE  \/ UNCHANGED textVars
           \/ Revise \/ Confirm
           \/ \E w \in Workers, g \in Generations : StageResult(w, g) \/ Complete(w, g)
<1>1. ASSUME NEW r \in Requests, CompleteUpload(r) PROVE UNCHANGED textVars
  BY <1>1 DEF CompleteUpload, UploadRead, CompleteAudio, GiveUp, AcceptUpload, RejectUpload,
              CloseUpload, ReturnLate
<1>2. ASSUME NEW w \in Workers, NEW g \in Generations, ProcessNote(w, g)
      PROVE  UNCHANGED textVars \/ StageResult(w, g) \/ Complete(w, g)
  BY <1>2 DEF ProcessNote, Claim, ClaimExhausted, ReadStaged, StartCall, Answer, Fail
<1>3. ASSUME NEW g \in Generations,
             Retry(g) \/ Settle(g) \/ LeaseExpires(g) \/ BackoffEnds(g) \/ Scan(g)
      PROVE  UNCHANGED textVars
  BY <1>3 DEF Retry, Settle, LeaseExpires, BackoffEnds, Scan, RecoverLease, CloseExhausted,
              RequeueDue
<1>4. ASSUME NEW s \in Scanners, Erase(s) \/ StopScan(s) PROVE UNCHANGED textVars
  BY <1>4 DEF Erase, StopScan, ClaimDeletion, EraseObject, EraseFails, CompleteDeletion,
              FailDeletion
<1>5. ASSUME \/ Discard \/ AbortUpload \/ CloseDraft \/ ExpireNote \/ EraserExpires
             \/ ErasureDue \/ UNCHANGED vars
             \/ \E what \in {"upload", "audio"} : Ages(what)
             \/ \E w \in Workers : Stop(w) \/ AttemptEnds(w)
      PROVE  UNCHANGED textVars
  BY <1>5 DEF Discard, AbortUpload, CloseDraft, ExpireNote, EraserExpires, ErasureDue, Ages,
              Stop, AttemptEnds, vars
<1> QED BY <1>1, <1>2, <1>3, <1>4, <1>5 DEF Next

LEMMA ReviewedStep ==
    ASSUME TypeOK, Jobs, ReviewedEnd, [Next]_vars
    PROVE  ReviewedEnd'
<1> USE DEF ReviewedEnd
<1>1. CASE Revise
  BY <1>1 DEF Revise, WriteText
<1>2. CASE Confirm
  BY <1>2 DEF Confirm, noteVars
<1>3. ASSUME NEW w \in Workers, NEW g \in Generations, StageResult(w, g) \/ Complete(w, g)
      PROVE  ReviewedEnd'
  BY <1>3 DEF StageResult, Complete, noteVars
<1>4. CASE UNCHANGED textVars
  <2>1. confirmed' = confirmed
    BY <1>4 DEF textVars
  <2>2. ASSUME status \in {"COMPLETED", "CANCELED"} PROVE status' \in {"COMPLETED", "CANCELED"}
    <3>1. CASE UNCHANGED core
      BY <2>2, <3>1 DEF core
    <3>2. \A g \in Generations : job[g] \notin Pending
      BY <2>2 DEF Jobs, OneJobBehindNote, Pending
    <3>3. ASSUME NEW w \in Workers, NEW g \in Generations, ProcessNote(w, g)
          PROVE  UNCHANGED status
      BY <2>2, <3>2, <3>3
         DEF ProcessNote, Claim, ClaimExhausted, Claimable, ReadStaged, StartCall, Answer,
             StageResult, Fail, Complete, Pending, noteVars
    <3>4. ASSUME NEW g \in Generations,
                 Retry(g) \/ LeaseExpires(g) \/ RecoverLease(g) \/ CloseExhausted(g)
          PROVE  UNCHANGED status
      BY <2>2, <3>2, <3>4
         DEF Retry, LeaseExpires, RecoverLease, CloseExhausted, Exhaust, noteVars
    <3>5. ASSUME \/ \E r \in Requests : AcceptUpload(r) \/ CloseUpload(r)
                 \/ Discard \/ Revise \/ ExpireNote
                 \/ \E w \in Workers : Stop(w) \/ AttemptEnds(w)
          PROVE  status' \in {status, "CANCELED"}
      BY <2>2, <3>5 DEF AcceptUpload, CloseUpload, Discard, Revise, ExpireNote, Expirable,
                        Stop, AttemptEnds, noteVars
    <3> QED BY <2>2, <3>1, <3>3, <3>4, <3>5, Moves
  <2> QED BY <2>1, <2>2
<1> QED BY <1>1, <1>2, <1>3, <1>4, TextMoves

\* A late or repeated transcript never takes the place of what people wrote, and no
\* confirmation is carried over to another text.
THEOREM ReviewKept == Spec => ReviewedTextKept
<1>1. Init => ReviewedEnd
  BY DEF Init, ReviewedEnd
<1>2. WorkInv /\ ReviewedEnd /\ [Next]_vars => ReviewedEnd'
  BY ReviewedStep DEF WorkInv
<1>3. WorkInv /\ ReviewedEnd /\ [Next]_vars
      => [/\ current # 0 /\ texts[current] = 0 => current' # 0 /\ texts'[current'] = 0
          /\ confirmed /\ confirmed' => current' = current]_vars
  <2> SUFFICES ASSUME WorkInv, ReviewedEnd, [Next]_vars
               PROVE  /\ current # 0 /\ texts[current] = 0
                         => current' # 0 /\ texts'[current'] = 0
                      /\ confirmed /\ confirmed' => current' = current
    OBVIOUS
  <2>1. /\ Len(texts) \in Nat /\ current \in 0..Len(texts)
        /\ \A e \in 0..MaxGenerations : texts' = Append(texts, e) =>
             /\ \A i \in 1..Len(texts) : texts'[i] = texts[i]
             /\ texts'[Len(texts) + 1] = e
    <3>1. texts \in Seq(0..MaxGenerations) /\ current \in 0..Len(texts)
      BY DEF WorkInv, TypeOK
    <3>2. Len(texts) \in Nat
      BY <3>1
    <3>3. ASSUME NEW e \in 0..MaxGenerations, texts' = Append(texts, e)
          PROVE  /\ \A i \in 1..Len(texts) : texts'[i] = texts[i]
                 /\ texts'[Len(texts) + 1] = e
      BY <3>1, <3>3
    <3> QED BY <3>1, <3>2, <3>3
  <2>2. CASE UNCHANGED <<texts, current>>
    BY <2>2
  <2>3. CASE Revise
    BY <2>1, <2>3, VoiceTyped DEF Revise, WriteText
  <2>4. ASSUME NEW w \in Workers, NEW g \in Generations, StageResult(w, g)
        PROVE  /\ current # 0 /\ texts[current] = 0
                  => current' # 0 /\ texts'[current'] = 0
               /\ current' = current
    <3>1. texts' = Append(texts, g) /\ g \in 0..MaxGenerations /\ current' = current
      BY <2>4 DEF StageResult, Generations
    <3> QED BY <2>1, <3>1
  <2>5. ASSUME NEW w \in Workers, NEW g \in Generations, Complete(w, g)
        PROVE  /\ current # 0 /\ texts[current] = 0
                  => current' # 0 /\ texts'[current'] = 0
               /\ ~confirmed
    <3>1. texts' = texts /\ Show(w, g) /\ ~confirmed
      BY <2>5 DEF Complete, ReviewedEnd
    <3>2. ASSUME current # 0, texts[current] = 0 PROVE HumanText
      BY <2>1, <3>2 DEF HumanText, WorkInv, TypeOK
    <3> QED BY <3>1, <3>2 DEF Show
  <2>6. CASE Confirm
    BY <2>2, <2>6 DEF Confirm
  <2> QED BY <2>2, <2>3, <2>4, <2>5, <2>6, TextMoves DEF textVars
<1> QED BY WorkAlways, <1>1, <1>2, <1>3, PTL DEF Spec, ReviewedTextKept

-----------------------------------------------------------------------------
(* The audio *)

\* The upload is aborted with the first erasure, which clears the key that names it;
\* a note that has ended is never opened again.
Audio ==
    /\ AudioKeptForWork
    /\ DeletionProven
    /\ object = "gone" \/ erasure # "none" => status \in Terminal
    /\ key <=> erasure # "DELETED"
    /\ \A r \in Requests : upload[r] = "verified" => object # "parts"
    /\ \A s \in Scanners :
         /\ cleanup[s] # "idle" => aborts[s] /\ status \in Terminal
         /\ cleanup[s] = "erased" => object = "gone"

\* A step of the work leaves the audio, and what is known of it, alone.
LEMMA AudioWork ==
    ASSUME TypeOK, Audio, UNCHANGED <<key, object, upload, deletion, erasure, scanVars>>,
           status \in Terminal => status' \in Terminal,
           status = "UPLOADING" => status' \in Terminal \union {"UPLOADING"}
    PROVE  Audio'
BY DEF Audio, AudioKeptForWork, DeletionProven, TypeOK, Statuses, Pending, Terminal, scanVars

LEMMA AudioStep ==
    ASSUME TypeOK, Jobs, Audio, [Next]_vars
    PROVE  Audio'
<1> USE DEF noteVars, uploadVars, eraseVars, scanVars
<1>1. CASE UNCHANGED <<status, deletion, key, object, upload, erasure, cleanup, aborts>>
  BY <1>1 DEF Audio, AudioKeptForWork, DeletionProven
<1>2. ASSUME NEW r \in Requests, CompleteUpload(r) PROVE Audio'
  <2>1. CASE UploadRead(r)
    BY <2>1 DEF UploadRead, Audio, AudioKeptForWork, DeletionProven, TypeOK
  <2>2. CASE CompleteAudio(r)
    BY <2>2 DEF CompleteAudio, Audio, AudioKeptForWork, DeletionProven, TypeOK
  <2>3. CASE GiveUp(r)
    BY <2>3 DEF GiveUp, Audio, AudioKeptForWork, DeletionProven, TypeOK
  <2>4. CASE AcceptUpload(r)
    <3>1. object = "stored" /\ erasure = "none"
      BY <2>4 DEF AcceptUpload, Audio, TypeOK, Terminal
    <3> QED BY <2>4, <3>1 DEF AcceptUpload, Enqueue, Audio, AudioKeptForWork, DeletionProven,
                              TypeOK, Terminal
  <2>5. CASE RejectUpload(r)
    BY <2>5 DEF RejectUpload, Audio, AudioKeptForWork, DeletionProven, TypeOK
  <2>6. CASE CloseUpload(r)
    <3>1. erasure = "none"
      BY <2>6 DEF CloseUpload, Audio, Terminal
    <3> QED BY <2>6, <3>1 DEF CloseUpload, RestartErasure, Audio, AudioKeptForWork,
                              DeletionProven, TypeOK, Pending, Terminal
  <2>7. CASE ReturnLate(r)
    BY <2>7 DEF ReturnLate, RestartErasure, Audio, AudioKeptForWork, DeletionProven, TypeOK,
                Pending, Terminal
  <2> QED BY <1>2, <2>1, <2>2, <2>3, <2>4, <2>5, <2>6, <2>7 DEF CompleteUpload
<1>3. CASE Discard
  BY <1>3 DEF Discard, RequireErasure, Audio, AudioKeptForWork, DeletionProven, TypeOK,
              Pending, Terminal
<1>4. CASE AbortUpload
  BY <1>4 DEF AbortUpload, Audio, AudioKeptForWork, DeletionProven, Pending, Terminal
<1>5. CASE Revise \/ Confirm \/ CloseDraft
  BY <1>1, <1>5 DEF Revise, Confirm, CloseDraft
<1>6. ASSUME NEW w \in Workers, Stop(w) \/ AttemptEnds(w) PROVE Audio'
  BY <1>1, <1>6 DEF Stop, AttemptEnds
<1>7. ASSUME NEW w \in Workers, NEW g \in Generations, ProcessNote(w, g) PROVE Audio'
  <2>1. CASE Claim(w, g)
    BY <2>1, AudioWork DEF Claim, Pending, Terminal
  <2>2. CASE ClaimExhausted(w, g)
    <3>1. status \in Pending /\ status' = "FAILED"
      BY <2>2 DEF ClaimExhausted, Claimable, Exhaust, Jobs, OneJobBehindNote, Pending
    <3> QED BY <2>2, <3>1, AudioWork DEF ClaimExhausted, Pending, Terminal
  <2>3. CASE ReadStaged(w, g) \/ StartCall(w, g) \/ Answer(w, g) \/ StageResult(w, g)
    BY <1>1, <2>3 DEF ReadStaged, StartCall, Answer, StageResult
  <2>4. CASE Fail(w, g)
    BY <2>4, AudioWork DEF Fail, Pending, Terminal
  <2>5. CASE Complete(w, g)
    BY <2>5 DEF Complete, RequireErasure, Audio, AudioKeptForWork, DeletionProven, TypeOK,
                Pending, Terminal
  <2> QED BY <1>7, <2>1, <2>2, <2>3, <2>4, <2>5 DEF ProcessNote
<1>8. ASSUME NEW g \in Generations,
             Retry(g) \/ Settle(g) \/ LeaseExpires(g) \/ BackoffEnds(g) \/ Scan(g)
      PROVE  Audio'
  <2>1. CASE Retry(g)
    BY <2>1, AudioWork DEF Retry, Enqueue, Terminal
  <2>2. CASE Settle(g) \/ LeaseExpires(g) \/ BackoffEnds(g) \/ RequeueDue(g)
    BY <1>1, <2>2 DEF Settle, LeaseExpires, BackoffEnds, RequeueDue
  <2>3. CASE RecoverLease(g)
    BY <2>3, AudioWork DEF RecoverLease, Terminal
  <2>4. CASE CloseExhausted(g)
    BY <2>4, AudioWork DEF CloseExhausted, Exhaust, Terminal
  <2> QED BY <1>8, <2>1, <2>2, <2>3, <2>4 DEF Scan
<1>9. ASSUME NEW s \in Scanners, Erase(s) \/ StopScan(s) PROVE Audio'
  <2>1. CASE ClaimDeletion(s)
    BY <2>1 DEF ClaimDeletion, UploadKnown, Audio, AudioKeptForWork, DeletionProven, TypeOK
  <2>2. CASE EraseObject(s)
    <3>1. object' = "gone" /\ status \in Terminal
      BY <2>2 DEF EraseObject, Erased, Audio, TypeOK
    <3> QED BY <2>2, <3>1 DEF EraseObject, Audio, AudioKeptForWork, DeletionProven, TypeOK,
                              Pending, Terminal
  <2>3. CASE EraseFails(s)
    <3>1. object' \in {object, "gone"} /\ status \in Terminal
      BY <2>3 DEF EraseFails, Erased, Audio, TypeOK
    <3> QED BY <2>3, <3>1 DEF EraseFails, Audio, AudioKeptForWork, DeletionProven, TypeOK,
                              Pending, Terminal
  <2>4. CASE CompleteDeletion(s)
    BY <2>4 DEF CompleteDeletion, Audio, AudioKeptForWork, DeletionProven, TypeOK
  <2>5. CASE FailDeletion(s)
    BY <2>5 DEF FailDeletion, Audio, AudioKeptForWork, DeletionProven, TypeOK
  <2>6. CASE StopScan(s)
    BY <2>6 DEF StopScan, Audio, AudioKeptForWork, DeletionProven, TypeOK
  <2> QED BY <1>9, <2>1, <2>2, <2>3, <2>4, <2>5, <2>6 DEF Erase
<1>10. CASE ExpireNote
  BY <1>10 DEF ExpireNote, RequireErasure, Audio, AudioKeptForWork, DeletionProven, TypeOK,
               Pending, Terminal
<1>11. CASE EraserExpires \/ ErasureDue \/ UNCHANGED vars
  BY <1>1, <1>11 DEF EraserExpires, ErasureDue, vars
<1>12. ASSUME NEW what \in {"upload", "audio"}, Ages(what) PROVE Audio'
  BY <1>1, <1>12 DEF Ages
<1> QED BY <1>2, <1>3, <1>4, <1>5, <1>6, <1>7, <1>8, <1>9, <1>10, <1>11, <1>12 DEF Next

LEMMA AudioAlways == Spec => []Audio
<1>1. Init => Audio
  BY DEF Init, Audio, AudioKeptForWork, DeletionProven, Pending, Terminal
<1>2. WorkInv /\ Audio /\ [Next]_vars => Audio'
  BY AudioStep DEF WorkInv
<1> QED BY WorkAlways, <1>1, <1>2, PTL DEF Spec

\* No scan, discard or upload that comes late takes away the audio a job or a retry
\* needs.
THEOREM AudioKept == Spec => []AudioKeptForWork
<1>1. Audio => AudioKeptForWork
  BY DEF Audio
<1> QED BY AudioAlways, <1>1, PTL

\* Whatever fails, repeats or arrives late, a deletion recorded as done is one.
THEOREM DeletedIsGone == Spec => []DeletionProven
<1>1. Audio => DeletionProven
  BY DEF Audio
<1> QED BY AudioAlways, <1>1, PTL

-----------------------------------------------------------------------------
(* The jobs implement leased work                                             *)

\* Nothing that leased work sees has changed.
LEMMA JobsSame ==
    ASSUME UNCHANGED <<job, holder, live, told>>,
           \A w \in Workers : IF work[w] = "idle" THEN work'[w] = "idle"
                              ELSE work'[w] # "idle" /\ handling'[w] = handling[w]
    PROVE  UNCHANGED Work!lvars
BY DEF Work!lvars, Progress

\* One job goes to a state in which nobody has it.
LEMMA JobBecomes ==
    ASSUME NEW g \in Generations, NEW s, Progress(g)' = s, job'[g] # "PROCESSING",
           \A h \in Generations \ {g} : UNCHANGED <<job[h], holder[h], live[h]>>
    PROVE  Work!Becomes(g, s)
BY DEF Work!Becomes, Progress

\* A worker that quits has no job any more.
LEMMA BusyNot ==
    ASSUME TypeOK, NEW w \in Workers, Quit(w)
    PROVE  [v \in Workers |-> IF work'[v] = "idle" THEN NoOne ELSE handling'[v]]
             = [[v \in Workers |-> IF work[v] = "idle" THEN NoOne ELSE handling[v]]
                  EXCEPT ![w] = NoOne]
BY DEF TypeOK, Quit, Goes

\* The events of a job that are told of are the ends of it that are announced.
LEMMA TellFailed ==
    ASSUME TypeOK, NEW g \in Generations, told' = [told EXCEPT ![g] = @ \union {"failed"}]
    PROVE  {p \in Generations \X {"done", "failed"} :
              (IF p[2] = "done" THEN "completed" ELSE "failed") \in told'[p[1]]}
             = {p \in Generations \X {"done", "failed"} :
                  (IF p[2] = "done" THEN "completed" ELSE "failed") \in told[p[1]]}
               \union {<<g, "failed">>}
<1> DEFINE ends == {p \in Generations \X {"done", "failed"} :
                      (IF p[2] = "done" THEN "completed" ELSE "failed") \in told[p[1]]}
<1>1. \A h \in Generations : told'[h] = IF h = g THEN told[h] \union {"failed"} ELSE told[h]
  BY DEF TypeOK
<1>2. ASSUME NEW p \in Generations \X {"done", "failed"}
      PROVE  p \in ends' <=> p \in ends \/ p = <<g, "failed">>
  <2>1. p = <<p[1], p[2]>> /\ p[1] \in Generations /\ p[2] \in {"done", "failed"}
    OBVIOUS
  <2> QED BY <1>1, <2>1
<1>3. <<g, "failed">> \in Generations \X {"done", "failed"}
  OBVIOUS
<1> HIDE DEF ends
<1>4. ends \subseteq Generations \X {"done", "failed"} /\ ends' \subseteq Generations \X {"done", "failed"}
  BY DEF ends
<1>5. ends' = ends \union {<<g, "failed">>}
  BY <1>2, <1>3, <1>4
<1> QED BY <1>5 DEF ends

LEMMA TellCompleted ==
    ASSUME TypeOK, NEW g \in Generations, told' = [told EXCEPT ![g] = @ \union {"completed"}]
    PROVE  {p \in Generations \X {"done", "failed"} :
              (IF p[2] = "done" THEN "completed" ELSE "failed") \in told'[p[1]]}
             = {p \in Generations \X {"done", "failed"} :
                  (IF p[2] = "done" THEN "completed" ELSE "failed") \in told[p[1]]}
               \union {<<g, "done">>}
<1> DEFINE ends == {p \in Generations \X {"done", "failed"} :
                      (IF p[2] = "done" THEN "completed" ELSE "failed") \in told[p[1]]}
<1>1. \A h \in Generations : told'[h] = IF h = g THEN told[h] \union {"completed"} ELSE told[h]
  BY DEF TypeOK
<1>2. ASSUME NEW p \in Generations \X {"done", "failed"}
      PROVE  p \in ends' <=> p \in ends \/ p = <<g, "done">>
  <2>1. p = <<p[1], p[2]>> /\ p[1] \in Generations /\ p[2] \in {"done", "failed"}
    OBVIOUS
  <2> QED BY <1>1, <2>1
<1>3. <<g, "done">> \in Generations \X {"done", "failed"}
  OBVIOUS
<1> HIDE DEF ends
<1>4. ends \subseteq Generations \X {"done", "failed"} /\ ends' \subseteq Generations \X {"done", "failed"}
  BY DEF ends
<1>5. ends' = ends \union {<<g, "done">>}
  BY <1>2, <1>3, <1>4
<1> QED BY <1>5 DEF ends

\* A job is submitted when the upload is accepted or the participant tries again.
LEMMA EnqueueSubmits ==
    ASSUME TypeOK, NEW g \in Generations, job[g] = "none", Enqueue(g),
           UNCHANGED <<holder, live, told, work, handling>>
    PROVE  Work!LNext
<1>1. job'[g] = "QUEUED" /\ \A h \in Generations \ {g} : job'[h] = job[h]
  BY DEF Enqueue, TypeOK
<1>2. Progress(g)' = "waiting"
  BY <1>1 DEF Progress
<1>3. Work!Becomes(g, "waiting")
  BY <1>1, <1>2, JobBecomes
<1>4. Work!Submit(g)
  BY <1>3 DEF Work!Submit, Progress
<1> QED BY <1>4 DEF Work!LNext

\* A worker that takes the lease of a job takes the job.
LEMMA ClaimTakes ==
    ASSUME TypeOK, NEW w \in Workers, NEW g \in Generations, Claim(w, g)
    PROVE  Work!LNext
<1>1. /\ job' = [job EXCEPT ![g] = "PROCESSING"] /\ holder' = [holder EXCEPT ![g] = w]
      /\ live' = [live EXCEPT ![g] = TRUE] /\ UNCHANGED told
      /\ work[w] = "idle" /\ work' = [work EXCEPT ![w] = "claimed"]
      /\ handling' = [handling EXCEPT ![w] = g]
  BY DEF Claim, callVars
<1>2. Work!Free(g)
  BY DEF Claim, Claimable, Work!Free, Progress
<1>3. [h \in Generations |-> Progress(h)'] = [[h \in Generations |-> Progress(h)] EXCEPT ![g] = "held"]
  BY <1>1 DEF TypeOK, Progress
<1>4. [h \in Generations |-> IF job'[h] = "PROCESSING" THEN holder'[h] ELSE NoOne]
        = [[h \in Generations |-> IF job[h] = "PROCESSING" THEN holder[h] ELSE NoOne] EXCEPT ![g] = w]
  BY <1>1 DEF TypeOK
<1>5. [h \in Generations |-> job'[h] = "PROCESSING" /\ ~live'[h]]
        = [[h \in Generations |-> job[h] = "PROCESSING" /\ ~live[h]] EXCEPT ![g] = FALSE]
  BY <1>1 DEF TypeOK
<1>6. [v \in Workers |-> IF work'[v] = "idle" THEN NoOne ELSE handling'[v]]
        = [[v \in Workers |-> IF work[v] = "idle" THEN NoOne ELSE handling[v]] EXCEPT ![w] = g]
  BY <1>1 DEF TypeOK
<1>7. Work!Take(w, g)
  BY <1>1, <1>2, <1>3, <1>4, <1>5, <1>6 DEF Work!Take
<1> QED BY <1>7 DEF Work!LNext

\* A job whose attempts are used up is given up by a worker or a scan.
LEMMA ExhaustGivesUp ==
    ASSUME TypeOK, NEW g \in Generations, NEW from, Exhaust(g, from),
           job[g] \in {"QUEUED", "RETRY_WAIT"} \/ (job[g] = "PROCESSING" /\ ~live[g]),
           UNCHANGED <<work, handling>>
    PROVE  Work!LNext
<1>1. /\ job' = [job EXCEPT ![g] = "FAILED"] /\ holder' = [holder EXCEPT ![g] = NoOne]
      /\ live' = [live EXCEPT ![g] = FALSE] /\ told' = [told EXCEPT ![g] = @ \union {"failed"}]
  BY DEF Exhaust, Release
<1>2. Progress(g)' = "failed"
  BY <1>1 DEF TypeOK, Progress
<1>3. Work!Becomes(g, "failed")
  BY <1>1, <1>2, JobBecomes DEF TypeOK
<1>4. Work!Free(g)
  BY DEF Work!Free, Progress
<1>5. Work!GiveUp(g)
  BY <1>1, <1>3, <1>4, TellFailed DEF Work!GiveUp
<1> QED BY <1>5 DEF Work!LNext

\* A worker of the lease has the job.
LEMMA FencedHas ==
    ASSUME NEW w \in Workers, NEW g \in Generations, Fenced(w, g), work[w] # "idle", handling[w] = g
    PROVE  Work!Has(w, g)
BY DEF Fenced, Work!Has, Progress

\* Each step of a worker is one of leased work, or invisible.
LEMMA ProcessWorks ==
    ASSUME TypeOK, NEW w \in Workers, NEW g \in Generations, ProcessNote(w, g)
    PROVE  [Work!LNext]_(Work!lvars)
<1>1. CASE Claim(w, g)
  BY <1>1, ClaimTakes
<1>2. CASE ClaimExhausted(w, g)
  BY <1>2, ExhaustGivesUp DEF ClaimExhausted, Claimable, workVars
<1>3. CASE ReadStaged(w, g) \/ StartCall(w, g) \/ Answer(w, g) \/ StageResult(w, g)
  <2>1. /\ UNCHANGED <<job, holder, live, told, handling>> /\ work[w] # "idle"
        /\ \E s \in {"staged", "probing", "calling", "answered"} : work' = [work EXCEPT ![w] = s]
    BY <1>3 DEF ReadStaged, StartCall, Answer, StageResult, At, Goes, jobVars, callVars
  <2>2. \A v \in Workers : IF work[v] = "idle" THEN work'[v] = "idle" ELSE work'[v] # "idle"
    BY <2>1 DEF TypeOK
  <2> QED BY <2>1, <2>2, JobsSame
<1>4. CASE Fail(w, g)
  <2>1. /\ Work!Has(w, g) /\ Quit(w)
        /\ told' = [told EXCEPT ![g] = @ \union {"failed"}]
        /\ holder' = [holder EXCEPT ![g] = NoOne] /\ live' = [live EXCEPT ![g] = FALSE]
    BY <1>4, FencedHas DEF Fail, At, Release
  <2>2. PICK next \in {"RETRY_WAIT", "FAILED"} : job' = [job EXCEPT ![g] = next]
    BY <1>4 DEF Fail, Release
  <2>3. CASE next = "RETRY_WAIT"
    <3>1. Progress(g)' = "waiting"
      BY <2>2, <2>3 DEF TypeOK, Progress
    <3>2. Work!Becomes(g, "waiting")
      BY <2>1, <2>2, <3>1, JobBecomes DEF TypeOK
    <3>3. Work!GiveBack(w, g)
      BY <2>1, <3>2, BusyNot, TellFailed DEF Work!GiveBack
    <3> QED BY <3>3 DEF Work!LNext
  <2>4. CASE next = "FAILED"
    <3>1. Progress(g)' = "failed"
      BY <2>2, <2>4 DEF TypeOK, Progress
    <3>2. Work!Becomes(g, "failed")
      BY <2>1, <2>2, <3>1, JobBecomes DEF TypeOK
    <3>3. Work!Fail(w, g)
      BY <2>1, <3>2, BusyNot, TellFailed DEF Work!Fail
    <3> QED BY <3>3 DEF Work!LNext
  <2> QED BY <2>3, <2>4
<1>5. CASE Complete(w, g)
  <2>1. /\ Work!Has(w, g) /\ Quit(w)
        /\ told' = [told EXCEPT ![g] = @ \union {"completed"}]
        /\ job' = [job EXCEPT ![g] = "COMPLETED"]
        /\ holder' = [holder EXCEPT ![g] = NoOne] /\ live' = [live EXCEPT ![g] = FALSE]
    BY <1>5, FencedHas DEF Complete, At, Release
  <2>2. Progress(g)' = "done"
    BY <2>1 DEF TypeOK, Progress
  <2>3. Work!Becomes(g, "done")
    BY <2>1, <2>2, JobBecomes DEF TypeOK
  <2>4. Work!Complete(w, g)
    BY <2>1, <2>3, BusyNot, TellCompleted DEF Work!Complete
  <2> QED BY <2>4 DEF Work!LNext
<1> QED BY <1>1, <1>2, <1>3, <1>4, <1>5 DEF ProcessNote

\* A note that is discarded drops its pending job.
LEMMA DiscardDrops ==
    ASSUME TypeOK, Jobs, Discard
    PROVE  [Work!LNext]_(Work!lvars)
<1>1. /\ UNCHANGED <<holder, live, told, work, handling>>
      /\ job' = [h \in Generations |->
                    IF job[h] \in {"QUEUED", "RETRY_WAIT"} THEN "CANCELED" ELSE job[h]]
  BY DEF Discard, callVars, workVars
<1>2. CASE \A h \in Generations : job[h] \notin {"QUEUED", "RETRY_WAIT"}
  <2>1. job' = job
    BY <1>1, <1>2 DEF TypeOK
  <2> QED BY <1>1, <2>1, JobsSame
<1>3. ASSUME NEW g \in Generations, job[g] \in {"QUEUED", "RETRY_WAIT"} PROVE Work!LNext
  <2>1. job'[g] = "CANCELED" /\ \A h \in Generations \ {g} : job'[h] = job[h]
    BY <1>1, <1>3 DEF Jobs, OneJobBehindNote, Pending
  <2>2. Progress(g)' = "dropped"
    BY <2>1 DEF Progress
  <2>3. Work!Becomes(g, "dropped")
    BY <1>1, <2>1, <2>2, JobBecomes
  <2>4. Work!Drop(g)
    BY <1>1, <1>3, <2>3 DEF Work!Drop, Progress
  <2> QED BY <2>4 DEF Work!LNext
<1> QED BY <1>2, <1>3

\* A note that expires gives its pending job up, which is told of as failed.
LEMMA ExpireGivesUp ==
    ASSUME TypeOK, Jobs, ExpireNote
    PROVE  [Work!LNext]_(Work!lvars)
<1>1. /\ UNCHANGED <<holder, live, work, handling>>
      /\ job' = [h \in Generations |->
                    IF job[h] \in {"QUEUED", "RETRY_WAIT"} THEN "EXPIRED" ELSE job[h]]
      /\ status \in {"UPLOADING", "QUEUED", "RETRY_WAIT", "FAILED"}
      /\ TellExpired
  BY DEF ExpireNote, Expirable, workVars
<1>2. CASE status \in {"UPLOADING", "FAILED"}
  <2>1. \A h \in Generations : job[h] \notin {"QUEUED", "RETRY_WAIT"}
    BY <1>2 DEF Jobs, OneJobBehindNote, Pending
  <2>2. job' = job /\ told' = told
    BY <1>1, <1>2, <2>1 DEF TypeOK, TellExpired
  <2> QED BY <1>1, <2>2, JobsSame
<1>3. CASE status \in {"QUEUED", "RETRY_WAIT"}
  <2>1. PICK g \in Generations : job[g] = status
    BY <1>3 DEF Jobs, OneJobBehindNote, Pending
  <2>2. job'[g] = "EXPIRED" /\ \A h \in Generations \ {g} : job'[h] = job[h]
    BY <1>1, <1>3, <2>1 DEF Jobs, OneJobBehindNote, Pending
  <2>3. \A h \in Generations : Latest(h) <=> h = g
    <3>1. \A h \in Generations : h > g => job[h] = "none"
      BY <1>3, <2>1 DEF Jobs, Pending, Generations
    <3>2. \A h \in Generations : Latest(h) => ~(g > h)
      BY <1>3, <2>1 DEF Latest
    <3> QED BY <1>3, <2>1, <3>1, <3>2 DEF Latest, Generations
  <2>4. told' = [told EXCEPT ![g] = @ \union {"failed"}]
    BY <1>1, <1>3, <2>3 DEF TellExpired, TypeOK
  <2>5. Progress(g)' = "failed"
    BY <2>2 DEF Progress
  <2>6. Work!Becomes(g, "failed")
    BY <1>1, <2>2, <2>5, JobBecomes
  <2>7. Work!Free(g)
    BY <1>3, <2>1 DEF Work!Free, Progress
  <2>8. Work!GiveUp(g)
    BY <1>1, <2>4, <2>6, <2>7, TellFailed DEF Work!GiveUp
  <2> QED BY <2>8 DEF Work!LNext
<1> QED BY <1>1, <1>2, <1>3

\* Each step of the note is a step of leased work, or invisible.
LEMMA NoteWorks ==
    ASSUME TypeOK, Jobs, [Next]_vars
    PROVE  [Work!LNext]_(Work!lvars)
<1> USE DEF jobVars, callVars, workVars
<1>1. CASE UNCHANGED core
  BY <1>1, JobsSame DEF core
<1>2. ASSUME NEW r \in Requests, AcceptUpload(r) PROVE Work!LNext
  <2>1. 1 \in Generations /\ job[1] = "none"
    BY <1>2, VoiceTyped DEF AcceptUpload, Jobs, Generations
  <2> QED BY <1>2, <2>1, EnqueueSubmits DEF AcceptUpload
<1>3. ASSUME NEW r \in Requests, CloseUpload(r) PROVE UNCHANGED Work!lvars
  BY <1>3, JobsSame DEF CloseUpload
<1>4. CASE Discard
  BY <1>4, DiscardDrops
<1>5. CASE Revise
  BY <1>5, JobsSame DEF Revise
<1>6. CASE ExpireNote
  BY <1>6, ExpireGivesUp
<1>7. ASSUME NEW w \in Workers, Stop(w) PROVE Work!LNext
  <2>1. UNCHANGED <<job, holder, live, told>> /\ work[w] # "idle" /\ Quit(w)
    BY <1>7 DEF Stop
  <2>2. PICK g \in Generations : g = handling[w]
    BY DEF TypeOK
  <2>3. Work!Leave(w, g)
    BY <2>1, <2>2, BusyNot DEF Work!Leave, Progress
  <2> QED BY <2>3 DEF Work!LNext
<1>8. ASSUME NEW w \in Workers, AttemptEnds(w) PROVE UNCHANGED Work!lvars
  BY <1>8, JobsSame DEF AttemptEnds
<1>9. ASSUME NEW w \in Workers, NEW g \in Generations, ProcessNote(w, g)
      PROVE  [Work!LNext]_(Work!lvars)
  BY <1>9, ProcessWorks
<1>10. ASSUME NEW g \in Generations, Retry(g) PROVE Work!LNext
  BY <1>10, EnqueueSubmits DEF Retry
<1>11. ASSUME NEW g \in Generations, LeaseExpires(g) PROVE Work!LNext
  <2>1. /\ job[g] = "PROCESSING" /\ live[g] /\ live' = [live EXCEPT ![g] = FALSE]
        /\ UNCHANGED <<job, holder, told, work, handling>>
    BY <1>11 DEF LeaseExpires
  <2>2. [h \in Generations |-> job'[h] = "PROCESSING" /\ ~live'[h]]
          = [[h \in Generations |-> job[h] = "PROCESSING" /\ ~live[h]] EXCEPT ![g] = TRUE]
    BY <2>1 DEF TypeOK
  <2>3. Work!Lapse(g)
    BY <2>1, <2>2 DEF Work!Lapse, Progress
  <2> QED BY <2>3 DEF Work!LNext
<1>12. ASSUME NEW g \in Generations, RecoverLease(g) PROVE Work!LNext
  <2>1. /\ job[g] = "PROCESSING" /\ ~live[g] /\ job' = [job EXCEPT ![g] = "RETRY_WAIT"]
        /\ holder' = [holder EXCEPT ![g] = NoOne] /\ live' = [live EXCEPT ![g] = FALSE]
        /\ UNCHANGED <<told, work, handling>>
    BY <1>12 DEF RecoverLease, Abandoned, Release
  <2>2. Progress(g)' = "waiting"
    BY <2>1 DEF TypeOK, Progress
  <2>3. Work!Becomes(g, "waiting")
    BY <2>1, <2>2, JobBecomes DEF TypeOK
  <2>4. Work!Recover(g)
    BY <2>1, <2>3 DEF Work!Recover, Progress
  <2> QED BY <2>4 DEF Work!LNext
<1>13. ASSUME NEW g \in Generations, CloseExhausted(g) PROVE Work!LNext
  BY <1>13, ExhaustGivesUp DEF CloseExhausted, Abandoned
<1> QED
  BY <1>1, <1>2, <1>3, <1>4, <1>5, <1>6, <1>7, <1>8, <1>9, <1>10, <1>11, <1>12, <1>13, Moves

\* Whatever workers, scans and the participant do, each job is done by one worker
\* at a time and ends once, and its end is announced with it: ImplementsWork, about
\* the leases of process_note and the scans of expire_audio.
THEOREM JobsAreLeasedWork == Spec => ImplementsWork
<1>1. Init => Work!LInit
  <2> SUFFICES ASSUME Init PROVE Work!LInit
    OBVIOUS
  <2>1. \A g \in Generations : job[g] = "none" /\ told[g] = {} /\ Progress(g) = "absent"
    BY DEF Init, Progress
  <2>2. \A w \in Workers : work[w] = "idle"
    BY DEF Init
  <2> QED BY <2>1, <2>2 DEF Work!LInit
<1>2. WorkInv /\ [Next]_vars => [Work!LNext]_(Work!lvars)
  BY NoteWorks DEF WorkInv
<1> QED BY <1>1, <1>2, WorkAlways, PTL DEF Spec, ImplementsWork, Work!LSpec

====

---- MODULE VoiceNote ----
(***************************************************************************)
(* One voice note of a capture: the upload that is accepted, the generations *)
(* of transcription jobs that workers process under a fenced lease, the paid  *)
(* provider call whose result is staged before the note completes, the        *)
(* participant's edits and retries, and the scheduler scans that recover       *)
(* leases, expire notes and erase the audio.                                    *)
(*                                                                            *)
(* A worker, a scanner and an API request each do one thing at a time, so the  *)
(* holder of a lease stands for its token.  A database transaction locks the   *)
(* note first and is one action.  A command with a stale version or a repeated *)
(* mutation id changes nothing and is left out.                                 *)
(***************************************************************************)
EXTENDS Integers, Sequences

CONSTANTS Workers, Scanners, Requests,
          MaxAttempts,      \* claims of a job that may call the provider (3)
          MaxGenerations,   \* jobs of a note (4)
          MaxTexts,         \* a bound: nobody writes when there are as many revisions
          NoOne             \* not a worker, not a scanner

ASSUME VoiceTyped ==
    /\ MaxAttempts \in Nat \ {0} /\ MaxGenerations \in Nat \ {0} /\ MaxTexts \in Nat
    /\ NoOne \notin Workers \union Scanners

Generations == 1..MaxGenerations

VARIABLES
    status,     \* of the note
    deletion,   \* its audio_deletion_status
    key,        \* its upload_key is set
    texts,      \* its revisions, by revision_number: the generation whose call
                \* produced it, or 0 for a declaration or an edit
    current,    \* current_revision_id, or 0
    confirmed,  \* text_confirmed
    job,        \* status of each generation's job, "none" before it is created
    attempts,
    holder,     \* who has its lease_token
    live,       \* its lease_deadline has not passed
    retry,      \* its retry_at: "none", "later" or "due"
    calls,      \* provider calls recorded by Ledger.Start
    told,       \* transcription.completed and .failed events in the outbox
    wake,       \* generations with a transcription.requested message under way
    work,       \* what a worker is doing
    handling,   \* the generation it has claimed
    running,    \* the deadline of its attempt context has not passed
    answer,     \* what the provider answered
    object,     \* the audio: "parts" of a multipart upload, "stored" or "gone"
    upload,     \* what a request to complete the upload is doing
    draft,      \* the capture draft is open
    aged,       \* the retention has passed since the "upload" was created, since
                \* the "audio" was accepted
    erasure,    \* status of the row in audio_deletions, or "none"
    eraser,     \* who has its lease_token
    erasing,    \* its lease_deadline has not passed
    erasable,   \* its retry_at has passed, or there is none
    cleanup,    \* what a scanner is doing
    aborts      \* it read the upload id with its claim

noteVars   == <<status, deletion, key>>
textVars   == <<texts, current, confirmed>>
jobVars    == <<job, attempts, holder, live, retry>>
callVars   == <<calls, told>>
workVars   == <<work, handling, running, answer>>
uploadVars == <<object, upload, draft, aged>>
eraseVars  == <<erasure, eraser, erasing, erasable>>
scanVars   == <<cleanup, aborts>>
vars == <<noteVars, textVars, jobVars, callVars, wake, workVars, uploadVars,
          eraseVars, scanVars>>

Pending  == {"QUEUED", "PROCESSING", "RETRY_WAIT"}
Terminal == {"COMPLETED", "CANCELED", "EXPIRED"}
Statuses == Pending \union Terminal \union {"UPLOADING", "FAILED"}
Answers  == {"text", "silence", "transient", "rejected"}

TypeOK ==
    /\ status \in Statuses
    /\ deletion \in {"PENDING", "SCHEDULED", "FAILED", "DELETED", "EXPIRED"}
    /\ key \in BOOLEAN
    /\ texts \in Seq(0..MaxGenerations)
    /\ current \in 0..Len(texts)
    /\ confirmed \in BOOLEAN
    /\ job \in [Generations -> Pending \union Terminal \union {"none", "FAILED"}]
    /\ attempts \in [Generations -> 0..MaxAttempts]
    /\ holder \in [Generations -> Workers \union {NoOne}]
    /\ live \in [Generations -> BOOLEAN]
    /\ retry \in [Generations -> {"none", "later", "due"}]
    /\ calls \in [Generations -> Nat]
    /\ told \in [Generations -> SUBSET {"completed", "failed"}]
    /\ wake \subseteq Generations
    /\ work \in [Workers -> {"idle", "claimed", "probing", "calling", "answered", "staged"}]
    /\ handling \in [Workers -> Generations]
    /\ running \in [Workers -> BOOLEAN]
    /\ answer \in [Workers -> Answers]
    /\ object \in {"parts", "stored", "gone"}
    /\ upload \in [Requests -> {"idle", "verifying", "verified", "rejected"}]
    /\ draft \in BOOLEAN
    /\ aged \subseteq {"upload", "audio"}
    /\ erasure \in {"none", "PENDING", "PROCESSING", "FAILED", "DELETED"}
    /\ eraser \in Scanners \union {NoOne}
    /\ erasing \in BOOLEAN
    /\ erasable \in BOOLEAN
    /\ cleanup \in [Scanners -> {"idle", "claimed", "erased", "failed"}]
    /\ aborts \in [Scanners -> BOOLEAN]

\* The note create_note_upload has inserted; the client has its upload URL.
Init ==
    /\ status = "UPLOADING" /\ deletion = "PENDING" /\ key = TRUE
    /\ texts = <<>> /\ current = 0 /\ confirmed = FALSE
    /\ job = [g \in Generations |-> "none"]
    /\ attempts = [g \in Generations |-> 0]
    /\ holder = [g \in Generations |-> NoOne]
    /\ live = [g \in Generations |-> FALSE]
    /\ retry = [g \in Generations |-> "none"]
    /\ calls = [g \in Generations |-> 0]
    /\ told = [g \in Generations |-> {}]
    /\ wake = {}
    /\ work = [w \in Workers |-> "idle"]
    /\ handling = [w \in Workers |-> 1]
    /\ running = [w \in Workers |-> FALSE]
    /\ answer = [w \in Workers |-> "silence"]
    /\ object = "parts"
    /\ upload = [r \in Requests |-> "idle"]
    /\ draft = TRUE /\ aged = {}
    /\ erasure = "none" /\ eraser = NoOne /\ erasing = FALSE /\ erasable = FALSE
    /\ cleanup = [s \in Scanners |-> "idle"]
    /\ aborts = [s \in Scanners |-> FALSE]

-----------------------------------------------------------------------------

\* A model revision of the generation's job is durable.
Staged(g) == \E i \in DOMAIN texts : texts[i] = g

ModelText == \E i \in DOMAIN texts : texts[i] # 0
HumanText == \E i \in DOMAIN texts : texts[i] = 0

\* Job g and its note are QUEUED, and a worker will hear of it.
Enqueue(g) ==
    /\ job' = [job EXCEPT ![g] = "QUEUED"]
    /\ wake' = wake \union {g}
    /\ status' = "QUEUED"

\* The obligation to erase the audio, unless there is one already.
RequireErasure ==
    /\ erasure' = IF erasure = "none" THEN "PENDING" ELSE erasure
    /\ erasable' = (erasable \/ erasure = "none")
    /\ UNCHANGED <<eraser, erasing>>

\* scheduleCompletedObjectDeletion: an erasure that is done or under way starts
\* again, under another token.
RestartErasure ==
    LET again == erasure \in {"none", "DELETED", "PROCESSING"}
    IN  /\ erasure' = IF again THEN "PENDING" ELSE erasure
        /\ eraser' = IF again THEN NoOne ELSE eraser
        /\ erasing' = (erasing /\ ~again)
        /\ erasable' = (erasable \/ again)
        /\ deletion' = "SCHEDULED"

-----------------------------------------------------------------------------
(* complete_note_upload *)

\* The note is read; a participant's draft is looked at in a second transaction.
UploadRead(r) ==
    /\ upload[r] = "idle" /\ status = "UPLOADING" /\ key
    /\ upload' = [upload EXCEPT ![r] = "verifying"]
    /\ UNCHANGED <<noteVars, textVars, jobVars, callVars, wake, workVars,
                   object, draft, aged, eraseVars, scanVars>>

\* CompleteAudio completes the multipart upload and then verifies the object,
\* which may be refused.
CompleteAudio(r) ==
    /\ upload[r] = "verifying" /\ object # "gone"
    /\ object' = "stored"
    /\ \E next \in {"verified", "idle"} : upload' = [upload EXCEPT ![r] = next]
    /\ UNCHANGED <<noteVars, textVars, jobVars, callVars, wake, workVars,
                   draft, aged, eraseVars, scanVars>>

\* The request ends: the object is missing, an error, or the process dies.
GiveUp(r) ==
    /\ upload[r] # "idle"
    /\ upload' = [upload EXCEPT ![r] = "idle"]
    /\ UNCHANGED <<noteVars, textVars, jobVars, callVars, wake, workVars,
                   object, draft, aged, eraseVars, scanVars>>

\* Mutant: the status is not read again after the verification.
AcceptUnread(r) ==
    /\ upload[r] = "verified" /\ key /\ draft /\ job[1] = "none"
    /\ Enqueue(1)
    /\ upload' = [upload EXCEPT ![r] = "idle"]
    /\ UNCHANGED <<deletion, key, textVars, attempts, holder, live, retry, callVars,
                   workVars, object, draft, aged, eraseVars, scanVars>>

AcceptUpload(r) ==
    /\ upload[r] = "verified" /\ status = "UPLOADING" /\ key /\ draft
    /\ Enqueue(1)
    /\ upload' = [upload EXCEPT ![r] = "idle"]
    /\ UNCHANGED <<deletion, key, textVars, attempts, holder, live, retry, callVars,
                   workVars, object, draft, aged, eraseVars, scanVars>>

\* The draft was closed: the transaction is rolled back, and another one ...
RejectUpload(r) ==
    /\ upload[r] = "verified" /\ status = "UPLOADING" /\ ~draft
    /\ upload' = [upload EXCEPT ![r] = "rejected"]
    /\ UNCHANGED <<noteVars, textVars, jobVars, callVars, wake, workVars,
                   object, draft, aged, eraseVars, scanVars>>

\* ... ends the note that is still uploading.
CloseUpload(r) ==
    /\ upload[r] = "rejected" /\ status = "UPLOADING"
    /\ status' = "EXPIRED"
    /\ RestartErasure
    /\ upload' = [upload EXCEPT ![r] = "idle"]
    /\ UNCHANGED <<key, textVars, jobVars, callVars, wake, workVars,
                   object, draft, aged, scanVars>>

\* The note was discarded or expired while its object was completed.
ReturnLate(r) ==
    /\ upload[r] = "verified" /\ status \in {"CANCELED", "EXPIRED"} /\ key
    /\ RestartErasure
    /\ upload' = [upload EXCEPT ![r] = "idle"]
    /\ UNCHANGED <<status, key, textVars, jobVars, callVars, wake, workVars,
                   object, draft, aged, scanVars>>

-----------------------------------------------------------------------------
(* discard_note, retry_note, revise_note *)

Discard ==
    /\ status \in {"UPLOADING", "QUEUED", "RETRY_WAIT", "FAILED", "COMPLETED"}
    /\ status' = "CANCELED"
    /\ job' = [g \in Generations |->
                 IF job[g] \in {"QUEUED", "RETRY_WAIT"} THEN "CANCELED" ELSE job[g]]
    /\ IF key
         THEN /\ RequireErasure
              /\ deletion' = IF deletion \in {"PENDING", "FAILED"} THEN "SCHEDULED" ELSE deletion
         ELSE UNCHANGED <<eraseVars, deletion>>
    /\ UNCHANGED <<key, textVars, attempts, holder, live, retry, callVars, wake,
                   workVars, uploadVars, scanVars>>

\* After the commit, and without anyone looking at the result, the multipart upload
\* of a note discarded before its first job is aborted.
AbortUpload ==
    /\ status = "CANCELED" /\ job[1] = "none" /\ object = "parts"
    /\ object' = "gone"
    /\ UNCHANGED <<noteVars, textVars, jobVars, callVars, wake, workVars,
                   upload, draft, aged, eraseVars, scanVars>>

\* A new generation, while the audio is there and no other job is pending.
Retry(g) ==
    /\ status = "FAILED" /\ deletion \notin {"EXPIRED", "DELETED"}
    /\ "audio" \notin aged
    /\ \A h \in Generations : job[h] \notin Pending
    /\ job[g] = "none" /\ \A h \in 1..(g - 1) : job[h] # "none"
    /\ Enqueue(g)
    /\ UNCHANGED <<deletion, key, textVars, attempts, holder, live, retry, callVars,
                   workVars, uploadVars, eraseVars, scanVars>>

\* Mutant: the confirmation stays with the note when its text changes.
WriteTextConfirmed ==
    /\ texts' = Append(texts, 0)
    /\ current' = Len(texts) + 1
    /\ UNCHANGED confirmed

WriteText ==
    /\ texts' = Append(texts, 0)
    /\ current' = Len(texts) + 1
    /\ confirmed' = FALSE

\* A HUMAN_EDIT of the text that is shown, or the declaration of a participant
\* whose note failed.
Revise ==
    /\ Len(texts) < MaxTexts
    /\ \/ status \in {"COMPLETED", "FAILED"} /\ current # 0
       \/ status = "FAILED" /\ draft /\ \A g \in Generations : job[g] \notin Pending
    /\ WriteText
    /\ UNCHANGED <<noteVars, jobVars, callVars, wake, workVars, uploadVars,
                   eraseVars, scanVars>>

Confirm ==
    /\ status = "COMPLETED" /\ current # 0
    /\ confirmed' = TRUE
    /\ UNCHANGED <<noteVars, texts, current, jobVars, callVars, wake, workVars,
                   uploadVars, eraseVars, scanVars>>

-----------------------------------------------------------------------------
(* process_note *)

\* Mutant: the deadline of a lease is not looked at.
ClaimableAlways(g) ==
    \/ job[g] \in {"QUEUED", "PROCESSING"}
    \/ job[g] = "RETRY_WAIT" /\ retry[g] = "due"

Claimable(g) ==
    \/ job[g] = "QUEUED"
    \/ job[g] = "RETRY_WAIT" /\ retry[g] = "due"
    \/ job[g] = "PROCESSING" /\ ~live[g]

\* Mutant: a staged result does not save the job.
ExhaustedAnyway(g) == attempts[g] >= MaxAttempts

Exhausted(g) == attempts[g] >= MaxAttempts /\ ~Staged(g)

\* The lease ends with a new status of the job.
Release(g, next, when) ==
    /\ job' = [job EXCEPT ![g] = next]
    /\ holder' = [holder EXCEPT ![g] = NoOne]
    /\ live' = [live EXCEPT ![g] = FALSE]
    /\ retry' = [retry EXCEPT ![g] = when]

\* terminalFailure and failExhaustedJob.
Exhaust(g, from) ==
    /\ Release(g, "FAILED", "none")
    /\ status' = IF status \in from THEN "FAILED" ELSE status
    /\ told' = [told EXCEPT ![g] = @ \union {"failed"}]

\* A job whose attempts are used up is taken over only to store its staged result.
Claim(w, g) ==
    /\ work[w] = "idle" /\ g \in wake
    /\ Claimable(g) /\ ~Exhausted(g) /\ status \in Pending
    /\ job' = [job EXCEPT ![g] = "PROCESSING"]
    /\ attempts' = [attempts EXCEPT ![g] = IF @ < MaxAttempts THEN @ + 1 ELSE @]
    /\ holder' = [holder EXCEPT ![g] = w]
    /\ live' = [live EXCEPT ![g] = TRUE]
    /\ retry' = [retry EXCEPT ![g] = "none"]
    /\ status' = "PROCESSING"
    /\ work' = [work EXCEPT ![w] = "claimed"]
    /\ handling' = [handling EXCEPT ![w] = g]
    /\ running' = [running EXCEPT ![w] = TRUE]
    /\ UNCHANGED <<deletion, key, textVars, callVars, wake, answer, uploadVars,
                   eraseVars, scanVars>>

ClaimExhausted(w, g) ==
    /\ work[w] = "idle" /\ g \in wake
    /\ Claimable(g) /\ Exhausted(g)
    /\ Exhaust(g, Pending)
    /\ UNCHANGED <<deletion, key, textVars, attempts, calls, wake, workVars, uploadVars,
                   eraseVars, scanVars>>

\* The message is acknowledged, or moved to the dead-letter queue.
Settle(g) ==
    /\ g \in wake
    /\ wake' = wake \ {g}
    /\ UNCHANGED <<noteVars, textVars, jobVars, callVars, workVars, uploadVars,
                   eraseVars, scanVars>>

Goes(w, next) == work' = [work EXCEPT ![w] = next]

Quit(w) ==
    /\ Goes(w, "idle")
    /\ running' = [running EXCEPT ![w] = FALSE]
    /\ answer' = [answer EXCEPT ![w] = "silence"]
    /\ UNCHANGED handling

At(w, here, g) == work[w] = here /\ handling[w] = g

\* completeStagedResult looks for a result an earlier attempt has paid for.
ReadStaged(w, g) ==
    /\ At(w, "claimed", g)
    /\ Goes(w, IF Staged(g) THEN "staged" ELSE "probing")
    /\ UNCHANGED <<noteVars, textVars, jobVars, callVars, wake, handling, running, answer,
                   uploadVars, eraseVars, scanVars>>

\* The audio is opened and has speech, and Ledger.Start has recorded the call.
StartCall(w, g) ==
    /\ At(w, "probing", g) /\ running[w] /\ object = "stored"
    /\ calls' = [calls EXCEPT ![g] = @ + 1]
    /\ Goes(w, "calling")
    /\ UNCHANGED <<noteVars, textVars, jobVars, told, wake, handling, running, answer,
                   uploadVars, eraseVars, scanVars>>

\* The provider's answer; what it may have charged for without one counts as
\* rejected, for it is not tried again.  Without a call: silence, or an error of
\* the audio, the detector or the ledger.
Answer(w, g) ==
    /\ At(w, "calling", g) \/ At(w, "probing", g)
    /\ \E a \in Answers :
         /\ a = "text" => work[w] = "calling"
         /\ answer' = [answer EXCEPT ![w] = a]
    /\ Goes(w, "answered")
    /\ UNCHANGED <<noteVars, textVars, jobVars, callVars, wake, handling, running,
                   uploadVars, eraseVars, scanVars>>

\* Mutant: no fence.
Unfenced(w, g) == job[g] = "PROCESSING"

\* checkFence
Fenced(w, g) == job[g] = "PROCESSING" /\ holder[g] = w /\ live[g]

StageResult(w, g) ==
    /\ At(w, "answered", g) /\ answer[w] = "text" /\ Fenced(w, g)
    /\ texts' = Append(texts, g)
    /\ Goes(w, "staged")
    /\ UNCHANGED <<noteVars, current, confirmed, jobVars, callVars, wake,
                   handling, running, answer, uploadVars, eraseVars, scanVars>>

\* Mutant: the note's status is left behind.
FailJobAlone(w, g) ==
    /\ At(w, "answered", g) /\ answer[w] \in {"transient", "rejected"} /\ Fenced(w, g)
    /\ LET again == answer[w] = "transient" /\ attempts[g] < MaxAttempts
       IN  Release(g, IF again THEN "RETRY_WAIT" ELSE "FAILED", IF again THEN "later" ELSE "none")
    /\ told' = [told EXCEPT ![g] = @ \union {"failed"}]
    /\ Quit(w)
    /\ UNCHANGED <<noteVars, textVars, attempts, calls, wake, uploadVars, eraseVars, scanVars>>

Fail(w, g) ==
    /\ At(w, "answered", g) /\ answer[w] \in {"transient", "rejected"} /\ Fenced(w, g)
    /\ status = "PROCESSING"
    /\ LET again == answer[w] = "transient" /\ attempts[g] < MaxAttempts
           next  == IF again THEN "RETRY_WAIT" ELSE "FAILED"
       IN  /\ Release(g, next, IF again THEN "later" ELSE "none")
           /\ status' = next
    /\ told' = [told EXCEPT ![g] = @ \union {"failed"}]
    /\ Quit(w)
    /\ UNCHANGED <<deletion, key, textVars, attempts, calls, wake, uploadVars,
                   eraseVars, scanVars>>

\* What people wrote stays the text that is shown.
Show(w, g) ==
    current' = IF work[w] = "staged" /\ ~HumanText
                 THEN CHOOSE i \in DOMAIN texts : texts[i] = g ELSE current

\* With the staged transcript, or with none when there was no speech.
Complete(w, g) ==
    /\ \/ At(w, "staged", g)
       \/ At(w, "answered", g) /\ answer[w] = "silence"
    /\ Fenced(w, g) /\ status = "PROCESSING"
    /\ status' = "COMPLETED"
    /\ deletion' = "SCHEDULED"
    /\ Show(w, g)
    /\ Release(g, "COMPLETED", "none")
    /\ RequireErasure
    /\ told' = [told EXCEPT ![g] = @ \union {"completed"}]
    /\ Quit(w)
    /\ UNCHANGED <<key, texts, confirmed, attempts, calls, wake, uploadVars, scanVars>>

\* The fence is lost, a transaction fails, or the process dies: the lease stays.
Stop(w) ==
    /\ work[w] # "idle"
    /\ Quit(w)
    /\ UNCHANGED <<noteVars, textVars, jobVars, callVars, wake, uploadVars, eraseVars, scanVars>>

\* The attempt's deadline is earlier than the lease's by the safety margin.
AttemptEnds(w) ==
    /\ running[w]
    /\ running' = [running EXCEPT ![w] = FALSE]
    /\ UNCHANGED <<noteVars, textVars, jobVars, callVars, wake, work, handling, answer,
                   uploadVars, eraseVars, scanVars>>

LeaseExpires(g) ==
    /\ job[g] = "PROCESSING" /\ live[g]
    /\ \A w \in Workers : holder[g] = w /\ handling[w] = g => ~running[w]
    /\ live' = [live EXCEPT ![g] = FALSE]
    /\ UNCHANGED <<noteVars, textVars, job, attempts, holder, retry, callVars, wake,
                   workVars, uploadVars, eraseVars, scanVars>>

BackoffEnds(g) ==
    /\ retry[g] = "later"
    /\ retry' = [retry EXCEPT ![g] = "due"]
    /\ UNCHANGED <<noteVars, textVars, job, attempts, holder, live, callVars, wake,
                   workVars, uploadVars, eraseVars, scanVars>>

-----------------------------------------------------------------------------
(* expire_audio *)

Abandoned(g) == job[g] = "PROCESSING" /\ ~live[g]

\* Mutant: the retention counts for a staged result, too.
RecoverUntilAged(g) ==
    /\ Abandoned(g) /\ ~Exhausted(g)
    /\ Release(g, "RETRY_WAIT", IF "audio" \in aged THEN "none" ELSE "due")
    /\ status' = IF status = "PROCESSING" THEN "RETRY_WAIT" ELSE status
    /\ UNCHANGED <<deletion, key, textVars, attempts, callVars, wake, workVars, uploadVars,
                   eraseVars, scanVars>>

\* Audio past its retention gets no other attempt, unless its result is staged.
RecoverLease(g) ==
    /\ Abandoned(g) /\ ~Exhausted(g)
    /\ Release(g, "RETRY_WAIT", IF ~Staged(g) /\ "audio" \in aged THEN "none" ELSE "due")
    /\ status' = IF status = "PROCESSING" THEN "RETRY_WAIT" ELSE status
    /\ UNCHANGED <<deletion, key, textVars, attempts, callVars, wake, workVars, uploadVars,
                   eraseVars, scanVars>>

CloseExhausted(g) ==
    /\ Abandoned(g) /\ Exhausted(g)
    /\ Exhaust(g, {"PROCESSING"})
    /\ UNCHANGED <<deletion, key, textVars, attempts, calls, wake, workVars, uploadVars,
                   eraseVars, scanVars>>

RequeueDue(g) ==
    /\ job[g] = "RETRY_WAIT" /\ retry[g] = "due" /\ status = "RETRY_WAIT"
    /\ wake' = wake \union {g}
    /\ UNCHANGED <<noteVars, textVars, jobVars, callVars, workVars, uploadVars,
                   eraseVars, scanVars>>

Expirable ==
    /\ \/ status = "UPLOADING" /\ "upload" \in aged
       \/ status \in {"QUEUED", "RETRY_WAIT", "FAILED"} /\ "audio" \in aged
    /\ \A g \in Generations : job[g] # "PROCESSING"
    /\ ~ModelText

Latest(g) == job[g] # "none" /\ \A h \in Generations : h > g => job[h] = "none"

\* Mutant: a note that waits for a retry has been told of already.
TellQueued ==
    told' = [g \in Generations |-> IF Latest(g) /\ status \notin {"UPLOADING", "FAILED", "RETRY_WAIT"}
                                      THEN told[g] \union {"failed"} ELSE told[g]]

\* The last job is told of as failed, unless it was when the note failed.
TellExpired ==
    told' = [g \in Generations |-> IF Latest(g) /\ status \notin {"UPLOADING", "FAILED"}
                                      THEN told[g] \union {"failed"} ELSE told[g]]

ExpireNote ==
    /\ Expirable
    /\ status' = "EXPIRED"
    /\ deletion' = IF deletion = "DELETED" THEN deletion ELSE "EXPIRED"
    /\ job' = [g \in Generations |->
                 IF job[g] \in {"QUEUED", "RETRY_WAIT"} THEN "EXPIRED" ELSE job[g]]
    /\ retry' = [g \in Generations |->
                   IF job[g] \in {"QUEUED", "RETRY_WAIT"} THEN "none" ELSE retry[g]]
    /\ TellExpired
    /\ IF key THEN RequireErasure ELSE UNCHANGED eraseVars
    /\ UNCHANGED <<key, textVars, attempts, holder, live, calls, wake, workVars,
                   uploadVars, scanVars>>

\* Mutant: the multipart upload is not aborted.
UploadUnknown(s) == aborts' = [aborts EXCEPT ![s] = FALSE]

UploadKnown(s) == aborts' = [aborts EXCEPT ![s] = key]

ClaimDeletion(s) ==
    /\ cleanup[s] = "idle" /\ status \in Terminal
    /\ \/ erasure \in {"PENDING", "FAILED"} /\ erasable
       \/ erasure = "PROCESSING" /\ ~erasing
    /\ \A g \in Generations : job[g] = "PROCESSING" => ~live[g]
    /\ erasure' = "PROCESSING" /\ eraser' = s /\ erasing' = TRUE
    /\ UploadKnown(s)
    /\ cleanup' = [cleanup EXCEPT ![s] = "claimed"]
    /\ UNCHANGED <<noteVars, textVars, jobVars, callVars, wake, workVars, uploadVars, erasable>>

\* DeleteUpload: nothing can complete an upload that was aborted before the delete.
Erased(s) == IF aborts[s] \/ object = "stored" THEN "gone" ELSE object

EraseObject(s) ==
    /\ cleanup[s] = "claimed"
    /\ object' = Erased(s)
    /\ cleanup' = [cleanup EXCEPT ![s] = "erased"]
    /\ UNCHANGED <<noteVars, textVars, jobVars, callVars, wake, workVars,
                   upload, draft, aged, eraseVars, aborts>>

\* Storage fails, perhaps after it has done its work.
EraseFails(s) ==
    /\ cleanup[s] = "claimed"
    /\ object' \in {object, Erased(s)}
    /\ cleanup' = [cleanup EXCEPT ![s] = "failed"]
    /\ UNCHANGED <<noteVars, textVars, jobVars, callVars, wake, workVars,
                   upload, draft, aged, eraseVars, aborts>>

CompleteDeletion(s) ==
    /\ cleanup[s] = "erased" /\ erasure = "PROCESSING" /\ eraser = s
    /\ erasure' = "DELETED" /\ eraser' = NoOne /\ erasing' = FALSE
    /\ deletion' = "DELETED" /\ key' = FALSE
    /\ cleanup' = [cleanup EXCEPT ![s] = "idle"]
    /\ UNCHANGED <<status, textVars, jobVars, callVars, wake, workVars, uploadVars,
                   erasable, aborts>>

FailDeletion(s) ==
    /\ cleanup[s] = "failed" /\ erasure = "PROCESSING" /\ eraser = s
    /\ erasure' = "FAILED" /\ eraser' = NoOne /\ erasing' = FALSE /\ erasable' = FALSE
    /\ deletion' = IF deletion \in {"PENDING", "SCHEDULED"} THEN "FAILED" ELSE deletion
    /\ cleanup' = [cleanup EXCEPT ![s] = "idle"]
    /\ UNCHANGED <<status, key, textVars, jobVars, callVars, wake, workVars, uploadVars, aborts>>

\* The fence is lost, a transaction fails, or the process dies.
StopScan(s) ==
    /\ cleanup[s] # "idle"
    /\ cleanup' = [cleanup EXCEPT ![s] = "idle"]
    /\ UNCHANGED <<noteVars, textVars, jobVars, callVars, wake, workVars, uploadVars,
                   eraseVars, aborts>>

EraserExpires ==
    /\ erasure = "PROCESSING" /\ erasing
    /\ erasing' = FALSE
    /\ UNCHANGED <<noteVars, textVars, jobVars, callVars, wake, workVars, uploadVars,
                   erasure, eraser, erasable, scanVars>>

ErasureDue ==
    /\ erasure = "FAILED" /\ ~erasable
    /\ erasable' = TRUE
    /\ UNCHANGED <<noteVars, textVars, jobVars, callVars, wake, workVars, uploadVars,
                   erasure, eraser, erasing, scanVars>>

\* A day passes since the note was created, and since its first job was.
Ages(what) ==
    /\ what = "audio" => "upload" \in aged /\ job[1] # "none"
    /\ aged' = aged \union {what} /\ what \notin aged
    /\ UNCHANGED <<noteVars, textVars, jobVars, callVars, wake, workVars,
                   object, upload, draft, eraseVars, scanVars>>

\* The participant submits the capture.
CloseDraft ==
    /\ draft
    /\ draft' = FALSE
    /\ UNCHANGED <<noteVars, textVars, jobVars, callVars, wake, workVars,
                   object, upload, aged, eraseVars, scanVars>>

-----------------------------------------------------------------------------

CompleteUpload(r) ==
    \/ UploadRead(r) \/ CompleteAudio(r) \/ GiveUp(r) \/ AcceptUpload(r)
    \/ RejectUpload(r) \/ CloseUpload(r) \/ ReturnLate(r)

ProcessNote(w, g) ==
    \/ Claim(w, g) \/ ClaimExhausted(w, g) \/ ReadStaged(w, g) \/ StartCall(w, g)
    \/ Answer(w, g) \/ StageResult(w, g) \/ Fail(w, g) \/ Complete(w, g)

Scan(g) == RecoverLease(g) \/ CloseExhausted(g) \/ RequeueDue(g)

Erase(s) ==
    \/ ClaimDeletion(s) \/ EraseObject(s) \/ EraseFails(s) \/ CompleteDeletion(s)
    \/ FailDeletion(s)

Next ==
    \/ \E r \in Requests : CompleteUpload(r)
    \/ Discard \/ AbortUpload \/ Revise \/ Confirm \/ CloseDraft
    \/ \E w \in Workers : Stop(w) \/ AttemptEnds(w)
    \/ \E w \in Workers, g \in Generations : ProcessNote(w, g)
    \/ \E g \in Generations :
          Retry(g) \/ Settle(g) \/ LeaseExpires(g) \/ BackoffEnds(g) \/ Scan(g)
    \/ \E s \in Scanners : Erase(s) \/ StopScan(s)
    \/ ExpireNote \/ EraserExpires \/ ErasureDue
    \/ \E what \in {"upload", "audio"} : Ages(what)

Spec == Init /\ [][Next]_vars

\* Time passes, workers and scanners return, the scheduler keeps scanning, and
\* neither a crash, nor a failing database or storage, nor a step slower than the
\* lease meets every single try.
Fairness ==
    /\ \A what \in {"upload", "audio"} : WF_vars(Ages(what))
    /\ WF_vars(EraserExpires) /\ WF_vars(ErasureDue) /\ WF_vars(ExpireNote)
    /\ \A w \in Workers :
         /\ WF_vars(AttemptEnds(w))
         /\ WF_vars(Stop(w) \/ \E g \in Generations : ProcessNote(w, g))
    /\ \A g \in Generations :
         WF_vars(LeaseExpires(g)) /\ WF_vars(BackoffEnds(g)) /\ WF_vars(Scan(g))
    /\ \A w \in Workers :
         /\ SF_vars(\E g \in Generations : Claim(w, g))
         /\ SF_vars(\E g \in Generations : ReadStaged(w, g) /\ Fenced(w, g))
         /\ SF_vars(\E g \in Generations : Complete(w, g))
    /\ \A s \in Scanners :
         /\ WF_vars(StopScan(s) \/ Erase(s))
         /\ SF_vars(ClaimDeletion(s))
         /\ SF_vars(EraseObject(s)) /\ SF_vars(CompleteDeletion(s))

FairSpec == Spec /\ Fairness

-----------------------------------------------------------------------------
(* Properties *)

\* The note's status is the status of its one pending job, whichever of the
\* worker, the scans and the participant moved either: no job is left behind a
\* note that waits, and no two are worked on.
OneJobBehindNote ==
    /\ \A g \in Generations : job[g] \in Pending => status = job[g]
    /\ status \in Pending => \E g \in Generations : job[g] = status
    /\ \A g, h \in Generations : job[g] \in Pending /\ job[h] \in Pending => g = h

\* Two workers never have a provider call in flight for the note: an attempt's own
\* deadline ends before its lease can be taken over.
OneCallInFlight ==
    \A v, w \in Workers :
        /\ work[v] = "calling" /\ running[v] /\ work[w] = "calling" /\ running[w]
        => v = w

\* A transcript that was paid for is never lost to a failure or an expiry, even
\* if the worker dies after storing it in the last attempt.
PaidResultKept == ModelText => status \notin {"FAILED", "EXPIRED"}

\* Once a generation's transcript is stored the provider is not called for it
\* again: what is left to do is to finish the note
\* (docs/estudo-transcricao-checklist.md, 7.4).
NotPaidAgain ==
    [][\A g \in Generations : Staged(g) => calls'[g] = calls[g]]_vars

\* Every call is paid by an attempt that was counted when the job was claimed.
CallsCounted == \A g \in Generations : calls[g] <= attempts[g]

\* The audio is there as long as a worker or a retry may need it.
AudioKeptForWork == status \in Pending \union {"FAILED"} => object = "stored"

\* An erasure recorded as done left no object and no upload that could become one.
DeletionProven ==
    /\ erasure = "DELETED" => object = "gone"
    /\ deletion = "DELETED" => erasure = "DELETED"

\* A text that people wrote is replaced only by another one, and a confirmation
\* never outlives the text it was given for.
ReviewedTextKept ==
    [][/\ current # 0 /\ texts[current] = 0 => current' # 0 /\ texts'[current'] = 0
       /\ confirmed /\ confirmed' => current' = current]_vars

\* The end of a job is announced with it.
EndTold ==
    \A g \in Generations :
        /\ job[g] \in {"FAILED", "EXPIRED"} => "failed" \in told[g]
        /\ job[g] = "COMPLETED" => "completed" \in told[g]

\* Whatever becomes of the note, its audio is erased in the end and stays so.
AudioErased == <>[](erasure = "DELETED" /\ object = "gone")
-----------------------------------------------------------------------------
(* The generations as leased work                                             *)

\* The abstract state of a job: whether it waits for its first or for another try
\* makes no difference, and a job that was canceled with its note is dropped.
Progress(g) ==
    CASE job[g] = "none"                      -> "absent"
      [] job[g] \in {"QUEUED", "RETRY_WAIT"} -> "waiting"
      [] job[g] = "PROCESSING"                -> "held"
      [] job[g] = "COMPLETED"                 -> "done"
      [] job[g] \in {"FAILED", "EXPIRED"}    -> "failed"
      [] OTHER                                -> "dropped"

Work == INSTANCE LeasedWork WITH
    Jobs <- Generations, None <- NoOne,
    state <- [g \in Generations |-> Progress(g)],
    owner <- [g \in Generations |-> IF job[g] = "PROCESSING" THEN holder[g] ELSE NoOne],
    lapsed <- [g \in Generations |-> job[g] = "PROCESSING" /\ ~live[g]],
    busy <- [w \in Workers |-> IF work[w] = "idle" THEN NoOne ELSE handling[w]],
    told <- {p \in Generations \X {"done", "failed"} :
               (IF p[2] = "done" THEN "completed" ELSE "failed") \in told[p[1]]}

\* Each generation is taken under a lease, ended once by the worker that has the
\* lease or by a scan when nobody has, and announced with its end; a worker that
\* comes back late changes none.
ImplementsWork == Work!LSpec
====

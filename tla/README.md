# Verification of the inspection service

This directory holds TLA+ models of the inspection service
(`src/services/inspection`), the TLC configurations that check them on small
instances, and proofs of their safety properties that TLAPS checks for every
value of the constants.

The service is a Go back end: a PostgreSQL database that every feature shares, a
RabbitMQ broker for integration events between worker processes, an object store for
media, and providers behind HTTP or SMTP (e-mail, WhatsApp, language models).
Features are vertical slices under `internal/features`; what they share is under
`internal/platform`. `PROJECT.json` names, for every definition of a model,
the lines of the source it stands for.

* [The system](#the-system): the inventory of its parts
* [The modules](#the-modules): what each models, abstracts and leaves out
* [The runs](#the-runs): what TLC checks, with which bounds and fairness
* [The proofs](#the-proofs): what TLAPS proves and along which argument
* [What the models found](#what-the-models-found)
* [What is not modelled](#what-is-not-modelled), and [the plan](#the-plan)

To check: `tlc -config OutboxTopology.cfg MCOutboxDelivery`, and likewise for the
other pairs of the tables below; `tlapm OutboxDeliveryProofs.tla`.

## The system

| Part | State it keeps | Operations | What is hard | What makes it correct |
|---|---|---|---|---|
| **Integration messaging** (`platform/messaging`, `features/messaging`) | outbox rows, inbox receipts; queues, retry queues, dead letters in the broker | emit, claim a batch, publish, settle a row; receive, handle in one transaction with a receipt, acknowledge, retry, dead-letter | several replicas, claims that age under their holder, lost confirmations and acknowledgements, uncertain commits, retries that fan out to other queues | effects once, a published row stays published, no event lost but where the broker drops an unconfirmed retry, every other one settles |
| **Notifications** (`features/notifications`, `platform/notifications`) | delivery, channel attempt with lease and receipt, execution history, encrypted link, provider callbacks | request, reserve, render, call the provider, persist the outcome, reconcile expired leases, record a callback, resend | I/O outside transactions, crashes between I/O and its record, callbacks before the receipt, concurrent webhooks that read without locks | no e-mail twice, no bad end in silence, links kept for retries, statuses backed by reports, nothing executed again by a late webhook |
| **Voice notes** (`features/transcription`) | note, revisions, jobs with a fenced lease, staged results, call ledger, upload, audio deletions | complete an upload, claim, call, stage, complete or fail, edit, confirm, retry, discard; scans: recover leases, requeue, expire, erase | a paid call between two transactions, leases taken over, the last attempt, expiry against work, erasure against a late upload | at most one call in flight, no paid result lost or paid again, people's text kept, audio erased but never too early |
| **Inspections, invitations, capture, analysis** (`features/inspections`, `invitations`, `capture`, `analysis`) | inspection with its version, responsibilities, drafts and answers, invitations and sessions, comparison jobs, classification runs | create, dispatch, resend, correct, revoke, first access, answer, submit; cancel, invalidate; compare, classify | validation on an unlocked read, events that arrive late and in any order, several results at once, deadlines against submissions | submitted evidence is never canceled, no link outlives its draft, one verdict per outcome, the newest result waits for one |
| **Recapture** (`features/recapture`) | requests with a responsibility, a draft and a deadline each | request, correct, expire by a manager or by the deadline's event | correction, deadline and closing meet | one outcome per request, one open at most, the open one ends |
| **Media: video preparation** (`features/media`) | preparation job with lease, phase and pending keys; frames and their objects; screening of the source | reserve, renew, screen, extract, store frames one by one, discover, seal, fail; retry, declare a false positive | lease and heartbeat, uploads and deletions outside transactions, crashes between an object and its row | frame bank all or nothing, no committed frame without object, a late holder changes nothing, a job settles |
| **Retention of video sources** (`features/retention`) | source with expiry, floor and deletion lease; holds, contestations, baselines, playback leases, deletion requests | claim what is due, take a request, check, delete, answer; hold, contest, activate, supersede, invalidate, watch, prepare again | the deletion happens after its checks, outside any transaction, and may stop half way | nothing protected is deleted, nothing retained lacks its original, promised windows never shrink, what is due expires |
| **Schedules** (`features/schedules`, `inspection-scheduler`) | schedules with their rule, due instant and version; materializations; reminder plans | create, edit, cancel; materialize what is due, block without an origin; remind | locks released before the work, creation and record in two transactions, one ordered batch for all schedules, a next instant that may be no later | one inspection per instant, no instant skipped by a replica, no punctual schedule moved back, none waits for one without an origin |
| Inventory, origins (`features/inventory`, `features/origins`) | versions, items, decisions | draft, decide, activate, discard | activation against another activation or release | one active version per asset |
| Counterparty (`features/counterparty`) | invitation, response | invite, respond, contest, sweep | answer against deadline sweep and video deletion | one answer; none after the deadline |
| Reports (`features/reports`) | snapshots, files, publications | snapshot, render, publish, invalidate | release against invalidation | one active publication |
| Projects (`features/projects`) | projects, stages | create, start, skip, close, reopen | version checks | stages in order |
| Catalog and access, read models, platform adapters, binaries and front ends | rows; none | create, read, update; queries; I/O; wiring | nothing over several steps | — |

How they interact. A feature never calls another one's tables across a process: it writes
an outbox row in its own transaction, and `OutboxDelivery` is how the row reaches the
handlers of the other features. Three things are called directly, inside the caller's
transaction: notifications are *requested* (`request.persist`) by invitations, reminders
and codes; holds are looked up by retention; stages are completed by inspections. Work
that is slow or paid (notifications, transcription, video, analysis) is always the same
shape: a row that is claimed under a lease in one transaction, I/O outside any, and the
outcome in another one that has to find the lease still its own. The models show the
variants the code has of it: `NotificationDelivery` (no fence on what was sent, hence `UNKNOWN`),
`VoiceNote` (fenced, with a staged result), `VideoPreparation` (fenced and renewed, with checkpoints
and a durable list of what has to be deleted) and `VideoSource` (a lease for a deletion, given
back or taken over); the last three implement one abstract specification, `LeasedWork`. `InspectionLifecycle` has no leases: its workers act on events under
row locks, and what is hard there is the order in which the events come.

The hazards of the modelled parts, with the line where each bites and the properties that would
catch it, are under `hazards` in `PROJECT.json`; what is hard in the other parts is in the table above and under [the plan](#the-plan).

## The modules

| Module | What it is |
|---|---|
| `EventDelivery` | what messaging promises: an abstract specification |
| `LeasedWork` | what is promised of work that is claimed under a lease: an abstract specification |
| `InspectionFlow` | what people are told of an inspection: an abstract specification |
| `RecurringWork` | what a recurring schedule promises: an abstract specification |
| `OutboxDelivery` | outbox, dispatchers, broker topology, consumers, inbox |
| `OutboxDeliveryProofs` | its theorems, and that it implements `EventDelivery` |
| `NotificationDelivery` | deliveries, executor, webhooks, resends |
| `NotificationDeliveryProofs` | its theorems, with the lemmas about the reading of callbacks |
| `VoiceNote` | one voice note: upload, jobs, texts, erasure |
| `VoiceNoteProofs` | its theorems, and that its jobs are `LeasedWork` |
| `VideoPreparation` | one preparation job: lease, screening, frame bank, discovery, seal |
| `VideoPreparationProofs` | its theorems, and that the job is `LeasedWork` |
| `VideoSource` | one retained recording: expiry, deletion, holds, baselines, requests |
| `VideoSourceProofs` | its theorems, and that the deletion is `LeasedWork` |
| `InspectionLifecycle` | one photo inspection: invitation, capture, recaptures, closing, comparison, classification |
| `InspectionLifecycleProofs` | its theorems, and that it implements `InspectionFlow` |
| `Schedule` | recurring schedules: materialization by replicas, edits, cancellations |
| `ScheduleProofs` | its theorems, and that it implements `RecurringWork` |
| `MCOutboxDelivery`, `MCNotificationDelivery`, `MCVoiceNote`, `MCVideoPreparation`, `MCVideoSource`, `MCInspectionLifecycle`, `MCSchedule` | model values, topologies and symmetries for TLC |

Each component's module has the constants and their named assumptions, the variables (one
comment each, with the column or process state it stands for), one action per
transaction or I/O step, `Next`, `Spec`, fairness, and the properties. Beside some
definitions stands a second one that has the same parameters and a bug that code could have
had (`LookForReceipt` in place of `InsertReceipt`, `ClaimableAlways` before `Claimable`): `PROJECT.json`'s
`mutants` says which property each of them breaks, which shows that the
property depends on that line of the code.

### The abstract specifications

Each says what a part promises with the means left out, and a module of the code is shown to implement it by an `INSTANCE ... WITH` at its end: the
substitution says which columns and process states an abstract variable is computed from. A theorem says of every instance that each step is an abstract step or
changes nothing abstract; for three of the six mappings below a run says it of a small one (`outbox_topology`, `video_preparation`, `schedule`; the other mappings were
checked with TLC before they were proved).

| Abstract | Detailed | What the substitution maps | What the abstract one excludes |
|---|---|---|---|
| `EventDelivery` | `OutboxDelivery` | the emitted rows, the count of committed handlers, the dead letters of each consumer's queues | a handler that commits twice, for a consumer that does not subscribe, or for an event that was never emitted |
| `LeasedWork` | `VideoPreparation` | the job's row, its token, the worker that has it in hand, the end that was announced | a job that is ended by a worker without its lease, taken under a running lease, or ended in silence |
| `LeasedWork` | `VoiceNote` | the job of each generation, its lease, the worker's job, the announcements | the same, with scans that recover a job, give it up or drop it |
| `LeasedWork` | `VideoSource` | the claim of a source in deletion; `EXPIRED` is done, `RETAINED` is waiting | the same, and a deletion that is taken back once it is done |
| `InspectionFlow` | `InspectionLifecycle` | status and version; the submitted draft, its photo, the open recapture | an inspection canceled after it was submitted, a second open recapture, a change without a new version. `Judge` is strict; what the code does beside it, a verdict on an invalidated inspection or one that waits for a correction, is a departure with a name of its own (`CompleteAnyway`) |
| `RecurringWork` | `Schedule` | `due`, the inspections with the replica that created each, the materialization rows | an instant worked for twice, or before it has come; a schedule that leaves an instant without its work unless a manager moves it; a `Punctual` schedule that goes back, or is worked for ahead of where it is |

### OutboxDelivery

State. `intent`, `stale`, `created`: an outbox row's status, whether its `claimed_at` is a
minute old, and its rank in `created_at`. `batch`, `phase`, `row`: where a replica's
`Dispatch` is in its loop. `bound`, `ready`, `parked`, `dead`: the broker's bindings, the copies
in each queue and each retry queue, the dead letters. `held`, `stage`: a consumer's unacknowledged
delivery and how far it is. `inbox`, `effects`: committed receipts and committed
runs of the handler (a history variable). `dropped`: the queues and events of which the broker dropped what the
consumer had published (a history variable). `faults`: adverse steps so far.

Actions. `Emit` is a business transaction that leaves a row. `Claim`, `PublishConfirmed`,
`PublishReturned`, `PublishFails`, `MarkPublished`, `MarkPending`, `MarkPendingFails` are the
statements of `Dispatcher.Dispatch`; each of the two updates that settle a row has the code's own
guard (`status='CLAIMED'`). `Receive`, `LookForReceipt`, `InsertReceipt`, `Duplicate`,
`Commit`, `CommitUncertain`, `Fail`, `DeadLetter`, `Retry`, `Drop`, `Requeue`, `Ack` are
`RabbitConsumer.Run` and `Consumer.Process`: looking for the receipt and inserting it are two steps,
because the look-up locks nothing, and the insert waits for a transaction that has
inserted the same receipt, as PostgreSQL's unique index does. `Crash` stops a replica anywhere.

The dispatcher's channel is in confirm mode and its publications are mandatory; the consumer's are neither (`publishQueue`): it publishes a retry or a dead letter and
acknowledges the message whatever becomes of the copy. `Drop` is that the broker did not keep it, and the event is gone from the queue. It counts as a fault. The way back from
a retry queue is the broker's own and taken to be reliable.

The topology is a parameter. The assumptions `RetriesReturn`, `RetriesStayHome` and
`LegacyReplaced` say what it must satisfy for retries, which pass through the exchange under the
queue's key, to reach their consumer again and no stranger. TLC evaluates
them for the video worker's topology (`VideoBinding`): one queue with two
keys that retries under one of them, beside the legacy queue that is
declared, unbound and drained.

Abstracted: payloads, the delays of the retry queues (an action lets a TTL end),
heartbeats and reconnects (`Crash` then a new `Receive`). The error that
sends a message of a busy job straight to the last retry queue is modelled (`busy`). Left
out: metrics, logs, and the broker's own delivery limit on quorum queues (20 by default),
which only a delivery requeued that often would meet.

### NotificationDelivery

`request.persist` creates one channel attempt per delivery, so a delivery stands for its
attempt. The event `notification.delivery_requested` is consumed only to validate it; the
executor polls the rows.

State. `attempt`, `attempts`, `due`, `lease`, `receipt`, `history`: the columns of the attempt and of
its executions. `delivery`, `announced`: the aggregate row and the terminal events.
`secret`, `link`: the encrypted link and whether its invitation is active. `accepted`: what the
provider really took (no code can read it; the properties do). `job`, `step`, `answer`: where a
replica's `RunDue` is. `arrived`, `recorded`, `correlated`, `request`: callbacks and the
open webhook transactions.

Atomicity. The executor's transactions lock the rows they write and are one action each
(`Reserve`, `Cancel`, `Persist`); the provider call is between two of them, and `Crash` may strike
before or after it. A webhook's transaction reads without locks under READ COMMITTED, so it is five steps
(`Receive`, `Correlate`, `WriteStatus`, `ReadAttempt`, `WriteDelivery`) that other transactions may
come between; `Abort` stands for whatever error or conflict rolls it back. `MayReturn` says which
answers an adapter may give when the provider did or did not take the message: an SMTP failure after
DATA is `unknown`, while a time-out of an HTTP client is reported as `transient`.

Simplified: the executor takes any due row rather than the oldest, which only
adds behaviours; a webhook body with several items is one item per request; statuses outside
the provider's vocabulary are one value, `UNSUPPORTED`. SMTP has no callbacks.

### VoiceNote

One note from the row `create_note_upload` inserts (`Init`) to the erasure of its audio. Workers, scanners and API
requests each do one thing at a time, so the holder of a lease stands for
its token. Every transaction locks the note first and is one action; what is between two of
them is not.

State. The note (`status`, `deletion`, `key`), its revisions (`texts`, `current`, `confirmed`; a revision is
the generation whose call produced it, or 0 when people wrote it), its jobs by generation (`job`, `attempts`, `holder`,
`live`, `retry`), the ledger (`calls`), the outbox (`told`) and the wakeups under way (`wake`), where each worker is (`work`,
`handling`, `running`, `answer`), the upload (`object`, `upload`, `draft`, `aged`), the row in
`audio_deletions` (`erasure`, `eraser`, `erasing`, `erasable`) and where each scanner is (`cleanup`, `aborts`).

Actions. *Upload*: `UploadRead`, `CompleteAudio`, `AcceptUpload` or `RejectUpload`, `CloseUpload`, `ReturnLate`
(`complete_note_upload`): the object is completed and verified outside the transaction that accepts
it. *Participant*: `Discard` and its `AbortUpload`, `Retry`, `Revise` (declare or edit), `Confirm`. *Worker*
(`process_note`): `Claim`, `ReadStaged`, `StartCall`, `Answer`, `StageResult`, `Complete`, `Fail`; `Quit` and `Stop` are the
returns and the crashes on the way; `ClaimExhausted` is a claim of a job that has used its attempts up; `AttemptEnds` is
the attempt's own deadline, which the code sets before the lease's. *Scans* (`expire_audio`): `RecoverLease`,
`CloseExhausted`, `RequeueDue`, `ExpireNote`, and `ClaimDeletion`, `EraseObject`, `EraseFails`, `CompleteDeletion`,
`FailDeletion`. *Time*: `LeaseExpires`, `BackoffEnds`, `EraserExpires`, `ErasureDue`, `Ages`.

`RequeueDue` re-arms a wakeup whose outbox row exists already, under the same identifier; it
appears as the wakeup being under way again. `Settle` is the end of a wakeup, by acknowledgement or in the
dead-letter queue. A concurrent insert of a result that exists makes `StageResult`
fail, which is `Stop`.

Abstracted: transcripts, languages and reasons; the highlight of a note, the codes shown for failures. Left out: stale
versions and repeated mutations (they change nothing), quotas (they only refuse), the check that the
participant may see the note, and the anchor of a recording. `upload_key` is cleared when a deletion
completes, so nothing re-arms a deletion that is `DELETED`, although the statement would (`RestartErasure`);
the invariant `Audio` of the proofs says so.

### VideoPreparation

One preparation job of one recording, `prepare_video`, and the commands that touch it. A reservation gets a fresh token, so the
holder of the lease is a worker; `expired` says that the lease's time has run out.

State. The job (`status`, `phase`, `attempts`, `holder`, `expired`); its frame bank (`pending`, the keys it has written down before
it uploads under them; `rows`, the committed frames; `objects`, what the store has; `anchored`, whether the bank is complete); the source
(`screening`, `overridden`, `media`); `announced`, the terminal events; where each worker is (`stage`, `next`, `keys`, `verdict`: what
it has read and may have become stale).

Actions. *Lease*: `Reserve`, `LeaseExpires`, `Heartbeat`, `LoseLease`, `Crash`, `Fail`. *A clean start*: `ReadOrphans`, `DeleteOrphan` and
`ClearPending`; the deletions are outside any transaction and nothing fences them. *Screening*: `Probe`, `Screen`, and
`PersistScreening`, which reads the token without a lock and then writes; `FinishBlocked`. *Frames*, one at a time: `Extract`, `ReadPending` and
`WritePending` (two steps, as `recordPendingKey` locks nothing between them), `PutFrame`, `VerifyFrame`, `RecordFrame`. *The end*:
`Discovering`, `MarkFrameBankReady`, `Discover`, `Seal`, `NotFound`, `MediaGone`. *People*: `RetryPreparation`, `DeclareFalsePositive`, `AbortMedia`.

A **stall** (`stalls`) is a lease that expires under a worker that is alive and goes on. The heartbeat is there to prevent
it, and what the code promises of objects (`FramesAccounted`) it keeps only without one, see
[below](#what-the-models-found); the bank's integrity and the seal hold with any number of them.

Left out: the playback proxy (stored and recorded as a frame is), a second generation of the job (a changed
profile), the scratch space, the detector that is switched off (`DISABLED` behaves as approval without a person).

### VideoSource

One retained recording, its original and its proxy. Time is in days, `today`.

State. The source (`status`, `anchor`, `expiry`, `floor`, the claim with its `claimant` and `lapsed`); `objects` and `proxied` (the proxy has a row);
what protects it (`held`, `inherited`, `contestation`, the state of each baseline in `version`, a `watching` viewer); the deletion
`request`; the preparation that runs on it (`prep`); where each scheduler is in its deletion.

Actions. *Deletion* (`expire_video_sources`): `ClaimDue`, `ReleaseStale`, `TakeRequest`, `RefuseRequest`, `ClaimRequested`, then `CheckClaim`,
`DeleteObject`, `DeletionFails`, `MarkExpired`, `LoseClaim`, `AnswerRequest`; `Crash` and `ClaimLapses`. A claim and each answer is a transaction; the
deletions between them are not. *Protection*: `SetHold`, `TakeInherited`, `ReleaseInherited`, `Contest`, `ResolveContestation`, `Watch`, `StopWatching`, each
with the guard its transaction reads under the source's lock. *Baselines*: `Activate`, `Supersede`, `Invalidate` with
`Transition`, which recomputes the window from the baselines that are left. *Preparation* as it
concerns the objects: `ReservePreparation` to `RecordProxy`, `FrameBankReady`, `PrepareAgain`. `RequestDeletion` and `Tomorrow`.

Left out: the purge of the frame banks of inactive versions and of whole inspections, deletion requests for an
inspection or a version, the extension that `promote_inspection_video` writes for legacy recordings.

### InspectionLifecycle

One photo inspection from `PLANNED` to its end. Capture 0 is the inspection's own responsibility and draft, capture `i` that of its `i`-th
recapture. There is one requirement, answered by a photo or declared impossible, and one photo.

State. The inspection (`status`, `version`), per capture the responsibility, its draft, its `answer`, its `invitation` and its recapture `request`;
`late`, the captures whose deadline has passed; `jobs`, the comparison jobs in order of creation, each with the `verdicts` that
judged it, and `overlooked`, those that ended behind the back of a classification; `events`, the messages under way, of which any may be handled next; `closing`, the cancellation or
invalidation that has been validated; `reading`, the classifications that have read their input; `news`, the jobs that ended since the last verdict.

Actions. *Invitation*: `Invite`, `Dispatch`, `Resend`, `CorrectEmail`, `Revoke`, `VerifyOTP`. *Capture*: `SaveMetadata`, `DeclareImpossibility`, `SubmitInspection`.
*Recapture*: `RequestRecapture`, `SubmitRecapture`, `ExpireRequest`, `ProcessDeadline`, `DeadlinePasses`. *Closing*: `Validate` on an unlocked read, then
`Close` under the version check, or `GiveUpClosing`. *Analysis*: `RequestComparisons`, `ProcessComparison`, `BeginClassify` and `Classify` (its lock is held between
them), `SkipClassify`. `Exhaust` is a message whose handler fails until it is dead-lettered.

A classification takes every job up to the newest one as it is when its lock is taken, and skips an event when nothing is newer than the last verdict. A job that is asked
for and ends while the lock is held is therefore older than that verdict: `Classify` puts it in `overlooked`. The transaction that ends a job, one that began before the lock and
commits after it included, is one step here.

A transaction is one action; the code splits only the two named above. What an event promises is `EventDelivery`'s: at most one effect, any delay, any order.
An invitation that was completed and one that was revoked are the same `ENDED`; a finished comparison that failed is `INCONCLUSIVE` or `COMPLETED` as
its result decides. A deadlock that PostgreSQL aborts changes nothing. `capture.submitted` of a recapture is ignored by
`request_comparisons`, as is asking for a recapture that is open already (it merges into it), and so neither is a message here. Left out:
video drafts and video recaptures, several requirements, environments, stages that end with their last
inspection, the inventory pipeline, triage.

### Schedule

The schedules of one tenant and the replicas of `inspection-scheduler` that serve it. An instant is a number. `Recurrence.Next` asks the rule
for its first instant after the given one and then makes the result of that instant's *date* at the clock of the schedule's start (`recurrence.go:51-61`); so a rule is a set of pairs, an
instant the rule yields and the one that is made of it, and `IsNext` is what `Next` returns. The two are the same for a rule without an hour of its own. A BYHOUR before the clock
of the start makes the second one the later; a BYHOUR after it, which the validation accepts, or a clock put forward over the hour makes it the earlier (`Late`), and then the next instant may be
the same again, or after an edit an earlier one. `Punctual` are the schedules none of whose rules is late. A rule with COUNT or UNTIL is a finite set.

State. The schedule (`status`, `due`, `version`, `rule`, `blocked`: whether it is blocked without an origin and still in its five minutes of
backoff); `trouble`, what its prerequisites lack (an active origin, or an active asset or participant); `inspections`, each with the replica that created it,
and `recorded`, the rows of `occurrence_materializations`; where each replica is (`stage`, `batch`, `hand`: the copies of rows it has read); `edit`, an
edit that has read its schedule and not written it.

Actions. *Materialization* (`MaterializeDue`): `ReadDue` (its locks end with it), then for the oldest of the batch `Look` (prerequisites, source
key), `OriginUnavailable` and `Block`, or `Refused`; `Insert`; `Record`, which writes the row and, if the schedule is still at that
instant, the next one, the same one too; `RecordFails`, when there is no next one or the row is there. Each is a transaction. `GiveUp` is a return out of the loop, which the code does on every error but an unavailable
origin. *Managers*: `ReadEdit` and `WriteEdit` (under the version), `Cancel`. *Environment*: `TroubleChanges`, `BackoffEnds`, `Tomorrow`, `Crash`.

Simplified: SKIP LOCKED and the limit of 100 rows of a pass, which only make a batch smaller, are not modelled; `Insert` and `RecordFails` end the pass on a
duplicate row, because PostgreSQL has aborted the transaction in which the code would look for the existing one. Left out: the reminders of an
occurrence (planned with its record, dispatched by a query of their own), creating a schedule while others run, the authorization of commands, the computation of rules in their time zone.

## The runs

All passing runs are exhaustive. Deadlock checking is off everywhere: a system with nothing to do may stop. What a run
shows is in its `about` in `PROJECT.json`; here are the bounds and why they are enough. No run lists `TypeOK`: the type invariants
are theorems.

| Run | Bounds | Checks | Why these bounds |
|---|---|---|---|
| `outbox_topology` | 2 events, 3 queues, 1 replica, 1 fault | `ImplementsDelivery` | the video worker's real keys: two queues share an inbox, two share a retry key, one is legacy |
| `outbox_replicas` | 2 events (one that no queue takes), 2 replicas, batch of 2, 2 faults | `EffectOnce` `NoEventLost` `EventuallySettled` | a claim taken over and a receipt raced for need two replicas; a dropped retry and another fault; an older row that always fails beside one that can succeed |
| `notif_email` | an e-mail and its resend, 2 replicas, 4 attempts | `EmailAcceptedOnce` `TerminalAnnounced` `RetryKeepsLink` | the deployed limit of attempts; a second replica to take a lease over |
| `notif_webhooks` | 1 message with a link, 2 replicas, 2 webhooks, 2 attempts; the first message reported as sent, as failed and in a way that is refused, the second as sent | `ReportedIsProven` `OnlyWebhooksRegress` `DeliverySettles` | two webhooks of one receipt beside an executor and the one that takes its lease over; a report that settles, one that ends and one that advances nothing; a crash at each attempt |
| `notif_regress` | 1 message, 2 webhooks | violates `TerminalStays` | the least that shows it |
| `voice_note` | 2 workers, 2 scanners, 1 request, 2 attempts, 1 generation, 2 revisions | `OneJobBehindNote` `AudioKeptForWork` `DeletionProven` `OneCallInFlight` `PaidResultKept` `EndTold` `NotPaidAgain` `ReviewedTextKept` | a job taken over between two workers, an erasure raced for by two scanners, an edit of a transcript (a second revision) |
| `voice_liveness` | 1 worker, 1 scanner, 1 request, 1 attempt, 2 generations | `AudioErased` | crashes and failures at every step of one note's life, and a retry |
| `video_preparation` | 2 workers, 2 frames, 2 attempts, 2 faults, 1 stall, 1 retry | `BankComplete` `FramesAccounted` `ImplementsWork` `BankNotRedone` `JobSettles` | a first frame and a last; a takeover between two workers, by crash or by a stall; the last attempt |
| `video_source` | 1 scheduler, 1 baseline, 2 days, 1 fault, 1 stall, 1 inherited hold, 1 rerun | `RetainedHasOriginal` `ExpiredIsGone` `CompletedIsDone` `ProtectedKept` `KeptAsPromised` `DueExpires` | a window that ends, one that does not; a claim that outlives its lease and is given back |
| `inspection_lifecycle` | 1 recapture | `SubmittedNeverCanceled` `OneCutoff` `AccessEnds` `JudgedOnce` `ResultAwaitsVerdict` `SubmissionJudged` `RecaptureSettles` | correction, deadline, closing and several comparison jobs meet; a second recapture is beyond TLC, and the theorems cover any number |
| `schedule` | 2 schedules, 2 replicas, days 0 and 1, 1 edit, 1 fault; a manager acts on one schedule, whose asset may be archived, the other lacks its origin at times and has a rule that ends or one that is late (`Evenings`) | `ImplementsRecurring` `NothingSkipped` `DueCreated` | two replicas with the same instant in hand, one of them late or dead; an edit overtaken by a record; a blocked schedule before one that lacks nothing; a schedule recorded without moving |
| `schedule_starved` | 2 schedules, 1 replica, a rule of one day | violates `EveryoneServed` | the least that shows it |

What no run contains, and a theorem covers instead: the announcement of a bad end that a webhook reports, two webhooks at once included (`EndsAnnounced`), more webhooks, messages or reports of each (`ReportsProven`, `WebhooksRegressOnly`), an edit of a schedule to a late rule (`NothingIsSkipped`), several schedulers or baselines of one recording, more than one recapture. Two requests that complete one
voice note's upload at once are in no run either. No run switches a channel off; what cancels an
attempt there is the end of the invitation.

Theorems that no run repeats, though TLC agreed with each before it was proved: `OneInspectionEach` and `SealIsFinal` of the two components
whose run checks the refinement instead, `LifecycleIsFlow`, `JobsAreLeasedWork` (the refinement takes the run of a voice note to more than three minutes) and
`DeletionIsLeasedWork`.

Named bounds in the modules: `MaxFaults` (adverse steps, `OutboxDelivery`, `VideoPreparation`, `VideoSource` and `Schedule`), `MaxStalls` (leases that expire
under a live holder), `MaxRetries` and `MaxRuns` (preparations asked for again), `MaxDay` (the last day of the calendar, or the last instant), `MaxEdits` and `Managed` (how many edits, and of which schedules;
`Rules` are what they choose from, `Troubles` what a schedule may come to lack), `MaxInherited` (holds
that come from an inspection), `Reports` (which states providers report of each message, `NotificationDelivery`), `MaxTexts` (nobody writes when a note has as many revisions, `VoiceNote`).
The attempts (`MaxAttempts`), generations (`MaxGenerations`) and recaptures (`MaxRecaptures`; the code's limit, `MaxRecaptureCycles`, is 5) are the code's own limits,
smaller in some runs. Where the processes of a kind are interchangeable and the property is not a liveness one, the configuration declares the symmetry.

### Fairness

*Messaging*: each loop of a running process goes on (`Dispatch`, `Consume`: the dispatch ticker and the range over deliveries),
and time passes (`RetryExpires`, `ClaimAges`). `Dispatch` and `Consume` contain the failures too, and faults
are bounded: events settle once faults cease for long enough.

*Notifications*: weak fairness of `RunDue` (`inspection-worker/main.go` calls it on a ticker), of backoffs and of leases running out. A
replica may crash at every step; what ends the behaviour is the limit of attempts, not luck.

*Voice notes*: weak fairness for time, for the scheduler's scans and for a worker that has begun: it goes on or stops.
Strong fairness, per worker and whatever job it has, and per scanner, where a step may fail again and again: a claim (its wakeup comes and goes), the read of a stored
result within the lease, `Complete`, the claim of a deletion, the
erasure and its record. It excludes that *every* try crashes or finds the database or the
store down, and with it the known limit that `docs/runbooks/transcription.md` records ("Limite conhecido": a stored transcript whose completion fails
for ever is recovered for ever).

*Video preparation*: weak fairness of every worker's `Attempt` (the loop reserves and goes on) and of leases running out. Crashes and
failures are steps of their own and bounded; the code does not count a crash as the end of a job, so an unbounded supply of
them would keep it from settling.

*Retention*: weak fairness of a deletion that has begun, of claims running out and of a preparation that has begun; strong fairness of the
claim of what is due, since a hold may come and go. `DueExpires` speaks of a source that is due for ever from
some moment on, not of one that somebody keeps protecting.

*Inspections*: weak fairness of the handlers of the events, of the deadlines' passing and of a classification that has begun. That each
event is handled in the end is `EventuallySettled` of `OutboxDelivery`. Nobody is obliged to answer, to submit or to correct.

*Schedules*: weak fairness of each replica's pass (a ticker of one minute) and of the end of a backoff. Nobody is obliged to activate an origin or to edit a
schedule, and time need not pass.

## The proofs

Every invariant and every action property that a passing run checks is a theorem, for any number of processes, events, attempts,
generations, frames, baselines, webhooks, recaptures and rules and any topology that satisfies the assumptions. Some have a guard in the property itself,
without which the code does not have it: the objects of a preparation without stalls, a deletion without inherited holds, a schedule that is punctual, an event whose retry was not dropped. The only assumptions are the named ones of the modules, which TLC evaluates in every
run. The type invariants of the seven components, `CallsCounted` and `PublishedStaysPublished` are theorems that no run repeats.

**OutboxDelivery** (`IInv`). `TypeCorrect` needs no more than types. `EffectAtMostOnce` adds `OneHandler`: the unique
index lets one transaction at a time handle an event for a consumer, and none
after the receipt is committed; without it, two replicas that both found no receipt would both
commit. `NothingLost` adds `ConfirmedIsRouted` (a dispatcher about to close a row has seen it routed to every subscriber:
`CoveredStays` is the lemma that a covered event stays covered, or is dropped, through retries, dead letters, crashes
and unbindings), `BindingsKept` and `HeldFromQueue`. `DeliveryImplemented` adds `OnlySubscribed`, so that with `EffectOnce` each
step maps to a step of `EventDelivery` or to a stutter (`RefinementStep`): only `Emit`, the commits and
`DeadLetter` are visible. `PublishedIsFinal` is an action property and follows from the types: each update has its guard.

**NotificationDelivery** (`IInv`). `EmailOnce` rests on `ReservedOnce` (one replica executes a delivery at a time, also when a lease has
run out under it) and `NotYetAccepted` (what is queued, or held and not yet sent, no server has accepted; nor when the adapter
calls the failure transient). `EndsAnnounced` needs `AggregateAnnounced`: the announcement is made on a
change of the aggregate, so the aggregate must never run ahead of it. `LinkKept` needs `RenderedWithLink`
and `ReceiptIsFinal` (a late webhook finds no attempt that is still open). `ReportsProven` adds `AnswerAccepted` (a replica that goes to persist
a success was answered by the provider) and `ReportInHand` (what an open webhook is about to write was recorded for the receipt it found); the
evidence it compares with only grows (`EvidenceGrows`) and a stored receipt stays (`ReceiptStays`), which is why any number of webhooks
with old views can show nothing that was not reported.

What webhooks do to the order of statuses takes a section of its own. A webhook computes its status by replaying every callback of its receipt from the status it
has read (`Correlated`), a recursion over the callbacks. `CorrelatedFollows`, that the result follows from the status in the lifecycle, is an induction without the library's
induction theorems: were it false there would be a shortest replay that leaves the lifecycle (`LeastNumber`, from the well-foundedness of `<`), it is not the
empty one, and the one before it follows, so that one callback (`AdvanceFollows`) and the transitivity of the lifecycle contradict it. A webhook
that replays from a status another has overwritten can take the message back, as `notif_regress` shows;
`WebhooksRegressOnly` bounds the damage, for any number of them: only a webhook's own update leaves the lifecycle, it leaves it among settled statuses and for one a provider has reported, and no
message is executed again by it.

**VoiceNote**. `WorkInv` is inductive: types; `StagedSeen` (a worker that is about to complete a note has its transcript stored); `Jobs` (the note's status is that of its only pending job; earlier generations
are over); `Leases` (a worker within its attempt's deadline holds the live lease of its job, hence one worker only); `Paid` (a
note with a transcript that was paid for is being processed, waits for a retry, or is completed or discarded; only the job that
the transcript belongs to can be pending; and a worker that has not yet stored one and still has the lease is
not overtaken by another's);
`Counts` (calls never outnumber attempts, with a place left for a worker that has claimed and not called). It gives `OneJob`, `OneCall`,
`PaidKeptAlways`, `CallsBounded` and `PaidOnce`. `EndsTold` adds the announcements to it, and `JobsAreLeasedWork` needs no more: `Leases` and the fence make a step of a worker that has lost its lease a `Leave`, or nothing. `ReviewKept` what the shown
text may be replaced by. `Audio` follows the object: it is gone, or its deletion is asked for, only when the note has
ended for good; a scanner that has claimed the deletion aborts the multipart upload too; a request that has verified the
object has completed the upload; it gives `AudioKept` and `DeletedIsGone`.

**VideoPreparation**. `IInv` has two halves. `FrameInv` holds whatever leases do: a worker has committed each frame it has gone past
(`GoesInOrder`), since a frame is committed only under the row's lock by its holder and a committed frame is never withdrawn; hence
`BankAlwaysComplete`. `SealIsFinal` follows from types, as every late write names the token. `StoreInv` speaks of behaviours without a stall: leases that run
out only when nobody renews them leave one worker at a time (`SoleHolder`), so that what it knows of the store is still so (`HolderKnows`) and an
attempt after the frame bank goes straight to the discovery (`BankRemembered`); hence `FramesKept` and `BankReused`. `PreparationIsLeasedWork` needs types alone and holds with any
number of stalls: every write that ends the job compares the token, so what a worker that has lost it does is a `Leave`, or nothing.

**VideoSource** (`IInv`). `ClaimedUnowned`: a source in deletion belonged to nobody when it was claimed, and only a hold on its inspection or
on a baseline can have come since. `ClaimKept` and `NotGivenBack`: without stalls a worker that deletes has its claim, and without such holds
nothing gives a source back. `LeavesNothing` and `OriginalGone` follow the objects through the deletion, `OneWindow` the two ways a source is
kept (its own expiry, or a baseline with a floor). They give `RetainedKeepsOriginal`, `ExpiredLeavesNothing`, `CompletedSaysDone`,
`ProtectedIsKept` and `PromiseKept`. `DeletionIsLeasedWork` needs `ClaimantAtWork` (the scheduler that has the claim is between its
claim and its answer, and the source in deletion), an invariant by itself; it holds with stalls, with holds that come during a deletion and with claims that are given back.

**InspectionLifecycle** (`IInv`). `SubmissionWins` needs `ClosingSound`: what was validated on an unlocked read holds as
long as the version does, because each writer of the status takes a new version; and `StillPlanned`. `LinksEnd` needs `InHand`, `CutoffIsOne` its own
statement. `OneVerdict` and `ResultsAreAwaited` need `OneAtATime`: one classification has the lock, and what it is about to
judge has a result and no verdict; with them, `SeenLate`: a newest result without a verdict is in `news`, where the next event finds it, or was `overlooked`. `LifecycleIsFlow` adds `FlowInv`: nothing is
compared, judged or counted as evidence before the submission (`SubmittedFirst`), what a manager may invalidate is not closed while the version lasts
(`InvalidatesOpen`), and an inspection that waits for a recapture has an open one (`WaitsForSomething`). Each change of the status is then the one
abstract step it is meant to be, and the verdict over `INVALIDATED` or an open recapture the departure `CompleteAnyway`; the theorem says that there is no other.

**Schedule** (`IInv`). `OneInspectionEach` needs types alone: `Insert` is admitted by the source key. `NothingIsSkipped` needs `HandCreated` (a replica
that is about to record an occurrence holds one whose inspection is there, whoever created it) and `EditAhead` (an edit of a punctual schedule that still finds the version it has
read leads no further back than the schedule is, because every other writer of the instant takes a new version). `ScheduleIsRecurring` adds `NothingAhead` (what a replica has in hand, and what has been
worked for or noted, its schedule has reached, if punctual, and so has the clock), hence an occurrence is created for an instant the schedule waits for or has passed, and the row that notes it moves the schedule only if that is still
there (`ReplicaWorks`, `RecurringStep`).

The conjuncts of the inductive invariants were checked with TLC before they were proved, and so were the type invariants.

### Only model-checked

`EventuallySettled`, `DeliverySettles`, `AudioErased`, `JobSettles`, `DueExpires`, `SubmissionJudged`, `RecaptureSettles` and `DueCreated`: liveness under fairness is
beyond these provers, as is anything with `ENABLED`. There are no recursive operators; the one recursive function is `Correlated`'s, and what is proved of it is above.

## What the models found

Two statements of the repository's documents and comments do not hold of the code; each has a run whose counterexample shows it:

* `notifications/core/state.go` says that terminal states never regress; two webhooks, one with the SENT and one with the DELIVERED report, that both read the attempt as
  ACCEPTED before either commits can put SENT over DELIVERED (`notif_regress`).
* The requirements of recurring inspections (US-011, EC-10) say that of many schedules due together every one gets its occurrence; an error other than an
  unavailable origin ends the pass, and two of them return at every pass: a rule with COUNT or UNTIL that has no instant after its last occurrence, an archived
  asset. The schedules that are due after it get nothing (`schedule_starved`).

Observations made while modelling, without a run. They are of two kinds: the code differs from a text, or does something its authors may want to know.

*Messaging and notifications.* The technical specification (`_techspec.md:491`: "Publishers use confirms and mandatory routing") and `task_02.md:24` ask for confirms and mandatory
routing of every publication. The consumer's own, of retries and dead letters, have neither, and the message is acknowledged after them (`consumer.go:90`, `105`, `126`): what the broker
does not keep is lost without a trace, and `NoEventLost` shows that nothing else is. A row whose publication fails is due again at once and nothing reads its `attempts`; since `Dispatch` takes the
oldest rows first, as many such rows as a batch holds keep every later event from being published; `outbox_replicas` holds because its batch has
room for one more. A time-out of the HTTP client while the provider answers is classified as transient (`providers.go:164`) and
the message is sent again, although `operational-notifications-runbook.md` says that an interrupted call is not repeated. A callback that comes while the
transaction that stores its receipt is open can be missed by both, although `callbacks/setup.go:22` says it is replayed. The identifier of the terminal
event depends on nothing but the delivery and its state, so after a regression of the status the second event conflicts with the first
and every later webhook of that receipt fails. A resend does not recompute the aggregate of the delivery it replaces, and a failed read of a link counts as
its absence.

*Voice notes.* A process that dies between the creation of a multipart upload and the insert of its note leaves an upload no row names.

*Video preparation.* A worker that stalls between `ReadOrphans` and `DeleteOrphan` and loses its lease deletes a frame of the next holder, although
`prepare_video/setup.go:137` means to exclude it; two workers can lose each other's pending key, and a screening can be written by a worker that has just
lost its token. Reservations that end in a crash are counted, but not limited.

*Retention.* `docs/runbooks/video.md` says that a source becomes `EXPIRED` only when its original and its proxies are absent; a requested deletion lists the
proxies that have a row, and leaves one that an interrupted preparation had stored and not recorded. A deletion request can be answered COMPLETED of a source that a hold on its inspection has meanwhile given back, and a source can be given back to
`RETAINED` after its original was deleted (`releaseStaleDeleteClaim`); both need a hold that comes during the deletion. Invalidating a draft extends the
retention. A requested deletion does not look at `FirstFrameReadyAt`. The runbook speaks of 5 days where `DefaultCurrentDays` is 30.

*Schedules.* `recurrence.go:50` says "Next returns the first occurrence strictly after the supplied instant". Line 60 makes the result of the rule's instant at the clock of the start: with a
BYHOUR or BYMINUTE after that clock it can be the supplied instant again, and so it can where the clock is put forward (02:30 in Europe/Berlin on that day: the rule's instant is 03:30, the
one made of it 03:00). The occurrence is then recorded, the schedule stays where it is, and every later pass fails on the row that is there and ends, as with a rule that has no further
instant. The schedule never moves although its rule goes on, and those behind it starve. An edit to such a rule can move a schedule back. A schedule that is canceled after a replica has read it as due still gets an inspection (US-011, EC-9 says none). An edit that keeps the due
instant while an occurrence is being created is followed by the next instant of the old rule, as the version is not compared there (`service.go:321`). An
edit of an overdue schedule, even of its deadline alone, moves it past the overdue instant, which then has no inspection. The last occurrence of a rule that
ends is created and never recorded, so its reminders are never planned; nor are they when a crash between creation and record is followed by an edit that moves the schedule or by a
cancellation. A reminder that is due before its invitation has been dispatched is canceled (US-013, EC-8 says that the invitation is sent first).

*Inspections.* The requirements say that final reporting waits for a recapture's completion or deadline; the classification of a result that was on its way
completes the inspection with the recapture open, and that recapture can then neither be submitted nor expire. A classification completes an inspection that has been invalidated (`classify_inspection/setup.go:241`, under no condition), although a manager who asks anything of it is told that the
"inspection is terminal" (`core.go:638`) and US-014, EC-9 says that a mutation of an invalidated inspection is rejected; comparisons go on for it. These are the two ways of `CompleteAnyway`. An
inspection that was submitted without any answer stays `ANALYZING`: its comparison is refused, and it can be neither canceled nor
invalidated; so does one whose recapture ended without an answer. A recapture's event compares the newest draft, submitted or not, and a late `capture.submitted` makes
a job for a superseded draft the newest. A job that is created and finished while a classification has the lock is not judged (`overlooked`). Canceling an inspection leaves its
invitation active until an event has revoked its sessions. The lock orders of a request and of a deadline differ; PostgreSQL aborts one.

## What is not modelled

* The parts under [the plan](#the-plan), and what the sections of the modules name as left out.
* Catalog and access features: one transaction per command under a version check, nothing over several steps.
* Read models, metrics, audit rows and logs: they change nothing the properties speak of.
* Adapters (database, broker client, object store, PDF, video, LLM gateway): they appear in the models as the atomicity and the
  possible outcomes of the actions that use them. The prompts, schemas and scoring of the analysis are data.
* Front ends and wiring; the order in which the workers call the executors is the fairness above.
* Alerts, in-app records and deadline reminders: consumers of one event with one insert; how the event reaches them is `OutboxDelivery`.
* `link_delivery`: no caller.

## The plan

What could follow, in order of importance, each with its proofs module:

1. `Invitation`: the attempts of a one-time code under concurrent verification, the rotation of tokens with their grace period, the revocation of
   sessions by an event. Theorem: a code is verified at most the allowed number of times.
2. Video recaptures and replacements in `InspectionLifecycle`: a received video keeps its request open past the deadline until its preparation ends.
3. `Publication`, `Counterparty`, `Inventory`: one active publication, answer and version; deadlines against late answers.
4. `Capture` and `Project`: several requirements and environments, stages in order.
5. The inventory pipeline, as one more implementation of `LeasedWork`; the executions of `NotificationDelivery` are not one, as their outcome is not fenced by
   the lease but by the state of the attempt.

Bounds: two of each process, one aggregate, the code's own limits of attempts where a run stays under a few minutes.

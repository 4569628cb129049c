---- MODULE VideoSource ----
(***************************************************************************)
(* The retained original of one recording that needs a playback proxy: when  *)
(* it may be deleted, by whom, and what keeps it.  Scheduler processes claim  *)
(* a source whose expiry has come, or that a deletion request names, under a  *)
(* lease of two minutes, and delete its objects outside transactions, while    *)
(* operators hold it, a counterparty contests it, baselines come to own it and *)
(* leave it, people watch it and workers prepare it again.                     *)
(*                                                                            *)
(* Time is counted in days.  A token is fresh for every claim, so "the token   *)
(* matches" is "this worker is the claimant".                                  *)
(***************************************************************************)
EXTENDS Integers, FiniteSets

CONSTANTS Workers,         \* scheduler processes
          Versions,        \* versions of the origin that own the source
          CurrentDays,     \* retention after the first preparation
          SupersededDays,  \* retention after the last baseline has left it
          MaxDay,          \* bound: the last day
          MaxFaults,       \* bound: crashes and failed deletions
          MaxStalls,       \* bound: leases that expire under a living claimant
          MaxInherited,    \* bound: holds on the inspection or on a version
          MaxRuns,         \* bound: preparations requested again
          None             \* not a worker

ASSUME SourceBounds ==
    /\ CurrentDays \in Nat \ {0} /\ SupersededDays \in Nat \ {0} /\ MaxDay \in Nat
    /\ MaxFaults \in Nat /\ MaxStalls \in Nat /\ MaxInherited \in Nat /\ MaxRuns \in Nat
    /\ None \notin Workers

Objects == {"original", "proxy"}

NoDay == -1

VARIABLES
    status,      \* status of the source
    anchor,      \* retention_anchor
    expiry,      \* source_expiry_at
    floor,       \* retention_floor_at
    ready,       \* first_frame_ready_at is set
    claimant,    \* the worker whose token is in delete_lease_token
    lapsed,      \* delete_lease_until has passed
    version,     \* status of the versions
    left,        \* the day a version was superseded or, if not, invalidated
    held,        \* an active hold on the source
    inherited,   \* an active hold on its inspection or on a version of it
    contestation,\* the counterparty's answer to a version
    watching,    \* a playback lease is running
    prep,        \* progress of the newest preparation
    proxied,     \* the row of the proxy exists
    objects,     \* what is in the store
    request,     \* status of the deletion request
    stage,       \* what each worker does next
    keys,        \* objects it has left to delete
    asked,       \* it works for the deletion request
    today, faults, stalls, inheritances, runs

expiryVars == <<anchor, expiry, floor, ready>>
claimVars == <<status, claimant, lapsed>>
versionVars == <<version, left>>
holdVars == <<held, inherited, contestation, watching>>
storeVars == <<prep, proxied, objects>>
workerVars == <<stage, keys, asked>>
budgetVars == <<today, faults, stalls, inheritances, runs>>
vars == <<expiryVars, claimVars, versionVars, holdVars, storeVars, request, workerVars, budgetVars>>

Days == 0..(MaxDay + CurrentDays + SupersededDays)

TypeOK ==
    /\ status \in {"RETAINED", "DELETING", "EXPIRED"}
    /\ anchor \in {"FIXED", "ACTIVE_BASELINE"}
    /\ expiry \in Days \union {NoDay} /\ floor \in Days \union {NoDay}
    /\ claimant \in Workers \union {None}
    /\ ready \in BOOLEAN /\ lapsed \in BOOLEAN
    /\ version \in [Versions -> {"DRAFT", "ACTIVE", "SUPERSEDED", "INVALIDATED"}]
    /\ left \in [Versions -> 0..MaxDay \union {NoDay}]
    /\ held \in BOOLEAN /\ inherited \in BOOLEAN /\ watching \in BOOLEAN
    /\ contestation \in {"PENDING", "OPEN", "RESOLVED"}
    /\ prep \in {"queued", "running", "loaded", "put", "done", "failed"}
    /\ proxied \in BOOLEAN
    /\ objects \subseteq Objects
    /\ request \in {"none", "REQUESTED", "BLOCKED", "COMPLETED"}
    /\ stage \in [Workers -> {"idle", "asked", "refused", "check", "delete", "answer"}]
    /\ keys \in [Workers -> SUBSET Objects]
    /\ asked \in [Workers -> BOOLEAN]
    /\ today \in 0..MaxDay /\ faults \in 0..MaxFaults /\ stalls \in 0..MaxStalls
    /\ inheritances \in 0..MaxInherited /\ runs \in 0..MaxRuns

\* The first probe has just inserted the source.
Init ==
    /\ status = "RETAINED" /\ claimant = None /\ lapsed = FALSE
    /\ anchor = "FIXED" /\ expiry = NoDay /\ floor = NoDay /\ ready = FALSE
    /\ version = [v \in Versions |-> "DRAFT"] /\ left = [v \in Versions |-> NoDay]
    /\ held = FALSE /\ inherited = FALSE /\ contestation = "PENDING" /\ watching = FALSE
    /\ prep = "loaded" /\ proxied = FALSE /\ objects = {"original"}
    /\ request = "none"
    /\ stage = [w \in Workers |-> "idle"] /\ keys = [w \in Workers |-> {}]
    /\ asked = [w \in Workers |-> FALSE]
    /\ today = 0 /\ faults = 0 /\ stalls = 0 /\ inheritances = 0 /\ runs = 0

Later(a, b) == IF a < b THEN b ELSE a

\* EffectiveSourceHeld.
EffectivelyHeld == held \/ inherited \/ contestation = "OPEN"

\* ActiveBaselineReferences.
ActiveBaseline == \E v \in Versions : version[v] = "ACTIVE"

Owned == EffectivelyHeld \/ ActiveBaseline

Preparing == prep \in {"running", "loaded", "put"}

Fault == faults < MaxFaults /\ faults' = faults + 1

-----------------------------------------------------------------------------
(* Deletion *)

Due == status = "RETAINED" /\ anchor = "FIXED" /\ expiry # NoDay /\ expiry <= today

\* Mutant: a deletion that was interrupted is not looked for.
FoundDue == Due

\* What RunDue's query finds.
Found == Due \/ (status = "DELETING" /\ lapsed)

Claim(w) ==
    /\ status' = "DELETING" /\ claimant' = w /\ lapsed' = FALSE
    /\ stage' = [stage EXCEPT ![w] = "check"]

\* RunDue, the transaction that claims.
ClaimDue(w) ==
    /\ stage[w] = "idle"
    /\ Found /\ ready /\ ~Owned /\ ~watching /\ ~Preparing
    /\ Claim(w)
    /\ UNCHANGED <<expiryVars, versionVars, holdVars, storeVars, request, keys, asked, budgetVars>>

\* Mutant: a deletion that did not finish in time goes back to the schedule.
ReleaseLapsed ==
    /\ status = "DELETING" /\ lapsed /\ ready
    /\ status' = "RETAINED" /\ claimant' = None /\ lapsed' = FALSE
    /\ UNCHANGED <<expiryVars, versionVars, holdVars, storeVars, request, workerVars, budgetVars>>

\* releaseStaleDeleteClaim: a deletion under way that has come to be owned is
\* given up, whatever it has deleted.
ReleaseStale ==
    /\ status = "DELETING" /\ lapsed /\ ready /\ Owned
    /\ status' = "RETAINED" /\ claimant' = None /\ lapsed' = FALSE
    /\ UNCHANGED <<expiryVars, versionVars, holdVars, storeVars, request, workerVars, budgetVars>>

\* A worker picks the deletion request up.
TakeRequest(w) ==
    /\ stage[w] = "idle" /\ request \in {"REQUESTED", "BLOCKED"}
    /\ stage' = [stage EXCEPT ![w] = "asked"]
    /\ asked' = [asked EXCEPT ![w] = TRUE]
    /\ UNCHANGED <<claimVars, expiryVars, versionVars, holdVars, storeVars, request, keys, budgetVars>>

\* What blocks a requested deletion, in blockReason and again in DeleteRequested.
Blocked ==
    \/ status = "DELETING" /\ ~lapsed
    \/ Owned \/ anchor = "ACTIVE_BASELINE"
    \/ watching \/ Preparing

RefuseRequest(w) ==
    /\ stage[w] = "asked" /\ Blocked
    /\ stage' = [stage EXCEPT ![w] = "refused"]
    /\ UNCHANGED <<claimVars, expiryVars, versionVars, holdVars, storeVars, request, keys, asked, budgetVars>>

\* DeleteRequested.
ClaimRequested(w) ==
    /\ stage[w] = "asked" /\ ~Blocked
    /\ IF status = "EXPIRED"
         THEN /\ stage' = [stage EXCEPT ![w] = "answer"]
              /\ UNCHANGED claimVars
         ELSE Claim(w)
    /\ UNCHANGED <<expiryVars, versionVars, holdVars, storeVars, request, keys, asked, budgetVars>>

\* WHERE status = 'DELETING' AND delete_lease_token = <w's token>.
Fenced(w) == status = "DELETING" /\ claimant = w

\* w is done, or answers the request it works for.
Ends(w, answered) ==
    /\ stage' = [stage EXCEPT ![w] = IF answered /\ asked[w] THEN "answer" ELSE "idle"]
    /\ keys' = [keys EXCEPT ![w] = {}]
    /\ asked' = IF answered THEN asked ELSE [asked EXCEPT ![w] = FALSE]

\* Mutant: the proxies are not listed.
CheckOriginal(w) ==
    /\ stage[w] = "check" /\ Fenced(w)
    /\ IF Owned \/ anchor = "ACTIVE_BASELINE"
         THEN /\ status' = "RETAINED" /\ claimant' = None /\ lapsed' = FALSE
              /\ Ends(w, TRUE)
         ELSE /\ keys' = [keys EXCEPT ![w] = {"original"}]
              /\ stage' = [stage EXCEPT ![w] = "delete"]
              /\ UNCHANGED <<claimVars, asked>>
    /\ UNCHANGED <<expiryVars, versionVars, holdVars, storeVars, request, budgetVars>>

\* deleteClaim, its first transaction: the last look at what owns the source.
CheckClaim(w) ==
    /\ stage[w] = "check" /\ Fenced(w)
    /\ IF Owned \/ anchor = "ACTIVE_BASELINE"
         THEN /\ status' = "RETAINED" /\ claimant' = None /\ lapsed' = FALSE
              /\ Ends(w, TRUE)
         ELSE /\ keys' = [keys EXCEPT ![w] = {"original"} \union (IF proxied THEN {"proxy"} ELSE {})]
              /\ stage' = [stage EXCEPT ![w] = "delete"]
              /\ UNCHANGED <<claimVars, asked>>
    /\ UNCHANGED <<expiryVars, versionVars, holdVars, storeVars, request, budgetVars>>

\* Outside any transaction, the original first.
DeleteObject(w) ==
    /\ stage[w] = "delete"
    /\ \E k \in keys[w] :
          /\ "original" \in keys[w] => k = "original"
          /\ objects' = objects \ {k}
          /\ keys' = [keys EXCEPT ![w] = @ \ {k}]
    /\ UNCHANGED <<claimVars, expiryVars, versionVars, holdVars, prep, proxied, request,
                   stage, asked, budgetVars>>

\* Mutant: the failure is recorded and not returned.
DeletionFailsQuietly(w) ==
    /\ stage[w] = "delete" /\ keys[w] # {}
    /\ Fault
    /\ IF Fenced(w)
         THEN lapsed' = TRUE /\ claimant' = None
         ELSE UNCHANGED <<lapsed, claimant>>
    /\ Ends(w, TRUE)
    /\ UNCHANGED <<status, expiryVars, versionVars, holdVars, storeVars, request,
                   today, stalls, inheritances, runs>>

\* The store fails; recordFailure ends the lease.
DeletionFails(w) ==
    /\ stage[w] = "delete" /\ keys[w] # {}
    /\ Fault
    /\ IF Fenced(w)
         THEN lapsed' = TRUE /\ claimant' = None
         ELSE UNCHANGED <<lapsed, claimant>>
    /\ Ends(w, FALSE)
    /\ UNCHANGED <<status, expiryVars, versionVars, holdVars, storeVars, request,
                   today, stalls, inheritances, runs>>

\* Its last transaction.
MarkExpired(w) ==
    /\ stage[w] = "delete" /\ keys[w] = {} /\ Fenced(w)
    /\ status' = "EXPIRED" /\ claimant' = None /\ lapsed' = FALSE
    /\ Ends(w, TRUE)
    /\ UNCHANGED <<expiryVars, versionVars, holdVars, storeVars, request, budgetVars>>

\* Both transactions look for the token.
LoseClaim(w) ==
    /\ stage[w] = "check" \/ (stage[w] = "delete" /\ keys[w] = {})
    /\ ~Fenced(w)
    /\ Ends(w, FALSE)
    /\ UNCHANGED <<claimVars, expiryVars, versionVars, holdVars, storeVars, request, budgetVars>>

\* setStatus: COMPLETED when DeleteRequested returned no error.
AnswerRequest(w) ==
    /\ stage[w] \in {"answer", "refused"}
    /\ request' = IF stage[w] = "answer" THEN "COMPLETED" ELSE "BLOCKED"
    /\ Ends(w, FALSE)
    /\ UNCHANGED <<claimVars, expiryVars, versionVars, holdVars, storeVars, budgetVars>>

Crash(w) ==
    /\ stage[w] # "idle"
    /\ Fault
    /\ claimant' = IF claimant = w THEN None ELSE claimant
    /\ Ends(w, FALSE)
    /\ UNCHANGED <<status, lapsed, expiryVars, versionVars, holdVars, storeVars, request,
                   today, stalls, inheritances, runs>>

\* Two minutes pass; under a living claimant only when it stands still.
ClaimLapses ==
    /\ status = "DELETING" /\ ~lapsed
    /\ lapsed' = TRUE
    /\ IF claimant # None
         THEN stalls < MaxStalls /\ stalls' = stalls + 1
         ELSE UNCHANGED stalls
    /\ UNCHANGED <<status, claimant, expiryVars, versionVars, holdVars, storeVars, request,
                   workerVars, today, faults, inheritances, runs>>

-----------------------------------------------------------------------------
(* Holds, contestations and playback *)

\* Mutant: the status of the source is not looked at.
SetHoldAnyway ==
    /\ held' = ~held
    /\ UNCHANGED <<claimVars, expiryVars, versionVars, inherited, contestation, watching,
                   storeVars, request, workerVars, budgetVars>>

\* lockRetentionScope refuses both on a source that is being deleted.
SetHold ==
    /\ status # "DELETING"
    /\ held' = ~held
    /\ UNCHANGED <<claimVars, expiryVars, versionVars, inherited, contestation, watching,
                   storeVars, request, workerVars, budgetVars>>

\* A hold on the inspection or on a version does not look at the source.
TakeInherited ==
    /\ ~inherited /\ inheritances < MaxInherited
    /\ inherited' = TRUE /\ inheritances' = inheritances + 1
    /\ UNCHANGED <<claimVars, expiryVars, versionVars, held, contestation, watching,
                   storeVars, request, workerVars, today, faults, stalls, runs>>

ReleaseInherited ==
    /\ inherited /\ inherited' = FALSE
    /\ UNCHANGED <<claimVars, expiryVars, versionVars, held, contestation, watching,
                   storeVars, request, workerVars, budgetVars>>

\* Respond, with lockContestationSources; invitations go out at the activation.
Contest ==
    /\ contestation = "PENDING"
    /\ \E v \in Versions : version[v] # "DRAFT"
    /\ status # "DELETING"
    /\ contestation' = "OPEN"
    /\ UNCHANGED <<claimVars, expiryVars, versionVars, held, inherited, watching,
                   storeVars, request, workerVars, budgetVars>>

ResolveContestation ==
    /\ contestation = "OPEN" /\ contestation' = "RESOLVED"
    /\ UNCHANGED <<claimVars, expiryVars, versionVars, held, inherited, watching,
                   storeVars, request, workerVars, budgetVars>>

\* acquireSourceLease.
Watch ==
    /\ ~watching /\ status = "RETAINED"
    /\ \/ anchor = "ACTIVE_BASELINE"
       \/ expiry # NoDay /\ today < expiry
       \/ Owned
    /\ watching' = TRUE
    /\ UNCHANGED <<claimVars, expiryVars, versionVars, held, inherited, contestation,
                   storeVars, request, workerVars, budgetVars>>

StopWatching ==
    /\ watching /\ watching' = FALSE
    /\ UNCHANGED <<claimVars, expiryVars, versionVars, held, inherited, contestation,
                   storeVars, request, workerVars, budgetVars>>

-----------------------------------------------------------------------------
(* Baselines *)

\* latestRelease, after the versions have changed.
LatestLeft ==
    LET gone == {v \in Versions : version'[v] \in {"SUPERSEDED", "INVALIDATED"}}
    IN CHOOSE d \in {left'[v] : v \in gone} \union {NoDay} :
          \A v \in gone : left'[v] <= d

\* A baseline that left without a date leaves today.
LastDay == IF LatestLeft = NoDay THEN today ELSE LatestLeft

\* Mutant: the window the source already has is forgotten.
TransitionForgetful ==
    IF status # "RETAINED" THEN UNCHANGED <<anchor, expiry, floor>>
    ELSE IF ActiveBaseline'
    THEN /\ anchor' = "ACTIVE_BASELINE" /\ expiry' = NoDay
         /\ UNCHANGED floor
    ELSE IF anchor = "FIXED" /\ LatestLeft = NoDay THEN UNCHANGED <<anchor, expiry, floor>>
    ELSE /\ anchor' = "FIXED"
         /\ expiry' = Later(LastDay + SupersededDays, Later(floor, expiry))
         /\ UNCHANGED floor

\* BaselineTransition.Transition: while a baseline owns the source it has no
\* expiry; the one it had is the floor of the next.
Transition ==
    IF status # "RETAINED" THEN UNCHANGED <<anchor, expiry, floor>>
    ELSE IF ActiveBaseline'
    THEN /\ anchor' = "ACTIVE_BASELINE" /\ expiry' = NoDay
         /\ floor' = IF anchor = "FIXED" THEN Later(floor, expiry) ELSE floor
    ELSE IF anchor = "FIXED" /\ LatestLeft = NoDay THEN UNCHANGED <<anchor, expiry, floor>>
    ELSE /\ anchor' = "FIXED"
         /\ expiry' = Later(LastDay + SupersededDays, Later(floor, expiry))
         /\ UNCHANGED floor

\* The versions change and the source with them, or the transaction is refused.
\* What a version cites of the source is its frame bank.
Moves(v, s) ==
    /\ ready /\ status # "DELETING"
    /\ left' = [u \in Versions |-> IF u = v /\ s # "ACTIVE" /\ left[u] = NoDay THEN today
                                   ELSE IF u # v /\ s = "ACTIVE" /\ version[u] = "ACTIVE" THEN today
                                   ELSE left[u]]
    /\ version' = [u \in Versions |-> IF u = v THEN s
                                      ELSE IF s = "ACTIVE" /\ version[u] = "ACTIVE" THEN "SUPERSEDED"
                                      ELSE version[u]]
    /\ Transition
    /\ UNCHANGED <<claimVars, ready, holdVars, storeVars, request, workerVars, budgetVars>>

\* Activating a version takes the place of the active one.
Activate(v) == version[v] = "DRAFT" /\ Moves(v, "ACTIVE")

\* A version that has nothing of this source is activated over v.
Supersede(v) == version[v] = "ACTIVE" /\ Moves(v, "SUPERSEDED")

Invalidate(v) == version[v] # "INVALIDATED" /\ Moves(v, "INVALIDATED")

-----------------------------------------------------------------------------
(* Preparation: VideoPreparation, as far as it touches the source *)

Prepares(p) ==
    /\ prep' = p
    /\ UNCHANGED <<claimVars, versionVars, holdVars, request, workerVars, budgetVars>>

ReservePreparation ==
    /\ prep = "queued" /\ Prepares("running")
    /\ UNCHANGED <<expiryVars, proxied, objects>>

\* After the frame bank only the discovery is left; before it an unrecorded proxy
\* is deleted and the original read.
LoadOriginal ==
    /\ prep = "running"
    /\ \/ /\ ready
          /\ Prepares("done")
          /\ UNCHANGED objects
       \/ /\ objects' = IF proxied THEN objects ELSE objects \ {"proxy"}
          /\ Prepares(IF "original" \in objects THEN "loaded" ELSE "failed")
    /\ UNCHANGED <<expiryVars, proxied>>

\* ensurePlaybackProxy.
PutProxy ==
    /\ prep = "loaded" /\ ~proxied
    /\ objects' = objects \union {"proxy"}
    /\ Prepares("put")
    /\ UNCHANGED <<expiryVars, proxied>>

RecordProxy ==
    /\ prep = "put"
    /\ proxied' = TRUE
    /\ Prepares("loaded")
    /\ UNCHANGED <<expiryVars, objects>>

\* A recorded proxy that cannot be read back.
ProxyMissing ==
    /\ prep = "loaded" /\ proxied /\ "proxy" \notin objects
    /\ Prepares("failed")
    /\ UNCHANGED <<expiryVars, proxied, objects>>

\* markFrameBankReady, and the discovery.
FrameBankReady ==
    /\ prep = "loaded" /\ proxied
    /\ ready' = TRUE
    /\ IF ready THEN UNCHANGED <<expiry, floor>>
       ELSE IF anchor = "ACTIVE_BASELINE"
         THEN floor' = Later(floor, today + CurrentDays) /\ UNCHANGED expiry
         ELSE expiry' = today + CurrentDays /\ UNCHANGED floor
    /\ Prepares("done")
    /\ UNCHANGED <<anchor, proxied, objects>>

PreparationFails ==
    /\ Preparing
    /\ Fault
    /\ prep' \in {"queued", "failed"}
    /\ UNCHANGED <<claimVars, expiryVars, versionVars, holdVars, proxied, objects, request,
                   workerVars, today, stalls, inheritances, runs>>

\* retry and reprocess.
PrepareAgain ==
    /\ \/ prep = "done" /\ status = "RETAINED"
       \/ prep = "failed" /\ (status = "RETAINED" \/ (status = "EXPIRED" /\ ready))
    /\ runs < MaxRuns /\ runs' = runs + 1
    /\ prep' = "queued"
    /\ UNCHANGED <<claimVars, expiryVars, versionVars, holdVars, proxied, objects, request,
                   workerVars, today, faults, stalls, inheritances>>

-----------------------------------------------------------------------------

\* recordDeletionRequest, with rejectKnownDeletionBlock.
RequestDeletion ==
    /\ request = "none" /\ ~EffectivelyHeld
    /\ request' = "REQUESTED"
    /\ UNCHANGED <<claimVars, expiryVars, versionVars, holdVars, storeVars, workerVars, budgetVars>>

Tomorrow ==
    /\ today < MaxDay /\ today' = today + 1
    /\ UNCHANGED <<claimVars, expiryVars, versionVars, holdVars, storeVars, request,
                   workerVars, faults, stalls, inheritances, runs>>

Deletion(w) ==
    \/ CheckClaim(w) \/ DeleteObject(w) \/ MarkExpired(w) \/ LoseClaim(w) \/ AnswerRequest(w)
    \/ RefuseRequest(w) \/ ClaimRequested(w)

Preparation ==
    \/ ReservePreparation \/ LoadOriginal \/ PutProxy \/ RecordProxy \/ ProxyMissing
    \/ FrameBankReady

Baseline == \E v \in Versions : Activate(v) \/ Supersede(v) \/ Invalidate(v)

Next ==
    \/ \E w \in Workers :
          \/ ClaimDue(w) \/ TakeRequest(w) \/ Deletion(w) \/ DeletionFails(w) \/ Crash(w)
    \/ ReleaseStale \/ ClaimLapses
    \/ SetHold \/ TakeInherited \/ ReleaseInherited \/ Contest \/ ResolveContestation
    \/ Watch \/ StopWatching
    \/ Baseline
    \/ Preparation \/ PreparationFails \/ PrepareAgain
    \/ RequestDeletion \/ Tomorrow

Spec == Init /\ [][Next]_vars

\* The scheduler looks for due sources every five minutes and finishes what it
\* has claimed; claims and playback leases run out.
Fairness ==
    /\ \A w \in Workers : WF_vars(Deletion(w))
    /\ SF_vars(\E w \in Workers : ClaimDue(w))
    /\ WF_vars(ClaimLapses) /\ WF_vars(Preparation)

FairSpec == Spec /\ Fairness

-----------------------------------------------------------------------------
(* Properties *)

\* What is in the store and in the database.
Recorded == objects \ (IF proxied THEN {} ELSE {"proxy"})

\* Nothing of a source is deleted while a hold on it, an open contestation, an
\* active baseline or somebody who watches it stands, in whatever order they and
\* the claim arrived.
ProtectedKept ==
    [][stalls = 0 /\ ~(Recorded \subseteq objects') =>
          ~held /\ contestation # "OPEN" /\ ~ActiveBaseline /\ ~watching]_vars

\* A source that is offered as retained still has its original.  (A hold on the
\* inspection or on a version can end a deletion half way.)
RetainedHasOriginal ==
    inheritances = 0 /\ status = "RETAINED" => "original" \in objects

\* What the schedule has expired has left nothing behind, and nothing comes back.
ExpiredIsGone ==
    status = "EXPIRED" /\ request = "none" => objects = {}

\* The day the source is kept until, through baselines that come and go.
KeptUntil == Later(floor, expiry)

\* "never shortens a previously assigned expiry".
KeptAsPromised == [][KeptUntil' >= KeptUntil]_vars

\* A request is answered COMPLETED only when the original is gone.
CompletedIsDone ==
    inheritances = 0 /\ request = "COMPLETED" => "original" \notin objects

\* A source that is due, and that nothing keeps any more, expires.
DueExpires ==
    []<>(\/ status = "EXPIRED" \/ (status = "RETAINED" /\ ~Due)
         \/ Owned \/ watching \/ Preparing \/ ~ready)
-----------------------------------------------------------------------------
(* The deletion as leased work                                                *)

Progress ==
    CASE status = "RETAINED" -> "waiting"
      [] status = "DELETING" -> "held"
      [] OTHER               -> "done"

\* The only job there is.
Expiry == "expiry"

\* The status is the announcement: retention has no event.
Work == INSTANCE LeasedWork WITH
    Jobs <- {Expiry},
    state <- [j \in {Expiry} |-> Progress],
    owner <- [j \in {Expiry} |-> IF status = "DELETING" THEN claimant ELSE None],
    lapsed <- [j \in {Expiry} |-> status = "DELETING" /\ lapsed],
    busy <- [w \in Workers |-> IF stage[w] \in {"check", "delete"} THEN Expiry ELSE None],
    told <- IF status = "EXPIRED" THEN {<<Expiry, "done">>} ELSE {}

\* A deletion is claimed, taken over only when the claim has lapsed, and ended or
\* given up by the claimant alone; a source that has expired stays so.
ImplementsWork == Work!LSpec
====

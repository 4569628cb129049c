---- MODULE LeasedWork ----
(***************************************************************************)
(* What the features promise of work that is slow or paid, with no           *)
(* transactions, stores or providers in sight: a job is taken by one worker   *)
(* under a lease, taken from it only when that has run out, and ended once,   *)
(* by the worker that has the lease and together with the announcement of     *)
(* its end.  A worker that has lost its lease can only leave.                 *)
(*                                                                          *)
(* VideoPreparation, VoiceNote and VideoSource implement this specification. *)
(***************************************************************************)
CONSTANTS Jobs, Workers, None

VARIABLES
    state,    \* "absent", "waiting", "held", "done", "failed" or "dropped"
    owner,    \* who has the lease of a job that is held, or None
    lapsed,   \* that lease has run out
    busy,     \* the job each worker believes to have, or None
    told      \* the ends that have been announced

lvars == <<state, owner, lapsed, busy, told>>

LInit ==
    /\ state \in [Jobs -> {"absent", "waiting"}]
    /\ owner = [j \in Jobs |-> None] /\ lapsed = [j \in Jobs |-> FALSE]
    /\ busy = [w \in Workers |-> None]
    /\ told = {}

\* The job goes from its state to s, and nobody has its lease.
Becomes(j, s) ==
    /\ state' = [state EXCEPT ![j] = s]
    /\ owner' = [owner EXCEPT ![j] = None]
    /\ lapsed' = [lapsed EXCEPT ![j] = FALSE]

\* Work is requested, and again when it has failed.
Submit(j) ==
    /\ state[j] \in {"absent", "failed"}
    /\ Becomes(j, "waiting")
    /\ UNCHANGED <<busy, told>>

\* No worker has the job under a lease that runs.
Free(j) == state[j] = "waiting" \/ (state[j] = "held" /\ lapsed[j])

Take(w, j) ==
    /\ busy[w] = None /\ Free(j)
    /\ state' = [state EXCEPT ![j] = "held"]
    /\ owner' = [owner EXCEPT ![j] = w]
    /\ lapsed' = [lapsed EXCEPT ![j] = FALSE]
    /\ busy' = [busy EXCEPT ![w] = j]
    /\ UNCHANGED told

Lapse(j) ==
    /\ state[j] = "held" /\ ~lapsed[j]
    /\ lapsed' = [lapsed EXCEPT ![j] = TRUE]
    /\ UNCHANGED <<state, owner, busy, told>>

\* A lease that has run out is renewed as long as nobody has taken the job.
Renew(w, j) ==
    /\ state[j] = "held" /\ owner[j] = w
    /\ lapsed' = [lapsed EXCEPT ![j] = FALSE]
    /\ UNCHANGED <<state, owner, busy, told>>

\* w dies, or finds that its lease is lost; a lease that it still has may stay
\* behind, or be let go of.
Leave(w, j) ==
    /\ busy[w] = j /\ j \in Jobs
    /\ busy' = [busy EXCEPT ![w] = None]
    /\ \/ UNCHANGED <<owner, lapsed>>
       \/ /\ state[j] = "held" /\ owner[j] = w
          /\ owner' = [owner EXCEPT ![j] = None]
          /\ lapsed' \in {lapsed, [lapsed EXCEPT ![j] = TRUE]}
    /\ UNCHANGED <<state, told>>

\* w works on the job and has its lease.
Has(w, j) == state[j] = "held" /\ owner[j] = w /\ busy[w] = j

Complete(w, j) ==
    /\ Has(w, j)
    /\ Becomes(j, "done")
    /\ busy' = [busy EXCEPT ![w] = None]
    /\ told' = told \union {<<j, "done">>}

Fail(w, j) ==
    /\ Has(w, j)
    /\ Becomes(j, "failed")
    /\ busy' = [busy EXCEPT ![w] = None]
    /\ told' = told \union {<<j, "failed">>}

\* Another try is left, which may be announced as a failure, too.
GiveBack(w, j) ==
    /\ Has(w, j)
    /\ Becomes(j, "waiting")
    /\ busy' = [busy EXCEPT ![w] = None]
    /\ told' \in {told, told \union {<<j, "failed">>}}

\* A scan makes a job whose lease has run out wait again, ...
Recover(j) ==
    /\ state[j] = "held" /\ lapsed[j]
    /\ Becomes(j, "waiting")
    /\ UNCHANGED <<busy, told>>

\* ... or gives up one that nobody has.
GiveUp(j) ==
    /\ Free(j)
    /\ Becomes(j, "failed")
    /\ told' = told \union {<<j, "failed">>}
    /\ UNCHANGED busy

\* Who asked for it does not want it any more.
Drop(j) ==
    /\ state[j] = "waiting"
    /\ Becomes(j, "dropped")
    /\ UNCHANGED <<busy, told>>

LNext ==
    \/ \E j \in Jobs : Submit(j) \/ Lapse(j) \/ Recover(j) \/ GiveUp(j) \/ Drop(j)
    \/ \E w \in Workers, j \in Jobs :
          \/ Take(w, j) \/ Renew(w, j) \/ Leave(w, j)
          \/ Complete(w, j) \/ Fail(w, j) \/ GiveBack(w, j)

LSpec == LInit /\ [][LNext]_lvars
====

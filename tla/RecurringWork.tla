---- MODULE RecurringWork ----
(***************************************************************************)
(* What a recurring schedule promises, with no replicas' batches, versions,  *)
(* statements or rules in sight: an instant that has come is worked for once, *)
(* whoever does it; the schedule leaves an instant behind when its work is    *)
(* done, and notes that once; otherwise only who manages it moves it.  A      *)
(* punctual schedule never goes back; what the others wait for next may be    *)
(* any instant, the same one too.                                             *)
(*                                                                            *)
(* Schedule implements this specification.                                     *)
(***************************************************************************)
EXTENDS Integers

CONSTANTS
    Schedules, Workers,
    Punctual     \* the schedules whose next instant is a later one

VARIABLES
    active,   \* it has not been stopped
    at,       \* the instant it waits for
    done,     \* the work that has been done: schedule, instant, worker
    noted,    \* the instants whose work has been noted
    now

rvars == <<active, at, done, noted, now>>

RInit ==
    /\ active = [s \in Schedules |-> TRUE]
    /\ at \in [Schedules -> Nat]
    /\ done = {} /\ noted = {}
    /\ now = 0

Done(s, d) == \E w \in Workers : <<s, d, w>> \in done

\* An instant may have been left behind, and its schedule stopped, when a worker
\* that has begun gets to it; no worker is ahead of the clock, or of the schedule.
Work(s, d, w) ==
    /\ ~Done(s, d)
    /\ s \in Punctual => d <= at[s]
    /\ done' = done \union {<<s, d, w>>}
    /\ UNCHANGED <<active, at, noted, now>>

\* The schedule alone is given another instant to wait for.
Turns(s) ==
    /\ at'[s] \in Nat /\ at' = [at EXCEPT ![s] = at'[s]]
    /\ s \in Punctual => at'[s] > at[s]

Advance(s) ==
    /\ Done(s, at[s]) /\ <<s, at[s]>> \notin noted
    /\ noted' = noted \union {<<s, at[s]>>}
    /\ Turns(s)
    /\ UNCHANGED <<active, done, now>>

\* The schedule was moved on before the work was noted.
Note(s, d) ==
    /\ Done(s, d) /\ <<s, d>> \notin noted
    /\ d # at[s] /\ (s \in Punctual => d < at[s])
    /\ noted' = noted \union {<<s, d>>}
    /\ UNCHANGED <<active, at, done, now>>

Move(s) ==
    /\ active[s]
    /\ Turns(s)
    /\ UNCHANGED <<active, done, noted, now>>

Stop(s) ==
    /\ active[s]
    /\ active' = [active EXCEPT ![s] = FALSE]
    /\ UNCHANGED <<at, done, noted, now>>

Tick ==
    /\ now' = now + 1
    /\ UNCHANGED <<active, at, done, noted>>

RNext ==
    \/ \E s \in Schedules, d \in 0..now : Note(s, d) \/ \E w \in Workers : Work(s, d, w)
    \/ \E s \in Schedules : Advance(s) \/ Move(s) \/ Stop(s)
    \/ Tick

RSpec == RInit /\ [][RNext]_rvars
====

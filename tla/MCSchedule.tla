---- MODULE MCSchedule ----
(* Instances of Schedule for TLC. *)
EXTENDS Schedule

CONSTANTS s1, s2, r1, r2

\* Daily, and once, at the clock of the schedule's start.
Daily == {<<n, n>> : n \in 1..(MaxDay + 1)}
Once == {<<1, 1>>}

\* The rule's own hour is half a day later than that clock.
Evenings == {<<2 * n, 2 * n - 1>> : n \in 1..(MaxDay + 1)}

\* One goes on, the other ends or is late.
OneGoesOn == [s \in Schedules |-> IF s = s1 THEN {Daily} ELSE {Once, Evenings}]

\* One ends with its first occurrence, the other begins a day later.
FirstEnds == [s \in Schedules |-> IF s = s1 THEN {Once} ELSE {Daily \ Once}]

\* An asset is archived for one, the origin of the other is retired.
NoTroubles == [s \in Schedules |-> {}]
MixedTroubles == [s \in Schedules |-> IF s = s1 THEN {"refused"} ELSE {"origin"}]
====

---- MODULE ScheduleProofs ----
(***************************************************************************)
(* Theorems about Schedule, for any number of schedules, replicas, rules,    *)
(* instants, faults and edits.                                                *)
(***************************************************************************)
EXTENDS Schedule, TLAPS

-----------------------------------------------------------------------------
(* Types *)

LEMMA InitTyped == Init => TypeOK
<1> SUFFICES ASSUME Init PROVE TypeOK
  OBVIOUS
<1>1. due \in [Schedules -> Nat]
  BY ScheduleAssumption DEF Init
<1>2. \A s \in Schedules : rule[s] \in Rules[s]
  BY DEF Init
<1>3. rule \in [Schedules -> SUBSET (Nat \X Nat)]
  <2>1. \A s \in Schedules : Rules[s] \subseteq SUBSET (Nat \X Nat)
    BY ScheduleAssumption
  <2>2. rule = [s \in Schedules |-> rule[s]]
    BY DEF Init
  <2> QED BY <1>2, <2>1, <2>2
<1> QED BY <1>1, <1>2, <1>3, ScheduleAssumption DEF Init, TypeOK

\* What a replica reads is an item per schedule that is due.
LEMMA ReadTyped ==
    ASSUME TypeOK
    PROVE  {[schedule |-> s, due |-> due[s], rule |-> rule[s]] : s \in {s \in Schedules : Due(s)}}
             \in SUBSET Items
BY DEF TypeOK, Items, OfItsRules

\* The steps of a replica change its batch, its hand and what it records.
LEMMA ReplicaTyped ==
    ASSUME TypeOK, NEW r \in Replicas, Materialize(r) \/ Crash(r)
    PROVE  TypeOK'
<1> USE DEF scheduleVars, occurrenceVars, boundVars
<1>1. CASE ReadDue(r)
  <2>1. batch' \in [Replicas -> SUBSET Items]
    BY <1>1, ReadTyped DEF ReadDue, TypeOK
  <2>2. stage' \in [Replicas -> {"idle", "next", "block", "insert", "record"}]
        /\ \A p \in Replicas : stage'[p] \in {"block", "insert", "record"} => stage'[p] = stage[p]
    BY <1>1 DEF ReadDue, TypeOK
  <2> QED BY <1>1, <2>1, <2>2 DEF ReadDue, TypeOK
<1>2. CASE \E b \in batch[r] : Look(r, b) \/ OriginUnavailable(r, b)
  BY <1>2 DEF Look, OriginUnavailable, Take, TypeOK
<1>3. CASE Crash(r)
  BY <1>3 DEF Crash, GiveUp, TypeOK
<1>4. CASE (\E b \in batch[r] : Refused(r, b)) \/ RecordFails(r)
  BY <1>4 DEF Refused, RecordFails, GiveUp, TypeOK
<1>5. CASE Block(r)
  BY <1>5 DEF Block, GoOn, TypeOK
<1>6. CASE Insert(r)
  BY <1>6 DEF Insert, GiveUp, TypeOK, Items
<1>7. CASE Record(r)
  <2> DEFINE s == hand[r].schedule
             d == hand[r].due
  <2>1. hand[r] \in Items /\ s \in Schedules /\ d \in Nat /\ hand[r].rule \in SUBSET (Nat \X Nat)
    BY <1>7, ScheduleAssumption DEF Record, TypeOK, Items
  <2>2. recorded' \subseteq Occurrences
    BY <1>7, <2>1 DEF Record, TypeOK, Occurrences
  <2>3. due' \in [Schedules -> Nat] /\ version' \in [Schedules -> Nat]
        /\ blocked' \in [Schedules -> {"no", "waiting", "retry"}]
    BY <1>7, <2>1 DEF Record, TypeOK
  <2>4. /\ stage' \in [Replicas -> {"idle", "next", "block", "insert", "record"}]
        /\ hand' \in [Replicas -> Items \union {None}] /\ batch' = batch
        /\ \A p \in Replicas : stage'[p] \in {"block", "insert", "record"} => hand'[p] \in Items
    BY <1>7 DEF Record, GoOn, TypeOK
  <2> QED BY <1>7, <2>2, <2>3, <2>4 DEF Record, TypeOK
<1> QED BY <1>1, <1>2, <1>3, <1>4, <1>5, <1>6, <1>7 DEF Materialize

\* So do the steps of managers and the environment.
LEMMA OthersTyped ==
    ASSUME TypeOK, Next, \A r \in Replicas : ~(Materialize(r) \/ Crash(r))
    PROVE  TypeOK'
<1> USE DEF scheduleVars, occurrenceVars, replicaVars, boundVars
<1>1. ASSUME NEW s \in Schedules, ReadEdit(s) PROVE TypeOK'
  <2> PICK q \in Rules[s] : \E p \in q : edit' = [schedule |-> s, version |-> version[s], due |-> p[2], rule |-> q]
    BY <1>1 DEF ReadEdit
  <2>1. PICK p \in q : edit' = [schedule |-> s, version |-> version[s], due |-> p[2], rule |-> q]
    OBVIOUS
  <2>2. q \in SUBSET (Nat \X Nat) /\ p[2] \in Nat
    BY <2>1, ScheduleAssumption
  <2>3. edit' \in Edits /\ edits' \in Nat
    BY <1>1, <2>1, <2>2 DEF ReadEdit, TypeOK, Edits, OfItsRules
  <2> QED BY <1>1, <2>3 DEF ReadEdit, TypeOK
<1>2. CASE WriteEdit
  <2>1. edit \in Edits
    BY <1>2 DEF WriteEdit, TypeOK
  <2> QED BY <1>2, <2>1 DEF WriteEdit, SameVersion, TypeOK, Edits, OfItsRules
<1>3. ASSUME NEW s \in Schedules, Cancel(s) PROVE TypeOK'
  BY <1>3 DEF Cancel, TypeOK
<1>4. ASSUME NEW s \in Schedules, TroubleChanges(s) PROVE TypeOK'
  <2>1. {"none"} \union Troubles[s] \subseteq {"none", "origin", "refused"}
    BY ScheduleAssumption
  <2>2. trouble' \in [Schedules -> {"none", "origin", "refused"}]
    BY <1>4, <2>1 DEF TroubleChanges, TypeOK
  <2> QED BY <1>4, <2>2 DEF TroubleChanges, TypeOK
<1>5. ASSUME NEW s \in Schedules, BackoffEnds(s) PROVE TypeOK'
  BY <1>5 DEF BackoffEnds, TypeOK
<1>6. CASE Tomorrow
  BY <1>6, ScheduleAssumption DEF Tomorrow, TypeOK
<1> QED BY <1>1, <1>2, <1>3, <1>4, <1>5, <1>6, ScheduleAssumption DEF Next

LEMMA StepTyped == TypeOK /\ [Next]_vars => TypeOK'
<1>1. TypeOK /\ UNCHANGED vars => TypeOK'
  BY DEF vars, scheduleVars, occurrenceVars, replicaVars, boundVars, TypeOK
<1> QED BY <1>1, ReplicaTyped, OthersTyped

\* Every variable keeps its type: TypeOK, the schedules, what was created for
\* them, and where each replica is.
THEOREM ScheduleTypeCorrect == Spec => []TypeOK
<1> QED BY InitTyped, StepTyped, PTL DEF Spec

-----------------------------------------------------------------------------
(* The inductive invariant *)

\* A replica records an occurrence only when its inspection is there.
HandCreated ==
    \A r \in Replicas : stage[r] = "record" => Created(hand[r].schedule, hand[r].due)

\* An edit that finds the version it has read still leads forward, if no rule is late.
EditAhead ==
    edit # None =>
        /\ edit.version <= version[edit.schedule]
        /\ edit.version = version[edit.schedule] /\ edit.schedule \in Punctual =>
             edit.due >= due[edit.schedule]

IInv == TypeOK /\ HandCreated /\ EditAhead /\ OneInspection

LEMMA InitInv == Init => IInv
BY InitTyped DEF Init, IInv, HandCreated, EditAhead, OneInspection

\* An inspection is never removed.
LEMMA InspectionsGrow ==
    ASSUME TypeOK, [Next]_vars
    PROVE  inspections \subseteq inspections'
<1> USE DEF vars, occurrenceVars
<1>1. CASE UNCHANGED vars
  BY <1>1
<1>2. ASSUME NEW r \in Replicas, Materialize(r) \/ Crash(r) PROVE inspections \subseteq inspections'
  BY <1>2 DEF Materialize, Crash, ReadDue, Look, OriginUnavailable, Refused, Block, Insert, Record, RecordFails
<1>3. ASSUME NEW s \in Schedules, ReadEdit(s) \/ Cancel(s) \/ TroubleChanges(s) \/ BackoffEnds(s)
      PROVE inspections \subseteq inspections'
  BY <1>3 DEF ReadEdit, Cancel, TroubleChanges, BackoffEnds
<1>4. CASE WriteEdit \/ Tomorrow
  BY <1>4 DEF WriteEdit, Tomorrow
<1> QED BY <1>1, <1>2, <1>3, <1>4, ScheduleAssumption DEF Next

\* Created is kept by every step.
LEMMA CreatedStays ==
    ASSUME TypeOK, [Next]_vars, NEW s, NEW d, Created(s, d)
    PROVE  Created(s, d)'
BY InspectionsGrow DEF Created

\* A replica begins to record an occurrence whose inspection is there.
LEMMA HandBegun ==
    ASSUME IInv, [Next]_vars, NEW p \in Replicas, stage'[p] = "record", stage[p] # "record"
    PROVE  Created(hand[p].schedule, hand[p].due)'
<1> USE DEF vars, replicaVars, occurrenceVars, IInv, TypeOK
<1>1. CASE UNCHANGED vars
  BY <1>1
<1>2. ASSUME NEW r \in Replicas, Materialize(r) \/ Crash(r) PROVE Created(hand[p].schedule, hand[p].due)'
  <2>1. CASE ReadDue(r)
    BY <2>1 DEF ReadDue
  <2>2. CASE \E b \in batch[r] : Look(r, b)
    <3> PICK b \in batch[r] : Look(r, b)
      BY <2>2
    <3>1. p = r /\ hand'[p] = b /\ Created(b.schedule, b.due)
      BY DEF Look, Take
    <3> QED BY <3>1, CreatedStays DEF Created
  <2>3. CASE \E b \in batch[r] : OriginUnavailable(r, b) \/ Refused(r, b)
    BY <2>3 DEF OriginUnavailable, Refused, Take, GiveUp
  <2>4. CASE Block(r) \/ Record(r)
    BY <2>4 DEF Block, Record, GoOn
  <2>5. CASE Insert(r)
    <3>1. p = r /\ hand' = hand /\ <<hand[p].schedule, hand[p].due, p>> \in inspections'
      BY <2>5 DEF Insert, GiveUp
    <3> QED BY <3>1 DEF Created
  <2>6. CASE RecordFails(r) \/ Crash(r)
    BY <2>6 DEF RecordFails, Crash, GiveUp
  <2> QED BY <1>2, <2>1, <2>2, <2>3, <2>4, <2>5, <2>6 DEF Materialize
<1>3. ASSUME NEW s \in Schedules, ReadEdit(s) \/ Cancel(s) \/ TroubleChanges(s) \/ BackoffEnds(s)
      PROVE FALSE
  BY <1>3 DEF ReadEdit, Cancel, TroubleChanges, BackoffEnds
<1>4. CASE WriteEdit \/ Tomorrow
  BY <1>4 DEF WriteEdit, Tomorrow
<1> QED BY <1>1, <1>2, <1>3, <1>4, ScheduleAssumption DEF Next

\* A replica that goes on recording still holds the same occurrence.
LEMMA HandSame ==
    ASSUME IInv, [Next]_vars, NEW p \in Replicas, stage'[p] = "record", stage[p] = "record"
    PROVE  hand'[p] = hand[p]
<1> USE DEF vars, replicaVars, IInv, TypeOK
<1>1. CASE UNCHANGED vars
  BY <1>1
<1>2. ASSUME NEW r \in Replicas, Materialize(r) \/ Crash(r) PROVE hand'[p] = hand[p]
  BY <1>2 DEF Materialize, Crash, ReadDue, Look, OriginUnavailable, Refused, Take, Block, Insert,
              Record, RecordFails, GiveUp, GoOn
<1>3. ASSUME NEW s \in Schedules, ReadEdit(s) \/ Cancel(s) \/ TroubleChanges(s) \/ BackoffEnds(s)
      PROVE hand'[p] = hand[p]
  BY <1>3 DEF ReadEdit, Cancel, TroubleChanges, BackoffEnds
<1>4. CASE WriteEdit \/ Tomorrow
  BY <1>4 DEF WriteEdit, Tomorrow
<1> QED BY <1>1, <1>2, <1>3, <1>4, ScheduleAssumption DEF Next

LEMMA HandCreatedStep == IInv /\ [Next]_vars => HandCreated'
<1> SUFFICES ASSUME IInv, [Next]_vars, NEW p \in Replicas, stage'[p] = "record"
             PROVE  Created(hand[p].schedule, hand[p].due)'
  BY DEF HandCreated, Created
<1>1. CASE stage[p] = "record"
  <2>1. hand'[p] = hand[p] /\ Created(hand[p].schedule, hand[p].due)
    BY <1>1, HandSame DEF IInv, HandCreated
  <2> QED BY <2>1, CreatedStays DEF IInv, Created
<1>2. CASE stage[p] # "record"
  BY <1>2, HandBegun
<1> QED BY <1>1, <1>2

\* Only Insert adds an inspection, and only one that is not there.
LEMMA OneInspectionStep == IInv /\ [Next]_vars => OneInspection'
<1> SUFFICES ASSUME IInv, [Next]_vars PROVE OneInspection'
  OBVIOUS
<1> USE DEF vars, occurrenceVars, IInv
<1>1. CASE UNCHANGED vars
  BY <1>1 DEF OneInspection
<1>2. ASSUME NEW r \in Replicas, Insert(r) PROVE OneInspection'
  <2> DEFINE s == hand[r].schedule
             d == hand[r].due
  <2>1. CASE inspections' = inspections
    BY <2>1 DEF OneInspection
  <2>2. CASE ~Created(s, d) /\ inspections' = inspections \union {<<s, d, r>>}
    <3>1. \A x \in inspections : x = <<x[1], x[2], x[3]>> /\ x[3] \in Replicas
      BY DEF TypeOK
    <3>2. \A x \in inspections : ~(x[1] = s /\ x[2] = d)
      BY <2>2, <3>1 DEF Created
    <3> QED BY <2>2, <3>2 DEF OneInspection
  <2> QED BY <1>2, <2>1, <2>2 DEF Insert
<1>3. ASSUME NEW r \in Replicas, Materialize(r) \/ Crash(r), ~Insert(r) PROVE inspections' = inspections
  BY <1>3 DEF Materialize, Crash, ReadDue, Look, OriginUnavailable, Refused, Block, Record, RecordFails
<1>4. ASSUME NEW s \in Schedules, ReadEdit(s) \/ Cancel(s) \/ TroubleChanges(s) \/ BackoffEnds(s)
      PROVE inspections' = inspections
  BY <1>4 DEF ReadEdit, Cancel, TroubleChanges, BackoffEnds
<1>5. CASE WriteEdit \/ Tomorrow
  BY <1>5 DEF WriteEdit, Tomorrow, OneInspection
<1>6. inspections' = inspections => OneInspection'
  BY DEF OneInspection
<1> QED BY <1>1, <1>2, <1>3, <1>4, <1>5, <1>6, ScheduleAssumption DEF Next

-----------------------------------------------------------------------------
(* Who moves a schedule *)

\* With a rule that is not late, the next instant is a later one.
LEMMA NextIsLater ==
    ASSUME NEW s \in Punctual, NEW q \in Rules[s], NEW d \in Nat, NEW p \in q, IsNext(q, d, p)
    PROVE  p[2] > d
<1>1. p \in Nat \X Nat
  BY ScheduleAssumption DEF Punctual
<1>2. ~(p[2] < p[1])
  BY DEF Punctual, Late
<1> QED BY <1>1, <1>2 DEF IsNext

\* A replica moves a schedule from the instant it has in hand, to a later one if no
\* rule is late.
LEMMA RecordMoves ==
    ASSUME IInv, NEW r \in Replicas, Record(r), NEW s \in Schedules
    PROVE  \/ due'[s] = due[s] /\ version'[s] = version[s]
           \/ /\ hand[r].schedule = s /\ hand[r].due = due[s] /\ stage[r] = "record"
              /\ s \in Punctual => due'[s] > due[s]
              /\ version'[s] = version[s] + 1
<1>1. hand[r] \in Items /\ stage[r] = "record"
  BY DEF Record, IInv, TypeOK
<1>2. CASE hand[r].schedule = s /\ hand[r].due = due[s]
  <2>1. hand[r].rule \in Rules[s] /\ due[s] \in Nat
    BY <1>1, <1>2 DEF Items, OfItsRules, IInv, TypeOK
  <2>2. PICK p \in hand[r].rule : IsNext(hand[r].rule, due[s], p) /\ due' = [due EXCEPT ![s] = p[2]]
    BY <1>2 DEF Record, StillDue
  <2>3. due'[s] = p[2] /\ version'[s] = version[s] + 1
    BY <1>2, <2>2 DEF Record, StillDue, IInv, TypeOK
  <2> QED BY <1>1, <1>2, <2>1, <2>2, <2>3, NextIsLater
<1>3. CASE ~(hand[r].schedule = s /\ hand[r].due = due[s])
  BY <1>1, <1>3 DEF Record, StillDue, IInv, TypeOK
<1> QED BY <1>2, <1>3

\* Nothing else a replica does touches an instant or a version.
LEMMA ReplicasLeave ==
    ASSUME NEW r \in Replicas, Materialize(r) \/ Crash(r), ~Record(r)
    PROVE  UNCHANGED <<due, version, edit>>
BY DEF Materialize, Crash, ReadDue, Look, OriginUnavailable, Refused, Block, Insert, RecordFails, scheduleVars

\* Nor does the environment.
LEMMA OthersLeave ==
    ASSUME NEW s \in Schedules, TroubleChanges(s) \/ BackoffEnds(s)
    PROVE  UNCHANGED <<due, version, edit>>
BY DEF TroubleChanges, BackoffEnds, scheduleVars

LEMMA EditAheadStep == IInv /\ [Next]_vars => EditAhead'
<1> SUFFICES ASSUME IInv, [Next]_vars PROVE EditAhead'
  OBVIOUS
<1> USE DEF vars, scheduleVars
<1>1. UNCHANGED <<due, version, edit>> => EditAhead'
  BY DEF IInv, EditAhead
<1>2. ASSUME NEW r \in Replicas, Record(r) PROVE EditAhead'
  <2>1. edit' = edit
    BY <1>2 DEF Record
  <2> SUFFICES ASSUME edit # None
               PROVE  /\ edit.version <= version'[edit.schedule]
                      /\ edit.version = version'[edit.schedule] /\ edit.schedule \in Punctual =>
                           edit.due >= due'[edit.schedule]
    BY <2>1 DEF EditAhead
  <2>2. edit.schedule \in Schedules /\ edit.version \in Nat /\ edit.due \in Nat
    BY DEF IInv, TypeOK, Edits
  <2>3. version[edit.schedule] \in Nat
    BY <2>2 DEF IInv, TypeOK
  <2> QED BY <1>2, <2>2, <2>3, RecordMoves DEF IInv, EditAhead
<1>3. ASSUME NEW r \in Replicas, Materialize(r) \/ Crash(r) PROVE EditAhead'
  BY <1>1, <1>2, <1>3, ReplicasLeave
<1>4. ASSUME NEW s \in Schedules, ReadEdit(s) PROVE EditAhead'
  <2> PICK q \in Rules[s] : \E p \in q :
          /\ IsNext(q, IF due[s] > today THEN due[s] - 1 ELSE today, p)
          /\ edit' = [schedule |-> s, version |-> version[s], due |-> p[2], rule |-> q]
    BY <1>4 DEF ReadEdit
  <2>1. PICK p \in q :
          /\ IsNext(q, IF due[s] > today THEN due[s] - 1 ELSE today, p)
          /\ edit' = [schedule |-> s, version |-> version[s], due |-> p[2], rule |-> q]
    OBVIOUS
  <2>2. due[s] \in Nat /\ today \in Nat /\ version[s] \in Nat /\ UNCHANGED <<due, version>>
    BY <1>4 DEF ReadEdit, IInv, TypeOK
  <2>3. p[2] \in Nat
    BY <2>1, ScheduleAssumption
  <2>4. s \in Punctual => p[2] >= due[s]
    BY <2>1, <2>2, <2>3, NextIsLater
  <2>5. edit'.schedule = s /\ edit'.version = version[s] /\ edit'.due = p[2]
    BY <2>1
  <2> QED BY <2>2, <2>4, <2>5 DEF EditAhead
<1>5. ASSUME NEW s \in Schedules, Cancel(s) PROVE EditAhead'
  BY <1>5 DEF Cancel, EditAhead, IInv, TypeOK, Edits
<1>6. CASE WriteEdit
  BY <1>6 DEF WriteEdit, SameVersion, EditAhead
<1>7. ASSUME NEW s \in Schedules, TroubleChanges(s) \/ BackoffEnds(s) PROVE EditAhead'
  BY <1>1, <1>7, OthersLeave
<1>8. CASE Tomorrow
  BY <1>1, <1>8 DEF Tomorrow
<1>9. CASE UNCHANGED vars
  BY <1>1, <1>9
<1> QED BY <1>3, <1>4, <1>5, <1>6, <1>7, <1>8, <1>9, ScheduleAssumption DEF Next

LEMMA InvStep == IInv /\ [Next]_vars => IInv'
BY StepTyped, HandCreatedStep, OneInspectionStep, EditAheadStep DEF IInv

LEMMA Invariance == Spec => []IInv
BY InitInv, InvStep, PTL DEF Spec

-----------------------------------------------------------------------------
(* The theorems *)

\* However many replicas process a due instant, it has one inspection: Insert is
\* admitted by the unique source key alone.
THEOREM OneInspectionEach == Spec => []OneInspection
<1>1. IInv => OneInspection
  BY DEF IInv
<1> QED BY Invariance, <1>1, PTL

\* A schedule leaves an instant that has its inspection, or by the update of a
\* manager's edit, whatever replicas and edits interleave or die: Record compares the
\* instant it leaves, WriteEdit the version it has read.  Without a late rule it only
\* moves forward.
THEOREM NothingIsSkipped == Spec => NothingSkipped
<1> DEFINE Moves(s) ==
        due'[s] # due[s] =>
          /\ Created(s, due[s]) \/ EditWritten(s)
          /\ s \in Punctual => due'[s] > due[s]
<1>1. ASSUME IInv, [Next]_vars, NEW s \in Schedules PROVE Moves(s)
  <2> USE DEF vars, scheduleVars
  <2>1. CASE due' = due
    BY <2>1
  <2>2. ASSUME NEW r \in Replicas, Record(r) PROVE Moves(s)
    BY <1>1, <2>2, RecordMoves DEF IInv, HandCreated
  <2>3. ASSUME NEW r \in Replicas, Materialize(r) \/ Crash(r) PROVE Moves(s)
    BY <2>1, <2>2, <2>3, ReplicasLeave
  <2>4. CASE WriteEdit
    BY <1>1, <2>4 DEF WriteEdit, SameVersion, EditWritten, IInv, EditAhead, TypeOK, Edits
  <2>5. ASSUME NEW q \in Schedules, ReadEdit(q) \/ Cancel(q) \/ TroubleChanges(q) \/ BackoffEnds(q)
        PROVE due' = due
    BY <2>5 DEF ReadEdit, Cancel, TroubleChanges, BackoffEnds
  <2>6. CASE Tomorrow
    BY <2>1, <2>6 DEF Tomorrow
  <2> QED BY <1>1, <2>1, <2>3, <2>4, <2>5, <2>6, ScheduleAssumption DEF Next
<1>2. IInv /\ [Next]_vars => [\A s \in Schedules : Moves(s)]_vars
  BY <1>1
<1> QED BY Invariance, <1>2, PTL DEF Spec, NothingSkipped

-----------------------------------------------------------------------------
(* The schedules implement recurring work                                     *)

LEMMA DueForward ==
    ASSUME IInv, [Next]_vars, NEW s \in Punctual
    PROVE  due'[s] >= due[s]
<1> USE DEF vars, scheduleVars, Punctual
<1>1. CASE due' = due
  BY <1>1 DEF IInv, TypeOK
<1>2. ASSUME NEW r \in Replicas, Record(r) PROVE due'[s] >= due[s]
  <2>1. due[s] \in Nat /\ due'[s] \in Nat
    BY StepTyped DEF IInv, TypeOK
  <2> QED BY <1>2, <2>1, RecordMoves
<1>3. ASSUME NEW r \in Replicas, Materialize(r) \/ Crash(r) PROVE due'[s] >= due[s]
  BY <1>1, <1>2, <1>3, ReplicasLeave
<1>4. CASE WriteEdit
  BY <1>4 DEF WriteEdit, SameVersion, IInv, EditAhead, TypeOK, Edits
<1>5. ASSUME NEW q \in Schedules, ReadEdit(q) \/ Cancel(q) \/ TroubleChanges(q) \/ BackoffEnds(q)
      PROVE  due' = due
  BY <1>5 DEF ReadEdit, Cancel, TroubleChanges, BackoffEnds
<1>6. CASE Tomorrow
  BY <1>1, <1>6 DEF Tomorrow
<1> QED BY <1>1, <1>3, <1>4, <1>5, <1>6, ScheduleAssumption DEF Next

LEMMA TodayForward ==
    ASSUME TypeOK, [Next]_vars
    PROVE  today' \in Nat /\ today' >= today
<1> USE DEF vars, boundVars, TypeOK
<1>1. CASE UNCHANGED vars
  BY <1>1
<1>2. ASSUME NEW r \in Replicas, Materialize(r) \/ Crash(r) PROVE today' = today
  BY <1>2 DEF Materialize, Crash, ReadDue, Look, OriginUnavailable, Refused, Block, Insert, Record, RecordFails
<1>3. ASSUME NEW s \in Schedules, ReadEdit(s) \/ Cancel(s) \/ TroubleChanges(s) \/ BackoffEnds(s)
      PROVE  today' = today
  BY <1>3 DEF ReadEdit, Cancel, TroubleChanges, BackoffEnds
<1>4. CASE WriteEdit \/ Tomorrow
  BY <1>4 DEF WriteEdit, Tomorrow
<1> QED BY <1>1, <1>2, <1>3, <1>4, ScheduleAssumption DEF Next

\* What has come stays so.
LEMMA ReachedStays ==
    ASSUME IInv, [Next]_vars, NEW b \in Items, Reached(b)
    PROVE  b.due <= today' /\ (b.schedule \in Punctual => b.due <= due'[b.schedule])
<1>1. b.schedule \in Schedules /\ b.due \in Nat
  BY DEF Items
<1>2. /\ b.schedule \in Punctual => due'[b.schedule] >= due[b.schedule]
      /\ due'[b.schedule] \in Nat /\ due[b.schedule] \in Nat
  BY <1>1, DueForward, StepTyped DEF IInv, TypeOK
<1>3. today' >= today /\ today' \in Nat /\ today \in Nat
  BY TodayForward DEF IInv, TypeOK
<1> QED BY <1>1, <1>2, <1>3 DEF Reached

\* A replica has what it had, or what it has just read.
LEMMA BatchFrom ==
    ASSUME IInv, [Next]_vars, NEW p \in Replicas, NEW b \in batch'[p]
    PROVE  b \in batch[p] \/ \E s \in Schedules : Due(s) /\ b.schedule = s /\ b.due = due[s]
<1> USE DEF vars, replicaVars, IInv, TypeOK
<1>1. CASE UNCHANGED vars
  BY <1>1
<1>2. ASSUME NEW r \in Replicas, Materialize(r) \/ Crash(r)
      PROVE  b \in batch[p] \/ \E s \in Schedules : Due(s) /\ b.schedule = s /\ b.due = due[s]
  <2>1. CASE ReadDue(r)
    BY <2>1 DEF ReadDue
  <2>2. CASE ~ReadDue(r)
    BY <1>2, <2>2 DEF Materialize, Crash, Look, OriginUnavailable, Refused, Take, Block, Insert,
                      Record, RecordFails, GiveUp, GoOn
  <2> QED BY <2>1, <2>2
<1>3. ASSUME NEW s \in Schedules, ReadEdit(s) \/ Cancel(s) \/ TroubleChanges(s) \/ BackoffEnds(s)
      PROVE  batch' = batch
  BY <1>3 DEF ReadEdit, Cancel, TroubleChanges, BackoffEnds
<1>4. CASE WriteEdit \/ Tomorrow
  BY <1>4 DEF WriteEdit, Tomorrow
<1> QED BY <1>1, <1>2, <1>3, <1>4, ScheduleAssumption DEF Next

LEMMA HandFrom ==
    ASSUME IInv, [Next]_vars, NEW p \in Replicas, stage'[p] \in {"block", "insert", "record"}
    PROVE  \/ stage[p] \in {"block", "insert", "record"} /\ hand'[p] = hand[p]
           \/ hand'[p] \in batch[p]
<1> USE DEF vars, replicaVars, IInv, TypeOK
<1>1. CASE UNCHANGED vars
  BY <1>1
<1>2. ASSUME NEW r \in Replicas, Materialize(r) \/ Crash(r)
      PROVE  \/ stage[p] \in {"block", "insert", "record"} /\ hand'[p] = hand[p]
             \/ hand'[p] \in batch[p]
  <2>1. CASE p # r
    BY <1>2, <2>1 DEF Materialize, Crash, ReadDue, Look, OriginUnavailable, Refused, Take, Block,
                      Insert, Record, RecordFails, GiveUp, GoOn
  <2>2. CASE p = r
    BY <1>2, <2>2 DEF Materialize, Crash, ReadDue, Look, OriginUnavailable, Refused, Take, Block,
                      Insert, Record, RecordFails, GiveUp, GoOn
  <2> QED BY <2>1, <2>2
<1>3. ASSUME NEW s \in Schedules, ReadEdit(s) \/ Cancel(s) \/ TroubleChanges(s) \/ BackoffEnds(s)
      PROVE  UNCHANGED <<stage, hand>>
  BY <1>3 DEF ReadEdit, Cancel, TroubleChanges, BackoffEnds
<1>4. CASE WriteEdit \/ Tomorrow
  BY <1>4 DEF WriteEdit, Tomorrow
<1> QED BY <1>1, <1>2, <1>3, <1>4, ScheduleAssumption DEF Next

LEMMA AheadStep == IInv /\ NothingAhead /\ [Next]_vars => NothingAhead'
<1> SUFFICES ASSUME IInv, NothingAhead, [Next]_vars, NEW p \in Replicas
             PROVE  /\ \A b \in batch'[p] :
                         b.due <= today' /\ (b.schedule \in Punctual => b.due <= due'[b.schedule])
                    /\ stage'[p] \in {"block", "insert", "record"} =>
                         /\ hand'[p].due <= today'
                         /\ hand'[p].schedule \in Punctual => hand'[p].due <= due'[hand'[p].schedule]
  BY DEF NothingAhead, Reached
<1>1. batch[p] \in SUBSET Items /\ batch'[p] \in SUBSET Items
  BY StepTyped DEF IInv, TypeOK
<1>2. ASSUME NEW b \in batch'[p]
      PROVE  b.due <= today' /\ (b.schedule \in Punctual => b.due <= due'[b.schedule])
  <2>1. CASE b \in batch[p]
    BY <1>1, <2>1, ReachedStays DEF NothingAhead
  <2>2. CASE \E s \in Schedules : Due(s) /\ b.schedule = s /\ b.due = due[s]
    <3>1. Reached(b)
      BY <2>2 DEF Due, Reached, IInv, TypeOK
    <3> QED BY <1>1, <3>1, ReachedStays
  <2> QED BY <2>1, <2>2, BatchFrom
<1>3. ASSUME stage'[p] \in {"block", "insert", "record"}
      PROVE  /\ hand'[p].due <= today'
             /\ hand'[p].schedule \in Punctual => hand'[p].due <= due'[hand'[p].schedule]
  <2>1. CASE stage[p] \in {"block", "insert", "record"} /\ hand'[p] = hand[p]
    <3>1. hand[p] \in Items /\ Reached(hand[p])
      BY <2>1 DEF NothingAhead, IInv, TypeOK
    <3> QED BY <2>1, <3>1, ReachedStays
  <2>2. CASE hand'[p] \in batch[p]
    <3>1. hand'[p] \in Items /\ Reached(hand'[p])
      BY <1>1, <2>2 DEF NothingAhead
    <3> QED BY <3>1, ReachedStays
  <2> QED BY <1>3, <2>1, <2>2, HandFrom
<1> QED BY <1>2, <1>3

recurringVars == <<[s \in Schedules |-> status[s] = "ACTIVE"], due, inspections, recorded, today>>

\* What a replica's step is of the recurring work: most are nothing.
LEMMA ReplicaWorks ==
    ASSUME IInv, NothingAhead, NEW r \in Replicas, Materialize(r) \/ Crash(r)
    PROVE  Recurring!RNext \/ UNCHANGED recurringVars
<1> USE DEF scheduleVars, occurrenceVars, boundVars
<1> DEFINE s == hand[r].schedule
           d == hand[r].due
<1>1. CASE ~Insert(r) /\ ~Record(r)
  <2>1. UNCHANGED <<status, due, inspections, recorded, today>>
    BY <1>1 DEF Materialize, Crash, ReadDue, Look, OriginUnavailable, Refused, Block, RecordFails
  <2> QED BY <2>1 DEF recurringVars
<1>2. ASSUME stage[r] \in {"insert", "record"}
      PROVE  s \in Schedules /\ d \in 0..today /\ (s \in Punctual => d <= due[s]) /\ due[s] \in Nat
  <2>1. hand[r] \in Items /\ Reached(hand[r])
    BY <1>2 DEF NothingAhead, IInv, TypeOK
  <2> QED BY <2>1 DEF Reached, Items, IInv, TypeOK
<1>3. CASE Insert(r)
  <2>1. CASE inspections' = inspections
    BY <1>3, <2>1 DEF Insert, recurringVars
  <2>2. CASE ~Created(s, d) /\ inspections' = inspections \union {<<s, d, r>>}
    <3>1. Recurring!Work(s, d, r)
      BY <1>2, <1>3, <2>2 DEF Insert, Created, Recurring!Work, Recurring!Done
    <3>2. s \in Schedules /\ d \in 0..today
      BY <1>2, <1>3 DEF Insert
    <3> QED BY <3>1, <3>2 DEF Recurring!RNext
  <2> QED BY <1>3, <2>1, <2>2 DEF Insert
<1>4. CASE Record(r)
  <2>1. /\ s \in Schedules /\ d \in 0..today /\ (s \in Punctual => d <= due[s]) /\ due[s] \in Nat
        /\ Recurring!Done(s, d) /\ <<s, d>> \notin recorded
        /\ recorded' = recorded \union {<<s, d>>}
        /\ UNCHANGED <<status, inspections, today>>
    BY <1>2, <1>4 DEF Record, IInv, HandCreated, Created, Recurring!Done
  <2>2. CASE due[s] # d
    <3>1. Recurring!Note(s, d)
      BY <1>4, <2>1, <2>2 DEF Record, StillDue, Recurring!Note
    <3> QED BY <2>1, <3>1 DEF Recurring!RNext
  <2>3. CASE due[s] = d
    <3>1. PICK p \in hand[r].rule : IsNext(hand[r].rule, d, p) /\ due' = [due EXCEPT ![s] = p[2]]
      BY <1>4, <2>3 DEF Record, StillDue
    <3>2. hand[r].rule \in Rules[s] /\ p[2] \in Nat
      BY <1>4, <3>1 DEF Record, IInv, TypeOK, Items, OfItsRules
    <3>3. Recurring!Turns(s)
      <4>1. due'[s] = p[2]
        BY <2>1, <3>1 DEF IInv, TypeOK
      <4>2. s \in Punctual => due'[s] > due[s]
        BY <2>1, <2>3, <3>1, <3>2, <4>1, NextIsLater
      <4>3. due' = [due EXCEPT ![s] = due'[s]]
        BY <3>1, <4>1, Zenon
      <4> QED BY <3>2, <4>1, <4>2, <4>3, Zenon DEF Recurring!Turns
    <3>4. Recurring!Advance(s)
      BY <2>1, <2>3, <3>3 DEF Recurring!Advance
    <3> QED BY <2>1, <3>4 DEF Recurring!RNext
  <2> QED BY <2>2, <2>3
<1> QED BY <1>1, <1>3, <1>4

\* Every step is one of the recurring work, or none.
LEMMA RecurringStep ==
    ASSUME IInv, NothingAhead, [Next]_vars
    PROVE  Recurring!RNext \/ UNCHANGED recurringVars
<1> USE DEF scheduleVars, occurrenceVars, boundVars
<1>1. ASSUME NEW s \in Schedules,
             ReadEdit(s) \/ TroubleChanges(s) \/ BackoffEnds(s)
      PROVE  UNCHANGED recurringVars
  BY <1>1 DEF ReadEdit, TroubleChanges, BackoffEnds, recurringVars
<1>2. ASSUME NEW s \in Schedules, Cancel(s) PROVE Recurring!RNext
  <2>1. [q \in Schedules |-> status'[q] = "ACTIVE"]
          = [[q \in Schedules |-> status[q] = "ACTIVE"] EXCEPT ![s] = FALSE]
    BY <1>2 DEF Cancel, IInv, TypeOK
  <2>2. Recurring!Stop(s)
    BY <1>2, <2>1 DEF Cancel, Recurring!Stop
  <2> QED BY <2>2 DEF Recurring!RNext
<1>3. CASE WriteEdit
  <2>1. UNCHANGED <<status, inspections, recorded, today>>
    BY <1>3 DEF WriteEdit
  <2>2. CASE due' = due
    BY <2>1, <2>2 DEF recurringVars
  <2>3. CASE due' # due
    <3> DEFINE s == edit.schedule
    <3>1. s \in Schedules /\ SameVersion(s) /\ due' = [due EXCEPT ![s] = edit.due]
      BY <1>3, <2>3 DEF WriteEdit, IInv, TypeOK, Edits
    <3>2. due'[s] = edit.due /\ edit.due # due[s]
      BY <2>3, <3>1 DEF IInv, TypeOK
    <3>3. edit.due \in Nat /\ due[s] \in Nat /\ (s \in Punctual => edit.due >= due[s])
      BY <1>3, <3>1 DEF WriteEdit, SameVersion, IInv, EditAhead, TypeOK, Edits
    <3>4. Recurring!Turns(s)
      <4>1. due'[s] \in Nat /\ (s \in Punctual => due'[s] > due[s])
        BY <3>2, <3>3
      <4>2. due' = [due EXCEPT ![s] = due'[s]]
        BY <3>1, <3>2, Zenon
      <4> QED BY <4>1, <4>2, Zenon DEF Recurring!Turns
    <3>5. Recurring!Move(s)
      BY <2>1, <3>1, <3>4 DEF SameVersion, Recurring!Move
    <3> QED BY <3>1, <3>5 DEF Recurring!RNext
  <2> QED BY <2>2, <2>3
<1>4. CASE Tomorrow
  BY <1>4 DEF Tomorrow, Recurring!Tick, Recurring!RNext
<1>5. CASE UNCHANGED vars
  BY <1>5 DEF vars, recurringVars
<1> QED BY <1>1, <1>2, <1>3, <1>4, <1>5, ReplicaWorks, ScheduleAssumption DEF Next

\* However replicas, edits and cancellations interleave, the schedules implement
\* recurring work (RecurringWork): an instant is worked for once, when it has come,
\* noted once, and left behind with its work done or by a manager; the schedules
\* without a late rule go forward only and have reached what is worked for.
THEOREM ScheduleIsRecurring == Spec => ImplementsRecurring
<1>1. Init => Recurring!RInit
  <2> SUFFICES ASSUME Init PROVE Recurring!RInit
    OBVIOUS
  <2>1. due \in [Schedules -> Nat] /\ today = 0
    BY ScheduleAssumption DEF Init
  <2>2. [s \in Schedules |-> status[s] = "ACTIVE"] = [s \in Schedules |-> TRUE]
    BY DEF Init
  <2> QED BY <2>1, <2>2 DEF Init, Recurring!RInit
<1>2. Init => NothingAhead
  BY DEF Init, NothingAhead
<1>3. IInv /\ NothingAhead /\ [Next]_vars => NothingAhead'
  BY AheadStep
<1>4. IInv /\ NothingAhead /\ [Next]_vars => [Recurring!RNext]_(Recurring!rvars)
  BY RecurringStep DEF recurringVars, Recurring!rvars
<1> QED BY <1>1, <1>2, <1>3, <1>4, Invariance, PTL DEF Spec, ImplementsRecurring, Recurring!RSpec
====

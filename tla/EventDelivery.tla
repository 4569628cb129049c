---- MODULE EventDelivery ----
(***************************************************************************)
(* What the messaging layer promises to the features that use it, with no  *)
(* outbox, broker or inbox in sight: an event is emitted once, and from     *)
(* then on each consumer that subscribes to it may apply it at most once    *)
(* and may have a copy of it set aside for an operator (dead-lettered).     *)
(* OutboxDelivery implements this specification.                            *)
(***************************************************************************)
EXTENDS Naturals

CONSTANTS Events, Consumers,
          Subscribed    \* the <<consumer, event>> pairs the topology connects

VARIABLES
    emitted,  \* the events there are
    applied,  \* how often each consumer has applied each event
    dead      \* the copies set aside

avars == <<emitted, applied, dead>>

AInit ==
    /\ emitted = {} /\ dead = {}
    /\ applied = [p \in Consumers \X Events |-> 0]

AEmit(e) == /\ e \notin emitted
            /\ emitted' = emitted \union {e}
            /\ UNCHANGED <<applied, dead>>

\* A consumer's effect happens for subscribed, emitted events only, and once.
AApply(c, e) == /\ e \in emitted
                /\ <<c, e>> \in Subscribed /\ applied[<<c, e>>] = 0
                /\ applied' = [applied EXCEPT ![<<c, e>>] = 1]
                /\ UNCHANGED <<emitted, dead>>

ADeadLetter(c, e) == /\ e \in emitted
                     /\ <<c, e>> \in Subscribed
                     /\ dead' = dead \union {<<c, e>>}
                     /\ UNCHANGED <<emitted, applied>>

ANext == \/ \E e \in Events : AEmit(e)
         \/ \E c \in Consumers, e \in Events : AApply(c, e) \/ ADeadLetter(c, e)

ASpec == AInit /\ [][ANext]_avars
====

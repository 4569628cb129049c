---- MODULE MCVideoPreparation ----
(* Instances of VideoPreparation for TLC. *)
EXTENDS VideoPreparation

CONSTANTS w1, w2
====

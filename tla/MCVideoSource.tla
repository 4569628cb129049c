---- MODULE MCVideoSource ----
(* Instances of VideoSource for TLC. *)
EXTENDS VideoSource

CONSTANTS w1, v1
====

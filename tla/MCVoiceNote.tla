---- MODULE MCVoiceNote ----
(* Instances of VoiceNote for TLC. *)
EXTENDS VoiceNote, TLC

CONSTANTS w1, w2, s1, s2, r1, r2

AnyProcess == Permutations({w1, w2}) \union Permutations({s1, s2}) \union Permutations({r1, r2})
====

---- MODULE MCInspectionLifecycle ----
(* Instances of InspectionLifecycle: the cfgs set the number of recaptures. *)
EXTENDS InspectionLifecycle

====

---- MODULE InspectionFlow ----
(***************************************************************************)
(* What people are told of an inspection, with no captures, links, events or  *)
(* locks in sight: it is invited, submitted once, judged as often as it is     *)
(* submitted or corrected, sent back for one correction at a time, and closed   *)
(* according to whether there is evidence.  Every change takes a new version.    *)
(* CompleteAnyway is what the code does beside that flow.                        *)
(*                                                                            *)
(* InspectionLifecycle implements this specification.                          *)
(***************************************************************************)
EXTENDS Integers

VARIABLES
    status,     \* what the inspection is shown as
    version,    \* how often that has changed
    submitted,  \* the inspection's own capture is in
    evidence,   \* 1 when that has a photo
    open        \* a correction is asked for and has not ended

fvars == <<status, version, submitted, evidence, open>>

FInit ==
    /\ status = "PLANNED" /\ version = 1
    /\ submitted = FALSE /\ evidence = 0 /\ open = FALSE

\* The status goes from one of these to another.
Goes(from, to) ==
    /\ status \in from
    /\ status' = to /\ version' = version + 1

Invite ==
    /\ Goes({"PLANNED"}, "INVITED")
    /\ UNCHANGED <<submitted, evidence, open>>

Submit ==
    /\ Goes({"INVITED"}, "ANALYZING")
    /\ ~submitted /\ submitted' = TRUE
    /\ evidence' \in {0, 1}
    /\ UNCHANGED open

\* A correction that is waited for ends by its own submission or deadline.
AskAgain ==
    /\ Goes({"ANALYZING", "COMPLETED"}, "RECAPTURE_PENDING")
    /\ ~open /\ open' = TRUE
    /\ UNCHANGED <<submitted, evidence>>

EndCorrection ==
    /\ Goes({"RECAPTURE_PENDING"}, "ANALYZING")
    /\ open /\ open' = FALSE
    /\ UNCHANGED <<submitted, evidence>>

\* What was submitted is judged, and judged again after a correction.
Judge ==
    /\ submitted /\ ~open
    /\ Goes({"ANALYZING", "COMPLETED"}, "COMPLETED")
    /\ UNCHANGED <<submitted, evidence, open>>

\* The departure: a verdict looks at no status, so that it also completes an
\* inspection that waits for a correction, or one that was invalidated, which a
\* manager's request would be told is terminal.
CompleteAnyway ==
    /\ submitted
    /\ \/ Goes({"INVALIDATED"}, "COMPLETED")
       \/ open /\ Goes({"RECAPTURE_PENDING", "COMPLETED"}, "COMPLETED")
    /\ UNCHANGED <<submitted, evidence, open>>

\* Only what has no evidence is canceled, and only what has some is invalidated.
Cancel ==
    /\ ~submitted
    /\ Goes({"PLANNED", "INVITED"}, "CANCELED")
    /\ UNCHANGED <<submitted, evidence, open>>

Invalidate ==
    /\ evidence = 1
    /\ Goes({"ANALYZING", "RECAPTURE_PENDING", "COMPLETED"}, "INVALIDATED")
    /\ UNCHANGED <<submitted, evidence, open>>

FNext ==
    Invite \/ Submit \/ AskAgain \/ EndCorrection \/ Judge \/ CompleteAnyway \/ Cancel \/ Invalidate

FSpec == FInit /\ [][FNext]_fvars
====

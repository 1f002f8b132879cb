--------------------------- MODULE DecodeReports ---------------------------
(***************************************************************************)
(* What the link to the decoder promises to the operator: every period     *)
(* handed to the decoder is reported on, once, and in the order of the     *)
(* recordings.                                                             *)
(***************************************************************************)
EXTENDS Naturals

VARIABLES
  handed,    \* number of the last period handed to the decoder
  reported   \* number of the last period reported on

vars == <<handed, reported>>

Init == handed = 0 /\ reported = 0

Record ==
  /\ handed' = handed + 1
  /\ reported' = reported

Report ==
  /\ reported < handed
  /\ reported' = reported + 1
  /\ handed' = handed

Next == Record \/ Report

Spec == Init /\ [][Next]_vars /\ WF_vars(Report)

=============================================================================

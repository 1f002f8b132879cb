------------------------------- MODULE Player -------------------------------
(***************************************************************************)
(* What the rest of the program may take the player for: it is silent,     *)
(* plays a file or plays tones, and falls silent before it plays anything  *)
(* else.  WavePlayer implements it.                                        *)
(***************************************************************************)

VARIABLE player  \* "off", "tones" or "file"

Init == player = "off"

Start == player = "off" /\ player' \in {"tones", "file"}

End == player # "off" /\ player' = "off"

Next == Start \/ End

Spec == Init /\ [][Next]_player

=============================================================================

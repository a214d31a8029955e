------------------------------ MODULE LevelList ------------------------------
(***************************************************************************)
(* What the list of log levels promises to the logger: levels keep their   *)
(* order, a new one comes last, and all go together.  What a level is does *)
(* not matter to the list.                                                 *)
(***************************************************************************)
EXTENDS Naturals, Sequences

VARIABLE levels

Init == levels = <<>>

Add == levels' # <<>> /\ levels' = Append(levels, levels'[Len(levels')])

Reset == levels' = <<>>

Spec == Init /\ [][Add \/ Reset]_levels
=============================================================================

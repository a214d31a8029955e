---------------------------- MODULE MCServerPages ----------------------------
(* Values of the constants of ServerPages for model checking. *)
EXTENDS ServerPages

CONSTANTS a, b, c, note

ThreeLogs == {a, b, c}
NoDirectory == {c}
OneOther == {note}
Lengths == [name \in Names |-> IF name = a THEN 1 ELSE 2]
=============================================================================

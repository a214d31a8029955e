--------------------------- MODULE MCMessageFormat ---------------------------
(* Values of the constants of MessageFormat for model checking. *)
EXTENDS MessageFormat

\* Formats are put together from symbols and whole variables: the message, one
\* that is short, one almost as long as the buffer, and one that is unknown and
\* has a name that is too long.
Pieces ==
  { <<Dollar>>, <<Open>>, <<Close>>, <<"a">>, <<Dollar, Open, "M", Close>>,
    <<Dollar, Open, "x", Close>>, <<Dollar, Open, "y", Close>>, <<Dollar, Open, "a", "a", Close>> }

FormatSymbols == {Dollar, Open, Close, "a", "M", "x", "y", "m", "v", "w", "?"}

Pairs == {<<>>} \cup Pieces \cup {p \o q : p, q \in Pieces}
Puzzles == {p \o q : p, q \in Pairs}

MessageName == <<"M">>
TwoSymbols == <<"m", "m">>
AnyText == {TwoSymbols, <<>>, <<"?", "?", "?">>}
Variable == <<"x">> :> <<"v", "v">> @@ <<"y">> :> [k \in 1 .. 8 |-> "w"]
=============================================================================

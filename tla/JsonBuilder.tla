----------------------------- MODULE JsonBuilder -----------------------------
(***************************************************************************)
(* The functions of json.c that build a JSON text in json_buffer.  The     *)
(* text is the sequence of its lines.  A line has the text it holds (a     *)
(* bracket or a value), the name before it, its indentation, and whether   *)
(* a comma and a newline end it.                                           *)
(*                                                                         *)
(* A line that does not fit BUFF_SIZE loses its last characters: one is    *)
(* the newline, two are the comma too, and more are the end of the value.  *)
(* json_buffer_lenght counts what write_buffer_indent was to write;        *)
(* `excess' is by how much it is more than the length of the text.  (Of a  *)
(* line that cclog_json_add_parameter has cut before, it counts as much as *)
(* its indentation, which is two at least: zero, one and more are what     *)
(* matters.)  The text stays below JSON_BUFF_SIZE.                         *)
(***************************************************************************)
EXTENDS Naturals, Sequences

CONSTANTS
  Unnamed,       \* a line without a name
  ParamNames,    \* keys of parameters
  ParamValues,   \* values of parameters
  Loss           \* by value, how many characters of its line do not fit (a string
                 \* whose lines differ in that is a value for each of them)

BraceOpen    == "{"
BraceClose   == "}"
BracketOpen  == "["
BracketClose == "]"

Openers == {BraceOpen, BracketOpen}
Closers == {BraceClose, BracketClose}

ASSUME BuilderAssumption ==
  Loss \in [ParamValues -> Nat] /\ ParamValues \cap (Openers \cup Closers) = {}

VARIABLES json_buffer, excess, indent_level, in_array

builderVars == <<json_buffer, excess, indent_level, in_array>>

Line(name, text, comma, newline, indent) ==
  [name |-> name, text |-> text, comma |-> comma, newline |-> newline, indent |-> indent]

\* Lines of brackets fit.
LossOf(text) == IF text \in ParamValues THEN Loss[text] ELSE 0

-----------------------------------------------------------------------------
(* The helpers.                                                            *)

\* write_buffer_indent: strncat of what fits of the line at the end of the text.
Written(lines, name, text, comma, indent) ==
  Append(lines, Line(name, text, comma /\ LossOf(text) < 2, LossOf(text) = 0, indent))

\* buffer_remove_last_coma looks two characters before json_buffer_lenght: there the
\* last line has its comma if nothing is lost, or if nothing but its own newline is.
LooksAtComa(lines) ==
  \/ excess = 0
  \/ excess = 1 /\ lines[Len(lines)].comma /\ ~lines[Len(lines)].newline

\* The comma becomes the newline, and what follows it the end of the text.
Bare(line) == Line(line.name, line.text, FALSE, TRUE, line.indent)

\* Mutant of WithoutLastComa: nothing is removed.
WithLastComa(lines) == lines

WithoutLastComa(lines) ==
  IF LooksAtComa(lines) THEN [lines EXCEPT ![Len(lines)] = Bare(@)] ELSE lines

\* json_buffer_lenght then is the length of the text.
ExcessLeft == IF LooksAtComa(json_buffer) THEN 0 ELSE excess

-----------------------------------------------------------------------------
(* The functions of json.h.                                                *)

cclog_json_buffer_clear ==
  /\ json_buffer' = <<>> /\ excess' = 0 /\ indent_level' = 0
  /\ UNCHANGED in_array

cclog_json_start_buffer ==
  IF json_buffer = <<>>
  THEN /\ json_buffer' = Written(<<>>, Unnamed, BraceOpen, FALSE, indent_level)
       /\ indent_level' = indent_level + 1
       /\ UNCHANGED <<excess, in_array>>
  ELSE UNCHANGED builderVars

cclog_json_add_object(name) ==
  /\ json_buffer' = Written(json_buffer, IF in_array THEN Unnamed ELSE name, BraceOpen, FALSE,
                            indent_level)
  /\ indent_level' = indent_level + 1
  /\ UNCHANGED <<excess, in_array>>

\* Mutant of cclog_json_add_array: no indentation.
AddArrayFlat(name) ==
  /\ json_buffer' = Written(json_buffer, name, BracketOpen, FALSE, indent_level)
  /\ in_array' = TRUE
  /\ UNCHANGED <<excess, indent_level>>

cclog_json_add_array(name) ==
  /\ json_buffer' = Written(json_buffer, name, BracketOpen, FALSE, indent_level)
  /\ indent_level' = indent_level + 1
  /\ in_array' = TRUE
  /\ UNCHANGED excess

cclog_json_add_parameter(key, value) ==
  /\ json_buffer' = Written(json_buffer, key, value, TRUE, indent_level)
  /\ excess' = excess + LossOf(value)
  /\ UNCHANGED <<indent_level, in_array>>

cclog_json_end_object ==
  /\ json_buffer' = Written(WithoutLastComa(json_buffer), Unnamed, BraceClose, TRUE,
                            indent_level - 1)
  /\ excess' = ExcessLeft
  /\ indent_level' = indent_level - 1
  /\ UNCHANGED in_array

cclog_json_end_array ==
  /\ json_buffer' = Written(WithoutLastComa(json_buffer), Unnamed, BracketClose, TRUE,
                            indent_level - 1)
  /\ excess' = ExcessLeft
  /\ indent_level' = indent_level - 1
  /\ in_array' = FALSE

\* The value returned is 0 iff indent_level' = 0.
cclog_json_end_buffer ==
  /\ json_buffer' = Written(WithoutLastComa(json_buffer), Unnamed, BraceClose, FALSE,
                            indent_level - 1)
  /\ excess' = ExcessLeft
  /\ indent_level' = indent_level - 1
  /\ UNCHANGED in_array

BuilderInit ==
  /\ json_buffer = <<>> /\ excess = 0
  /\ indent_level = 0 /\ in_array = FALSE

-----------------------------------------------------------------------------
(* Where commas belong, whatever built the text.                           *)

\* A comma ends every member of a container but the last, in the lines before
\* the n-th.
CommasRightBefore(lines, n) ==
  \A i \in DOMAIN lines: i < n =>
    (lines[i].comma <=> /\ lines[i].text \notin Openers
                        /\ i < Len(lines) /\ lines[i + 1].text \notin Closers)

\* The first line that has lost its newline, or the one after the last.
FirstCut(lines) ==
  CHOOSE n \in 1 .. Len(lines) + 1:
    /\ \A i \in 1 .. n - 1: lines[i].newline
    /\ n \in DOMAIN lines => ~lines[n].newline
=============================================================================

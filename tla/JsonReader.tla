----------------------------- MODULE JsonReader -----------------------------
(***************************************************************************)
(* The functions of json.c that read a JSON text.  They search and count   *)
(* symbols, and do not parse.                                              *)
(*                                                                         *)
(* A text is a sequence of symbols.  A key with its quotes, colon and      *)
(* space is one symbol, and so is a number or a boolean; quotes, brackets, *)
(* commas, line ends and the letters of strings are symbols of their own.  *)
(* Indentation is left out, but where the line before has lost its newline *)
(* it is one symbol.  A value begins on the line of its key.               *)
(***************************************************************************)
EXTENDS Integers, Sequences

CONSTANTS
  Missing,    \* the NULL pointer of a function that finds nothing
  Numbers,    \* symbols that stand for an integer
  Capacity    \* BUFSIZ - 2

Quote == "quote"
Newline == "newline"
Blank == "blank"
Comma == ","
BraceOpen == "{"
BraceClose == "}"
BracketOpen == "["
BracketClose == "]"
Booleans == {"true", "false"}

Keys ==
  {"log_file_path", "log_method", "def_msg_format", "logger_verbosity", "log_levels",
   "log_to_tty", "log_to_file", "color", "verbosity", "msg_format", "callback",
   "server", "port"}

\* The first of some places, if there is one.
Found(places) ==
  IF places = {} THEN Missing ELSE CHOOSE k \in places: \A j \in places: k <= j

\* What a text has from place k, up to one of some symbols.
UpTo(text, k, symbols) ==
  SubSeq(text, k, Found({j \in k .. Len(text) : text[j] \in symbols} \cup {Len(text) + 1}) - 1)

-----------------------------------------------------------------------------
(* cclog_json_get_param.                                                   *)

WithoutComma(line) ==
  IF line # <<>> /\ line[Len(line)] = Comma THEN SubSeq(line, 1, Len(line) - 1) ELSE line

\* "%[^"]": what follows the first quote, up to the next, which may be a key's.
Quoted(line) == UpTo(line, 2, {Quote} \cup Keys)

Param(type, value) == [type |-> type, value |-> value]

\* The static parameter for a value.  What is neither boolean nor number, nor a
\* string with a character, leaves it as the last call left it.
ParamOf(scan, rv) ==
  IF Len(scan) = 1 /\ scan[1] \in Booleans THEN Param("boolean", scan[1])
  ELSE IF scan[1] \in Numbers THEN Param("number", scan[1])
  ELSE IF scan[1] = Quote /\ Len(scan) > 1 /\ Quoted(scan) # <<>>
  THEN Param("string", Quoted(scan))
  ELSE rv

\* The parameter of a key, given what the static one holds; Missing if the text
\* has no such key, or ends with it.
cclog_json_get_param(json, key, rv) ==
  LET place == Found({k \in DOMAIN json : json[k] = key})
  IN IF place = Missing \/ place = Len(json) THEN Missing
     ELSE ParamOf(WithoutComma(UpTo(json, place + 1, {Newline})), rv)

-----------------------------------------------------------------------------
(* Objects and arrays.                                                     *)

\* Mutant of Nested: brackets count in strings too.
NestedInStrings(symbol, in_string, open, close) ==
  IF symbol = open THEN 1 ELSE IF symbol = close THEN -1 ELSE 0

\* What a symbol adds to nested_level: brackets in strings do not count.
Nested(symbol, in_string, open, close) ==
  IF in_string THEN 0 ELSE IF symbol = open THEN 1 ELSE IF symbol = close THEN -1 ELSE 0

Toggled(symbol, in_string) == IF symbol = Quote THEN ~in_string ELSE in_string

\* The variables of a loop over a text, where they begin, and after a symbol.
Loop == [at: Nat, nested_level: Int, in_string: BOOLEAN]

Begin(k, level) == [at |-> k, nested_level |-> level, in_string |-> FALSE]

After(text, s, open, close) ==
  [at |-> s.at + 1,
   nested_level |-> s.nested_level + Nested(text[s.at], s.in_string, open, close),
   in_string |-> Toggled(text[s.at], s.in_string)]

\* Mutant of Full: one symbol too many.
FullTooLate(buff_i) == buff_i > Capacity

Full(buff_i) == buff_i >= Capacity

\* json_get_nested_structure: a copy of the structure of a key, from its start
\* symbol up to where the levels are even, the text ends or the buffer is full,
\* and the end symbol.
json_get_nested_structure(json, key, open, close) ==
  LET start == Found({k \in 2 .. Len(json) : json[k - 1] = key /\ json[k] = open})
      Ends(s) == \/ s.at > Len(json) \/ Full(s.at - start)
                 \/ json[s.at] = close /\ ~s.in_string /\ s.nested_level <= 0
      end[s \in Loop] == IF Ends(s) THEN s.at ELSE end[After(json, s, open, close)]
  IN IF start = Missing THEN Missing
     ELSE Append(SubSeq(json, start, end[Begin(start, -1)] - 1), close)

cclog_json_get_object(json, key) ==
  json_get_nested_structure(json, key, BraceOpen, BraceClose)
cclog_json_get_array(json, key) ==
  json_get_nested_structure(json, key, BracketOpen, BracketClose)

\* The place behind the first object that is closed, from place k, unless the text
\* or the array ends before: where it does.
ObjectEnd(array, k, ends) ==
  LET Next(s) == After(array, s, BraceOpen, BraceClose)
      Closes(s) ==
        array[s.at] = BraceClose /\ ~s.in_string /\ Next(s).nested_level = 0
      Ends(s) == \/ s.at > Len(array)
                 \/ array[s.at] \in ends /\ ~s.in_string /\ s.nested_level <= 0
      end[s \in Loop] ==
        IF Ends(s) THEN s.at ELSE IF Closes(s) THEN s.at + 1 ELSE end[Next(s)]
  IN end[Begin(k, 0)]

\* cclog_json_get_object_from_array: the object after the first `index', without
\* the comma and the line ends before it; empty at the end of the array, and
\* Missing if the array has fewer than `index' objects.
cclog_json_get_object_from_array(array, index) ==
  LET skipped[n \in Nat] ==
        IF n = 0 THEN 1 ELSE ObjectEnd(array, skipped[n - 1], {})
      first == skipped[index]
      start == Found({k \in first + 1 .. Len(array) : array[k] # Newline} \cup {Len(array) + 1})
  IN IF first > Len(array) THEN Missing
     ELSE SubSeq(array, start, ObjectEnd(array, start, {BracketClose}) - 1)
=============================================================================

---------------------------- MODULE MessageFormat ----------------------------
(***************************************************************************)
(* The format of log messages: message_format_parse, which tells whether a *)
(* format is accepted, and create_msg_buffer, which expands it.  A format  *)
(* is expanded whatever the parser said: the default format is stored      *)
(* before it is parsed, and the format of a level is never parsed.         *)
(*                                                                         *)
(* A text is a sequence of symbols, `i' and `msg_buff_i' are the indices   *)
(* of the code, from 0.  What the code does past the end of a buffer is    *)
(* not modelled: the expansion stops at "overrun".                         *)
(***************************************************************************)
EXTENDS Naturals, FiniteSets, SequencesExt

CONSTANTS
  Symbols,     \* what texts are made of
  Formats,     \* texts given as formats
  MSG,         \* the name of the message variable
  Message,     \* the text of the message
  Garbled,     \* what a second use of its arguments may give
  Environment, \* the other variables: a function from names to texts
  MSG_SIZE,    \* length of the longest message
  VAR_SIZE     \* length of the longest name of a variable

\* The symbols of variables, and the NUL that ends a text.
Dollar == "dollar"
Open == "open"
Close == "close"
End == "end"
Special == {Dollar, Open, Close}

ASSUME FormatAssumption ==
  /\ Formats \subseteq Seq(Symbols) /\ End \notin Symbols
  /\ MSG_SIZE \in Nat \ {0} /\ VAR_SIZE \in Nat
  /\ MSG \notin DOMAIN Environment
  /\ Message \in Garbled /\ Garbled \subseteq Seq(Symbols)
  /\ Environment \in [DOMAIN Environment -> Seq(Symbols)]

VARIABLES
  format,
  pc,          \* "parse", "inside" a variable, "expand", "done" or "overrun"
  i,
  accepted,    \* what message_format_parse returned
  msg_buff, msg_buff_i,
  arguments    \* whether the va_list is still as the caller made it

vars == <<format, pc, i, accepted, msg_buff, msg_buff_i, arguments>>

\* The symbol at an index.
At(k) == IF k < Len(format) THEN format[k + 1] ELSE End

-----------------------------------------------------------------------------
(* message_format_parse.                                                   *)

Verdict(ok) ==
  /\ accepted' = ok
  /\ pc' = "expand" /\ i' = 0
  /\ UNCHANGED <<format, msg_buff, msg_buff_i, arguments>>

Parsing(place, index) ==
  /\ pc' = place /\ i' = index
  /\ UNCHANGED <<format, accepted, msg_buff, msg_buff_i, arguments>>

ParseSymbol ==
  /\ pc = "parse"
  /\ \/ At(i) \notin {Dollar, End} /\ Parsing("parse", i + 1)
     \/ At(i) = Dollar /\ At(i + 1) = Open /\ Parsing("inside", i + 2)
     \/ At(i) = Dollar /\ At(i + 1) # Open /\ Verdict(FALSE)
     \/ At(i) = End /\ Verdict(TRUE)

\* Mutant of ParseInside: a bracket may be opened inside a variable.
ParseInsideNested ==
  /\ pc = "inside"
  /\ \/ At(i) \notin {Dollar, Close, End} /\ Parsing("inside", i + 1)
     \/ At(i) = Close /\ Parsing("parse", i + 1)
     \/ At(i) \in {Dollar, End} /\ Verdict(FALSE)

ParseInside ==
  /\ pc = "inside"
  /\ \/ At(i) \notin Special \cup {End} /\ Parsing("inside", i + 1)
     \/ At(i) = Close /\ Parsing("parse", i + 1)
     \/ At(i) \in {Dollar, Open, End} /\ Verdict(FALSE)

-----------------------------------------------------------------------------
(* create_msg_buffer.                                                      *)

\* sscanf with "${%[^${}]}": the longest name after "${", empty when there is
\* none.  Nothing tells whether "}" follows it.
Name ==
  IF At(i) = Dollar /\ At(i + 1) = Open
  THEN LET Named(k) == \A j \in i + 2 .. k: At(j) \notin Special \cup {End}
           last == CHOOSE k \in i + 1 .. Len(format): Named(k) /\ ~Named(k + 1)
       IN SubSeq(format, i + 3, last + 1)
  ELSE <<>>

Cut(text, n) == SubSeq(text, 1, IF n < Len(text) THEN n ELSE Len(text))

\* msg_buffer_variable_translate: vsnprintf cuts the message; a variable that
\* is not in the environment is empty.
Translations(name) ==
  IF name = MSG
  THEN {Cut(text, MSG_SIZE - 1) : text \in IF arguments THEN {Message} ELSE Garbled}
  ELSE {IF name \in DOMAIN Environment THEN Environment[name] ELSE <<>>}

\* strnlen: the end of a format that is too long is not expanded.
Length == IF MSG_SIZE < Len(format) THEN MSG_SIZE ELSE Len(format)

\* Mutant of BufferSize: no place for the terminator.
BufferSizeExact == MSG_SIZE

BufferSize == MSG_SIZE + 1

\* A symbol that takes the last place of the buffer leaves it without an end.
ExpandSymbol ==
  /\ pc = "expand" /\ i < Length /\ At(i) # Dollar
  /\ IF msg_buff_i + 1 < BufferSize
     THEN msg_buff' = Append(msg_buff, At(i)) /\ pc' = pc
     ELSE pc' = "overrun" /\ UNCHANGED msg_buff
  /\ msg_buff_i' = msg_buff_i + 1
  /\ i' = i + 1
  /\ UNCHANGED <<format, accepted, arguments>>

\* Mutant of Room: the terminator is not counted.
RoomUnterminated == MSG_SIZE + 1 - msg_buff_i

\* What strncat may append.
Room == MSG_SIZE - msg_buff_i

\* Mutant of AfterVariable: the brackets are not skipped.
AfterVariableAtBracket(name) == i + Len(name) + 2

\* i += strlen(var_buff) + 2 and the i++ of the loop.
AfterVariable(name) == i + Len(name) + 3

\* msg_buff_i grows by the length of what was to be appended, so that the next
\* size given to strncat wraps around and the next symbol is written past the end.
ExpandVariable ==
  /\ pc = "expand" /\ i < Length /\ At(i) = Dollar /\ Name # <<>>
  /\ \E translation \in Translations(Name):
       /\ IF Len(Name) > VAR_SIZE \/ (msg_buff_i > MSG_SIZE /\ translation # <<>>)
          THEN pc' = "overrun" /\ UNCHANGED msg_buff
          ELSE /\ pc' = pc
               /\ msg_buff' = msg_buff \o
                    (IF msg_buff_i > MSG_SIZE THEN <<>> ELSE Cut(translation, Room))
       /\ msg_buff_i' = msg_buff_i + Len(translation)
  /\ i' = AfterVariable(Name)
  /\ arguments' = (arguments /\ Name # MSG)
  /\ UNCHANGED <<format, accepted>>

\* The end of the loop, or a variable that cannot be read: the message ends.
ExpandEnds ==
  /\ pc = "expand"
  /\ i >= Length \/ (At(i) = Dollar /\ Name = <<>>)
  /\ pc' = "done"
  /\ UNCHANGED <<format, i, accepted, msg_buff, msg_buff_i, arguments>>

-----------------------------------------------------------------------------
Init ==
  /\ format \in Formats
  /\ pc = "parse" /\ i = 0 /\ accepted = FALSE
  /\ msg_buff = <<>> /\ msg_buff_i = 0 /\ arguments = TRUE

Next == ParseSymbol \/ ParseInside \/ ExpandSymbol \/ ExpandVariable \/ ExpandEnds

Spec == Init /\ [][Next]_vars

-----------------------------------------------------------------------------
(* What a format means, from its brackets.                                 *)

\* The variables of the format, by the positions of "$" and "}".
Variables ==
  {p \in (DOMAIN format) \X (DOMAIN format) :
     /\ p[1] + 1 < p[2]
     /\ format[p[1]] = Dollar /\ format[p[1] + 1] = Open /\ format[p[2]] = Close
     /\ \A k \in p[1] + 2 .. p[2] - 1: format[k] \notin Special}

NameOf(p) == SubSeq(format, p[1] + 2, p[2] - 1)

WellFormed == \A k \in DOMAIN format: format[k] = Dollar => \E p \in Variables: p[1] = k

ValueOf(name) ==
  IF name = MSG THEN Cut(Message, MSG_SIZE - 1)
  ELSE IF name \in DOMAIN Environment THEN Environment[name] ELSE <<>>

\* What the symbol at position k contributes to the message.
Contribution(k) ==
  IF \E p \in Variables: p[1] = k
  THEN ValueOf(NameOf(CHOOSE p \in Variables: p[1] = k))
  ELSE IF \E p \in Variables: p[1] < k /\ k <= p[2] THEN <<>> ELSE <<format[k]>>

\* The text that the first n symbols of the format stand for.
Meaning(n) ==
  LET text[k \in 0 .. n] == IF k = 0 THEN <<>> ELSE text[k - 1] \o Contribution(k)
  IN text[n]

\* The symbols before the first "$" that begins no variable with a name.
Sound ==
  LET named == {p[1] : p \in {q \in Variables : q[1] + 2 < q[2]}}
  IN CHOOSE n \in 0 .. Length:
       /\ \A k \in 1 .. n: format[k] = Dollar => k \in named
       /\ n < Length => format[n + 1] = Dollar /\ n + 1 \notin named

MessageUses == Cardinality({p \in Variables : NameOf(p) = MSG})

-----------------------------------------------------------------------------
(* Properties.                                                             *)

\* Type invariant.
TypeOK ==
  /\ pc \in {"parse", "inside", "expand", "done", "overrun"}
  /\ i \in 0 .. Len(format) + 1
  /\ accepted \in BOOLEAN /\ arguments \in BOOLEAN
  /\ Len(msg_buff) <= MSG_SIZE /\ Len(msg_buff) <= msg_buff_i

\* The parser, which walks the format once, accepts exactly the formats in which
\* every "$" begins a variable that is closed.
ParserDecidesSyntax == pc \in {"expand", "done", "overrun"} => (accepted <=> WellFormed)

\* The message is what the format stands for, as long as its variables can be
\* read and the message is used once: parser and expansion, which walk the
\* format differently, agree on where variables end.  What is too long is cut.
ExpansionExact ==
  pc = "done" /\ MessageUses <= 1 =>
    LET meant == Cut(Meaning(Sound), MSG_SIZE)
    IN IsPrefix(meant, msg_buff) /\ (Sound = Length => msg_buff = meant)

\* An accepted format leaves the static buffers only when the message or a name is
\* too long.
OverrunOnlyIfLong ==
  accepted /\ pc = "overrun" /\ MessageUses <= 1 =>
    \/ Len(Meaning(Length)) > MSG_SIZE
    \/ \E p \in Variables: Len(NameOf(p)) > VAR_SIZE
=============================================================================

------------------------- MODULE MessageFormatProofs -------------------------
(***************************************************************************)
(* Theorems about MessageFormat, for formats of any length over any        *)
(* symbols: what the parser accepts, what the expansion writes, and when   *)
(* it leaves its buffers.                                                  *)
(***************************************************************************)
EXTENDS MessageFormat, SetInduction, FiniteSetTheorems

\* A position that begins no variable that is left open.
Closed(k) == format[k] = Dollar => \E p \in Variables: p[1] = k

\* Outside a variable, every variable so far is closed.
OutsideOK ==
  pc = "parse" => i <= Len(format) /\ \A k \in 1 .. i: Closed(k)

\* Inside, the symbols since the last bracket belong to the name.
InsideOK ==
  pc = "inside" =>
    \E start \in 1 .. Len(format):
      /\ start + 1 <= i /\ i <= Len(format)
      /\ format[start] = Dollar /\ format[start + 1] = Open
      /\ \A k \in start + 2 .. i: format[k] \notin Special
      /\ \A k \in 1 .. start - 1: Closed(k)

ParserInv ==
  /\ format \in Seq(Symbols)
  /\ pc \in {"parse", "inside"} => i \in Nat
  /\ OutsideOK /\ InsideOK /\ ParserDecidesSyntax

\* What a symbol tells of the place where it is read.
LEMMA SymbolAt ==
  ASSUME format \in Seq(Symbols), NEW k \in Nat
  PROVE  /\ At(k) # End => k < Len(format) /\ At(k) = format[k + 1]
         /\ k < Len(format) => At(k) = format[k + 1] /\ At(k) # End
BY FormatAssumption DEF At

\* What is known of a variable.
LEMMA VariableHas ==
  ASSUME format \in Seq(Symbols), NEW p \in Variables
  PROVE  /\ format[p[1] + 1] = Open
         /\ \E last \in Nat:
              /\ p[1] + 1 < last /\ last <= Len(format) /\ format[last] = Close
              /\ \A k \in p[1] + 2 .. last - 1: format[k] \notin Special
<1>1. /\ p[2] \in Nat /\ p[2] <= Len(format) /\ p[1] + 1 < p[2]
      /\ format[p[1] + 1] = Open /\ format[p[2]] = Close
      /\ \A k \in p[1] + 2 .. p[2] - 1: format[k] \notin Special
  BY DEF Variables
<1>2. QED
  BY <1>1

\* The symbols outside a variable.
LEMMA ParseSymbolStep ==
  ASSUME ParserInv, ParseSymbol
  PROVE  ParserInv'
<1> USE DEF ParserInv
<1>0. /\ format \in Seq(Symbols) /\ Len(format) \in Nat /\ i \in Nat /\ i <= Len(format)
      /\ \A k \in 1 .. i: Closed(k)
      /\ pc = "parse" /\ format' = format
      /\ Variables' = Variables /\ WellFormed' = WellFormed
      /\ \A k: Closed(k)' = Closed(k)
  <2>1. pc = "parse" /\ format' = format
    BY DEF ParseSymbol, Parsing, Verdict
  <2>2. Variables' = Variables
    BY <2>1 DEF Variables
  <2>3. WellFormed' = WellFormed /\ \A k: Closed(k)' = Closed(k)
    BY <2>1, <2>2 DEF WellFormed, Closed
  <2>4. QED
    BY <2>1, <2>2, <2>3 DEF OutsideOK
<1>1. CASE At(i) \notin {Dollar, End} /\ Parsing("parse", i + 1)
  <2>1. i < Len(format) /\ format[i + 1] # Dollar
    BY <1>0, <1>1, SymbolAt
  <2>2. pc' = "parse" /\ i' = i + 1
    BY <1>1 DEF Parsing
  <2>3. ASSUME NEW k \in 1 .. i + 1 PROVE Closed(k)
    BY <1>0, <2>1 DEF Closed
  <2>4. OutsideOK'
    BY <1>0, <2>1, <2>2, <2>3 DEF OutsideOK
  <2>5. QED
    BY <1>0, <2>2, <2>4 DEF InsideOK, ParserDecidesSyntax
<1>2. CASE At(i) = Dollar /\ At(i + 1) = Open /\ Parsing("inside", i + 2)
  <2>1. pc' = "inside" /\ i' = i + 2
    BY <1>2 DEF Parsing
  <2>2. /\ i + 1 < Len(format)
        /\ format[i + 1] = Dollar /\ format[i + 2] = Open
    BY <1>0, <1>2, SymbolAt DEF Dollar, Open, Close, End
  <2>3. i + 1 \in 1 .. Len(format) /\ (i + 1) + 1 <= i + 2 /\ i + 2 <= Len(format)
    BY <1>0, <2>2
  <2>4. /\ \A k \in (i + 1) + 2 .. i + 2: format[k] \notin Special
        /\ \A k \in 1 .. (i + 1) - 1: Closed(k)
    BY <1>0
  <2>5. InsideOK'
    <3>1. SUFFICES
            \E start \in 1 .. Len(format):
              /\ start + 1 <= i + 2 /\ i + 2 <= Len(format)
              /\ format[start] = Dollar /\ format[start + 1] = Open
              /\ \A k \in start + 2 .. i + 2: format[k] \notin Special
              /\ \A k \in 1 .. start - 1: Closed(k)
      BY <1>0, <2>1 DEF InsideOK
    <3>2. (i + 1) + 1 = i + 2
      BY <1>0
    <3> USE <2>3
    <3>3. WITNESS i + 1 \in 1 .. Len(format)
    <3>4. QED
      BY <2>2, <2>3, <2>4, <3>2
  <2>6. QED
    BY <1>0, <2>1, <2>5 DEF OutsideOK, ParserDecidesSyntax
<1>3. CASE At(i) = Dollar /\ At(i + 1) # Open /\ Verdict(FALSE)
  <2>1. pc' = "expand" /\ accepted' = FALSE
    BY <1>3 DEF Verdict
  <2>2. i + 1 \in 1 .. Len(format) /\ format[i + 1] = Dollar
    BY <1>0, <1>3, SymbolAt DEF Dollar, Open, Close, End
  <2>3. ASSUME NEW p \in Variables, p[1] = i + 1 PROVE FALSE
    <3>1. i + 1 < Len(format) /\ format[(i + 1) + 1] = Open
      <4>1. /\ format[(i + 1) + 1] = Open
            /\ \E last \in Nat: (i + 1) + 1 < last /\ last <= Len(format)
        BY <1>0, <2>3, VariableHas
      <4>2. QED
        BY <1>0, <4>1
    <3>2. i + 1 \in Nat
      BY <1>0
    <3>3. QED
      BY <1>0, <1>3, <3>1, <3>2, SymbolAt
  <2>4. ~WellFormed
    BY <1>0, <2>2, <2>3 DEF WellFormed
  <2>5. QED
    BY <1>0, <2>1, <2>4 DEF OutsideOK, InsideOK, ParserDecidesSyntax
<1>4. CASE At(i) = End /\ Verdict(TRUE)
  <2>1. pc' = "expand" /\ accepted' = TRUE
    BY <1>4 DEF Verdict
  <2>2. i = Len(format)
    BY <1>0, <1>4, SymbolAt
  <2>3. WellFormed
    BY <1>0, <2>2 DEF WellFormed, Closed
  <2>4. QED
    BY <1>0, <2>1, <2>3 DEF OutsideOK, InsideOK, ParserDecidesSyntax
<1>5. QED
  BY <1>1, <1>2, <1>3, <1>4 DEF ParseSymbol

\* The symbols of a name, the bracket that closes it, and what may not be there.
LEMMA ParseInsideStep ==
  ASSUME ParserInv, ParseInside
  PROVE  ParserInv'
<1> USE DEF ParserInv
<1>0. /\ format \in Seq(Symbols) /\ Len(format) \in Nat /\ i \in Nat
      /\ pc = "inside" /\ format' = format
      /\ Variables' = Variables /\ WellFormed' = WellFormed
      /\ \A k: Closed(k)' = Closed(k)
  <2>1. pc = "inside" /\ format' = format
    BY DEF ParseInside, Parsing, Verdict
  <2>2. Variables' = Variables
    BY <2>1 DEF Variables
  <2>3. WellFormed' = WellFormed /\ \A k: Closed(k)' = Closed(k)
    BY <2>1, <2>2 DEF WellFormed, Closed
  <2>4. QED
    BY <2>1, <2>2, <2>3
<1>p. PICK start \in 1 .. Len(format):
        /\ start + 1 <= i /\ i <= Len(format)
        /\ format[start] = Dollar /\ format[start + 1] = Open
        /\ \A k \in start + 2 .. i: format[k] \notin Special
        /\ \A k \in 1 .. start - 1: Closed(k)
  BY <1>0 DEF InsideOK
<1>q. start \in Nat /\ i \in Nat /\ Len(format) \in Nat /\ 1 <= start /\ start < i /\ i <= Len(format)
  BY <1>0, <1>p
<1>1. CASE At(i) \notin Special \cup {End} /\ Parsing("inside", i + 1)
  <2>1. pc' = "inside" /\ i' = i + 1
    BY <1>1 DEF Parsing
  <2>2. i < Len(format) /\ format[i + 1] \notin Special
    BY <1>0, <1>1, SymbolAt
  <2>3. \A k \in start + 2 .. i + 1: format[k] \notin Special
    BY <1>0, <1>p, <2>2
  <2>4. InsideOK'
    BY <1>0, <1>p, <2>1, <2>2, <2>3 DEF InsideOK
  <2>5. QED
    BY <1>0, <2>1, <2>4 DEF OutsideOK, ParserDecidesSyntax
<1>2. CASE At(i) = Close /\ Parsing("parse", i + 1)
  <2>1. pc' = "parse" /\ i' = i + 1
    BY <1>2 DEF Parsing
  <2>2. i < Len(format) /\ format[i + 1] = Close
    BY <1>0, <1>2, SymbolAt DEF Dollar, Open, Close, End
  <2>3. <<start, i + 1>> \in Variables
    <3>1. /\ start \in DOMAIN format /\ i + 1 \in DOMAIN format
          /\ start + 1 < i + 1 /\ (i + 1) - 1 = i
      BY <1>0, <1>q, <2>2
    <3>2. QED
      BY <1>p, <2>2, <3>1 DEF Variables
  <2>4. ASSUME NEW k \in 1 .. i + 1 PROVE Closed(k)
    <3>1. k \in 1 .. start - 1 \/ k = start \/ k = start + 1 \/ k \in start + 2 .. i \/ k = i + 1
      BY <1>0, <1>q
    <3>2. k = start => \E p \in Variables: p[1] = k
      BY <2>3
    <3>3. QED
      BY <1>p, <2>2, <3>1, <3>2 DEF Closed, Special, Dollar, Open, Close
  <2>5. OutsideOK'
    BY <1>0, <2>1, <2>2, <2>4 DEF OutsideOK
  <2>6. QED
    BY <1>0, <2>1, <2>5 DEF InsideOK, ParserDecidesSyntax
<1>3. CASE At(i) \in {Dollar, Open, End} /\ Verdict(FALSE)
  <2>1. pc' = "expand" /\ accepted' = FALSE
    BY <1>3 DEF Verdict
  <2>2. ASSUME NEW p \in Variables, p[1] = start PROVE FALSE
    <3>1. PICK last \in Nat:
            /\ start + 1 < last /\ last <= Len(format) /\ format[last] = Close
            /\ \A k \in start + 2 .. last - 1: format[k] \notin Special
      BY <1>0, <2>2, VariableHas
    <3>2. ~(last <= i)
      <4>1. last <= i => last \in start + 2 .. i
        BY <1>q, <3>1
      <4>2. QED
        BY <1>p, <3>1, <4>1 DEF Special, Dollar, Open, Close
    <3>3. i < Len(format) /\ At(i) = format[i + 1] /\ At(i) # End
      BY <1>0, <3>1, <3>2, SymbolAt
    <3>4. CASE last = i + 1
      BY <1>3, <3>1, <3>3, <3>4 DEF Dollar, Open, Close, End
    <3>5. CASE last > i + 1
      <4>1. i + 1 \in start + 2 .. last - 1
        BY <1>q, <3>1, <3>5
      <4>2. QED
        BY <1>3, <3>1, <3>3, <4>1 DEF Special, Dollar, Open, Close
    <3>6. QED
      BY <1>0, <3>1, <3>2, <3>4, <3>5
  <2>3. ~WellFormed
    BY <1>0, <1>p, <1>q, <2>2 DEF WellFormed
  <2>4. QED
    BY <1>0, <2>1, <2>3 DEF OutsideOK, InsideOK, ParserDecidesSyntax
<1>4. QED
  BY <1>1, <1>2, <1>3 DEF ParseInside

\* The expansion leaves the format and the verdict alone.
LEMMA ExpansionStep ==
  ASSUME ParserInv, ExpandSymbol \/ ExpandVariable \/ ExpandEnds
  PROVE  ParserInv'
<1>1. /\ pc = "expand" /\ pc' \in {"expand", "done", "overrun"}
      /\ UNCHANGED <<format, accepted>>
  BY DEF ExpandSymbol, ExpandVariable, ExpandEnds
<1>2. Variables' = Variables /\ WellFormed' = WellFormed
  BY <1>1 DEF Variables, WellFormed
<1>3. QED
  BY <1>1, <1>2 DEF ParserInv, OutsideOK, InsideOK, ParserDecidesSyntax

\* The invariant of the parser.
LEMMA ParserInvariant == Spec => []ParserInv
<1>1. Init => ParserInv
  <2> SUFFICES ASSUME Init PROVE ParserInv
    OBVIOUS
  <2>1. format \in Seq(Symbols) /\ Len(format) \in Nat /\ pc = "parse" /\ i = 0
    BY FormatAssumption DEF Init
  <2>2. QED
    BY <2>1 DEF ParserInv, OutsideOK, InsideOK, ParserDecidesSyntax
<1>2. ParserInv /\ [Next]_vars => ParserInv'
  <2> SUFFICES ASSUME ParserInv, [Next]_vars PROVE ParserInv'
    OBVIOUS
  <2>1. CASE UNCHANGED vars
    <3>1. UNCHANGED <<format, pc, i, accepted>>
      BY <2>1 DEF vars
    <3>2. /\ Variables' = Variables /\ WellFormed' = WellFormed
          /\ \A k: Closed(k)' = Closed(k)
      BY <3>1 DEF Variables, WellFormed, Closed
    <3>3. OutsideOK' /\ InsideOK'
      BY <3>1, <3>2 DEF ParserInv, OutsideOK, InsideOK
    <3>4. QED
      BY <3>1, <3>2, <3>3 DEF ParserInv, ParserDecidesSyntax
  <2>2. QED
    BY <2>1, ParseSymbolStep, ParseInsideStep, ExpansionStep DEF Next
<1>3. QED
  BY <1>1, <1>2, PTL DEF Spec

\* The parser accepts a format exactly when every "$" of it begins a variable that is
\* closed, for every format of any length.
THEOREM ParserAcceptsWellFormed == Spec => []ParserDecidesSyntax
<1>1. ParserInv => ParserDecidesSyntax
  BY DEF ParserInv
<1>2. QED
  BY <1>1, ParserInvariant, PTL

-----------------------------------------------------------------------------
(* Names, and what is cut.                                                 *)

\* sscanf stops at the first symbol that ends a name, before the end of the format.
LEMMA NameEnd ==
  ASSUME format \in Seq(Symbols), i \in Nat, At(i) = Dollar, At(i + 1) = Open
  PROVE  \E last \in Nat:
           /\ i + 1 <= last /\ last < Len(format)
           /\ Name = SubSeq(format, i + 3, last + 1)
           /\ \A j \in i + 2 .. last: At(j) \notin Special \cup {End}
           /\ At(last + 1) \in Special \cup {End}
<1> DEFINE N == Len(format)
           Named(k) == \A j \in i + 2 .. k: At(j) \notin Special \cup {End}
           last == CHOOSE k \in i + 1 .. N: Named(k) /\ ~Named(k + 1)
           T == {k \in 0 .. N : i + 1 <= k /\ Named(k)}
<1>1. N \in Nat /\ i + 1 < N
  BY SymbolAt DEF Open, End
<1>2. ~Named(N)
  <2>1. At(N) = End /\ N \in i + 2 .. N
    BY <1>1 DEF At
  <2> QED BY <2>1
<1>3. \E k \in i + 1 .. N: Named(k) /\ ~Named(k + 1)
  <2>1. i + 1 \in T /\ T \subseteq 0 .. N
    BY <1>1
  <2>2. PICK x \in T: \A y \in T: y <= x
    <3> HIDE DEF T
    <3> QED BY <1>1, <2>1, LargestExists
  <2>3. x # N
    BY <1>2, <2>2
  <2>4. x + 1 \in 0 .. N /\ x + 1 \notin T /\ i + 1 <= x + 1
    BY <1>1, <2>2, <2>3
  <2>5. x \in i + 1 .. N /\ Named(x) /\ ~Named(x + 1)
    BY <1>1, <2>2, <2>4
  <2> QED BY <2>5
<1>4. last \in i + 1 .. N /\ Named(last) /\ ~Named(last + 1)
  BY <1>3
<1>5. Name = SubSeq(format, i + 3, last + 1)
  BY DEF Name
<1> HIDE DEF last
<1>6. last # N /\ last \in Nat
  BY <1>1, <1>2, <1>4
<1>7. At(last + 1) \in Special \cup {End}
  <2>1. PICK j \in i + 2 .. last + 1: At(j) \in Special \cup {End}
    BY <1>4
  <2>2. j = last + 1
    BY <1>4, <1>6, <2>1
  <2> QED BY <2>1, <2>2
<1> QED BY <1>1, <1>4, <1>5, <1>6, <1>7

\* A text that strncat cuts: its symbols, its length, and that it is the beginning.
LEMMA CutText ==
  ASSUME NEW text \in Seq(Symbols), NEW n \in Nat
  PROVE  /\ Cut(text, n) \in Seq(Symbols)
         /\ Len(Cut(text, n)) = IF n < Len(text) THEN n ELSE Len(text)
         /\ \A j \in 1 .. Len(Cut(text, n)): Cut(text, n)[j] = text[j]
BY DEF Cut

\* What an option may be translated to is a text.
LEMMA TranslationsAreTexts ==
  ASSUME NEW name, NEW text \in Translations(name)
  PROVE  text \in Seq(Symbols)
<1>1. MSG_SIZE - 1 \in Nat
  BY FormatAssumption
<1>2. CASE name = MSG
  <2>1. PICK whole \in IF arguments THEN {Message} ELSE Garbled: text = Cut(whole, MSG_SIZE - 1)
    BY <1>2 DEF Translations
  <2>2. whole \in Seq(Symbols)
    BY <2>1, FormatAssumption
  <2> QED BY <1>1, <2>1, <2>2, CutText
<1>3. CASE name # MSG
  <2>1. text = IF name \in DOMAIN Environment THEN Environment[name] ELSE <<>>
    BY <1>3 DEF Translations
  <2>2. CASE name \in DOMAIN Environment
    BY <2>1, <2>2, FormatAssumption
  <2>3. CASE name \notin DOMAIN Environment
    BY <2>1, <2>3
  <2> QED BY <2>2, <2>3
<1> QED BY <1>2, <1>3

-----------------------------------------------------------------------------
(* Types.                                                                  *)

TypeInv ==
  /\ TypeOK
  /\ format \in Seq(Symbols) /\ msg_buff \in Seq(Symbols) /\ msg_buff_i \in Nat

\* The steps of the parser keep the type invariant.
LEMMA ParserTypes ==
  ASSUME TypeInv, ParseSymbol \/ ParseInside
  PROVE  TypeInv'
<1>1. /\ format \in Seq(Symbols) /\ Len(format) \in Nat /\ i \in Nat
      /\ i <= Len(format) + 1 /\ i + 1 \in Nat
  BY DEF TypeInv, TypeOK
<1>2. At(i) # End => i < Len(format)
  BY <1>1, SymbolAt
<1>3. At(i + 1) # End => i + 1 < Len(format)
  BY <1>1, SymbolAt
<1>4. ASSUME NEW ok \in BOOLEAN, Verdict(ok) PROVE TypeInv'
  BY <1>1, <1>4 DEF TypeInv, TypeOK, Verdict
<1>5. ASSUME NEW place \in {"parse", "inside"}, NEW index \in Nat, index <= Len(format),
             Parsing(place, index)
      PROVE  TypeInv'
  BY <1>1, <1>5 DEF TypeInv, TypeOK, Parsing
<1>6. CASE ParseSymbol
  <2>1. ASSUME At(i) \notin {Dollar, End}, Parsing("parse", i + 1) PROVE TypeInv'
    BY <1>1, <1>2, <1>5, <2>1
  <2>2. ASSUME At(i + 1) = Open, Parsing("inside", i + 2) PROVE TypeInv'
    <3>1. i + 2 \in Nat /\ i + 2 <= Len(format)
      BY <1>1, <1>3, <2>2 DEF Open, End
    <3> QED BY <1>5, <2>2, <3>1
  <2> QED BY <1>4, <1>6, <2>1, <2>2 DEF ParseSymbol
<1>7. CASE ParseInside
  <2>1. ASSUME At(i) # End, NEW place \in {"parse", "inside"}, Parsing(place, i + 1)
        PROVE  TypeInv'
    BY <1>1, <1>2, <1>5, <2>1
  <2>2. At(i) = Close => At(i) # End
    BY DEF Close, End
  <2> QED BY <1>4, <1>7, <2>1, <2>2 DEF ParseInside
<1> QED BY <1>6, <1>7

\* The copy of a symbol keeps the type invariant.
LEMMA SymbolTypes ==
  ASSUME TypeInv, ExpandSymbol
  PROVE  TypeInv'
<1>1. /\ format \in Seq(Symbols) /\ Len(format) \in Nat /\ i \in Nat
      /\ msg_buff \in Seq(Symbols) /\ msg_buff_i \in Nat /\ MSG_SIZE \in Nat
      /\ Len(msg_buff) <= MSG_SIZE /\ Len(msg_buff) <= msg_buff_i
  BY FormatAssumption DEF TypeInv, TypeOK
<1>2. /\ i < Length /\ format' = format /\ i' = i + 1 /\ msg_buff_i' = msg_buff_i + 1
      /\ accepted' = accepted /\ arguments' = arguments
  BY DEF ExpandSymbol
<1>3. i < Len(format) /\ At(i) \in Symbols
  BY <1>1, <1>2 DEF Length, At
<1>4. pc' \in {"expand", "overrun"}
  BY DEF ExpandSymbol
<1>5. /\ msg_buff' \in Seq(Symbols)
      /\ Len(msg_buff') <= MSG_SIZE /\ Len(msg_buff') <= msg_buff_i + 1
  <2>1. CASE msg_buff_i + 1 < BufferSize
    <3>1. msg_buff' = Append(msg_buff, At(i)) /\ msg_buff_i < MSG_SIZE
      BY <1>1, <2>1 DEF ExpandSymbol, BufferSize
    <3>2. Len(msg_buff') = Len(msg_buff) + 1 /\ msg_buff' \in Seq(Symbols)
      BY <1>1, <1>3, <3>1
    <3> QED BY <1>1, <3>1, <3>2
  <2>2. CASE ~(msg_buff_i + 1 < BufferSize)
    <3>1. msg_buff' = msg_buff
      BY <2>2 DEF ExpandSymbol
    <3> QED BY <1>1, <3>1
  <2> QED BY <2>1, <2>2
<1> QED BY <1>1, <1>2, <1>3, <1>4, <1>5 DEF TypeInv, TypeOK

\* The expansion of an option keeps the type invariant.
LEMMA VariableTypes ==
  ASSUME TypeInv, ExpandVariable
  PROVE  TypeInv'
<1>1. /\ format \in Seq(Symbols) /\ Len(format) \in Nat /\ i \in Nat
      /\ msg_buff \in Seq(Symbols) /\ msg_buff_i \in Nat /\ MSG_SIZE \in Nat
      /\ Len(msg_buff) <= MSG_SIZE /\ Len(msg_buff) <= msg_buff_i
  BY FormatAssumption DEF TypeInv, TypeOK
<1>2. /\ At(i) = Dollar /\ Name # <<>> /\ format' = format /\ i' = AfterVariable(Name)
      /\ accepted' = accepted /\ arguments' = (arguments /\ Name # MSG)
  BY DEF ExpandVariable
<1>3. At(i + 1) = Open
  BY <1>2 DEF Name
<1>4. i' \in 0 .. Len(format) + 1
  <2>1. PICK last \in Nat: /\ i + 1 <= last /\ last < Len(format)
                           /\ Name = SubSeq(format, i + 3, last + 1)
    BY <1>1, <1>2, <1>3, NameEnd
  <2>2. Len(Name) = last - i - 1
    BY <1>1, <2>1
  <2>3. i + (last - i - 1) + 3 = last + 2
    BY <1>1
  <2> QED BY <1>1, <1>2, <2>1, <2>2, <2>3 DEF AfterVariable
<1>5. PICK translation \in Translations(Name):
        /\ IF Len(Name) > VAR_SIZE \/ (msg_buff_i > MSG_SIZE /\ translation # <<>>)
           THEN pc' = "overrun" /\ UNCHANGED msg_buff
           ELSE /\ pc' = pc
                /\ msg_buff' = msg_buff \o
                     (IF msg_buff_i > MSG_SIZE THEN <<>> ELSE Cut(translation, Room))
        /\ msg_buff_i' = msg_buff_i + Len(translation)
  BY DEF ExpandVariable
<1>6. translation \in Seq(Symbols) /\ Len(translation) \in Nat
  BY TranslationsAreTexts
<1>7. /\ pc' \in {"expand", "overrun"} /\ msg_buff' \in Seq(Symbols)
      /\ Len(msg_buff') <= MSG_SIZE /\ Len(msg_buff') <= msg_buff_i'
  <2>1. pc = "expand"
    BY DEF ExpandVariable
  <2>2. CASE msg_buff' = msg_buff /\ pc' \in {"expand", "overrun"}
    BY <1>1, <1>5, <1>6, <2>2
  <2>3. CASE msg_buff_i > MSG_SIZE /\ msg_buff' = msg_buff \o <<>> /\ pc' = pc
    <3>1. msg_buff \o <<>> = msg_buff
      BY <1>1
    <3> QED BY <2>1, <2>2, <2>3, <3>1
  <2>4. CASE ~(msg_buff_i > MSG_SIZE) /\ msg_buff' = msg_buff \o Cut(translation, Room) /\ pc' = pc
    <3>1. PICK room \in Nat: room = MSG_SIZE - msg_buff_i /\ room = Room
      BY <1>1, <2>4 DEF Room
    <3>2. PICK rest: rest = Cut(translation, room)
      OBVIOUS
    <3>3. rest \in Seq(Symbols) /\ Len(rest) <= room /\ Len(rest) <= Len(translation)
      BY <1>6, <3>2, CutText
    <3>4. msg_buff' \in Seq(Symbols) /\ Len(msg_buff') = Len(msg_buff) + Len(rest)
      BY <1>1, <2>4, <3>1, <3>2, <3>3
    <3> QED BY <1>1, <1>5, <1>6, <2>1, <2>4, <3>1, <3>3, <3>4
  <2> QED BY <1>5, <2>1, <2>2, <2>3, <2>4
<1> QED BY <1>1, <1>2, <1>4, <1>5, <1>6, <1>7 DEF TypeInv, TypeOK

\* The type invariant, with what its proof needs, holds in every reachable state.
LEMMA TypeInvariant == Spec => []TypeInv
<1>1. Init => TypeInv
  <2> SUFFICES ASSUME Init PROVE TypeInv
    OBVIOUS
  <2>1. format \in Seq(Symbols) /\ Len(format) \in Nat /\ MSG_SIZE \in Nat
    BY FormatAssumption DEF Init
  <2>2. msg_buff = <<>> /\ msg_buff \in Seq(Symbols) /\ Len(msg_buff) = 0
    BY DEF Init
  <2>3. pc \in {"parse", "inside", "expand", "done", "overrun"}
    BY DEF Init
  <2>4. accepted \in BOOLEAN /\ arguments \in BOOLEAN
    BY Zenon DEF Init
  <2>5. i = 0 /\ i \in 0 .. Len(format) + 1 /\ msg_buff_i = 0
    BY <2>1 DEF Init
  <2> QED BY <2>1, <2>2, <2>3, <2>4, <2>5 DEF TypeInv, TypeOK
<1>2. TypeInv /\ [Next]_vars => TypeInv'
  <2> SUFFICES ASSUME TypeInv, [Next]_vars PROVE TypeInv'
    OBVIOUS
  <2>1. CASE ExpandEnds
    BY <2>1 DEF TypeInv, TypeOK, ExpandEnds
  <2>2. CASE UNCHANGED vars
    BY <2>2 DEF TypeInv, TypeOK, vars
  <2> QED BY <2>1, <2>2, ParserTypes, SymbolTypes, VariableTypes DEF Next
<1> QED BY <1>1, <1>2, PTL DEF Spec

\* The index never passes the terminator of the format, though sscanf does not tell
\* whether a name was closed, and the message never fills the place of its own
\* terminator (create_msg_buffer).
THEOREM FormatTypes == Spec => []TypeOK
<1>1. TypeInv => TypeOK
  BY DEF TypeInv
<1> QED BY <1>1, TypeInvariant, PTL

-----------------------------------------------------------------------------
(* Variables and what a format means.                                      *)

\* The three symbols of the syntax are special and differ.
LEMMA SymbolsDiffer ==
  /\ Dollar # Open /\ Dollar # Close /\ Open # Close
  /\ Dollar \in Special /\ Open \in Special /\ Close \in Special
BY DEF Dollar, Open, Close, Special

\* Where an option of a format stands, and what is between its brackets.
LEMMA VariableFacts ==
  ASSUME format \in Seq(Symbols), NEW p \in Variables
  PROVE  /\ p[1] \in Nat /\ p[2] \in Nat /\ 1 <= p[1] /\ p[1] + 1 < p[2] /\ p[2] <= Len(format)
         /\ p = <<p[1], p[2]>>
         /\ format[p[1]] = Dollar /\ format[p[1] + 1] = Open /\ format[p[2]] = Close
         /\ \A k \in p[1] + 2 .. p[2] - 1: format[k] \notin Special
BY DEF Variables

\* Two variables have no symbol in common.
LEMMA VariablesApart ==
  ASSUME format \in Seq(Symbols), NEW p \in Variables, NEW q \in Variables
  PROVE  /\ p[1] < q[1] => p[2] < q[1]
         /\ p[1] = q[1] => p = q
<1>1. /\ p[1] \in Nat /\ p[2] \in Nat /\ p[1] + 1 < p[2] /\ p = <<p[1], p[2]>>
      /\ format[p[1] + 1] = Open /\ format[p[2]] = Close
      /\ \A k \in p[1] + 2 .. p[2] - 1: format[k] \notin Special
  BY VariableFacts
<1>2. /\ q[1] \in Nat /\ q[2] \in Nat /\ q[1] + 1 < q[2] /\ q = <<q[1], q[2]>>
      /\ format[q[1]] = Dollar /\ format[q[2]] = Close
      /\ \A k \in q[1] + 2 .. q[2] - 1: format[k] \notin Special
  BY VariableFacts
<1>3. ASSUME p[1] < q[1] PROVE p[2] < q[1]
  <2>1. q[1] # p[1] + 1 /\ q[1] # p[2]
    BY <1>1, <1>2, SymbolsDiffer
  <2>2. q[1] \notin p[1] + 2 .. p[2] - 1
    BY <1>1, <1>2, SymbolsDiffer
  <2>3. q[1] \in p[1] + 2 .. p[2] - 1 \/ q[1] > p[2]
    BY <1>1, <1>2, <1>3, <2>1
  <2> QED BY <2>2, <2>3
<1>4. ASSUME p[1] = q[1] PROVE p = q
  <2>1. p[2] \notin q[1] + 2 .. q[2] - 1 /\ q[2] \notin p[1] + 2 .. p[2] - 1
    BY <1>1, <1>2, SymbolsDiffer
  <2>2. p[2] = q[2]
    BY <1>1, <1>2, <1>4, <2>1
  <2> QED BY <1>1, <1>2, <1>4, <2>2
<1> QED BY <1>3, <1>4

\* What an option stands for is a text.
LEMMA ValueIsText ==
  ASSUME NEW name
  PROVE  ValueOf(name) \in Seq(Symbols)
<1>1. MSG_SIZE - 1 \in Nat /\ Message \in Seq(Symbols)
  BY FormatAssumption
<1>2. CASE name = MSG
  BY <1>1, <1>2, CutText DEF ValueOf
<1>3. CASE name # MSG /\ name \in DOMAIN Environment
  BY <1>3, FormatAssumption DEF ValueOf
<1>4. CASE name # MSG /\ name \notin DOMAIN Environment
  BY <1>4 DEF ValueOf
<1> QED BY <1>2, <1>3, <1>4

\* What each symbol contributes: the first of a variable its value, the others of it
\* nothing, and any other symbol itself.
LEMMA Contributes ==
  ASSUME format \in Seq(Symbols), NEW k \in 1 .. Len(format)
  PROVE  /\ \A p \in Variables: p[1] = k => Contribution(k) = ValueOf(NameOf(p))
         /\ \A p \in Variables: p[1] < k /\ k <= p[2] => Contribution(k) = <<>>
         /\ (\A p \in Variables: ~(p[1] <= k /\ k <= p[2])) => Contribution(k) = <<format[k]>>
         /\ Contribution(k) \in Seq(Symbols)
<1>1. ASSUME NEW p \in Variables, p[1] = k PROVE Contribution(k) = ValueOf(NameOf(p))
  <2> DEFINE q == CHOOSE v \in Variables: v[1] = k
  <2>1. q \in Variables /\ q[1] = k
    BY <1>1
  <2>2. Contribution(k) = ValueOf(NameOf(q))
    BY <1>1 DEF Contribution
  <2> HIDE DEF q
  <2>3. p = q
    BY <1>1, <2>1, VariablesApart
  <2> QED BY <2>2, <2>3
<1>2. ASSUME NEW p \in Variables, p[1] < k, k <= p[2] PROVE Contribution(k) = <<>>
  <2>1. ASSUME NEW q \in Variables, q[1] = k PROVE FALSE
    <3>1. p[2] < q[1]
      BY <1>2, <2>1, VariablesApart
    <3>2. p[2] \in Nat
      BY VariableFacts
    <3> QED BY <1>2, <2>1, <3>1, <3>2
  <2> QED BY <1>2, <2>1 DEF Contribution
<1>3. ASSUME \A p \in Variables: ~(p[1] <= k /\ k <= p[2]) PROVE Contribution(k) = <<format[k]>>
  <2>1. ASSUME NEW q \in Variables PROVE q[1] # k /\ ~(q[1] < k /\ k <= q[2])
    <3>1. q[1] \in Nat /\ q[2] \in Nat /\ q[1] + 1 < q[2]
      BY VariableFacts
    <3> QED BY <1>3, <3>1
  <2> QED BY <2>1 DEF Contribution
<1>4. Contribution(k) \in Seq(Symbols)
  <2>1. CASE \E p \in Variables: p[1] = k
    BY <1>1, <2>1, ValueIsText
  <2>2. CASE ~(\E p \in Variables: p[1] = k) /\ \E p \in Variables: p[1] < k /\ k <= p[2]
    <3>1. Contribution(k) = <<>>
      BY <1>2, <2>2
    <3> QED BY <3>1
  <2>3. CASE ~(\E p \in Variables: p[1] = k) /\ ~(\E p \in Variables: p[1] < k /\ k <= p[2])
    <3>1. Contribution(k) = <<format[k]>>
      BY <2>3, Zenon DEF Contribution
    <3> QED BY <3>1
  <2> QED BY <2>1, <2>2, <2>3
<1> QED BY <1>1, <1>2, <1>3, <1>4

\* The recursion of Meaning.
LEMMA MeaningSteps ==
  ASSUME format \in Seq(Symbols)
  PROVE  /\ Meaning(0) = <<>>
         /\ \A n \in 0 .. Len(format): Meaning(n) \in Seq(Symbols)
         /\ \A n \in 0 .. Len(format): n < Len(format) =>
              Meaning(n + 1) = Meaning(n) \o Contribution(n + 1)
<1> DEFINE N == Len(format)
           V == Seq(Symbols)
           step == [k \in Nat |-> [v \in V |-> IF k < N THEN v \o Contribution(k + 1) ELSE v]]
<1>0. N \in Nat /\ <<>> \in V
  OBVIOUS
<1>1. \A k \in 1 .. N: Contribution(k) \in V
  BY Contributes
<1>2. step \in [Nat -> [V -> V]]
  <2>1. ASSUME NEW k \in Nat, NEW v \in V
        PROVE  (IF k < N THEN v \o Contribution(k + 1) ELSE v) \in V
    <3>1. CASE k < N
      <4>1. k + 1 \in 1 .. N
        BY <1>0, <3>1
      <4>2. Contribution(k + 1) \in V
        BY <1>1, <4>1
      <4> QED BY <3>1, <4>2
    <3>2. CASE ~(k < N)
      BY <3>2
    <3> QED BY <3>1, <3>2
  <2> HIDE DEF V
  <2> QED BY <2>1
<1> HIDE DEF V, step
<1>3. PICK f \in [Nat -> V]: Recursive(f, <<>>, step)
  BY <1>0, <1>2, RecursionExists
<1>4. f[0] = <<>> /\ \A k \in 1 .. N: f[k] = f[k - 1] \o Contribution(k)
  <2>1. ASSUME NEW k \in 1 .. N PROVE f[k] = f[k - 1] \o Contribution(k)
    <3>1. k - 1 \in Nat /\ (k - 1) + 1 = k /\ k - 1 < N
      BY <1>0
    <3>2. f[k] = step[k - 1][f[k - 1]] /\ f[k - 1] \in V
      BY <1>3, <3>1 DEF Recursive
    <3> QED BY <3>1, <3>2 DEF step
  <2> QED BY <1>3, <2>1 DEF Recursive
<1>5. ASSUME NEW n \in 0 .. N PROVE Meaning(n) = f[n]
  <2> DEFINE text == CHOOSE t: t = [k \in 0 .. n |-> IF k = 0 THEN <<>>
                                                     ELSE t[k - 1] \o Contribution(k)]
             g == [k \in 0 .. n |-> f[k]]
  <2>1. \A k \in 0 .. n: g[k] = IF k = 0 THEN <<>> ELSE g[k - 1] \o Contribution(k)
    BY <1>4
  <2>2. g = [k \in 0 .. n |-> g[k]]
    OBVIOUS
  <2>3. g = [k \in 0 .. n |-> IF k = 0 THEN <<>> ELSE g[k - 1] \o Contribution(k)]
    <3> HIDE DEF g
    <3> QED BY <2>1, <2>2
  <2> HIDE DEF g
  <2>4. text = [k \in 0 .. n |-> IF k = 0 THEN <<>> ELSE text[k - 1] \o Contribution(k)]
    BY <2>3
  <2>5. Meaning(n) = text[n]
    BY DEF Meaning
  <2> HIDE DEF text
  <2>6. text[0] = <<>>
    <3>1. 0 \in 0 .. n
      BY <1>0
    <3> QED BY <2>4, <3>1
  <2>a. ASSUME NEW k \in 1 .. n PROVE text[k] = text[k - 1] \o Contribution(k)
    <3>1. k \in 0 .. n /\ k # 0
      BY <1>0
    <3> QED BY <2>4, <3>1
  <2> DEFINE S == {k \in 0 .. n : text[k] = f[k]}
  <2>7. 0 \in S
    <3>1. 0 \in 0 .. n
      BY <1>0
    <3> QED BY <1>4, <2>6, <3>1
  <2>8. ASSUME NEW k \in 0 .. n, k < n, k \in S PROVE k + 1 \in S
    <3>1. k + 1 \in 1 .. n /\ k + 1 \in 1 .. N /\ (k + 1) - 1 = k /\ k + 1 \in 0 .. n
      BY <1>0, <2>8
    <3>2. text[k + 1] = text[(k + 1) - 1] \o Contribution(k + 1)
      BY <2>a, <3>1
    <3>3. f[k + 1] = f[(k + 1) - 1] \o Contribution(k + 1)
      BY <1>4, <3>1
    <3>4. text[k] = f[k]
      BY <2>8
    <3>5. text[k + 1] = f[k + 1]
      BY <3>1, <3>2, <3>3, <3>4
    <3> QED BY <3>1, <3>5
  <2> HIDE DEF S
  <2>b. n \in Nat
    BY <1>0
  <2>9. \A k \in 0 .. n: k \in S
    BY <2>7, <2>8, <2>b, BoundedInduction
  <2> QED BY <2>5, <2>9 DEF S
<1>6. ASSUME NEW n \in 0 .. N, n < N PROVE Meaning(n + 1) = Meaning(n) \o Contribution(n + 1)
  <2>1. n + 1 \in 0 .. N /\ n + 1 \in 1 .. N /\ (n + 1) - 1 = n
    BY <1>0, <1>6
  <2> QED BY <1>4, <1>5, <2>1
<1>7. Meaning(0) = <<>>
  <2>1. 0 \in 0 .. N
    BY <1>0
  <2> QED BY <1>4, <1>5, <2>1
<1>8. ASSUME NEW n \in 0 .. N PROVE Meaning(n) \in Seq(Symbols)
  <2>1. n \in Nat /\ f[n] \in V
    BY <1>0, <1>3
  <2> QED BY <1>5, <2>1 DEF V
<1> QED BY <1>6, <1>7, <1>8

\* From the "$" of a variable to its bracket, the meaning is that of the variable.
LEMMA InsideMeaning ==
  ASSUME format \in Seq(Symbols), NEW p \in Variables, NEW n \in p[1] .. p[2]
  PROVE  Meaning(n) = Meaning(p[1] - 1) \o ValueOf(NameOf(p))
<1> DEFINE a == p[1]
           size == p[2] - p[1]
           whole == Meaning(a - 1) \o ValueOf(NameOf(p))
           S == {d \in 0 .. size : Meaning(a + d) = whole}
<1>1. /\ Len(format) \in Nat /\ a \in Nat /\ p[2] \in Nat /\ size \in Nat /\ 1 <= a
      /\ a + size = p[2] /\ a + size <= Len(format)
  BY VariableFacts
<1> HIDE DEF a, size
<1>2. whole \in Seq(Symbols) /\ Meaning(a) = whole
  <2>1. /\ a - 1 \in 0 .. Len(format) /\ a - 1 < Len(format) /\ (a - 1) + 1 = a
        /\ a \in 1 .. Len(format)
    BY <1>1
  <2>2. Meaning(a) = Meaning(a - 1) \o Contribution(a) /\ Meaning(a - 1) \in Seq(Symbols)
    BY <2>1, MeaningSteps
  <2>3. Contribution(a) = ValueOf(NameOf(p))
    BY <2>1, Contributes DEF a
  <2> QED BY <2>2, <2>3, ValueIsText
<1> HIDE DEF whole
<1>3. 0 \in S
  BY <1>1, <1>2
<1>4. ASSUME NEW d \in 0 .. size, d < size, d \in S PROVE d + 1 \in S
  <2>1. /\ a + d \in 0 .. Len(format) /\ a + d < Len(format) /\ (a + d) + 1 = a + (d + 1)
        /\ a + (d + 1) \in 1 .. Len(format) /\ a < a + (d + 1) /\ a + (d + 1) <= p[2]
        /\ d + 1 \in 0 .. size
    BY <1>1, <1>4
  <2>2. Meaning(a + (d + 1)) = Meaning(a + d) \o Contribution(a + (d + 1))
    BY <2>1, MeaningSteps
  <2>3. Contribution(a + (d + 1)) = <<>>
    BY <2>1, Contributes DEF a
  <2>4. Meaning(a + d) = whole
    BY <1>4
  <2>5. Meaning(a + (d + 1)) = whole
    BY <1>2, <2>2, <2>3, <2>4
  <2> QED BY <2>1, <2>5
<1> HIDE DEF S
<1>5. \A d \in 0 .. size: d \in S
  BY <1>1, <1>3, <1>4, BoundedInduction
<1>6. n - a \in 0 .. size /\ a + (n - a) = n
  BY <1>1 DEF a
<1>7. Meaning(a + (n - a)) = whole
  BY <1>5, <1>6 DEF S
<1> QED BY <1>6, <1>7 DEF whole, a

\* More symbols never stand for less.
LEMMA MeaningGrows ==
  ASSUME format \in Seq(Symbols), NEW m \in 0 .. Len(format), NEW n \in m .. Len(format)
  PROVE  Len(Meaning(m)) <= Len(Meaning(n))
<1> DEFINE size == n - m
           S == {d \in 0 .. size : Len(Meaning(m)) <= Len(Meaning(m + d))}
<1>1. size \in Nat /\ m \in Nat /\ Len(format) \in Nat /\ m + size = n /\ n <= Len(format)
  OBVIOUS
<1> HIDE DEF size
<1>2. Meaning(m) \in Seq(Symbols) /\ Len(Meaning(m)) \in Nat
  BY MeaningSteps
<1>3. 0 \in S
  BY <1>1, <1>2
<1>4. ASSUME NEW d \in 0 .. size, d < size, d \in S PROVE d + 1 \in S
  <2>1. /\ m + d \in 0 .. Len(format) /\ m + d < Len(format) /\ (m + d) + 1 = m + (d + 1)
        /\ m + (d + 1) \in 1 .. Len(format) /\ d + 1 \in 0 .. size
    BY <1>1, <1>4
  <2>2. Meaning(m + (d + 1)) = Meaning(m + d) \o Contribution(m + (d + 1))
    BY <2>1, MeaningSteps
  <2>3. Meaning(m + d) \in Seq(Symbols) /\ Contribution(m + (d + 1)) \in Seq(Symbols)
    BY <2>1, MeaningSteps, Contributes
  <2>4. Len(Meaning(m + d)) <= Len(Meaning(m + (d + 1)))
    BY <2>2, <2>3
  <2>5. Len(Meaning(m)) <= Len(Meaning(m + d))
    BY <1>4
  <2>6. Meaning(m + (d + 1)) \in Seq(Symbols)
    <3>1. m + (d + 1) \in 0 .. Len(format)
      BY <2>1
    <3> QED BY <3>1, MeaningSteps
  <2>7. Len(Meaning(m)) <= Len(Meaning(m + (d + 1)))
    BY <1>2, <2>3, <2>4, <2>5, <2>6
  <2> QED BY <2>1, <2>7
<1> HIDE DEF S
<1>5. \A d \in 0 .. size: d \in S
  BY <1>1, <1>3, <1>4, BoundedInduction
<1> QED BY <1>1, <1>5 DEF S

\* The first "$" that begins no variable with a name.
LEMMA SoundPoint ==
  ASSUME format \in Seq(Symbols)
  PROVE  /\ Length \in Nat /\ Length <= Len(format) /\ Sound \in 0 .. Length
         /\ \A k \in 1 .. Sound: format[k] = Dollar =>
              \E p \in Variables: p[1] = k /\ p[1] + 2 < p[2]
         /\ Sound < Length =>
              /\ format[Sound + 1] = Dollar
              /\ \A p \in Variables: p[1] = Sound + 1 => ~(p[1] + 2 < p[2])
<1> DEFINE named == {p[1] : p \in {q \in Variables : q[1] + 2 < q[2]}}
           Stops(n) == n < Length => format[n + 1] = Dollar /\ n + 1 \notin named
           T == {n \in 0 .. Length : Stops(n)}
           Before(n) == \A k \in 1 .. n: format[k] = Dollar => k \in named
<1>1. Length \in Nat /\ Length <= Len(format)
  BY FormatAssumption DEF Length
<1> HIDE DEF named
<1>2. Length \in T /\ T \subseteq Nat
  BY <1>1
<1>3. PICK x \in T: \A y \in T: x <= y
  <2> HIDE DEF T
  <2> QED BY <1>2, SmallestExists
<1>4. ASSUME NEW k \in 1 .. x, format[k] = Dollar PROVE k \in named
  <2>1. k - 1 \in 0 .. Length /\ ~(x <= k - 1) /\ (k - 1) + 1 = k
    BY <1>1, <1>3
  <2>2. k - 1 \notin T
    BY <1>3, <2>1
  <2> QED BY <1>4, <2>1, <2>2
<1>5. \E n \in 0 .. Length: Before(n) /\ Stops(n)
  BY <1>3, <1>4
<1>6. Sound = CHOOSE n \in 0 .. Length: Before(n) /\ Stops(n)
  BY DEF Sound, named
<1>7. Sound \in 0 .. Length /\ Before(Sound) /\ Stops(Sound)
  BY <1>5, <1>6
<1>8. ASSUME NEW k PROVE k \in named <=> \E p \in Variables: p[1] = k /\ p[1] + 2 < p[2]
  BY DEF named
<1> QED BY <1>1, <1>7, <1>8

\* Where there is a variable, sscanf reads its name and the expansion skips it.
LEMMA NameRead ==
  ASSUME format \in Seq(Symbols), i \in Nat, NEW p \in Variables, p[1] = i + 1
  PROVE  /\ At(i) = Dollar /\ Name = NameOf(p)
         /\ Len(Name) = p[2] - p[1] - 2 /\ AfterVariable(Name) = p[2]
<1>1. /\ p[2] \in Nat /\ i + 2 < p[2] /\ p[2] <= Len(format) /\ Len(format) \in Nat
      /\ format[i + 1] = Dollar /\ format[i + 2] = Open /\ format[p[2]] = Close
      /\ \A k \in i + 3 .. p[2] - 1: format[k] \notin Special
  <2>1. /\ p[2] \in Nat /\ p[1] + 1 < p[2] /\ p[2] <= Len(format)
        /\ format[p[1]] = Dollar /\ format[p[1] + 1] = Open /\ format[p[2]] = Close
        /\ \A k \in p[1] + 2 .. p[2] - 1: format[k] \notin Special
    BY VariableFacts
  <2>2. p[1] + 1 = i + 2 /\ p[1] + 2 = i + 3
    OBVIOUS
  <2> QED BY <2>1, <2>2
<1>2. At(i) = Dollar /\ At(i + 1) = Open
  <2>1. i < Len(format) /\ i + 1 < Len(format) /\ (i + 1) + 1 = i + 2
    BY <1>1
  <2> QED BY <1>1, <2>1 DEF At
<1>3. PICK last \in Nat:
        /\ i + 1 <= last /\ last < Len(format)
        /\ Name = SubSeq(format, i + 3, last + 1)
        /\ \A j \in i + 2 .. last: At(j) \notin Special \cup {End}
        /\ At(last + 1) \in Special \cup {End}
  BY <1>2, NameEnd
<1>4. ~(last < p[2] - 2)
  <2>1. SUFFICES ASSUME last < p[2] - 2 PROVE FALSE
    OBVIOUS
  <2>2. last + 1 < Len(format) /\ last + 1 \in Nat /\ (last + 1) + 1 \in i + 3 .. p[2] - 1
    BY <1>1, <1>3, <2>1
  <2>3. At(last + 1) = format[(last + 1) + 1] /\ At(last + 1) # End
    BY <2>2, SymbolAt
  <2> QED BY <1>1, <1>3, <2>2, <2>3
<1>5. ~(last > p[2] - 2)
  <2>1. SUFFICES ASSUME last > p[2] - 2 PROVE FALSE
    OBVIOUS
  <2>2. p[2] - 1 \in i + 2 .. last /\ p[2] - 1 \in Nat /\ p[2] - 1 < Len(format) /\ (p[2] - 1) + 1 = p[2]
    <3>1. PICK close \in Nat: close = p[2] /\ i + 2 < close /\ close <= Len(format)
      BY <1>1
    <3>2. last > close - 2 /\ i + 1 <= last
      BY <1>3, <2>1, <3>1
    <3>3. close - 1 \in i + 2 .. last /\ close - 1 \in Nat /\ close - 1 < Len(format) /\ (close - 1) + 1 = close
      BY <1>1, <3>1, <3>2
    <3> QED BY <3>1, <3>3
  <2>3. At(p[2] - 1) = Close
    BY <1>1, <2>2, SymbolAt
  <2> QED BY <1>3, <2>2, <2>3, SymbolsDiffer
<1>6. last + 1 = p[2] - 1
  <2>1. PICK close \in Nat: close = p[2]
    BY <1>1
  <2>2. ~(last < close - 2) /\ ~(last > close - 2)
    BY <1>4, <1>5, <2>1
  <2>3. last + 1 = close - 1
    BY <2>2
  <2> QED BY <2>1, <2>3
<1>7. Name = SubSeq(format, i + 3, p[2] - 1)
  BY <1>3, <1>6
<1>8. Name = NameOf(p)
  <2>1. p[1] + 2 = i + 3
    OBVIOUS
  <2> QED BY <1>7, <2>1 DEF NameOf
<1>9. Len(Name) = p[2] - p[1] - 2 /\ i + Len(Name) + 3 = p[2]
  <2>1. PICK close \in Nat: close = p[2] /\ i + 2 < close /\ close <= Len(format)
    BY <1>1
  <2>2. last + 1 = close - 1 /\ Len(Name) = last - i - 1
    BY <1>1, <1>3, <1>6, <2>1
  <2>3. /\ last - i - 1 = close - (i + 1) - 2
        /\ i + (last - i - 1) + 3 = close
    BY <2>1, <2>2
  <2> QED BY <2>1, <2>2, <2>3
<1> QED BY <1>2, <1>8, <1>9 DEF AfterVariable

\* Cutting what is written, piece by piece.
LEMMA CutJoin ==
  ASSUME NEW text \in Seq(Symbols), NEW more \in Seq(Symbols), NEW n \in Nat
  PROVE  /\ Len(text) <= n => Cut(text \o more, n) = Cut(text, n) \o Cut(more, n - Len(text))
         /\ n <= Len(text) => Cut(text \o more, n) = Cut(text, n)
<1>1. text \o more \in Seq(Symbols) /\ Len(text \o more) = Len(text) + Len(more)
  OBVIOUS
<1>2. ASSUME Len(text) <= n
      PROVE  Cut(text \o more, n) = Cut(text, n) \o Cut(more, n - Len(text))
  <2>1. Cut(text, n) = text
    BY <1>2 DEF Cut
  <2>2. PICK room \in Nat: room = n - Len(text)
    BY <1>2
  <2>3. CASE room < Len(more)
    <3>1. n < Len(text \o more)
      BY <1>1, <2>2, <2>3
    <3>2. Cut(text \o more, n) = SubSeq(text \o more, 1, n) /\ Cut(more, room) = SubSeq(more, 1, room)
      BY <2>3, <3>1 DEF Cut
    <3>3. SubSeq(text \o more, 1, n) = text \o SubSeq(more, 1, room)
      BY <1>1, <2>2, <2>3
    <3> QED BY <2>1, <2>2, <3>2, <3>3
  <2>4. CASE ~(room < Len(more))
    <3>1. ~(n < Len(text \o more))
      BY <1>1, <2>2, <2>4
    <3>2. Cut(text \o more, n) = text \o more /\ Cut(more, room) = more
      BY <1>1, <2>4, <3>1 DEF Cut
    <3> QED BY <2>1, <2>2, <3>2
  <2> QED BY <2>3, <2>4
<1>3. ASSUME n <= Len(text) PROVE Cut(text \o more, n) = Cut(text, n)
  <2>1. SubSeq(text \o more, 1, n) = SubSeq(text, 1, n)
    BY <1>3
  <2>2. Cut(text, n) = SubSeq(text, 1, n)
    BY <1>3 DEF Cut
  <2>3. Cut(text \o more, n) = SubSeq(text \o more, 1, n)
    <3>1. n < Len(text \o more) \/ Len(text \o more) = n
      BY <1>1, <1>3
    <3> QED BY <1>1, <3>1 DEF Cut
  <2> QED BY <2>1, <2>2, <2>3
<1> QED BY <1>2, <1>3

\* Text added to the end keeps what the text began with.
LEMMA PrefixKept ==
  ASSUME NEW start \in Seq(Symbols), NEW text \in Seq(Symbols), NEW more \in Seq(Symbols)
  PROVE  /\ IsPrefix(start, start)
         /\ IsPrefix(start, text) => IsPrefix(start, text \o more)
<1>1. ASSUME IsPrefix(start, text) PROVE IsPrefix(start, text \o more)
  <2>1. Len(start) <= Len(text) /\ SubSeq(start, 1, Len(start)) = SubSeq(text, 1, Len(start))
    BY <1>1 DEF IsPrefix
  <2>2. Len(start) <= Len(text \o more)
    BY <2>1
  <2>3. SubSeq(text \o more, 1, Len(start)) = SubSeq(text, 1, Len(start))
    BY <2>1
  <2> QED BY <2>1, <2>2, <2>3 DEF IsPrefix
<1>2. IsPrefix(start, start)
  BY DEF IsPrefix
<1> QED BY <1>1, <1>2

\* The message is used by one variable at most.
LEMMA MessageOnce ==
  ASSUME format \in Seq(Symbols), MessageUses <= 1,
         NEW p \in Variables, NEW q \in Variables, NameOf(p) = MSG, NameOf(q) = MSG
  PROVE  p = q
<1> DEFINE N == Len(format)
           uses == {v \in Variables : NameOf(v) = MSG}
<1>1. IsFiniteSet(uses)
  <2>1. N \in Nat /\ DOMAIN format = 1 .. N
    OBVIOUS
  <2>2. IsFiniteSet(1 .. N)
    BY <2>1, FS_Interval
  <2>3. IsFiniteSet((1 .. N) \X (1 .. N))
    BY <2>2, FS_Product
  <2>4. uses \subseteq (1 .. N) \X (1 .. N)
    BY <2>1 DEF Variables
  <2> QED BY <2>3, <2>4, FS_Subset
<1>2. p \in uses /\ q \in uses
  OBVIOUS
<1>3. Cardinality(uses) <= 1
  BY DEF MessageUses
<1> HIDE DEF uses
<1>4. SUFFICES ASSUME p # q PROVE FALSE
  OBVIOUS
<1>5. Cardinality({p, q}) = 2
  <2>1. IsFiniteSet({p}) /\ Cardinality({p}) = 1 /\ q \notin {p}
    BY <1>4, FS_Singleton
  <2>2. Cardinality({p} \cup {q}) = Cardinality({p}) + 1
    BY <2>1, FS_AddElement
  <2>3. Cardinality({p} \cup {q}) = 2
    <3>1. Cardinality({p} \cup {q}) = 1 + 1
      BY <2>1, <2>2, Zenon
    <3>2. 1 + 1 = 2
      OBVIOUS
    <3> QED BY <3>1, <3>2, Zenon
  <2>4. {p} \cup {q} = {p, q}
    OBVIOUS
  <2> QED BY <2>3, <2>4, Zenon
<1>6. Cardinality({p, q}) <= Cardinality(uses)
  BY <1>1, <1>2, FS_Subset
<1>7. Cardinality(uses) \in Nat
  BY <1>1, FS_CardinalityType
<1> QED BY <1>3, <1>5, <1>6, <1>7

-----------------------------------------------------------------------------
(* The expansion.                                                          *)

\* No variable has its "$" among the first k symbols and its bracket after them.
Between(k) == \A p \in Variables: ~(p[1] <= k /\ k < p[2])

\* The expansion has read the first k symbols and written what they stand for, and
\* the arguments are used only when the message was.
Faithful(k, text, size, kept) ==
  /\ k <= Len(format) /\ Between(k)
  /\ k <= Sound \/ (Sound = Length /\ Meaning(k) = Meaning(Length))
  /\ size = Len(Meaning(k)) /\ text = Cut(Meaning(k), MSG_SIZE)
  /\ kept \/ \E p \in Variables: NameOf(p) = MSG /\ p[2] <= k

\* The expansion took a name that is not closed for a variable: only what was
\* written before is known.
Lost(text) ==
  /\ ~WellFormed /\ Sound < Length
  /\ IsPrefix(Cut(Meaning(Sound), MSG_SIZE), text)

ExpandInv ==
  MessageUses <= 1 =>
    /\ pc \in {"parse", "inside"} => msg_buff = <<>> /\ msg_buff_i = 0 /\ arguments
    /\ pc = "expand" => Faithful(i, msg_buff, msg_buff_i, arguments) \/ Lost(msg_buff)
    /\ ExpansionExact /\ OverrunOnlyIfLong

\* All that is said of the format stays while the format does.
LEMMA FormatStays ==
  ASSUME UNCHANGED format
  PROVE  /\ Variables' = Variables /\ Length' = Length /\ Sound' = Sound
         /\ MessageUses' = MessageUses /\ WellFormed' = WellFormed
         /\ \A p: NameOf(p)' = NameOf(p)
         /\ \A n: Meaning(n)' = Meaning(n)
         /\ \A k: Between(k)' = Between(k)
<1>1. Variables' = Variables /\ Length' = Length
  BY DEF Variables, Length
<1>2. \A p: NameOf(p)' = NameOf(p)
  BY DEF NameOf
<1>3. \A k: Contribution(k)' = Contribution(k)
  BY <1>1, <1>2 DEF Contribution
<1>4. \A n: Meaning(n)' = Meaning(n)
  BY <1>3 DEF Meaning
<1>5. Sound' = Sound
  BY <1>1 DEF Sound
<1>6. MessageUses' = MessageUses /\ WellFormed' = WellFormed
  BY <1>1, <1>2 DEF MessageUses, WellFormed
<1>7. \A k: Between(k)' = Between(k)
  BY <1>1 DEF Between
<1> QED BY <1>1, <1>2, <1>4, <1>5, <1>6, <1>7

\* A symbol outside variables stands for itself.
LEMMA SymbolMeans ==
  ASSUME format \in Seq(Symbols), i \in Nat, i < Length, At(i) # Dollar, Between(i),
         i <= Sound \/ Sound = Length
  PROVE  /\ i < Len(format) /\ At(i) \in Symbols
         /\ i + 1 <= Sound /\ Between(i + 1)
         /\ Meaning(i) \in Seq(Symbols)
         /\ Meaning(i + 1) = Append(Meaning(i), At(i))
<1>1. /\ Length \in Nat /\ Length <= Len(format) /\ Sound \in 0 .. Length
      /\ Sound < Length => format[Sound + 1] = Dollar
  BY SoundPoint
<1>2. i < Len(format) /\ i + 1 \in 1 .. Len(format) /\ i \in 0 .. Len(format) /\ Len(format) \in Nat
  BY <1>1
<1>3. At(i) = format[i + 1] /\ At(i) \in Symbols
  BY <1>2 DEF At
<1>4. ASSUME NEW p \in Variables PROVE ~(p[1] <= i + 1 /\ i + 1 <= p[2])
  <2>1. p[1] \in Nat /\ p[2] \in Nat /\ p[1] + 1 < p[2] /\ format[p[1]] = Dollar
    BY VariableFacts
  <2>2. p[1] # i + 1
    BY <1>3, <2>1
  <2>3. ~(p[1] <= i /\ i < p[2])
    BY DEF Between
  <2> QED BY <2>1, <2>2, <2>3
<1>5. Contribution(i + 1) = <<format[i + 1]>>
  BY <1>2, <1>4, Contributes
<1>6. Meaning(i + 1) = Meaning(i) \o Contribution(i + 1) /\ Meaning(i) \in Seq(Symbols)
  BY <1>2, MeaningSteps
<1>7. Meaning(i + 1) = Append(Meaning(i), At(i))
  <2>1. Meaning(i + 1) = Meaning(i) \o <<At(i)>>
    BY <1>3, <1>5, <1>6
  <2>2. ASSUME NEW text \in Seq(Symbols), NEW symbol \in Symbols
        PROVE  text \o <<symbol>> = Append(text, symbol)
    OBVIOUS
  <2> QED BY <1>3, <1>6, <2>1, <2>2
<1>8. i + 1 <= Sound
  <2>1. Sound # i
    BY <1>1, <1>3
  <2> QED BY <1>1, <2>1
<1>9. Between(i + 1)
  <2>1. ASSUME NEW p \in Variables PROVE ~(p[1] <= i + 1 /\ i + 1 < p[2])
    <3>1. p[2] \in Nat
      BY VariableFacts
    <3> QED BY <1>4, <3>1
  <2> QED BY <2>1 DEF Between
<1> QED BY <1>2, <1>3, <1>6, <1>7, <1>8, <1>9

\* A variable with a name stands for its value, up to its bracket.
LEMMA VariableMeans ==
  ASSUME format \in Seq(Symbols), i \in Nat, i < Length,
         i <= Sound \/ Sound = Length,
         NEW p \in Variables, p[1] = i + 1, Name # <<>>
  PROVE  /\ p[2] <= Len(format) /\ p[2] \in Nat /\ Between(p[2])
         /\ p[2] <= Sound \/ (Sound = Length /\ Meaning(p[2]) = Meaning(Length))
         /\ Meaning(i) \in Seq(Symbols)
         /\ Meaning(p[2]) = Meaning(i) \o ValueOf(Name)
<1>1. /\ Length \in Nat /\ Length <= Len(format) /\ Sound \in Nat /\ Sound <= Length
      /\ Sound < Length =>
           /\ format[Sound + 1] = Dollar
           /\ \A q \in Variables: q[1] = Sound + 1 => ~(q[1] + 2 < q[2])
  BY SoundPoint
<1>2. PICK close \in Nat: close = p[2] /\ i + 2 < close /\ close <= Len(format)
  <2>1. p[2] \in Nat /\ p[1] + 1 < p[2] /\ p[2] <= Len(format)
    BY VariableFacts
  <2> QED BY <2>1
<1>3. Len(Name) = close - i - 3 /\ Name = NameOf(p)
  <2>1. Len(Name) = p[2] - p[1] - 2 /\ Name = NameOf(p)
    BY NameRead
  <2>2. Len(Name) = close - (i + 1) - 2
    BY <1>2, <2>1
  <2> QED BY <1>2, <2>1, <2>2
<1>4. i + 3 < close
  <2>1. Name \in Seq(Symbols)
    <3>1. NameOf(p) = SubSeq(format, i + 3, close - 1)
      <4>1. p[1] + 2 = i + 3
        OBVIOUS
      <4> QED BY <1>2, <4>1 DEF NameOf
    <3>2. SubSeq(format, i + 3, close - 1) \in Seq(Symbols)
      BY <1>2
    <3> QED BY <1>3, <3>1, <3>2
  <2>2. Len(Name) # 0
    BY <2>1
  <2> QED BY <1>2, <1>3, <2>2
<1>5. \A n \in i + 1 .. close: Meaning(n) = Meaning(i) \o ValueOf(Name)
  <2>1. p[1] - 1 = i /\ p[1] .. p[2] = i + 1 .. close
    BY <1>2
  <2>2. \A n \in p[1] .. p[2]: Meaning(n) = Meaning(p[1] - 1) \o ValueOf(NameOf(p))
    BY InsideMeaning
  <2> QED BY <1>3, <2>1, <2>2
<1>6. Sound # i
  <2>1. p[1] + 2 < p[2]
    BY <1>2, <1>4
  <2> QED BY <1>1, <2>1
<1>7. close <= Sound \/ Sound = Length
  <2>1. SUFFICES ASSUME ~(close <= Sound), Sound < Length PROVE FALSE
    BY <1>1
  <2>2. i < Sound /\ Sound + 1 \in i + 2 .. close
    BY <1>1, <1>2, <1>6, <2>1
  <2>3. /\ format[p[1] + 1] = Open /\ format[p[2]] = Close
        /\ \A k \in p[1] + 2 .. p[2] - 1: format[k] \notin Special
    BY VariableFacts
  <2>4. p[1] + 1 = i + 2 /\ p[1] + 2 = i + 3
    OBVIOUS
  <2>5. Sound + 1 = i + 2 \/ Sound + 1 = close \/ Sound + 1 \in i + 3 .. close - 1
    BY <1>1, <1>2, <2>2
  <2>6. format[Sound + 1] # Dollar
    BY <1>2, <2>3, <2>4, <2>5, SymbolsDiffer
  <2> QED BY <1>1, <2>1, <2>6
<1>8. ASSUME ~(close <= Sound) PROVE Meaning(close) = Meaning(Length)
  <2>1. Length \in i + 1 .. close /\ close \in i + 1 .. close
    BY <1>1, <1>2, <1>7, <1>8
  <2> QED BY <1>5, <2>1
<1>9. Between(p[2])
  <2>1. ASSUME NEW q \in Variables, q[1] <= p[2], p[2] < q[2] PROVE FALSE
    <3>1. p[1] \in Nat /\ p[2] \in Nat /\ q[1] \in Nat /\ q[2] \in Nat /\ p[1] + 1 < p[2]
      BY VariableFacts
    <3>2. ~(p[1] < q[1])
      <4>1. p[1] < q[1] => p[2] < q[1]
        BY VariablesApart
      <4> QED BY <2>1, <3>1, <4>1
    <3>3. p[1] # q[1]
      <4>1. p[1] = q[1] => p = q
        BY VariablesApart
      <4> QED BY <2>1, <3>1, <4>1
    <3>4. q[1] < p[1] => q[2] < p[1]
      BY VariablesApart
    <3> QED BY <2>1, <3>1, <3>2, <3>3, <3>4
  <2> QED BY <2>1 DEF Between
<1>10. Meaning(i) \in Seq(Symbols)
  <2>1. i \in 0 .. Len(format)
    BY <1>1
  <2> QED BY <2>1, MeaningSteps
<1>11. Meaning(close) = Meaning(i) \o ValueOf(Name)
  <2>1. close \in i + 1 .. close
    BY <1>2
  <2> QED BY <1>5, <2>1, Zenon
<1> QED BY <1>2, <1>7, <1>8, <1>9, <1>10, <1>11

\* What is left to prove of a step of the expansion that goes on.
LEMMA ExpansionGoesOn ==
  ASSUME UNCHANGED format, pc' = "expand",
         MessageUses <= 1 =>
           Faithful(i', msg_buff', msg_buff_i', arguments') \/ Lost(msg_buff')
  PROVE  ExpandInv'
<1>1. /\ Variables' = Variables /\ Length' = Length /\ Sound' = Sound
      /\ MessageUses' = MessageUses /\ WellFormed' = WellFormed
      /\ \A p: NameOf(p)' = NameOf(p)
      /\ \A n: Meaning(n)' = Meaning(n)
      /\ \A k: Between(k)' = Between(k)
  BY FormatStays
<1>2. Faithful(i', msg_buff', msg_buff_i', arguments') => Faithful(i, msg_buff, msg_buff_i, arguments)'
  BY <1>1 DEF Faithful
<1>3. Lost(msg_buff') => Lost(msg_buff)'
  BY <1>1 DEF Lost
<1>4. ExpansionExact' /\ OverrunOnlyIfLong'
  BY DEF ExpansionExact, OverrunOnlyIfLong
<1> QED BY <1>1, <1>2, <1>3, <1>4 DEF ExpandInv

\* What is left to prove of a step that leaves the buffers.
LEMMA ExpansionOverruns ==
  ASSUME UNCHANGED <<format, accepted>>, pc' = "overrun",
         accepted /\ MessageUses <= 1 =>
           \/ Len(Meaning(Length)) > MSG_SIZE
           \/ \E p \in Variables: Len(NameOf(p)) > VAR_SIZE
  PROVE  ExpandInv'
<1>1. /\ Variables' = Variables /\ Length' = Length /\ MessageUses' = MessageUses
      /\ \A p: NameOf(p)' = NameOf(p)
      /\ \A n: Meaning(n)' = Meaning(n)
  BY FormatStays
<1>2. OverrunOnlyIfLong'
  BY <1>1 DEF OverrunOnlyIfLong
<1>3. ExpansionExact'
  BY DEF ExpansionExact
<1> QED BY <1>2, <1>3 DEF ExpandInv

\* The copy of a symbol keeps the message faithful, or overruns a message too long.
LEMMA FaithfulSymbol ==
  ASSUME TypeInv, ExpandSymbol, MessageUses <= 1,
         Faithful(i, msg_buff, msg_buff_i, arguments)
  PROVE  \/ pc' = "expand" /\ Faithful(i', msg_buff', msg_buff_i', arguments')
         \/ pc' = "overrun" /\ Len(Meaning(Length)) > MSG_SIZE
<1>1. /\ format \in Seq(Symbols) /\ Len(format) \in Nat /\ i \in Nat /\ MSG_SIZE \in Nat
  BY FormatAssumption DEF TypeInv, TypeOK
<1>2. /\ Between(i)
      /\ i <= Sound \/ Sound = Length
      /\ msg_buff_i = Len(Meaning(i)) /\ msg_buff = Cut(Meaning(i), MSG_SIZE)
      /\ arguments \/ \E p \in Variables: NameOf(p) = MSG /\ p[2] <= i
  BY DEF Faithful
<1>3. /\ i < Length /\ At(i) # Dollar /\ i' = i + 1 /\ msg_buff_i' = msg_buff_i + 1
      /\ arguments' = arguments /\ pc = "expand"
  BY DEF ExpandSymbol
<1>4. /\ i < Len(format) /\ At(i) \in Symbols
      /\ i + 1 <= Sound /\ Between(i + 1)
      /\ Meaning(i) \in Seq(Symbols)
      /\ Meaning(i + 1) = Append(Meaning(i), At(i))
  BY <1>1, <1>2, <1>3, SymbolMeans
<1>5. Len(Meaning(i)) \in Nat /\ Len(Meaning(i + 1)) = Len(Meaning(i)) + 1
  BY <1>4
<1>6. CASE msg_buff_i + 1 < BufferSize
  <2>1. msg_buff' = Append(msg_buff, At(i)) /\ pc' = "expand" /\ Len(Meaning(i)) < MSG_SIZE
    BY <1>1, <1>2, <1>3, <1>5, <1>6 DEF ExpandSymbol, BufferSize
  <2>2. msg_buff' = Cut(Meaning(i + 1), MSG_SIZE)
    <3>1. Cut(Meaning(i), MSG_SIZE) = Meaning(i)
      BY <1>1, <1>4, <1>5, <2>1 DEF Cut
    <3>2. ASSUME NEW text \in Seq(Symbols), Len(text) <= MSG_SIZE
          PROVE  Cut(text, MSG_SIZE) = text
      BY <1>1, <3>2 DEF Cut
    <3>4. Meaning(i + 1) \in Seq(Symbols)
      <4>1. i + 1 \in 0 .. Len(format)
        BY <1>1, <1>4
      <4> QED BY <1>1, <4>1, MeaningSteps
    <3>3. Cut(Meaning(i + 1), MSG_SIZE) = Meaning(i + 1)
      <4>1. Len(Meaning(i + 1)) <= MSG_SIZE
        BY <1>1, <1>5, <2>1
      <4> QED BY <3>2, <3>4, <4>1
    <3> QED BY <1>2, <1>4, <2>1, <3>1, <3>3
  <2>3. arguments \/ \E p \in Variables: NameOf(p) = MSG /\ p[2] <= i + 1
    <3>1. ASSUME NEW p \in Variables, p[2] <= i PROVE p[2] <= i + 1
      <4>1. p[2] \in Nat
        BY <1>1, VariableFacts
      <4> QED BY <1>1, <3>1, <4>1
    <3> QED BY <1>2, <3>1
  <2>4. i + 1 <= Len(format) /\ msg_buff_i + 1 = Len(Meaning(i + 1))
    BY <1>1, <1>2, <1>4, <1>5
  <2>5. Faithful(i + 1, msg_buff', msg_buff_i + 1, arguments)
    BY <1>4, <2>2, <2>3, <2>4 DEF Faithful
  <2> QED BY <1>3, <2>1, <2>5
<1>7. CASE ~(msg_buff_i + 1 < BufferSize)
  <2>1. pc' = "overrun" /\ Len(Meaning(i + 1)) > MSG_SIZE
    BY <1>1, <1>2, <1>5, <1>7 DEF ExpandSymbol, BufferSize
  <2>2. Length \in i + 1 .. Len(format) /\ i + 1 \in 0 .. Len(format)
    BY <1>1, <1>3, <1>4, SoundPoint
  <2>3. Len(Meaning(i + 1)) <= Len(Meaning(Length)) /\ Len(Meaning(Length)) \in Nat
    <3>1. Meaning(Length) \in Seq(Symbols)
      <4>1. Length \in 0 .. Len(format)
        BY <1>1, <2>2
      <4> QED BY <1>1, <4>1, MeaningSteps
    <3> QED BY <1>1, <2>2, <3>1, MeaningGrows
  <2> QED BY <1>1, <1>5, <2>1, <2>3
<1> QED BY <1>6, <1>7

\* The expansion of an option keeps the message faithful, or overruns a buffer.
LEMMA FaithfulVariable ==
  ASSUME TypeInv, ExpandVariable, MessageUses <= 1,
         Faithful(i, msg_buff, msg_buff_i, arguments),
         NEW p \in Variables, p[1] = i + 1
  PROVE  \/ pc' = "expand" /\ Faithful(i', msg_buff', msg_buff_i', arguments')
         \/ pc' = "overrun" /\ Len(Meaning(Length)) > MSG_SIZE
         \/ pc' = "overrun" /\ Len(NameOf(p)) > VAR_SIZE
<1>1. /\ format \in Seq(Symbols) /\ Len(format) \in Nat /\ i \in Nat /\ MSG_SIZE \in Nat
  BY FormatAssumption DEF TypeInv, TypeOK
<1>2. /\ i <= Sound \/ Sound = Length
      /\ msg_buff_i = Len(Meaning(i)) /\ msg_buff = Cut(Meaning(i), MSG_SIZE)
      /\ arguments \/ \E q \in Variables: NameOf(q) = MSG /\ q[2] <= i
  BY DEF Faithful
<1>3. /\ i < Length /\ Name # <<>> /\ i' = AfterVariable(Name) /\ pc = "expand"
      /\ arguments' = (arguments /\ Name # MSG)
  BY DEF ExpandVariable
<1>4. Name = NameOf(p) /\ AfterVariable(Name) = p[2]
  BY <1>1, NameRead
<1>5. /\ p[2] <= Len(format) /\ p[2] \in Nat /\ Between(p[2])
      /\ p[2] <= Sound \/ (Sound = Length /\ Meaning(p[2]) = Meaning(Length))
      /\ Meaning(i) \in Seq(Symbols)
      /\ Meaning(p[2]) = Meaning(i) \o ValueOf(Name)
  BY <1>1, <1>2, <1>3, VariableMeans
<1>6. i < p[2]
  <2>1. p[1] + 1 < p[2]
    BY <1>1, VariableFacts
  <2> QED BY <1>1, <1>5, <2>1
<1>7. Translations(Name) = {ValueOf(Name)}
  <2>1. CASE Name # MSG
    BY <2>1 DEF Translations, ValueOf
  <2>2. CASE Name = MSG
    <3>1. ASSUME NEW q \in Variables, NameOf(q) = MSG, q[2] <= i PROVE FALSE
      <4>1. q = p
        BY <1>1, <1>4, <2>2, <3>1, MessageOnce
      <4> QED BY <1>1, <1>5, <1>6, <3>1, <4>1
    <3>2. arguments
      BY <1>2, <3>1
    <3> QED BY <2>2, <3>2 DEF Translations, ValueOf
  <2> QED BY <2>1, <2>2
<1>8. PICK head \in Seq(Symbols): head = Meaning(i)
  BY <1>5
<1>9. PICK value \in Seq(Symbols): value = ValueOf(Name)
  BY ValueIsText
<1>10. /\ IF Len(Name) > VAR_SIZE \/ (msg_buff_i > MSG_SIZE /\ value # <<>>)
          THEN pc' = "overrun" /\ UNCHANGED msg_buff
          ELSE /\ pc' = pc
               /\ msg_buff' = msg_buff \o
                    (IF msg_buff_i > MSG_SIZE THEN <<>> ELSE Cut(value, Room))
       /\ msg_buff_i' = msg_buff_i + Len(value)
  BY <1>7, <1>9 DEF ExpandVariable
<1>11. /\ Len(head) \in Nat /\ msg_buff_i = Len(head) /\ msg_buff = Cut(head, MSG_SIZE)
       /\ Meaning(p[2]) = head \o value /\ msg_buff_i' = Len(Meaning(p[2]))
  <2>1. msg_buff_i = Len(head) /\ msg_buff = Cut(head, MSG_SIZE) /\ Meaning(p[2]) = head \o value
    BY <1>2, <1>5, <1>8, <1>9
  <2>2. Len(head \o value) = Len(head) + Len(value)
    OBVIOUS
  <2> QED BY <1>10, <2>1, <2>2
<1>12. arguments' \/ \E q \in Variables: NameOf(q) = MSG /\ q[2] <= p[2]
  <2>1. CASE Name = MSG
    <3>1. NameOf(p) = MSG /\ p[2] <= p[2]
      BY <1>4, <1>5, <2>1
    <3> QED BY <3>1
  <2>2. CASE Name # MSG
    <3>1. arguments => arguments'
      BY <1>3, <2>2, Zenon
    <3>2. ASSUME NEW q \in Variables, q[2] <= i PROVE q[2] <= p[2]
      <4>1. q[2] \in Nat
        BY <1>1, VariableFacts
      <4> QED BY <1>1, <1>5, <1>6, <3>2, <4>1
    <3> QED BY <1>2, <3>1, <3>2
  <2> QED BY <2>1, <2>2
<1>13. ASSUME pc' = "expand", msg_buff' = Cut(head \o value, MSG_SIZE)
       PROVE  pc' = "expand" /\ Faithful(i', msg_buff', msg_buff_i', arguments')
  <2>1. Faithful(p[2], msg_buff', msg_buff_i', arguments')
    BY <1>5, <1>11, <1>12, <1>13 DEF Faithful
  <2>2. i' = p[2]
    BY <1>3, <1>4
  <2> QED BY <1>13, <2>1, <2>2
<1>14. CASE Len(Name) > VAR_SIZE
  BY <1>4, <1>10, <1>14
<1>15. CASE ~(Len(Name) > VAR_SIZE) /\ msg_buff_i > MSG_SIZE /\ value # <<>>
  <2>1. pc' = "overrun"
    BY <1>10, <1>15
  <2>2. i \in 0 .. Len(format) /\ Length \in i .. Len(format)
    BY <1>1, <1>3, SoundPoint
  <2>3. Len(Meaning(i)) <= Len(Meaning(Length)) /\ Len(Meaning(Length)) \in Nat
    <3>1. Meaning(Length) \in Seq(Symbols)
      <4>1. Length \in 0 .. Len(format)
        BY <1>1, <2>2
      <4> QED BY <1>1, <4>1, MeaningSteps
    <3> QED BY <1>1, <2>2, <3>1, MeaningGrows
  <2>4. Len(Meaning(i)) > MSG_SIZE /\ Len(Meaning(i)) \in Nat
    BY <1>2, <1>8, <1>11, <1>15
  <2>5. Len(Meaning(Length)) > MSG_SIZE
    BY <1>1, <2>3, <2>4
  <2> QED BY <2>1, <2>5
<1>16. CASE ~(Len(Name) > VAR_SIZE) /\ msg_buff_i > MSG_SIZE /\ value = <<>>
  <2>1. pc' = "expand" /\ msg_buff' = msg_buff \o <<>>
    BY <1>3, <1>10, <1>16
  <2>2. head \o value = head /\ Cut(head, MSG_SIZE) \o <<>> = Cut(head, MSG_SIZE)
    <3>1. Cut(head, MSG_SIZE) \in Seq(Symbols)
      BY <1>1, CutText
    <3> QED BY <1>16, <3>1
  <2>3. msg_buff' = Cut(head \o value, MSG_SIZE)
    BY <1>11, <2>1, <2>2
  <2> QED BY <1>13, <2>1, <2>3
<1>17. CASE ~(Len(Name) > VAR_SIZE) /\ ~(msg_buff_i > MSG_SIZE)
  <2>1. pc' = "expand" /\ msg_buff' = msg_buff \o Cut(value, Room)
    BY <1>3, <1>10, <1>17
  <2>2. Room = MSG_SIZE - Len(head) /\ Len(head) <= MSG_SIZE
    BY <1>1, <1>11, <1>17 DEF Room
  <2>3. Cut(head \o value, MSG_SIZE) = Cut(head, MSG_SIZE) \o Cut(value, MSG_SIZE - Len(head))
    BY <1>1, <2>2, CutJoin
  <2>4. msg_buff' = Cut(head \o value, MSG_SIZE)
    BY <1>11, <2>1, <2>2, <2>3
  <2> QED BY <1>13, <2>1, <2>4
<1> QED BY <1>14, <1>15, <1>16, <1>17
\* A name that is read where no variable begins.
LEMMA FaithfulMistake ==
  ASSUME TypeInv, Faithful(i, msg_buff, msg_buff_i, arguments),
         i < Length, At(i) = Dollar, ~(\E p \in Variables: p[1] = i + 1 /\ p[1] + 2 < p[2])
  PROVE  /\ i = Sound /\ Sound < Length
         /\ IsPrefix(Cut(Meaning(Sound), MSG_SIZE), msg_buff)
         /\ ~(\E p \in Variables: p[1] = i + 1) => Lost(msg_buff)
<1>1. /\ format \in Seq(Symbols) /\ Len(format) \in Nat /\ i \in Nat /\ MSG_SIZE \in Nat
  BY FormatAssumption DEF TypeInv, TypeOK
<1>2. /\ i <= Sound \/ Sound = Length
      /\ msg_buff = Cut(Meaning(i), MSG_SIZE)
  BY DEF Faithful
<1>3. /\ Length \in Nat /\ Length <= Len(format) /\ Sound \in 0 .. Length
      /\ \A k \in 1 .. Sound: format[k] = Dollar => \E p \in Variables: p[1] = k /\ p[1] + 2 < p[2]
  BY <1>1, SoundPoint
<1>4. i + 1 \in 1 .. Len(format) /\ format[i + 1] = Dollar
  BY <1>1, <1>3 DEF At
<1>5. i = Sound
  <2>1. ~(i + 1 <= Sound)
    <3>1. SUFFICES ASSUME i + 1 <= Sound PROVE FALSE
      OBVIOUS
    <3>2. i + 1 \in 1 .. Sound
      BY <1>1, <1>3, <3>1
    <3> QED BY <1>3, <1>4, <3>2
  <2> QED BY <1>1, <1>2, <1>3, <2>1
<1>6. IsPrefix(Cut(Meaning(Sound), MSG_SIZE), msg_buff)
  <2>1. Cut(Meaning(Sound), MSG_SIZE) = msg_buff /\ msg_buff \in Seq(Symbols)
    BY <1>2, <1>5 DEF TypeInv
  <2> QED BY <2>1, PrefixKept
<1>7. ASSUME ~(\E p \in Variables: p[1] = i + 1) PROVE ~WellFormed
  BY <1>1, <1>4, <1>7 DEF WellFormed
<1> QED BY <1>5, <1>6, <1>7 DEF Lost

\* A message that is lost stays so.
LEMMA LostStays ==
  ASSUME TypeInv, Lost(msg_buff), ExpandSymbol \/ ExpandVariable
  PROVE  Lost(msg_buff')
<1>1. /\ format \in Seq(Symbols) /\ msg_buff \in Seq(Symbols) /\ MSG_SIZE \in Nat
  BY FormatAssumption DEF TypeInv
<1>2. PICK start \in Seq(Symbols): start = Cut(Meaning(Sound), MSG_SIZE)
  <2>1. Sound \in 0 .. Len(format)
    BY <1>1, SoundPoint
  <2>2. Meaning(Sound) \in Seq(Symbols)
    BY <1>1, <2>1, MeaningSteps
  <2> QED BY <1>1, <2>2, CutText
<1>3. \E more \in Seq(Symbols): msg_buff' = msg_buff \o more
  <2>1. <<>> \in Seq(Symbols) /\ msg_buff = msg_buff \o <<>>
    BY <1>1
  <2>2. CASE ExpandSymbol
    <3>1. i \in Nat /\ i < Len(format)
      <4>1. i < Length /\ Length <= Len(format) /\ Length \in Nat /\ i \in Nat /\ Len(format) \in Nat
        BY <1>1, <2>2, SoundPoint DEF ExpandSymbol, TypeInv, TypeOK
      <4> QED BY <4>1
    <3>2. At(i) \in Symbols
      BY <1>1, <3>1 DEF At
    <3>3. msg_buff' = msg_buff \/ msg_buff' = Append(msg_buff, At(i))
      BY <2>2 DEF ExpandSymbol
    <3>4. ASSUME NEW symbol \in Symbols
          PROVE  Append(msg_buff, symbol) = msg_buff \o <<symbol>> /\ <<symbol>> \in Seq(Symbols)
      BY <1>1
    <3> QED BY <2>1, <3>2, <3>3, <3>4
  <2>3. CASE ExpandVariable
    <3>1. PICK translation \in Translations(Name):
            \/ msg_buff' = msg_buff
            \/ msg_buff' = msg_buff \o <<>>
            \/ ~(msg_buff_i > MSG_SIZE) /\ msg_buff' = msg_buff \o Cut(translation, Room)
      BY <2>3 DEF ExpandVariable
    <3>2. CASE ~(msg_buff_i > MSG_SIZE) /\ msg_buff' = msg_buff \o Cut(translation, Room)
      <4>1. Room \in Nat
        BY <1>1, <3>2 DEF Room, TypeInv
      <4>2. Cut(translation, Room) \in Seq(Symbols)
        BY <4>1, TranslationsAreTexts, CutText
      <4> QED BY <3>2, <4>2
    <3> QED BY <2>1, <3>1, <3>2
  <2> QED BY <2>2, <2>3
<1>4. PICK more \in Seq(Symbols): msg_buff' = msg_buff \o more
  BY <1>3
<1>5. IsPrefix(start, msg_buff)
  BY <1>2 DEF Lost
<1>6. IsPrefix(start, msg_buff')
  BY <1>1, <1>4, <1>5, PrefixKept
<1> QED BY <1>2, <1>6 DEF Lost

\* The copy of a symbol keeps the invariant of the expansion.
LEMMA SymbolExpanded ==
  ASSUME TypeInv, ParserInv, ExpandInv, ExpandSymbol
  PROVE  ExpandInv'
<1>1. /\ UNCHANGED <<format, accepted>> /\ pc = "expand" /\ pc' \in {"expand", "overrun"}
  BY DEF ExpandSymbol
<1>2. ASSUME MessageUses <= 1
      PROVE  Faithful(i, msg_buff, msg_buff_i, arguments) \/ Lost(msg_buff)
  BY <1>1, <1>2 DEF ExpandInv
<1>3. CASE pc' = "expand"
  <2>1. ASSUME MessageUses <= 1
        PROVE  Faithful(i', msg_buff', msg_buff_i', arguments') \/ Lost(msg_buff')
    BY <1>2, <1>3, <2>1, FaithfulSymbol, LostStays
  <2> QED BY <1>1, <1>3, <2>1, ExpansionGoesOn
<1>4. CASE pc' = "overrun"
  <2>1. accepted => WellFormed
    BY <1>1 DEF ParserInv, ParserDecidesSyntax
  <2>2. ASSUME accepted, MessageUses <= 1 PROVE Len(Meaning(Length)) > MSG_SIZE
    BY <1>2, <1>4, <2>1, <2>2, FaithfulSymbol DEF Lost
  <2> QED BY <1>1, <1>4, <2>2, ExpansionOverruns
<1> QED BY <1>1, <1>3, <1>4

\* The expansion of an option keeps the invariant of the expansion.
LEMMA VariableExpanded ==
  ASSUME TypeInv, ParserInv, ExpandInv, ExpandVariable
  PROVE  ExpandInv'
<1>1. /\ UNCHANGED <<format, accepted>> /\ pc = "expand" /\ pc' \in {"expand", "overrun"}
      /\ i < Length /\ At(i) = Dollar /\ Name # <<>>
  BY DEF ExpandVariable
<1>2. ASSUME MessageUses <= 1
      PROVE  Faithful(i, msg_buff, msg_buff_i, arguments) \/ Lost(msg_buff)
  BY <1>1, <1>2 DEF ExpandInv
<1>3. ASSUME MessageUses <= 1, ~Lost(msg_buff) PROVE \E p \in Variables: p[1] = i + 1
  <2>1. SUFFICES ASSUME ~(\E p \in Variables: p[1] = i + 1) PROVE FALSE
    OBVIOUS
  <2>2. Faithful(i, msg_buff, msg_buff_i, arguments)
    BY <1>2, <1>3
  <2> QED BY <1>1, <1>3, <2>1, <2>2, FaithfulMistake
<1>4. CASE pc' = "expand"
  <2>1. ASSUME MessageUses <= 1
        PROVE  Faithful(i', msg_buff', msg_buff_i', arguments') \/ Lost(msg_buff')
    <3>1. CASE Lost(msg_buff)
      BY <3>1, LostStays
    <3>2. CASE ~Lost(msg_buff)
      <4>1. PICK p \in Variables: p[1] = i + 1
        BY <1>3, <2>1, <3>2
      <4> QED BY <1>2, <1>4, <2>1, <3>2, <4>1, FaithfulVariable
    <3> QED BY <3>1, <3>2
  <2> QED BY <1>1, <1>4, <2>1, ExpansionGoesOn
<1>5. CASE pc' = "overrun"
  <2>1. accepted => WellFormed
    BY <1>1 DEF ParserInv, ParserDecidesSyntax
  <2>2. ASSUME accepted, MessageUses <= 1
        PROVE  \/ Len(Meaning(Length)) > MSG_SIZE
               \/ \E p \in Variables: Len(NameOf(p)) > VAR_SIZE
    <3>1. ~Lost(msg_buff)
      BY <2>1, <2>2 DEF Lost
    <3>2. PICK p \in Variables: p[1] = i + 1
      BY <1>3, <2>2, <3>1
    <3> QED BY <1>2, <1>5, <2>2, <3>1, <3>2, FaithfulVariable
  <2> QED BY <1>1, <1>5, <2>2, ExpansionOverruns
<1> QED BY <1>1, <1>4, <1>5

\* The end of the expansion keeps its invariant.
LEMMA ExpansionEnded ==
  ASSUME TypeInv, ParserInv, ExpandInv, ExpandEnds
  PROVE  ExpandInv'
<1>1. /\ UNCHANGED <<format, msg_buff>> /\ pc = "expand" /\ pc' = "done"
      /\ i >= Length \/ (i < Length /\ At(i) = Dollar /\ Name = <<>>)
  <2>1. i \in Nat /\ Length \in Nat
    BY SoundPoint DEF TypeInv, TypeOK
  <2> QED BY <2>1 DEF ExpandEnds
<1>2. /\ format \in Seq(Symbols) /\ Len(format) \in Nat /\ i \in Nat /\ msg_buff \in Seq(Symbols)
  BY DEF TypeInv, TypeOK
<1>3. /\ Length' = Length /\ Sound' = Sound /\ MessageUses' = MessageUses
      /\ \A n: Meaning(n)' = Meaning(n)
  BY <1>1, FormatStays
<1>4. ASSUME MessageUses <= 1
      PROVE  /\ IsPrefix(Cut(Meaning(Sound), MSG_SIZE), msg_buff)
             /\ Sound = Length => msg_buff = Cut(Meaning(Sound), MSG_SIZE)
  <2>1. CASE Lost(msg_buff)
    <3>1. Sound # Length
      BY <1>2, <2>1, SoundPoint DEF Lost
    <3> QED BY <2>1, <3>1 DEF Lost
  <2>2. CASE Faithful(i, msg_buff, msg_buff_i, arguments) /\ i >= Length
    <3>1. Sound = Length /\ Meaning(i) = Meaning(Length)
      <4>1. i <= Sound \/ (Sound = Length /\ Meaning(i) = Meaning(Length))
        BY <2>2 DEF Faithful
      <4>2. Sound \in 0 .. Length /\ Length \in Nat
        BY <1>2, SoundPoint
      <4>3. i <= Sound => i = Length /\ Sound = Length
        BY <1>2, <2>2, <4>2
      <4> QED BY <4>1, <4>3
    <3>2. msg_buff = Cut(Meaning(Sound), MSG_SIZE)
      BY <2>2, <3>1 DEF Faithful
    <3> QED BY <1>2, <3>2, PrefixKept
  <2>3. CASE /\ Faithful(i, msg_buff, msg_buff_i, arguments)
             /\ i < Length /\ At(i) = Dollar /\ Name = <<>>
    <3>1. ASSUME NEW p \in Variables, p[1] = i + 1 PROVE ~(p[1] + 2 < p[2])
      <4>1. Len(Name) = p[2] - p[1] - 2 /\ Len(Name) = 0
        BY <1>2, <2>3, <3>1, NameRead
      <4>2. p[1] \in Nat /\ p[2] \in Nat
        BY <1>2, VariableFacts
      <4> QED BY <4>1, <4>2
    <3>2. Sound < Length /\ IsPrefix(Cut(Meaning(Sound), MSG_SIZE), msg_buff)
      BY <2>3, <3>1, FaithfulMistake
    <3>3. Sound # Length
      BY <1>2, <3>2, SoundPoint
    <3> QED BY <3>2, <3>3
  <2> QED BY <1>1, <1>4, <2>1, <2>2, <2>3 DEF ExpandInv
<1>5. ExpansionExact'
  BY <1>1, <1>3, <1>4 DEF ExpansionExact
<1>6. OverrunOnlyIfLong'
  BY <1>1 DEF OverrunOnlyIfLong
<1> QED BY <1>1, <1>5, <1>6 DEF ExpandInv

\* The steps of the parser keep the invariant of the expansion.
LEMMA ParserExpandInv ==
  ASSUME TypeInv, ExpandInv, ParseSymbol \/ ParseInside
  PROVE  ExpandInv'
<1>1. /\ UNCHANGED <<format, msg_buff, msg_buff_i, arguments>>
      /\ pc \in {"parse", "inside"} /\ pc' \in {"parse", "inside", "expand"}
      /\ pc' = "expand" => i' = 0
  BY DEF ParseSymbol, ParseInside, Parsing, Verdict
<1>2. ASSUME MessageUses <= 1 PROVE msg_buff = <<>> /\ msg_buff_i = 0 /\ arguments
  BY <1>1, <1>2 DEF ExpandInv
<1>3. CASE pc' = "expand"
  <2>1. ASSUME MessageUses <= 1 PROVE Faithful(0, <<>>, 0, TRUE)
    <3>1. format \in Seq(Symbols) /\ MSG_SIZE \in Nat
      BY FormatAssumption DEF TypeInv
    <3>2. Between(0)
      <4>1. ASSUME NEW p \in Variables PROVE ~(p[1] <= 0)
        <5>1. p[1] \in Nat /\ 1 <= p[1]
          BY <3>1, VariableFacts
        <5> QED BY <5>1
      <4> QED BY <4>1 DEF Between
    <3>3. 0 <= Sound /\ 0 <= Len(format)
      BY <3>1, SoundPoint
    <3>4. Meaning(0) = <<>>
      BY <3>1, MeaningSteps
    <3>5. Len(<<>>) = 0 /\ Cut(<<>>, MSG_SIZE) = <<>>
      BY <3>1 DEF Cut
    <3> QED BY <3>2, <3>3, <3>4, <3>5 DEF Faithful
  <2>2. ASSUME MessageUses <= 1
        PROVE  Faithful(i', msg_buff', msg_buff_i', arguments')
    <3>1. i' = 0 /\ msg_buff' = <<>> /\ msg_buff_i' = 0 /\ arguments'
      BY <1>1, <1>2, <1>3, <2>2
    <3> QED BY <2>1, <2>2, <3>1 DEF Faithful
  <2> QED BY <1>1, <1>3, <2>2, ExpansionGoesOn
<1>4. CASE pc' \in {"parse", "inside"}
  <2>1. MessageUses' = MessageUses
    BY <1>1, FormatStays
  <2> QED BY <1>1, <1>2, <1>4, <2>1 DEF ExpandInv, ExpansionExact, OverrunOnlyIfLong
<1> QED BY <1>1, <1>3, <1>4

\* The invariant of the expansion holds in every reachable state.
LEMMA ExpandInvariant == Spec => []ExpandInv
<1>1. Init => ExpandInv
  BY DEF Init, ExpandInv, ExpansionExact, OverrunOnlyIfLong
<1>2. TypeInv /\ ParserInv /\ ExpandInv /\ [Next]_vars => ExpandInv'
  <2> SUFFICES ASSUME TypeInv, ParserInv, ExpandInv, [Next]_vars PROVE ExpandInv'
    OBVIOUS
  <2>1. CASE UNCHANGED vars
    <3>1. UNCHANGED <<format, pc, i, accepted, msg_buff, msg_buff_i, arguments>>
      BY <2>1 DEF vars
    <3>2. /\ Variables' = Variables /\ Length' = Length /\ Sound' = Sound
          /\ MessageUses' = MessageUses /\ WellFormed' = WellFormed
          /\ \A p: NameOf(p)' = NameOf(p)
          /\ \A n: Meaning(n)' = Meaning(n)
          /\ \A k: Between(k)' = Between(k)
      BY <3>1, FormatStays
    <3>3. ExpansionExact => ExpansionExact'
      BY <3>1, <3>2 DEF ExpansionExact
    <3>4. OverrunOnlyIfLong => OverrunOnlyIfLong'
      BY <3>1, <3>2 DEF OverrunOnlyIfLong
    <3>5. /\ Faithful(i, msg_buff, msg_buff_i, arguments) => Faithful(i, msg_buff, msg_buff_i, arguments)'
          /\ Lost(msg_buff) => Lost(msg_buff)'
      BY <3>1, <3>2 DEF Faithful, Lost
    <3> QED BY <3>1, <3>2, <3>3, <3>4, <3>5 DEF ExpandInv
  <2> QED BY <2>1, ParserExpandInv, SymbolExpanded, VariableExpanded, ExpansionEnded DEF Next
<1> QED BY <1>1, <1>2, TypeInvariant, ParserInvariant, PTL DEF Spec

\* The message is what the format stands for up to the first "$" that begins no
\* variable with a name, and cut at MSG_SIZE: message_format_parse, the sscanf of
\* create_msg_buffer and the step over a variable agree on where variables end, for
\* every format that uses the message once at most.
THEOREM ExpansionIsExact == Spec => []ExpansionExact
<1>1. TypeInv /\ ExpandInv => ExpansionExact
  BY DEF ExpandInv, ExpansionExact
<1> QED BY <1>1, TypeInvariant, ExpandInvariant, PTL

\* The expansion of an accepted format leaves the static buffers of create_msg_buffer
\* only when what it stands for is longer than a message or a name longer than a name
\* may be.
THEOREM OverrunsAreLong == Spec => []OverrunOnlyIfLong
<1>1. TypeInv /\ ExpandInv => OverrunOnlyIfLong
  BY DEF ExpandInv, OverrunOnlyIfLong
<1> QED BY <1>1, TypeInvariant, ExpandInvariant, PTL

=============================================================================

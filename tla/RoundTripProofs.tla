--------------------------- MODULE RoundTripProofs ---------------------------
(***************************************************************************)
(* That a load gives back what was exported, where every line is whole:    *)
(* which structures and values the reader finds in the text, all of it or  *)
(* a part, for any levels, any strings that fit their lines and any        *)
(* capacity of the reader.                                                 *)
(***************************************************************************)
EXTENDS ConfigLoadProofs

-----------------------------------------------------------------------------
(* Brackets in strings.                                                    *)

\* The places of a text, and the one behind it, before which in_string is set: it is
\* not where the text begins and ends, and no symbol of B stands where it is not.
InStrings(inside, t, B) ==
  /\ 1 \notin inside /\ Len(t) + 1 \notin inside
  /\ \A i \in 1 .. Len(t):
       /\ i + 1 \in inside <=> IF t[i] = Quote THEN i \notin inside ELSE i \in inside
       /\ i \notin inside => t[i] \notin B

\* Texts that have symbols of B only in strings, which are closed.
Quiet(B) == {t \in Seq(Symbols) : \E inside: InStrings(inside, t, B)}

\* One such text behind another is one.
LEMMA QuietJoin ==
  ASSUME NEW B, NEW s \in Quiet(B), NEW t \in Quiet(B)
  PROVE  s \o t \in Quiet(B)
<1>1. PICK a: InStrings(a, s, B)
  BY DEF Quiet
<1>2. PICK b: InStrings(b, t, B)
  BY DEF Quiet
<1>3. s \in Seq(Symbols) /\ t \in Seq(Symbols)
  BY DEF Quiet
<1>4. PICK k \in Nat, l \in Nat: k = Len(s) /\ l = Len(t)
  BY <1>3
<1> DEFINE u == s \o t
           c == {i \in 1 .. k + l + 1 : IF i <= k THEN i \in a ELSE i - k \in b}
<1>5. /\ u \in Seq(Symbols) /\ Len(u) = k + l
      /\ \A i \in 1 .. k: u[i] = s[i]
      /\ \A i \in 1 .. l: u[k + i] = t[i]
  BY <1>3, <1>4, JoinFacts
<1> HIDE DEF u
<1>6. /\ \A i \in 1 .. k + 1: i \in c <=> i \in a
      /\ \A j \in 1 .. l + 1: k + j \in c <=> j \in b
  <2>1. \A j \in 1 .. l + 1: k + j \in 1 .. k + l + 1 /\ (k + j) - k = j /\ ~(k + j <= k)
    OBVIOUS
  <2>2. \A j \in 1 .. l + 1: k + j \in c <=> j \in b
    BY <2>1
  <2>3. \A i \in 1 .. k: i \in c <=> i \in a
    OBVIOUS
  <2>4. k + 1 \notin c /\ k + 1 \notin a
    <3>1. 1 \in 1 .. l + 1
      OBVIOUS
    <3> HIDE DEF c
    <3> QED BY <1>1, <1>2, <1>4, <2>2, <3>1 DEF InStrings
  <2> HIDE DEF c
  <2>5. \A i \in 1 .. k + 1: i \in 1 .. k \/ i = k + 1
    OBVIOUS
  <2> QED BY <2>2, <2>3, <2>4, <2>5
<1> HIDE DEF c
<1>7. 1 \notin c /\ Len(u) + 1 \notin c
  <2>1. 1 \in 1 .. k + 1 /\ l + 1 \in 1 .. l + 1 /\ Len(u) + 1 = k + (l + 1)
    BY <1>5
  <2> QED BY <1>1, <1>2, <1>4, <1>6, <2>1 DEF InStrings
<1>8. ASSUME NEW i \in 1 .. Len(u)
      PROVE  /\ i + 1 \in c <=> IF u[i] = Quote THEN i \notin c ELSE i \in c
             /\ i \notin c => u[i] \notin B
  <2>1. CASE i <= k
    <3>1. i \in 1 .. k /\ i + 1 \in 1 .. k + 1 /\ i \in 1 .. k + 1
      BY <2>1
    <3>2. (i \in c <=> i \in a) /\ (i + 1 \in c <=> i + 1 \in a) /\ u[i] = s[i]
      BY <1>5, <1>6, <3>1
    <3> QED BY <1>1, <1>4, <3>1, <3>2 DEF InStrings
  <2>2. CASE ~(i <= k)
    <3>1. PICK j \in 1 .. l: /\ i = k + j /\ i + 1 = k + (j + 1)
                             /\ j \in 1 .. l + 1 /\ j + 1 \in 1 .. l + 1
      <4>1. i - k \in 1 .. l /\ i = k + (i - k) /\ i + 1 = k + ((i - k) + 1)
        BY <1>5, <2>2
      <4> QED BY <4>1
    <3>2. (i \in c <=> j \in b) /\ (i + 1 \in c <=> j + 1 \in b) /\ u[i] = t[j]
      BY <1>5, <1>6, <3>1
    <3> QED BY <1>2, <1>4, <3>2 DEF InStrings
  <2> QED BY <2>1, <2>2
<1>9. InStrings(c, u, B)
  BY <1>7, <1>8 DEF InStrings
<1> QED BY <1>5, <1>9 DEF Quiet, u

\* A symbol that is neither a quote nor of B.
LEMMA QuietSymbol ==
  ASSUME NEW B, NEW x \in Symbols, x # Quote, x \notin B PROVE << x >> \in Quiet(B)
<1>1. << x >> \in Seq(Symbols) /\ Len(<< x >>) = 1 /\ << x >>[1] = x
  OBVIOUS
<1>2. PICK t: t = << x >>
  OBVIOUS
<1>3. InStrings({}, t, B)
  BY <1>1, <1>2 DEF InStrings
<1> QED BY <1>1, <1>2, <1>3 DEF Quiet

\* No text at all is quiet.
LEMMA QuietNothing == ASSUME NEW B PROVE <<>> \in Quiet(B)
<1>1. InStrings({}, <<>>, B)
  BY DEF InStrings
<1> QED BY <1>1 DEF Quiet

\* A string in quotes, whatever symbols of B it has.
LEMMA QuietString ==
  ASSUME NEW B, Quote \notin B, NEW s \in String, ~Holds(s, Quote)
  PROVE  QuotedText(s) \in Quiet(B)
<1> DEFINE u == QuotedText(s)
<1>1. PICK l \in Nat: l = Len(s) /\ s \in Seq(Letters) /\ DOMAIN s = 1 .. l
  BY DEF String
<1>2. /\ u \in Seq(Symbols) /\ Len(u) = l + 2 /\ u[1] = Quote /\ u[l + 2] = Quote
      /\ \A i \in 1 .. l: u[i + 1] = s[i]
  <2>1. Letters \subseteq Symbols /\ Quote \in Symbols
    BY DEF Symbols
  <2>2. s \in Seq(Symbols)
    BY <1>1, <2>1
  <2> QED BY <1>1, <2>1, <2>2 DEF QuotedText
<1> HIDE DEF u
<1>3. \A i \in 2 .. l + 1: u[i] # Quote
  <2> TAKE i \in 2 .. l + 1
  <2>1. i - 1 \in 1 .. l /\ (i - 1) + 1 = i
    OBVIOUS
  <2>2. u[i] = s[i - 1]
    BY <1>2, <2>1
  <2> QED BY <1>1, <2>1, <2>2 DEF Holds
<1>4. InStrings(2 .. l + 2, u, B)
  BY <1>2, <1>3 DEF InStrings
<1> QED BY <1>2, <1>4 DEF Quiet, u

\* The symbols that the reader looks for are not one another.
LEMMA SymbolsDiffer ==
  /\ Newline # Quote /\ Comma # Quote /\ Comma # Newline
  /\ {BraceOpen, BraceClose, BracketOpen, BracketClose} \cap {Quote, Newline, Comma} = {}
  /\ BraceOpen # BraceClose /\ BracketOpen # BracketClose
  /\ {BraceOpen, BraceClose} \cap {BracketOpen, BracketClose} = {}
  /\ {Newline, Comma, BraceOpen, BraceClose, BracketOpen, BracketClose} \subseteq Symbols
<1>1. Newline # Quote /\ Comma # Quote /\ Comma # Newline
  BY Zenon DEF Newline, Quote, Comma
<1>2. BraceOpen \notin {Quote, Newline, Comma}
  BY Zenon DEF BraceOpen, Newline, Quote, Comma
<1>3. BraceClose \notin {Quote, Newline, Comma}
  BY Zenon DEF BraceClose, Newline, Quote, Comma
<1>4. BracketOpen \notin {Quote, Newline, Comma}
  BY Zenon DEF BracketOpen, Newline, Quote, Comma
<1>5. BracketClose \notin {Quote, Newline, Comma}
  BY Zenon DEF BracketClose, Newline, Quote, Comma
<1>6. BraceOpen # BraceClose /\ BracketOpen # BracketClose
  BY Zenon DEF BraceOpen, BraceClose, BracketOpen, BracketClose
<1>7. BraceOpen \notin {BracketOpen, BracketClose} /\ BraceClose \notin {BracketOpen, BracketClose}
  BY Zenon DEF BraceOpen, BraceClose, BracketOpen, BracketClose
<1>8. {Newline, Comma, BraceOpen, BraceClose, BracketOpen, BracketClose} \subseteq Symbols
  BY DEF Symbols
<1> QED BY <1>1, <1>2, <1>3, <1>4, <1>5, <1>6, <1>7, <1>8

\* The members of a structure are quiet, if each is.
LEMMA QuietSeparated ==
  ASSUME NEW B, Newline \notin B, Comma \notin B PROVE Separated(Quiet(B))
<1>1. << Newline >> \in Quiet(B) /\ << Comma >> \in Quiet(B)
  BY QuietSymbol, SymbolsDiffer
<1>2. << Comma >> \o << Newline >> \in Quiet(B)
  BY <1>1, QuietJoin
<1>3. << Comma >> \o << Newline >> = << Comma, Newline >>
  BY PairJoined, SymbolsDiffer
<1>4. Quiet(B) \subseteq Seq(Symbols)
  BY DEF Quiet
<1> QED BY <1>1, <1>2, <1>3, <1>4, QuietNothing, QuietJoin DEF Separated

\* A structure is quiet for symbols that are not its own.
LEMMA QuietStructure ==
  ASSUME NEW B, NEW m \in Quiet(B), NEW open \in Symbols \ {Quote}, NEW close \in Symbols \ {Quote},
         open \notin B, close \notin B, Newline \notin B
  PROVE  << open, Newline >> \o m \o << close >> \in Quiet(B)
<1>1. << open >> \in Quiet(B) /\ << close >> \in Quiet(B) /\ << Newline >> \in Quiet(B)
  BY QuietSymbol, SymbolsDiffer
<1>2. << open >> \o << Newline >> \in Quiet(B)
  BY <1>1, QuietJoin
<1>3. << open, Newline >> = << open >> \o << Newline >>
  OBVIOUS
<1>4. << open, Newline >> \in Quiet(B)
  BY <1>2, <1>3
<1> DEFINE u == << open, Newline >>
<1> HIDE DEF u
<1>5. u \o m \in Quiet(B)
  BY <1>4, QuietJoin DEF u
<1>6. (u \o m) \o << close >> \in Quiet(B)
  BY <1>1, <1>5, QuietJoin
<1> QED BY <1>6 DEF u

-----------------------------------------------------------------------------
(* Structures between their brackets.                                      *)

\* The places of a structure behind its first symbol before which in_string is set.
\* Outside strings it has no more of its own brackets up to its last symbol.
FrameStrings(inside, f, open, close) ==
  /\ 2 \notin inside /\ Len(f) \notin inside
  /\ \A i \in 2 .. Len(f) - 1:
       /\ i + 1 \in inside <=> IF f[i] = Quote THEN i \notin inside ELSE i \in inside
       /\ i \notin inside => f[i] \notin {open, close}

\* A text with a bracket at each end, and between them no more of these but in strings.
Framed(f, open, close) ==
  /\ f \in Seq(Symbols) /\ Len(f) >= 3
  /\ f[1] = open /\ f[Len(f)] = close
  /\ \E inside: FrameStrings(inside, f, open, close)

\* The places of what stands between the brackets.
LEMMA StructureFacts ==
  ASSUME NEW m \in Seq(Symbols), NEW open \in Symbols, NEW close \in Symbols
  PROVE  LET f == << open, Newline >> \o m \o << close >>
         IN /\ f \in Seq(Symbols) /\ Len(f) = Len(m) + 3 /\ Len(m) \in Nat
            /\ f[1] = open /\ f[2] = Newline /\ f[Len(m) + 3] = close
            /\ \A i \in 1 .. Len(m): f[2 + i] = m[i]
<1> PICK next \in Symbols: next = Newline
  BY SymbolsDiffer
<1> PICK first \in Seq(Symbols): first = << open, Newline >>
  <2>1. << open, next >> \in Seq(Symbols)
    OBVIOUS
  <2> QED BY <2>1
<1> PICK last \in Seq(Symbols): last = << close >>
  <2>1. << close >> \in Seq(Symbols)
    OBVIOUS
  <2> QED BY <2>1
<1>1. Len(first) = 2 /\ Len(last) = 1 /\ first[1] = open /\ first[2] = Newline /\ last[1] = close
  OBVIOUS
<1> DEFINE u == first \o m
           f == u \o last
<1>2. /\ u \in Seq(Symbols) /\ Len(u) = 2 + Len(m) /\ Len(m) \in Nat
      /\ \A i \in 1 .. 2: u[i] = first[i]
      /\ \A i \in 1 .. Len(m): u[2 + i] = m[i]
  BY <1>1, JoinFacts
<1> HIDE DEF u
<1>3. /\ f \in Seq(Symbols) /\ Len(f) = Len(u) + 1
      /\ \A i \in 1 .. Len(u): f[i] = u[i]
      /\ f[Len(u) + 1] = last[1]
  BY <1>1, <1>2, JoinFacts
<1> HIDE DEF f
<1>4. f[1] = open /\ f[2] = Newline
  <2>1. 1 \in 1 .. Len(u) /\ 2 \in 1 .. Len(u) /\ 1 \in 1 .. 2 /\ 2 \in 1 .. 2
    BY <1>2
  <2> QED BY <1>1, <1>2, <1>3, <2>1
<1>5. \A i \in 1 .. Len(m): f[2 + i] = m[i]
  <2>1. \A i \in 1 .. Len(m): 2 + i \in 1 .. Len(u)
    BY <1>2
  <2> QED BY <1>2, <1>3, <2>1
<1>6. f = << open, Newline >> \o m \o << close >>
  BY DEF f, u
<1>7. f[Len(m) + 3] = close /\ Len(f) = Len(m) + 3
  <2>1. Len(u) + 1 = Len(m) + 3
    BY <1>2
  <2> QED BY <1>1, <1>3, <2>1
<1> QED BY <1>2, <1>3, <1>4, <1>5, <1>6, <1>7

\* What is quiet is framed by the brackets.
LEMMA FramedStructure ==
  ASSUME NEW open \in Symbols \ {Quote}, NEW close \in Symbols \ {Quote},
         NEW m \in Quiet({open, close}), Newline \notin {open, close}
  PROVE  Framed(<< open, Newline >> \o m \o << close >>, open, close)
<1> DEFINE f == << open, Newline >> \o m \o << close >>
<1>1. PICK a: InStrings(a, m, {open, close})
  BY DEF Quiet
<1>2. m \in Seq(Symbols)
  BY DEF Quiet
<1>3. PICK l \in Nat: l = Len(m)
  BY <1>2
<1>4. /\ f \in Seq(Symbols) /\ Len(f) = l + 3
      /\ f[1] = open /\ f[2] = Newline /\ f[l + 3] = close
      /\ \A i \in 1 .. l: f[2 + i] = m[i]
  BY <1>2, <1>3, StructureFacts
<1> HIDE DEF f
<1> DEFINE c == {i \in 3 .. l + 3 : i - 2 \in a}
<1>5. 2 \notin c /\ 3 \notin c /\ Len(f) \notin c
  BY <1>1, <1>3, <1>4 DEF InStrings
<1>6. ASSUME NEW i \in 3 .. l + 2
      PROVE  /\ i + 1 \in c <=> IF f[i] = Quote THEN i \notin c ELSE i \in c
             /\ i \notin c => f[i] \notin {open, close}
  <2>1. PICK j \in 1 .. l: i = 2 + j
    <3>1. i - 2 \in 1 .. l /\ i = 2 + (i - 2)
      OBVIOUS
    <3> QED BY <3>1
  <2>2. (i \in c <=> j \in a) /\ (i + 1 \in c <=> j + 1 \in a)
    <3>1. i - 2 = j /\ (i + 1) - 2 = j + 1 /\ i \in 3 .. l + 3 /\ i + 1 \in 3 .. l + 3
      BY <2>1
    <3> QED BY <3>1
  <2>3. f[i] = m[j]
    BY <1>4, <2>1
  <2> HIDE DEF c
  <2>4. /\ j + 1 \in a <=> IF m[j] = Quote THEN j \notin a ELSE j \in a
        /\ j \notin a => m[j] \notin {open, close}
    BY <1>1, <1>3 DEF InStrings
  <2> QED BY <2>2, <2>3, <2>4
<1>7. FrameStrings(c, f, open, close)
  <2> HIDE DEF c
  <2>1. f[2] # Quote /\ f[2] \notin {open, close}
    BY <1>4, SymbolsDiffer
  <2>2. \A i \in 2 .. Len(f) - 1: i = 2 \/ i \in 3 .. l + 2
    BY <1>4
  <2>3. 2 + 1 = 3
    OBVIOUS
  <2> QED BY <1>5, <1>6, <2>1, <2>2, <2>3 DEF FrameStrings
<1>8. Framed(f, open, close)
  BY <1>4, <1>7 DEF Framed
<1> QED BY <1>8 DEF f

-----------------------------------------------------------------------------
(* Where the members of a structure stand.                                 *)

\* What stands behind member n.
BehindMember(texts, n) == IF n < Len(texts) THEN 2 ELSE 1

\* What a text is when member n, its comma and its line end are added to it.
MemberAdded(s, t, texts, n) ==
  /\ s \in Seq(Symbols)
  /\ Len(s) = Len(t) + Len(texts[n]) + BehindMember(texts, n)
  /\ \A i \in 1 .. Len(t): s[i] = t[i]
  /\ \A i \in 1 .. Len(texts[n]): s[Len(t) + i] = texts[n][i]
  /\ s[Len(s)] = Newline
  /\ n < Len(texts) => s[Len(s) - 1] = Comma

\* The symbols that one more member adds to a text.
LEMMA WithTextFacts ==
  ASSUME NEW t \in Seq(Symbols), NEW texts, NEW n, texts[n] \in Seq(Symbols)
  PROVE  MemberAdded(WithText(t, texts, n), t, texts, n)
<1> PICK x \in Seq(Symbols): x = texts[n]
  OBVIOUS
<1> DEFINE u == t \o x
<1>1. /\ u \in Seq(Symbols) /\ Len(u) = Len(t) + Len(x) /\ Len(t) \in Nat /\ Len(x) \in Nat
      /\ \A i \in 1 .. Len(t): u[i] = t[i]
      /\ \A i \in 1 .. Len(x): u[Len(t) + i] = x[i]
  BY JoinFacts
<1> HIDE DEF u
<1> PICK line \in Symbols, comma \in Symbols: line = Newline /\ comma = Comma
  BY SymbolsDiffer
<1> PICK v \in Seq(Symbols): v = IF n < Len(texts) THEN << comma, line >> ELSE << line >>
  <2>1. << comma, line >> \in Seq(Symbols) /\ << line >> \in Seq(Symbols)
    OBVIOUS
  <2> QED BY <2>1
<1>2. /\ Len(v) = BehindMember(texts, n) /\ Len(v) \in 1 .. 2 /\ v[Len(v)] = line
      /\ n < Len(texts) => Len(v) = 2 /\ v[1] = comma
  BY DEF BehindMember
<1> DEFINE s == u \o v
<1>3. /\ s \in Seq(Symbols) /\ Len(s) = Len(u) + Len(v)
      /\ \A i \in 1 .. Len(u): s[i] = u[i]
      /\ \A i \in 1 .. Len(v): s[Len(u) + i] = v[i]
  <2>1. u \in Seq(Symbols)
    BY <1>1
  <2> QED BY <2>1, JoinFacts
<1>4. WithText(t, texts, n) = s
  BY DEF WithText, u
<1> HIDE DEF s
<1>5. \A i \in 1 .. Len(t): s[i] = t[i]
  <2>1. \A i \in 1 .. Len(t): i \in 1 .. Len(u)
    BY <1>1
  <2> QED BY <1>1, <1>3, <2>1
<1>6. \A i \in 1 .. Len(x): s[Len(t) + i] = x[i]
  <2>1. \A i \in 1 .. Len(x): Len(t) + i \in 1 .. Len(u)
    BY <1>1
  <2> QED BY <1>1, <1>3, <2>1
<1>7. s[Len(s)] = line
  <2>1. Len(v) \in 1 .. Len(v)
    BY <1>2
  <2> QED BY <1>2, <1>3, <2>1
<1>8. n < Len(texts) => s[Len(s) - 1] = comma
  <2> HAVE n < Len(texts)
  <2>1. 1 \in 1 .. Len(v) /\ Len(s) - 1 = Len(u) + 1
    BY <1>1, <1>2, <1>3
  <2> QED BY <1>2, <1>3, <2>1
<1>9. Len(s) = Len(t) + Len(x) + BehindMember(texts, n)
  BY <1>1, <1>2, <1>3
<1> QED BY <1>3, <1>4, <1>5, <1>6, <1>7, <1>8, <1>9 DEF MemberAdded

\* place[n] is where the line end behind member n stands, and place[0] the one
\* behind the first symbol.
Layout(f, texts, open, close, place) ==
  /\ f \in Seq(Symbols) /\ place \in [0 .. Len(texts) -> Nat] /\ Len(texts) \in Nat
  /\ place[0] = 2 /\ Len(f) = place[Len(texts)] + 1
  /\ f[1] = open /\ f[2] = Newline /\ f[Len(f)] = close
  /\ \A n \in 1 .. Len(texts):
       /\ texts[n] \in Seq(Symbols)
       /\ place[n] = place[n - 1] + Len(texts[n]) + BehindMember(texts, n)
       /\ \A i \in 1 .. Len(texts[n]): f[place[n - 1] + i] = texts[n][i]
       /\ f[place[n]] = Newline
       /\ n < Len(texts) => f[place[n] - 1] = Comma

\* A text begins with another.
BeginsWith(s, t) == Len(t) <= Len(s) /\ \A i \in 1 .. Len(t): s[i] = t[i]

\* A structure has its members one behind the other.
LEMMA StructureLayout ==
  ASSUME NEW texts, Len(texts) \in Nat, \A n \in 1 .. Len(texts): texts[n] \in Seq(Symbols),
         NEW open \in Symbols, NEW close \in Symbols
  PROVE  \E place:
           Layout(<< open, Newline >> \o Members(texts) \o << close >>, texts, open, close, place)
<1> DEFINE L == Len(texts)
           f == << open, Newline >> \o Members(texts) \o << close >>
<1>1. PICK first \in [0 .. L -> Seq(Symbols)]:
        MembersFrom(first, texts) /\ Members(texts) = first[L]
  BY MembersExist
<1>2. /\ first[0] = <<>>
      /\ \A n \in 0 .. L: n < L => first[n + 1] = WithText(first[n], texts, n + 1)
  BY <1>1, MembersSteps
<1>3. \A n \in 0 .. L: first[n] \in Seq(Symbols) /\ Len(first[n]) \in Nat
  OBVIOUS
<1>4. ASSUME NEW n \in 0 .. L, n < L
      PROVE  /\ Len(first[n + 1]) = Len(first[n]) + Len(texts[n + 1]) + BehindMember(texts, n + 1)
             /\ BeginsWith(first[n + 1], first[n])
             /\ \A i \in 1 .. Len(texts[n + 1]):
                  first[n + 1][Len(first[n]) + i] = texts[n + 1][i]
             /\ first[n + 1][Len(first[n + 1])] = Newline
             /\ n + 1 < L => first[n + 1][Len(first[n + 1]) - 1] = Comma
  <2>1. n + 1 \in 1 .. L /\ first[n + 1] = WithText(first[n], texts, n + 1)
    BY <1>2, <1>4
  <2>2. first[n] \in Seq(Symbols) /\ texts[n + 1] \in Seq(Symbols) /\ Len(first[n]) \in Nat
    BY <1>3, <2>1
  <2>3. Len(texts[n + 1]) \in Nat /\ BehindMember(texts, n + 1) \in Nat
    BY <2>2 DEF BehindMember
  <2> DEFINE s == first[n + 1]
             t == first[n]
             k == n + 1
  <2>4. s = WithText(t, texts, k) /\ t \in Seq(Symbols) /\ texts[k] \in Seq(Symbols)
    BY <2>1, <2>2
  <2> HIDE DEF s, t, k
  <2>5. /\ Len(s) = Len(t) + Len(texts[k]) + BehindMember(texts, k)
        /\ \A i \in 1 .. Len(t): s[i] = t[i]
        /\ \A i \in 1 .. Len(texts[k]): s[Len(t) + i] = texts[k][i]
        /\ s[Len(s)] = Newline
        /\ k < L => s[Len(s) - 1] = Comma
    <3> HIDE DEF L
    <3>1. MemberAdded(s, t, texts, k)
      BY <2>4, WithTextFacts
    <3> QED BY <3>1 DEF MemberAdded, L
  <2>6. Len(t) <= Len(s)
    BY <2>2, <2>3, <2>5 DEF t, k
  <2>7. BeginsWith(s, t)
    BY <2>5, <2>6 DEF BeginsWith
  <2> QED BY <2>5, <2>7 DEF s, t, k
<1> DEFINE S == {m \in Nat : \A n \in 0 .. m: BeginsWith(first[m], first[n])}
<1>5. 0 \in S
  BY <1>3 DEF BeginsWith
<1>6. ASSUME NEW m \in 0 .. L, m < L, m \in S PROVE m + 1 \in S
  <2>1. BeginsWith(first[m + 1], first[m])
    BY <1>4, <1>6
  <2>2. m + 1 \in 0 .. L
    BY <1>6
  <2>3. ASSUME NEW n \in 0 .. m + 1 PROVE BeginsWith(first[m + 1], first[n])
    <3>1. CASE n = m + 1
      BY <1>3, <2>2, <3>1 DEF BeginsWith
    <3>2. CASE n # m + 1
      <4>1. n \in 0 .. m /\ n \in 0 .. L
        BY <3>2
      <4>2. BeginsWith(first[m], first[n])
        BY <1>6, <4>1
      <4>3. Len(first[n]) \in Nat /\ Len(first[m]) \in Nat /\ Len(first[m + 1]) \in Nat
        BY <1>3, <2>2, <4>1
      <4> QED BY <2>1, <4>2, <4>3 DEF BeginsWith
    <3> QED BY <3>1, <3>2
  <2> QED BY <2>3
<1> HIDE DEF S
<1>7. \A m \in 0 .. L: m \in S
  BY <1>5, <1>6, BoundedInduction
<1>8. \A n \in 0 .. L: BeginsWith(first[L], first[n])
  BY <1>7 DEF S
<1> PICK m \in Seq(Symbols): m = Members(texts) /\ m = first[L]
  BY <1>1
<1> DEFINE place == [n \in 0 .. L |-> Len(first[n]) + 2]
<1>9. /\ f \in Seq(Symbols) /\ Len(f) = Len(m) + 3 /\ Len(m) \in Nat
      /\ f[1] = open /\ f[2] = Newline /\ f[Len(m) + 3] = close
      /\ \A i \in 1 .. Len(m): f[2 + i] = m[i]
  BY StructureFacts
<1> HIDE DEF f
<1>10. \A n \in 0 .. L: \A i \in 1 .. Len(first[n]): f[2 + i] = first[n][i]
  <2> TAKE n \in 0 .. L
  <2> TAKE i \in 1 .. Len(first[n])
  <2>1. Len(first[n]) \in Nat /\ Len(first[n]) <= Len(m) /\ m[i] = first[n][i]
    BY <1>3, <1>8 DEF BeginsWith
  <2>2. i \in 1 .. Len(m)
    BY <1>9, <2>1
  <2> QED BY <1>9, <2>1, <2>2
<1>11. place \in [0 .. L -> Nat] /\ place[0] = 2 /\ Len(f) = place[L] + 1
  <2>1. \A n \in 0 .. L: Len(first[n]) + 2 \in Nat
    BY <1>3
  <2>2. L \in 0 .. L /\ 0 \in 0 .. L /\ Len(first[0]) = 0
    BY <1>2
  <2> QED BY <1>9, <2>1, <2>2
<1>12. ASSUME NEW n \in 1 .. L
       PROVE  /\ place[n] = place[n - 1] + Len(texts[n]) + BehindMember(texts, n)
              /\ \A i \in 1 .. Len(texts[n]): f[place[n - 1] + i] = texts[n][i]
              /\ f[place[n]] = Newline
              /\ n < L => f[place[n] - 1] = Comma
  <2>1. PICK k \in 0 .. L: k = n - 1 /\ n = k + 1 /\ k < L /\ n \in 0 .. L
    <3>1. n - 1 \in 0 .. L /\ n = (n - 1) + 1 /\ n - 1 < L
      OBVIOUS
    <3> QED BY <3>1
  <2>2. PICK a \in Nat, b \in Nat, c \in Nat:
           a = Len(first[k]) /\ b = Len(first[n]) /\ c = Len(texts[n])
    <3>1. Len(first[k]) \in Nat /\ Len(first[n]) \in Nat
      BY <1>3, <2>1
    <3>2. texts[n] \in Seq(Symbols)
      OBVIOUS
    <3>3. Len(texts[n]) \in Nat
      BY <3>2
    <3> QED BY <3>1, <3>3
  <2>3. place[n] = b + 2 /\ place[n - 1] = a + 2
    BY <2>1, <2>2
  <2> HIDE DEF place
  <2>4. /\ b = a + c + BehindMember(texts, n)
        /\ \A i \in 1 .. c: first[n][a + i] = texts[n][i]
        /\ first[n][b] = Newline
        /\ n < L => first[n][b - 1] = Comma
    BY <1>4, <2>1, <2>2
  <2>5. /\ BehindMember(texts, n) \in 1 .. 2
        /\ n < L => BehindMember(texts, n) = 2
    BY DEF BehindMember
  <2>6. \A i \in 1 .. b: f[2 + i] = first[n][i]
    BY <1>10, <2>1, <2>2
  <2>7. \A i \in 1 .. c: f[place[n - 1] + i] = texts[n][i]
    <3> TAKE i \in 1 .. c
    <3>1. a + i \in 1 .. b /\ place[n - 1] + i = 2 + (a + i)
      BY <2>3, <2>4, <2>5
    <3> QED BY <2>4, <2>6, <3>1
  <2>8. f[place[n]] = Newline
    <3>1. b \in 1 .. b /\ place[n] = 2 + b
      BY <2>3, <2>4, <2>5
    <3> QED BY <2>4, <2>6, <3>1
  <2>9. n < L => f[place[n] - 1] = Comma
    <3> HAVE n < L
    <3>1. b - 1 \in 1 .. b /\ place[n] - 1 = 2 + (b - 1)
      BY <2>3, <2>4, <2>5
    <3> QED BY <2>4, <2>6, <3>1
  <2>10. place[n] = place[n - 1] + c + BehindMember(texts, n)
    BY <2>3, <2>4, <2>5
  <2> QED BY <2>2, <2>7, <2>8, <2>9, <2>10
<1>13. f[Len(f)] = close
  BY <1>9
<1> HIDE DEF place
<1>14. Layout(f, texts, open, close, place)
  BY <1>9, <1>11, <1>12, <1>13 DEF Layout
<1> QED BY <1>14 DEF f

\* A member stands in front of the one behind it, and all before the last symbol.
LEMMA LayoutPlaces ==
  ASSUME NEW f, NEW texts, NEW open, NEW close, NEW place, Layout(f, texts, open, close, place)
  PROVE  /\ \A n \in 0 .. Len(texts): /\ place[n] \in Nat /\ 2 <= place[n]
                                      /\ place[n] <= Len(f) - 1
         /\ \A m, n \in 0 .. Len(texts): m <= n => place[m] <= place[n]
         /\ Len(f) \in Nat
         /\ \A n \in 1 .. Len(texts):
              /\ n - 1 \in 0 .. Len(texts) /\ Len(texts[n]) \in Nat
              /\ place[n] = place[n - 1] + Len(texts[n]) + (IF n < Len(texts) THEN 2 ELSE 1)
<1> PICK L \in Nat: L = Len(texts)
  BY DEF Layout
<1>1. \A n \in 0 .. L: place[n] \in Nat
  BY DEF Layout
<1>2. \A n \in 1 .. L: /\ n - 1 \in 0 .. L /\ Len(texts[n]) \in Nat
                       /\ place[n] = place[n - 1] + Len(texts[n]) + BehindMember(texts, n)
  <2> TAKE n \in 1 .. L
  <2>1. texts[n] \in Seq(Symbols)
    BY DEF Layout
  <2>2. Len(texts[n]) \in Nat
    BY <2>1
  <2> QED BY <2>2 DEF Layout
<1>3. \A n \in 0 .. L: n < L => place[n] <= place[n + 1]
  <2> TAKE n \in 0 .. L
  <2> HAVE n < L
  <2>1. n + 1 \in 1 .. L /\ (n + 1) - 1 = n
    OBVIOUS
  <2> PICK a \in Nat, b \in Nat, c \in Nat:
        a = place[n] /\ b = place[n + 1] /\ c = Len(texts[n + 1])
    <3>1. place[n] \in Nat /\ place[n + 1] \in Nat
      BY <1>1, <2>1
    <3>2. Len(texts[n + 1]) \in Nat
      BY <1>2, <2>1
    <3> QED BY ONLY <3>1, <3>2
  <2>2. b = a + c + BehindMember(texts, n + 1)
    BY <1>2, <2>1
  <2>3. PICK d \in Nat: d = BehindMember(texts, n + 1)
    BY DEF BehindMember
  <2>4. b = a + c + d
    BY <2>2, <2>3
  <2>5. a <= b
    BY ONLY <2>4, a \in Nat, b \in Nat, c \in Nat, d \in Nat
  <2> QED BY <2>5
<1> DEFINE S == {n \in Nat : \A m \in 0 .. n: place[m] <= place[n]}
<1>4. 0 \in S
  BY <1>1
<1>5. ASSUME NEW n \in 0 .. L, n < L, n \in S PROVE n + 1 \in S
  <2>1. place[n] <= place[n + 1] /\ place[n] \in Nat /\ place[n + 1] \in Nat
    BY <1>1, <1>3, <1>5
  <2>2. \A m \in 0 .. n + 1: m \in 0 .. L /\ (m = n + 1 \/ m \in 0 .. n)
    BY <1>5
  <2>3. \A m \in 0 .. n: place[m] <= place[n]
    BY <1>5
  <2> QED BY <1>1, <2>1, <2>2, <2>3
<1> HIDE DEF S
<1>6. \A n \in 0 .. L: n \in S
  BY <1>4, <1>5, BoundedInduction
<1>7. \A m, n \in 0 .. L: m <= n => place[m] <= place[n]
  BY <1>6 DEF S
<1>8. place[0] = 2 /\ Len(f) = place[L] + 1
  BY DEF Layout
<1>9. \A n \in 0 .. L: 2 <= place[n] /\ place[n] <= Len(f) - 1
  <2> TAKE n \in 0 .. L
  <2>1. place[0] <= place[n] /\ place[n] <= place[L] /\ place[L] \in Nat
    BY <1>1, <1>7
  <2> QED BY <1>1, <1>8, <2>1
<1>10. Len(f) \in Nat
  BY <1>1, <1>8
<1> QED BY <1>1, <1>2, <1>7, <1>9, <1>10 DEF BehindMember

\* The symbols up to the line end behind a member are those of the members, and
\* what stands between them.
LEMMA LayoutCovers ==
  ASSUME NEW f, NEW texts, NEW open, NEW close, NEW place, Layout(f, texts, open, close, place),
         NEW B, {open, Newline, Comma} \subseteq B, NEW N \in 0 .. Len(texts),
         \A n \in 1 .. N: \A i \in 1 .. Len(texts[n]): texts[n][i] \in B
  PROVE  \A i \in 1 .. place[N]: f[i] \in B
<1> DEFINE S == {n \in Nat : \A i \in 1 .. place[n]: f[i] \in B}
<1>1. 0 \in S
  <2>1. place[0] = 2 /\ f[1] \in B /\ f[2] \in B
    BY DEF Layout
  <2> QED BY <2>1
<1>2. ASSUME NEW n \in 0 .. N, n < N, n \in S PROVE n + 1 \in S
  <2>1. /\ n + 1 \in 1 .. Len(texts) /\ n + 1 \in 1 .. N /\ (n + 1) - 1 = n
        /\ n \in 0 .. Len(texts) /\ n + 1 \in 0 .. Len(texts)
    BY <1>2 DEF Layout
  <2>2. PICK a \in Nat, b \in Nat, c \in Nat:
           a = place[n] /\ b = place[n + 1] /\ c = Len(texts[n + 1])
    BY <2>1, LayoutPlaces
  <2>3. /\ b = a + c + (IF n + 1 < Len(texts) THEN 2 ELSE 1)
        /\ \A i \in 1 .. c: f[a + i] = texts[n + 1][i]
        /\ f[b] = Newline
        /\ n + 1 < Len(texts) => f[b - 1] = Comma
    <3>1. b = a + c + BehindMember(texts, n + 1)
      BY <2>1, <2>2 DEF Layout
    <3> QED BY <2>1, <2>2, <3>1 DEF Layout, BehindMember
  <2>4. ASSUME NEW i \in 1 .. b PROVE f[i] \in B
    <3>1. CASE i <= a
      <4>1. i \in 1 .. a
        BY <3>1
      <4> QED BY <1>2, <2>2, <4>1
    <3>2. CASE a < i /\ i <= a + c
      <4>1. i - a \in 1 .. c /\ i = a + (i - a)
        BY <3>2
      <4>2. texts[n + 1][i - a] \in B
        BY <2>1, <2>2, <4>1
      <4> QED BY <2>3, <4>1, <4>2
    <3>3. CASE i > a + c
      <4>1. i = b \/ (i = b - 1 /\ n + 1 < Len(texts))
        BY <2>3, <3>3
      <4> QED BY <2>3, <4>1
    <3> QED BY <3>1, <3>2, <3>3
  <2>5. n + 1 \in Nat
    OBVIOUS
  <2> QED BY <2>2, <2>4, <2>5
<1> HIDE DEF S
<1>3. \A n \in 0 .. N: n \in S
  <2>1. N \in Nat
    BY DEF Layout
  <2> QED BY <1>1, <1>2, <2>1, BoundedInduction
<1>4. N \in 0 .. N
  BY DEF Layout
<1> QED BY <1>3, <1>4 DEF S

-----------------------------------------------------------------------------
(* The value of a key.                                                     *)

\* A key stands at place p, and nowhere in front of it.
FirstAt(text, key, p) ==
  /\ p \in 1 .. Len(text) /\ text[p] = key
  /\ \A i \in 1 .. p - 1: text[i] # key

\* The value behind place p, and the end of its line.
LineAt(text, p, value) ==
  /\ value \in Seq(Symbols) /\ value # <<>> /\ value[Len(value)] # Comma
  /\ \A i \in 1 .. Len(value): value[i] # Newline /\ text[p + i] = value[i]
  /\ \/ /\ p + Len(value) + 1 <= Len(text)
        /\ text[p + Len(value) + 1] = Newline
     \/ /\ p + Len(value) + 2 <= Len(text)
        /\ text[p + Len(value) + 1] = Comma /\ text[p + Len(value) + 2] = Newline

\* The first of some places, if it is known.
LEMMA FoundIs ==
  ASSUME NEW places, places \subseteq Nat, NEW k \in places, \A j \in places: k <= j
  PROVE  Found(places) = k
<1>1. Found(places) \in places /\ \A j \in places: Found(places) <= j
  BY FoundFirst
<1> DEFINE x == Found(places)
<1>2. x \in Nat /\ k \in Nat /\ x <= k /\ k <= x
  BY <1>1
<1> HIDE DEF x
<1>3. x = k
  BY <1>2
<1> QED BY <1>3 DEF x

\* A text without a key has no parameter of it.
LEMMA ParamAbsent ==
  ASSUME NEW text, NEW key, NEW before, \A i \in DOMAIN text: text[i] # key
  PROVE  cclog_json_get_param(text, key, before) = Missing
<1>1. {k \in DOMAIN text : text[k] = key} = {}
  OBVIOUS
<1> QED BY <1>1 DEF cclog_json_get_param, Found

\* A parameter is what stands between its key and the end of the line, without the
\* comma.
LEMMA ParamRead ==
  ASSUME NEW text \in Seq(Symbols), NEW key, NEW before, NEW p, FirstAt(text, key, p),
         NEW value, LineAt(text, p, value)
  PROVE  cclog_json_get_param(text, key, before) = ParamOf(value, before)
<1> PICK len \in Nat: len = Len(text)
  OBVIOUS
<1> PICK l \in Nat \ {0}: l = Len(value)
  <2>1. value \in Seq(Symbols) /\ value # <<>>
    BY DEF LineAt
  <2>2. Len(value) \in Nat \ {0}
    BY <2>1
  <2> QED BY <2>2
<1>1. Found({k \in DOMAIN text : text[k] = key}) = p
  <2> DEFINE T == {k \in DOMAIN text : text[k] = key}
  <2>1. T \subseteq Nat /\ p \in T /\ \A j \in T: p <= j
    BY DEF FirstAt
  <2> HIDE DEF T
  <2>2. Found(T) = p
    BY <2>1, FoundIs
  <2> QED BY <2>2 DEF T
<1> DEFINE first == p + 1
           line == UpTo(text, first, {Newline})
<1>2. p \in 1 .. len /\ p # len /\ p # Missing
  BY ReaderAssumption DEF FirstAt, LineAt
<1>3. cclog_json_get_param(text, key, before) = ParamOf(WithoutComma(line), before)
  BY <1>1, <1>2 DEF cclog_json_get_param
<1>4. /\ value \in Seq(Symbols) /\ value[l] # Comma
      /\ \A i \in 1 .. l: value[i] # Newline /\ text[p + i] = value[i]
      /\ \/ p + l + 1 <= len /\ text[p + l + 1] = Newline
         \/ p + l + 2 <= len /\ text[p + l + 1] = Comma /\ text[p + l + 2] = Newline
  BY DEF LineAt
<1>5. PICK end \in Nat:
        /\ end = p + l \/ (end = p + l + 1 /\ text[p + l + 1] = Comma)
        /\ end + 1 <= len /\ text[end + 1] = Newline
        /\ \A j \in first .. end: text[j] # Newline
  <2>1. \A j \in first .. p + l: text[j] # Newline
    <3> TAKE j \in first .. p + l
    <3>1. j - p \in 1 .. l /\ j = p + (j - p)
      BY <1>2
    <3> QED BY <1>4, <3>1
  <2>2. CASE p + l + 1 <= len /\ text[p + l + 1] = Newline
    <3>1. p + l \in Nat
      BY <1>2
    <3> QED BY <2>1, <2>2, <3>1
  <2>3. CASE p + l + 2 <= len /\ text[p + l + 1] = Comma /\ text[p + l + 2] = Newline
    <3>1. p + l + 1 \in Nat /\ (p + l + 1) + 1 = p + l + 2
      BY <1>2
    <3>2. \A j \in first .. p + l + 1: j \in first .. p + l \/ j = p + l + 1
      BY <1>2
    <3>3. \A j \in first .. p + l + 1: text[j] # Newline
      BY <2>1, <2>3, <3>2, SymbolsDiffer
    <3> QED BY <2>3, <3>1, <3>3
  <2> QED BY <1>4, <2>2, <2>3
<1>6. line = SubSeq(text, first, end)
  <2> DEFINE T == {j \in first .. Len(text) : text[j] \in {Newline}} \cup {Len(text) + 1}
  <2>1. T \subseteq Nat /\ end + 1 \in T /\ \A j \in T: end + 1 <= j
    BY <1>2, <1>5
  <2> HIDE DEF T
  <2>2. Found(T) = end + 1
    BY <2>1, FoundIs
  <2>3. (end + 1) - 1 = end
    OBVIOUS
  <2> QED BY <2>2, <2>3 DEF UpTo, T
<1>7. /\ SubSeq(text, first, end) \in Seq(Symbols)
      /\ Len(SubSeq(text, first, end)) = end - p
      /\ \A i \in 1 .. end - p: SubSeq(text, first, end)[i] = text[p + i]
  <2>1. first \in Nat \ {0} /\ end <= Len(text) /\ first <= end /\ end - first + 1 = end - p
    BY <1>2, <1>5
  <2>2. \A i \in 1 .. end - p: first + i - 1 = p + i
    <3>1. p \in Nat
      BY <1>2
    <3>2. \A i \in 1 .. end - p: (p + 1) + i - 1 = p + i
      BY ONLY <3>1, end \in Nat
    <3> QED BY ONLY <3>2 DEF first
  <2>3. LET part == SubSeq(text, first, end)
        IN /\ part \in Seq(Symbols) /\ Len(part) = end - first + 1
           /\ \A i \in 1 .. Len(part): part[i] = text[first + i - 1]
    <3> HIDE DEF first, line
    <3> QED BY <2>1, PartFacts
  <2> DEFINE part == SubSeq(text, first, end)
  <2>4. /\ part \in Seq(Symbols) /\ Len(part) = end - p
        /\ \A i \in 1 .. Len(part): part[i] = text[first + i - 1]
    BY <2>1, <2>3
  <2> HIDE DEF part, first, line
  <2>5. \A i \in 1 .. end - p: part[i] = text[p + i]
    BY <2>2, <2>4
  <2> QED BY <2>4, <2>5 DEF part
<1> HIDE DEF line
<1>8. /\ line \in Seq(Symbols) /\ Len(line) = end - p
      /\ \A i \in 1 .. end - p: line[i] = text[p + i]
  BY <1>6, <1>7
<1>9. WithoutComma(line) = value
  <2>1. CASE end = p + l
    <3>1. Len(line) = l /\ \A i \in 1 .. l: line[i] = value[i]
      BY <1>2, <1>4, <1>8, <2>1
    <3>2. line = value
      BY <1>4, <1>8, <3>1
    <3> QED BY <1>4, <3>2 DEF WithoutComma
  <2>2. CASE end = p + l + 1 /\ text[p + l + 1] = Comma
    <3>1. Len(line) = l + 1 /\ end - p = l + 1
      BY <1>2, <1>8, <2>2
    <3>2. line[l + 1] = Comma /\ line # <<>> /\ l + 1 - 1 = l
      <4>1. l + 1 \in 1 .. l + 1 /\ p + (l + 1) = p + l + 1
        BY <1>2
      <4> QED BY <1>8, <2>2, <3>1, <4>1
    <3>3. WithoutComma(line) = SubSeq(line, 1, l)
      BY <3>1, <3>2 DEF WithoutComma
    <3>4. /\ SubSeq(line, 1, l) \in Seq(Symbols) /\ Len(SubSeq(line, 1, l)) = l
          /\ \A i \in 1 .. l: SubSeq(line, 1, l)[i] = line[i]
      <4>1. l <= Len(line) /\ 1 \in Nat \ {0} /\ 1 <= l /\ l - 1 + 1 = l
        BY <3>1
      <4>2. \A i \in 1 .. l: 1 + i - 1 = i
        OBVIOUS
      <4> QED BY <1>8, <4>1, <4>2, PartFacts
    <3> DEFINE cut == SubSeq(line, 1, l)
    <3> HIDE DEF cut
    <3>5. \A i \in 1 .. l: cut[i] = value[i]
      BY <1>4, <1>8, <3>1, <3>4 DEF cut
    <3>6. cut = value
      BY <1>4, <3>4, <3>5 DEF cut
    <3> QED BY <3>3, <3>6 DEF cut
  <2> QED BY <1>5, <2>1, <2>2
<1> QED BY <1>3, <1>9

\* The parameter of a boolean, of a number and of a string.
LEMMA ParamOfBoolean ==
  ASSUME NEW b \in Booleans, NEW before PROVE ParamOf(<< b >>, before) = Param("boolean", b)
BY DEF ParamOf

\* What is read of a number.
LEMMA ParamOfNumber ==
  ASSUME NEW n \in Numbers, NEW before PROVE ParamOf(<< n >>, before) = Param("number", n)
BY SymbolAssumption DEF ParamOf

\* What is read of a string between quotes: nothing, when it is empty.
LEMMA ParamOfString ==
  ASSUME NEW s \in String, ~Holds(s, Quote), NEW before
  PROVE  ParamOf(QuotedText(s), before) = IF s = <<>> THEN before ELSE Param("string", s)
<1> DEFINE scan == QuotedText(s)
<1>1. PICK l \in Nat: l = Len(s) /\ s \in Seq(Letters) /\ DOMAIN s = 1 .. l
  BY DEF String
<1>2. /\ scan \in Seq(Symbols) /\ Len(scan) = l + 2 /\ scan[1] = Quote /\ scan[l + 2] = Quote
      /\ s \in Seq(Symbols) /\ \A i \in 1 .. l: scan[i + 1] = s[i]
  <2>1. Letters \subseteq Symbols /\ Quote \in Symbols
    BY DEF Symbols
  <2>2. s \in Seq(Symbols)
    BY <1>1, <2>1
  <2> QED BY <1>1, <2>1, <2>2 DEF QuotedText
<1> HIDE DEF scan
<1>3. \A i \in 1 .. l: s[i] # Quote
  BY <1>1 DEF Holds
<1>4. Quoted(scan) = SubSeq(scan, 2, l + 1)
  <2> DEFINE T == {j \in 2 .. Len(scan) : scan[j] \in {Quote} \cup Keys} \cup {Len(scan) + 1}
  <2>1. T \subseteq Nat /\ l + 2 \in T
    BY <1>2
  <2>2. \A j \in T: l + 2 <= j
    <3>1. \A j \in 2 .. l + 1: scan[j] \notin {Quote} \cup Keys
      <4> TAKE j \in 2 .. l + 1
      <4>1. j - 1 \in 1 .. l /\ (j - 1) + 1 = j
        OBVIOUS
      <4>2. scan[j] = s[j - 1]
        BY <1>2, <4>1
      <4>3. s[j - 1] \notin Keys
        BY <1>1, <4>1, NoKeys
      <4> QED BY <1>3, <4>1, <4>2, <4>3
    <3> QED BY <1>2, <3>1
  <2> HIDE DEF T
  <2>3. Found(T) = l + 2
    BY <2>1, <2>2, FoundIs
  <2>4. (l + 2) - 1 = l + 1
    OBVIOUS
  <2> QED BY <2>3, <2>4 DEF Quoted, UpTo, T
<1>5. SubSeq(scan, 2, l + 1) = s
  <2> DEFINE cut == SubSeq(scan, 2, l + 1)
  <2>1. cut \in Seq(Symbols) /\ Len(cut) = l /\ \A i \in 1 .. l: cut[i] = scan[i + 1]
    <3>1. l + 1 <= Len(scan) /\ 2 \in Nat \ {0} /\ l + 1 \in Nat
      BY <1>2
    <3>2. Len(cut) = l
      BY <1>2, <3>1, PartFacts
    <3>3. \A i \in 1 .. l: 2 + i - 1 = i + 1
      OBVIOUS
    <3> HIDE DEF cut
    <3>4. cut \in Seq(Symbols) /\ \A i \in 1 .. Len(cut): cut[i] = scan[2 + i - 1]
      BY <1>2, <3>1, PartFacts DEF cut
    <3> QED BY <3>2, <3>3, <3>4
  <2> HIDE DEF cut
  <2>2. cut = s
    BY <1>1, <1>2, <2>1
  <2> QED BY <2>2 DEF cut
<1>6. ParamOf(scan, before) = IF s = <<>> THEN before ELSE Param("string", s)
  <2>1. ~(Len(scan) = 1) /\ Len(scan) > 1 /\ scan[1] \notin Numbers
    BY <1>2, NoQuotes
  <2> QED BY <1>2, <1>4, <1>5, <2>1 DEF ParamOf
<1> QED BY <1>6 DEF scan

\* What can stand behind a key on its line, and what it is when it is read.
Values == {<< x >> : x \in Booleans \cup Numbers \cup {"0"}}
            \cup {QuotedText(s) : s \in {z \in String : ~Holds(z, Quote) /\ ~Holds(z, Newline)}}

\* A value of a pair is some symbols, with no key, no line end and no comma at its end.
LEMMA ValueFacts ==
  ASSUME NEW value \in Values
  PROVE  /\ value \in Seq(Symbols) /\ value # <<>> /\ value[Len(value)] # Comma
         /\ Len(value) \in Nat \ {0}
         /\ \A i \in 1 .. Len(value): value[i] # Newline /\ value[i] \notin Keys
<1>1. CASE \E x \in Booleans \cup Numbers \cup {"0"}: value = << x >>
  <2>1. PICK x \in Booleans \cup Numbers \cup {"0"}: value = << x >>
    BY <1>1
  <2>2. x \notin Keys
    BY NoKeys
  <2>3. x # Newline /\ x # Comma
    <3>1. CASE x \in Numbers
      BY <3>1, SymbolAssumption
    <3>2. CASE x \in Booleans \/ x = "0"
      BY <3>2, Zenon DEF Booleans, Newline, Comma
    <3> QED BY <3>1, <3>2
  <2>4. x \in Symbols
    BY DEF Symbols
  <2> QED BY <2>1, <2>2, <2>3, <2>4
<1>2. CASE \E s \in String: value = QuotedText(s) /\ ~Holds(s, Newline)
  <2>1. PICK s \in String: value = QuotedText(s) /\ ~Holds(s, Newline)
    BY <1>2
  <2>2. PICK l \in Nat: l = Len(s) /\ s \in Seq(Letters) /\ DOMAIN s = 1 .. l
    BY DEF String
  <2>3. Letters \subseteq Symbols /\ Quote \in Symbols
    BY DEF Symbols
  <2>4. s \in Seq(Symbols)
    BY <2>2, <2>3
  <2>5. /\ value \in Seq(Symbols) /\ Len(value) = l + 2
        /\ value[1] = Quote /\ value[l + 2] = Quote
        /\ \A i \in 1 .. l: value[i + 1] = s[i]
    BY <2>1, <2>2, <2>3, <2>4 DEF QuotedText
  <2>6. ASSUME NEW i \in 1 .. l + 2
        PROVE  value[i] # Newline /\ value[i] \notin Keys
    <3>1. CASE i = 1 \/ i = l + 2
      BY <2>5, <3>1, NoKeys, SymbolsDiffer
    <3>2. CASE i # 1 /\ i # l + 2
      <4>1. i - 1 \in 1 .. l /\ (i - 1) + 1 = i
        BY <3>2
      <4>2. value[i] = s[i - 1] /\ s[i - 1] \in Letters
        BY <2>2, <2>5, <4>1
      <4> QED BY <2>1, <2>2, <4>1, <4>2, NoKeys DEF Holds
    <3> QED BY <3>1, <3>2
  <2> QED BY <2>5, <2>6, SymbolsDiffer
<1> QED BY <1>1, <1>2 DEF Values

\* A text has the first symbols of another.
Agrees(text, f, d) ==
  /\ text \in Seq(Symbols) /\ d \in Nat /\ d <= Len(text)
  /\ \A i \in 1 .. d: text[i] = f[i]

\* The text has no keys behind them.
Copies(text, f, d) ==
  /\ Agrees(text, f, d) /\ d <= Len(f)
  /\ \A i \in 1 .. Len(text): i > d => text[i] \notin Keys

\* A text that a search for the key passes over.
Lacks(t, key) == \A i \in 1 .. Len(t): t[i] # key

\* A key stands in no member of a structure up to one.
KeyBehind(texts, n, key) == \A j \in 1 .. n - 1: Lacks(texts[j], key)

\* Up to its members, a structure has no key that they have not.
LEMMA KeyIsBehind ==
  ASSUME NEW f, NEW texts, NEW open, NEW close, NEW place, Layout(f, texts, open, close, place),
         open \notin Keys, NEW key \in Keys, NEW n \in 1 .. Len(texts) + 1,
         KeyBehind(texts, n, key)
  PROVE  \A i \in 1 .. place[n - 1]: f[i] # key
<1> DEFINE B == {x : x \in Symbols \cup {open}} \ {key}
<1>1. {open, Newline, Comma} \subseteq B
  BY NoKeys, SymbolsDiffer
<1>2. PICK m \in 0 .. Len(texts): m = n - 1
  BY DEF Layout
<1>3. \A j \in 1 .. m: \A i \in 1 .. Len(texts[j]): texts[j][i] \in B
  <2> TAKE j \in 1 .. m
  <2>1. texts[j] \in Seq(Symbols) /\ Lacks(texts[j], key)
    <3>1. j \in 1 .. Len(texts) /\ j \in 1 .. n - 1
      BY <1>2 DEF Layout
    <3> QED BY <3>1 DEF Layout, KeyBehind
  <2> QED BY <2>1 DEF Lacks
<1> HIDE DEF B
<1>4. \A i \in 1 .. place[m]: f[i] \in B
  BY <1>1, <1>3, LayoutCovers
<1> QED BY <1>2, <1>4 DEF B

\* A line of an object, without its comma.
Member(key, value) == << key >> \o value

\* A member with a key and a value is read, if its line is copied.
LEMMA MemberRead ==
  ASSUME NEW f, NEW texts, NEW open, NEW close, NEW place, Layout(f, texts, open, close, place),
         open \notin Keys, NEW n \in 1 .. Len(texts), NEW key \in Keys, NEW value \in Values,
         texts[n] = Member(key, value), KeyBehind(texts, n, key),
         NEW text, Agrees(text, f, place[n]), NEW before
  PROVE  cclog_json_get_param(text, key, before) = ParamOf(value, before)
<1> DEFINE a == place[n - 1]
           b == place[n]
           l == Len(value)
           c == IF n < Len(texts) THEN 2 ELSE 1
           p == a + 1
<1>1. a \in Nat /\ b \in Nat /\ l \in Nat \ {0} /\ p \in Nat /\ p = a + 1
  <2>1. n \in 0 .. Len(texts)
    BY DEF Layout
  <2>2. a \in Nat /\ b \in Nat
    BY <2>1, LayoutPlaces
  <2> HIDE DEF a, b
  <2> QED BY <2>2, ValueFacts
<1>2. /\ value \in Seq(Symbols) /\ value # <<>> /\ value[l] # Comma
      /\ \A i \in 1 .. l: value[i] # Newline
  BY ValueFacts
<1>3. /\ Len(texts[n]) = l + 1 /\ texts[n][1] = key
      /\ \A i \in 1 .. l: texts[n][1 + i] = value[i]
  <2>1. << key >> \in Seq(Symbols) /\ Len(<< key >>) = 1 /\ << key >>[1] = key
    BY DEF Symbols
  <2> PICK s \in Seq(Symbols): s = << key >>
    BY <2>1
  <2>2. /\ Len(s \o value) = Len(s) + l
        /\ \A i \in 1 .. Len(s): (s \o value)[i] = s[i]
        /\ \A i \in 1 .. l: (s \o value)[Len(s) + i] = value[i]
    BY <1>2, JoinFacts
  <2>3. 1 \in 1 .. Len(s) /\ Len(s) = 1 /\ 1 + l = l + 1
    BY <2>1
  <2>4. texts[n] = s \o value
    BY DEF Member
  <2> QED BY <2>1, <2>2, <2>3, <2>4
<1>4. b = a + (l + 1) + c
  BY <1>3, LayoutPlaces
<1>5. c \in 1 .. 2 /\ (n < Len(texts) => c = 2) /\ (~(n < Len(texts)) => c = 1)
  OBVIOUS
<1> HIDE DEF a, b, l, c, p
<1>6. /\ b = p + l + c /\ p \in 1 .. b
       /\ \A i \in 1 .. l: p + i \in 1 .. b /\ p + i = a + (1 + i) /\ 1 + i \in 1 .. l + 1
  BY <1>1, <1>4, <1>5
<1>7. /\ \A i \in 1 .. l + 1: f[a + i] = texts[n][i]
      /\ f[b] = Newline
      /\ n < Len(texts) => f[b - 1] = Comma
  BY <1>3 DEF Layout, a, b
<1>8. /\ text \in Seq(Symbols) /\ Len(text) \in Nat /\ b <= Len(text)
      /\ \A i \in 1 .. b: text[i] = f[i]
  BY DEF Agrees, b
<1>9. FirstAt(text, key, p)
  <2>1. p \in 1 .. b /\ 1 \in 1 .. l + 1
    BY <1>1, <1>6
  <2>2. text[p] = key
    BY <1>3, <1>7, <1>8, <1>1, <2>1
  <2>3. \A i \in 1 .. a: f[i] # key
    <3>1. n \in 1 .. Len(texts) + 1
      BY DEF Layout
    <3> QED BY <3>1, KeyIsBehind DEF a
  <2>4. \A i \in 1 .. p - 1: i \in 1 .. a /\ i \in 1 .. b
    BY <1>1, <2>1
  <2>5. \A i \in 1 .. p - 1: text[i] # key
    BY <1>8, <2>3, <2>4
  <2>6. p \in 1 .. Len(text)
    BY <1>8, <1>1, <2>1
  <2> QED BY <2>2, <2>5, <2>6 DEF FirstAt
<1>10. \A i \in 1 .. l: text[p + i] = value[i]
  <2> TAKE i \in 1 .. l
  <2>1. p + i \in 1 .. b /\ p + i = a + (1 + i) /\ 1 + i \in 1 .. l + 1
    BY <1>1, <1>6
  <2>2. text[p + i] = f[p + i]
    BY <1>8, <2>1
  <2> QED BY <1>3, <1>7, <2>1, <2>2
<1>11. \/ p + l + 1 <= Len(text) /\ text[p + l + 1] = Newline
      \/ /\ p + l + 2 <= Len(text)
         /\ text[p + l + 1] = Comma /\ text[p + l + 2] = Newline
  <2>1. CASE n < Len(texts)
    <3>1. b = p + l + 2 /\ b - 1 = p + l + 1 /\ b \in 1 .. b /\ b - 1 \in 1 .. b
      BY <1>1, <1>6, <1>5, <2>1
    <3> QED BY <1>7, <1>8, <2>1, <3>1
  <2>2. CASE ~(n < Len(texts))
    <3>1. b = p + l + 1 /\ b \in 1 .. b
      BY <1>1, <1>6, <1>5, <2>2
    <3> QED BY <1>7, <1>8, <2>2, <3>1
  <2> QED BY <2>1, <2>2
<1>12. LineAt(text, p, value)
  BY <1>2, <1>10, <1>11 DEF LineAt, l
<1> QED BY <1>8, <1>9, <1>12, ParamRead

\* A key that no member has is in no symbol of a structure.
LEMMA LayoutLacks ==
  ASSUME NEW f, NEW texts, NEW open, NEW close, NEW place, Layout(f, texts, open, close, place),
         open \notin Keys, close \notin Keys, NEW key \in Keys,
         KeyBehind(texts, Len(texts) + 1, key)
  PROVE  Lacks(f, key)
<1> PICK L \in Nat, len \in Nat: L = Len(texts) /\ len = Len(f)
  BY LayoutPlaces DEF Layout
<1>1. \A i \in 1 .. place[L]: f[i] # key
  <2>1. L + 1 \in 1 .. Len(texts) + 1 /\ (L + 1) - 1 = L
    OBVIOUS
  <2> QED BY <2>1, KeyIsBehind
<1>2. len = place[L] + 1 /\ place[L] \in Nat /\ f[len] # key
  BY DEF Layout
<1>3. \A i \in 1 .. len: i \in 1 .. place[L] \/ i = len
  BY <1>2
<1>4. \A i \in 1 .. len: f[i] # key
  BY <1>1, <1>2, <1>3
<1> QED BY <1>4 DEF Lacks

\* A text without a key has it in no copy.
LEMMA CopyLacks ==
  ASSUME NEW f, Len(f) \in Nat, NEW key \in Keys, Lacks(f, key),
         NEW text, NEW d, Copies(text, f, d), NEW before
  PROVE  cclog_json_get_param(text, key, before) = Missing
<1>1. /\ text \in Seq(Symbols) /\ d \in Nat /\ d <= Len(f)
      /\ \A i \in 1 .. d: text[i] = f[i]
      /\ \A i \in 1 .. Len(text): i > d => text[i] \notin Keys
  BY DEF Copies, Agrees
<1>2. \A i \in DOMAIN text: text[i] # key
  <2> TAKE i \in DOMAIN text
  <2>1. CASE i > d
    BY <1>1, <2>1
  <2>2. CASE ~(i > d)
    <3>1. i \in 1 .. d /\ i \in 1 .. Len(f)
      BY <1>1, <2>2
    <3> QED BY <1>1, <3>1 DEF Lacks
  <2> QED BY <2>1, <2>2
<1> QED BY <1>2, ParamAbsent

\* A key that no member has is in no copy.
LEMMA MemberAbsent ==
  ASSUME NEW f, NEW texts, NEW open, NEW close, NEW place, Layout(f, texts, open, close, place),
         open \notin Keys, close \notin Keys, NEW key \in Keys,
         KeyBehind(texts, Len(texts) + 1, key),
         NEW text, NEW d, Copies(text, f, d), NEW before
  PROVE  cclog_json_get_param(text, key, before) = Missing
<1>1. Lacks(f, key) /\ Len(f) \in Nat
  BY LayoutLacks, LayoutPlaces
<1> QED BY <1>1, CopyLacks

\* A key that is read is copied, and so are the lines before its own.
LEMMA MemberCopied ==
  ASSUME NEW f, NEW texts, NEW open, NEW close, NEW place, Layout(f, texts, open, close, place),
         open \notin Keys, NEW n \in 1 .. Len(texts), NEW key \in Keys,
         KeyBehind(texts, n, key),
         NEW text, NEW d, Copies(text, f, d), NEW before,
         cclog_json_get_param(text, key, before) # Missing
  PROVE  place[n - 1] < d
<1>1. PICK i \in DOMAIN text: text[i] = key
  BY ParamAbsent
<1>2. /\ text \in Seq(Symbols) /\ d \in Nat
      /\ \A j \in 1 .. d: text[j] = f[j]
      /\ \A j \in 1 .. Len(text): j > d => text[j] \notin Keys
  BY DEF Copies, Agrees
<1>3. i \in 1 .. d /\ f[i] = key
  BY <1>1, <1>2
<1>4. \A j \in 1 .. place[n - 1]: f[j] # key
  <2>1. n \in 1 .. Len(texts) + 1
    BY DEF Layout
  <2> QED BY <2>1, KeyIsBehind
<1>5. place[n - 1] \in Nat
  BY LayoutPlaces
<1> QED BY <1>2, <1>3, <1>4, <1>5

-----------------------------------------------------------------------------
(* The lines of a level.                                                   *)

\* The lines that LevelText writes, which are none for a NULL pointer.
FormatLines(level) ==
  IF level.msg_format = Null THEN <<>>
  ELSE << << "msg_format" >> \o QuotedText(level.msg_format) >>

CallbackLines(level) ==
  IF level.callback = Null THEN <<>>
  ELSE << << "callback" >> \o QuotedText(level.callback.name) >>

RequiredLines(level) == [n \in DOMAIN Required |-> << Required[n].key, level.required[n] >>]

LevelTexts(level) == RequiredLines(level) \o FormatLines(level) \o CallbackLines(level)

\* A level whose strings are plain: what Plain says of one.
PlainString(s) == s \in String /\ ~Holds(s, Quote) /\ ~Holds(s, Newline)

PlainLevel(level) ==
  /\ level \in Level
  /\ level.msg_format # Null => PlainString(level.msg_format)
  /\ level.callback # Null =>
       /\ PlainString(level.callback.name) /\ level.callback.name # <<>>
       /\ get_mapping_from_name(level.callback.name) = level.callback

\* A plain string between quotes is a value of a pair.
LEMMA PlainValue == ASSUME NEW s, PlainString(s) PROVE QuotedText(s) \in Values
BY DEF PlainString, Values

\* A member has no other key than its own and those of its value.
LEMMA JoinLacks ==
  ASSUME NEW key \in Keys, NEW value \in Seq(Symbols), NEW other, other # key, Lacks(value, other)
  PROVE  Member(key, value) \in Seq(Symbols) /\ Lacks(Member(key, value), other)
<1> PICK l \in Nat: l = Len(value)
  OBVIOUS
<1>1. << key >> \in Seq(Symbols) /\ Len(<< key >>) = 1 /\ << key >>[1] = key
  BY DEF Symbols
<1> PICK s \in Seq(Symbols): s = << key >>
  BY <1>1
<1> DEFINE u == s \o value
<1>2. /\ u \in Seq(Symbols) /\ Len(u) = 1 + l /\ u[1] = key
      /\ \A i \in 1 .. l: u[1 + i] = value[i]
  <2>1. Len(s) = 1 /\ 1 \in 1 .. Len(s) /\ s[1] = key
    BY <1>1
  <2> QED BY <2>1, JoinFacts
<1> HIDE DEF u
<1>3. \A i \in 1 .. Len(u): u[i] # other
  <2> TAKE i \in 1 .. Len(u)
  <2>1. CASE i = 1
    BY <1>2, <2>1
  <2>2. CASE i # 1
    <3>1. i - 1 \in 1 .. l /\ i = 1 + (i - 1)
      BY <1>2, <2>2
    <3>2. value[i - 1] # other
      BY <3>1 DEF Lacks
    <3> QED BY <1>2, <3>1, <3>2
  <2> QED BY <2>1, <2>2
<1>4. Member(key, value) = u
  BY DEF Member, u
<1> QED BY <1>2, <1>3, <1>4 DEF Lacks

\* A member with a key and a value has no other key.
LEMMA MemberLacks ==
  ASSUME NEW key \in Keys, NEW value \in Values, NEW other \in Keys, other # key
  PROVE  Member(key, value) \in Seq(Symbols) /\ Lacks(Member(key, value), other)
<1>1. value \in Seq(Symbols) /\ Lacks(value, other)
  BY ValueFacts DEF Lacks
<1> QED BY <1>1, JoinLacks

\* The keys of a level are not one another.
LEMMA LevelKeys ==
  /\ Len(Required) = 4 /\ DOMAIN Required = 1 .. 4
  /\ \A n \in 1 .. 4: Required[n].key \in Keys \ {"msg_format", "callback", "server"}
  /\ \A m, n \in 1 .. 4: m # n => Required[m].key # Required[n].key
  /\ Required[1].type = "boolean" /\ Required[2].type = "boolean"
  /\ Required[3].type = "number" /\ Required[4].type = "number"
  /\ {"msg_format", "callback", "server", "port", "log_levels", "def_msg_format",
      "logger_verbosity", "log_file_path", "log_method"} \subseteq Keys
  /\ "msg_format" # "callback"
<1>1. Len(Required) = 4 /\ DOMAIN Required = 1 .. 4
  BY DEF Required
<1>2. /\ Required[1].key = "log_to_tty" /\ Required[2].key = "log_to_file"
      /\ Required[3].key = "color" /\ Required[4].key = "verbosity"
      /\ Required[1].type = "boolean" /\ Required[2].type = "boolean"
      /\ Required[3].type = "number" /\ Required[4].type = "number"
  BY DEF Required
<1>3. \A n \in 1 .. 4: n = 1 \/ n = 2 \/ n = 3 \/ n = 4
  OBVIOUS
<1>4. \A n \in 1 .. 4: Required[n].key \in Keys \ {"msg_format", "callback", "server"}
  BY <1>2, <1>3 DEF Keys
<1>5. \A m, n \in 1 .. 4: m # n => Required[m].key # Required[n].key
  BY <1>2, <1>3
<1>6. {"msg_format", "callback", "server", "port", "log_levels", "def_msg_format",
       "logger_verbosity", "log_file_path", "log_method"} \subseteq Keys
  BY DEF Keys
<1> QED BY <1>1, <1>2, <1>4, <1>5, <1>6

\* A function on the first places is a sequence.
LEMMA TupleIsSequence ==
  ASSUME NEW T, NEW n \in Nat, NEW a \in [1 .. n -> T]
  PROVE  a \in Seq(T) /\ Len(a) = n
OBVIOUS

\* The lines of a level, one by one.
LEMMA LevelLines ==
  ASSUME NEW level, PlainLevel(level)
  PROVE  LET texts == LevelTexts(level)
             optional == IF level.msg_format = Null THEN 4 ELSE 5
             last == IF level.callback = Null THEN optional ELSE optional + 1
         IN /\ Len(texts) = last
            /\ \A n \in 1 .. 4: /\ texts[n] = Member(Required[n].key, << level.required[n] >>)
                                /\ << level.required[n] >> \in Values
            /\ level.msg_format # Null =>
                 texts[5] = Member("msg_format", QuotedText(level.msg_format))
            /\ level.callback # Null =>
                 texts[last] = Member("callback", QuotedText(level.callback.name))
<1> DEFINE a == RequiredLines(level)
           b == FormatLines(level)
           c == CallbackLines(level)
           optional == IF level.msg_format = Null THEN 4 ELSE 5
           last == IF level.callback = Null THEN optional ELSE optional + 1
<1>1. level \in Level /\ level.required \in Booleans \X Booleans \X Numbers \X Numbers
  BY DEF PlainLevel, Level, LevelOf
<1>2. \A n \in 1 .. 4: level.required[n] \in Booleans \cup Numbers
  BY <1>1
<1>3. \A n \in 1 .. 4: << level.required[n] >> \in Values
  BY <1>2 DEF Values
<1> DEFINE T == Seq(Symbols)
<1>4. \A n \in 1 .. 4: << Required[n].key, level.required[n] >> \in T
                       /\ << Required[n].key, level.required[n] >>
                            = Member(Required[n].key, << level.required[n] >>)
  <2> TAKE n \in 1 .. 4
  <2> PICK x \in Symbols, y \in Symbols: x = Required[n].key /\ y = level.required[n]
    <3>1. level.required[n] \in Symbols
      BY <1>2 DEF Symbols
    <3>2. Required[n].key \in Symbols
      BY LevelKeys DEF Symbols
    <3> QED BY <3>1, <3>2
  <2>1. << x >> \o << y >> = << x, y >> /\ << x, y >> \in Seq(Symbols)
    BY PairJoined
  <2> QED BY <2>1 DEF Member
<1>5. a \in Seq(T) /\ Len(a) = 4 /\ \A n \in 1 .. 4: a[n] = Member(Required[n].key, << level.required[n] >>)
  <2>1. a = [n \in 1 .. 4 |-> << Required[n].key, level.required[n] >>]
    BY LevelKeys DEF RequiredLines
  <2> HIDE DEF a, T
  <2>2. a \in [1 .. 4 -> T]
    BY <1>4, <2>1
  <2>3. a \in Seq(T) /\ Len(a) = 4
    <3> HIDE DEF b, c, optional, last
    <3>1. a \in Seq(T)
      BY <2>2, TupleIsSequence
    <3>2. DOMAIN a = 1 .. 4
      BY <2>2
    <3> QED BY <3>1, <3>2
  <2> QED BY <1>4, <2>1, <2>3
<1>6. b \in Seq(T) /\ Len(b) = optional - 4
      /\ (level.msg_format # Null => b[1] = Member("msg_format", QuotedText(level.msg_format)))
  <2>1. CASE level.msg_format = Null
    BY <2>1 DEF FormatLines
  <2>2. CASE level.msg_format # Null
    <3>1. QuotedText(level.msg_format) \in Values
      BY <2>2, PlainValue DEF PlainLevel
    <3>2. Member("msg_format", QuotedText(level.msg_format)) \in T
      BY <3>1, LevelKeys, MemberLacks
    <3>3. b = << Member("msg_format", QuotedText(level.msg_format)) >>
      BY <2>2 DEF FormatLines, Member
    <3> HIDE DEF b, T
    <3> QED BY <2>2, <3>2, <3>3
  <2> QED BY <2>1, <2>2
<1>7. c \in Seq(T) /\ Len(c) = last - optional
      /\ (level.callback # Null => c[1] = Member("callback", QuotedText(level.callback.name)))
  <2>1. CASE level.callback = Null
    BY <2>1 DEF CallbackLines
  <2>2. CASE level.callback # Null
    <3>1. QuotedText(level.callback.name) \in Values
      BY <2>2, PlainValue DEF PlainLevel
    <3>2. Member("callback", QuotedText(level.callback.name)) \in T
      BY <3>1, LevelKeys, MemberLacks
    <3>3. c = << Member("callback", QuotedText(level.callback.name)) >>
      BY <2>2 DEF CallbackLines, Member
    <3> HIDE DEF c, T
    <3> QED BY <2>2, <3>2, <3>3
  <2> QED BY <2>1, <2>2
<1>8. optional \in {4, 5} /\ last \in {optional, optional + 1}
      /\ (level.msg_format # Null => optional = 5)
      /\ (level.callback # Null => last = optional + 1)
  OBVIOUS
<1> HIDE DEF a, b, c, T, optional, last
<1> DEFINE ab == a \o b
<1>9. /\ ab \in Seq(T) /\ Len(ab) = optional
      /\ \A i \in 1 .. 4: ab[i] = a[i]
      /\ level.msg_format # Null => ab[5] = b[1]
  <2>1. /\ ab \in Seq(T) /\ Len(ab) = Len(a) + Len(b)
        /\ \A i \in 1 .. Len(a): ab[i] = a[i]
        /\ \A i \in 1 .. Len(b): ab[Len(a) + i] = b[i]
    <3>1. a \in Seq(T) /\ b \in Seq(T)
      BY <1>5, <1>6
    <3> QED BY <3>1, JoinFacts
  <2> HIDE DEF ab
  <2> QED BY <1>5, <1>6, <1>8, <2>1
<1> HIDE DEF ab
<1> DEFINE texts == ab \o c
<1>10. /\ Len(texts) = last
       /\ \A i \in 1 .. optional: texts[i] = ab[i]
       /\ level.callback # Null => texts[last] = c[1]
  <2>1. /\ Len(texts) = Len(ab) + Len(c)
        /\ \A i \in 1 .. Len(ab): texts[i] = ab[i]
        /\ \A i \in 1 .. Len(c): texts[Len(ab) + i] = c[i]
    <3>1. ab \in Seq(T) /\ c \in Seq(T)
      BY <1>7, <1>9
    <3> QED BY <3>1, JoinFacts
  <2> HIDE DEF texts
  <2> QED BY <1>7, <1>8, <1>9, <2>1
<1>11. LevelTexts(level) = texts
  BY DEF LevelTexts, texts, ab, a, b, c
<1> HIDE DEF texts
<1>12. \A i \in 1 .. 4: texts[i] = a[i]
  BY <1>8, <1>9, <1>10
<1>13. level.msg_format # Null => texts[5] = b[1]
  BY <1>8, <1>9, <1>10
<1> QED BY <1>3, <1>5, <1>6, <1>7, <1>10, <1>11, <1>12, <1>13 DEF optional, last

\* The lines of a level are members, and no key is in a line before its own.
LEMMA LevelMembers ==
  ASSUME NEW level, PlainLevel(level)
  PROVE  LET texts == LevelTexts(level)
         IN /\ Len(texts) \in 4 .. 6
            /\ \A n \in 1 .. Len(texts):
                 \E key \in Keys, value \in Values: texts[n] = Member(key, value)
            /\ \A n \in 1 .. 4: KeyBehind(texts, n, Required[n].key)
            /\ KeyBehind(texts, IF level.msg_format = Null THEN Len(texts) + 1 ELSE 5, "msg_format")
            /\ KeyBehind(texts, IF level.callback = Null THEN Len(texts) + 1 ELSE Len(texts),
                         "callback")
<1> DEFINE texts == LevelTexts(level)
<1> HIDE DEF texts
<1>1. PICK optional \in {4, 5}, last \in 4 .. 6:
        /\ optional = IF level.msg_format = Null THEN 4 ELSE 5
        /\ last = IF level.callback = Null THEN optional ELSE optional + 1
  OBVIOUS
<1>2. /\ Len(texts) = last
      /\ \A n \in 1 .. 4: /\ texts[n] = Member(Required[n].key, << level.required[n] >>)
                          /\ << level.required[n] >> \in Values
      /\ level.msg_format # Null =>
           texts[5] = Member("msg_format", QuotedText(level.msg_format))
      /\ level.callback # Null =>
           texts[last] = Member("callback", QuotedText(level.callback.name))
  BY <1>1, LevelLines DEF texts
<1>3. /\ level.msg_format # Null => QuotedText(level.msg_format) \in Values
      /\ level.callback # Null => QuotedText(level.callback.name) \in Values
  BY PlainValue DEF PlainLevel
<1>4. /\ \A n \in 1 .. 4: Required[n].key \in Keys \ {"msg_format", "callback"}
      /\ "msg_format" \in Keys /\ "callback" \in Keys /\ "msg_format" # "callback"
      /\ \A m, n \in 1 .. 4: m # n => Required[m].key # Required[n].key
  BY LevelKeys
<1>5. \A n \in 1 .. last:
        \/ n \in 1 .. 4
        \/ n = 5 /\ level.msg_format # Null
        \/ n = last /\ level.callback # Null
  BY <1>1
<1>6. ASSUME NEW n \in 1 .. last
      PROVE  \E key \in Keys, value \in Values: texts[n] = Member(key, value)
  BY <1>2, <1>3, <1>4, <1>5
<1>7. ASSUME NEW n \in 1 .. 4, NEW key \in Keys, key # Required[n].key
      PROVE  Lacks(texts[n], key)
  <2>1. /\ Required[n].key \in Keys /\ << level.required[n] >> \in Values
        /\ texts[n] = Member(Required[n].key, << level.required[n] >>)
    BY <1>2, <1>4
  <2> QED BY <1>7, <2>1, MemberLacks
<1>8. ASSUME NEW n \in 1 .. 4 PROVE KeyBehind(texts, n, Required[n].key)
  <2>1. \A j \in 1 .. n - 1: j \in 1 .. 4 /\ Required[n].key # Required[j].key
    BY <1>4
  <2>2. \A j \in 1 .. n - 1: Lacks(texts[j], Required[n].key)
    BY <1>4, <1>7, <2>1
  <2> QED BY <2>2 DEF KeyBehind
<1>9. \A n \in 1 .. 4: Lacks(texts[n], "msg_format") /\ Lacks(texts[n], "callback")
  BY <1>4, <1>7
<1>10. level.msg_format # Null => Lacks(texts[5], "callback")
  BY <1>2, <1>3, <1>4, MemberLacks
<1>11. level.callback # Null => Lacks(texts[last], "msg_format")
  BY <1>2, <1>3, <1>4, MemberLacks
<1>12. KeyBehind(texts, IF level.msg_format = Null THEN last + 1 ELSE 5, "msg_format")
  <2> PICK m \in Nat: m = IF level.msg_format = Null THEN last + 1 ELSE 5
    OBVIOUS
  <2>1. \A j \in 1 .. m - 1: j \in 1 .. 4 \/ (j = last /\ level.callback # Null)
    BY <1>1
  <2>2. \A j \in 1 .. m - 1: Lacks(texts[j], "msg_format")
    BY <1>9, <1>11, <2>1
  <2> QED BY <2>2 DEF KeyBehind
<1>13. KeyBehind(texts, IF level.callback = Null THEN last + 1 ELSE last, "callback")
  <2> PICK m \in Nat: m = IF level.callback = Null THEN last + 1 ELSE last
    OBVIOUS
  <2>1. \A j \in 1 .. m - 1: j \in 1 .. 4 \/ (j = 5 /\ level.msg_format # Null)
    BY <1>1
  <2>2. \A j \in 1 .. m - 1: Lacks(texts[j], "callback")
    BY <1>9, <1>10, <2>1
  <2> QED BY <2>2 DEF KeyBehind
<1> QED BY <1>2, <1>6, <1>8, <1>12, <1>13 DEF texts

\* The object of a level has its lines one behind the other.
LEMMA LevelLayout ==
  ASSUME NEW level, PlainLevel(level)
  PROVE  \E place: Layout(LevelText(level), LevelTexts(level), BraceOpen, BraceClose, place)
<1> DEFINE texts == LevelTexts(level)
<1>1. LevelText(level) = Object(texts)
  BY DEF LevelText, LevelParams, LevelTexts, RequiredLines, FormatLines, CallbackLines
<1> HIDE DEF texts
<1>2. /\ Len(texts) \in 4 .. 6
      /\ \A n \in 1 .. Len(texts): \E key \in Keys, value \in Values: texts[n] = Member(key, value)
  BY LevelMembers DEF texts
<1>3. Len(texts) \in Nat
  BY <1>2
<1>4. \A n \in 1 .. Len(texts): texts[n] \in Seq(Symbols)
  <2> TAKE n \in 1 .. Len(texts)
  <2>1. PICK key \in Keys, value \in Values: texts[n] = Member(key, value)
    BY <1>2
  <2>2. PICK other \in Keys: other # key
    BY LevelKeys
  <2> QED BY <2>1, <2>2, MemberLacks
<1>5. BraceOpen \in Symbols /\ BraceClose \in Symbols
  BY SymbolsDiffer
<1>6. \E place:
        Layout(<< BraceOpen, Newline >> \o Members(texts) \o << BraceClose >>,
               texts, BraceOpen, BraceClose, place)
  BY <1>3, <1>4, <1>5, StructureLayout
<1> QED BY <1>1, <1>6 DEF Object, texts

\* What is read of a required parameter.
RequiredParam(level, n) == Param(Required[n].type, level.required[n])

\* What is read of a value of a required parameter.
LEMMA RequiredParamOf ==
  ASSUME NEW level, PlainLevel(level), NEW n \in 1 .. 4, NEW before
  PROVE  ParamOf(<< level.required[n] >>, before) = RequiredParam(level, n)
<1>1. level.required \in Booleans \X Booleans \X Numbers \X Numbers
  BY DEF PlainLevel, Level, LevelOf
<1>2. CASE n = 1 \/ n = 2
  <2>1. level.required[n] \in Booleans /\ Required[n].type = "boolean"
    BY <1>1, <1>2, LevelKeys
  <2> QED BY <2>1, ParamOfBoolean DEF RequiredParam
<1>3. CASE n = 3 \/ n = 4
  <2>1. level.required[n] \in Numbers /\ Required[n].type = "number"
    BY <1>1, <1>3, LevelKeys
  <2> QED BY <2>1, ParamOfNumber DEF RequiredParam
<1> QED BY <1>2, <1>3

\* Of a whole object every parameter is read as it was exported, but for an empty
\* format: the static parameter stays.
LEMMA LevelRead ==
  ASSUME NEW level, PlainLevel(level), NEW before
  PROVE  LET object == LevelText(level)
         IN /\ \A n \in 1 .. 4:
                 cclog_json_get_param(object, Required[n].key, before) = RequiredParam(level, n)
            /\ cclog_json_get_param(object, "msg_format", before) =
                 IF level.msg_format = Null THEN Missing
                 ELSE IF level.msg_format = <<>> THEN before
                 ELSE Param("string", level.msg_format)
            /\ cclog_json_get_param(object, "callback", before) =
                 IF level.callback = Null THEN Missing
                 ELSE Param("string", level.callback.name)
<1> DEFINE object == LevelText(level)
           texts == LevelTexts(level)
<1>1. PICK place: Layout(object, texts, BraceOpen, BraceClose, place)
  BY LevelLayout
<1>2. /\ Len(texts) \in 4 .. 6
      /\ \A n \in 1 .. 4: KeyBehind(texts, n, Required[n].key)
      /\ KeyBehind(texts, IF level.msg_format = Null THEN Len(texts) + 1 ELSE 5, "msg_format")
      /\ KeyBehind(texts, IF level.callback = Null THEN Len(texts) + 1 ELSE Len(texts), "callback")
  BY LevelMembers
<1>3. PICK optional \in {4, 5}, last \in 4 .. 6:
        /\ optional = IF level.msg_format = Null THEN 4 ELSE 5
        /\ last = IF level.callback = Null THEN optional ELSE optional + 1
  OBVIOUS
<1>4. /\ Len(texts) = last
      /\ \A n \in 1 .. 4: /\ texts[n] = Member(Required[n].key, << level.required[n] >>)
                          /\ << level.required[n] >> \in Values
      /\ level.msg_format # Null =>
           texts[5] = Member("msg_format", QuotedText(level.msg_format))
      /\ level.callback # Null =>
           texts[last] = Member("callback", QuotedText(level.callback.name))
  BY <1>3, LevelLines
<1> HIDE DEF object, texts
<1>5. object \in Seq(Symbols) /\ Len(object) \in Nat /\ Len(texts) \in Nat
  BY <1>1, LayoutPlaces DEF Layout
<1>6. /\ Copies(object, object, Len(object))
      /\ \A n \in 0 .. Len(texts): Agrees(object, object, place[n])
  <2>1. \A n \in 0 .. Len(texts): place[n] \in Nat /\ place[n] <= Len(object)
    BY <1>1, <1>5, LayoutPlaces
  <2> QED BY <1>5, <2>1 DEF Copies, Agrees
<1>7. BraceOpen \notin Keys /\ BraceClose \notin Keys
  BY NoKeys
<1>8. ASSUME NEW n \in 1 .. Len(texts), NEW key \in Keys, NEW value \in Values,
             texts[n] = Member(key, value), KeyBehind(texts, n, key)
      PROVE  cclog_json_get_param(object, key, before) = ParamOf(value, before)
  <2>1. Agrees(object, object, place[n])
    BY <1>5, <1>6
  <2> QED BY <1>1, <1>7, <1>8, <2>1, MemberRead
<1>9. ASSUME NEW n \in 1 .. 4
      PROVE  cclog_json_get_param(object, Required[n].key, before) = RequiredParam(level, n)
  <2>1. n \in 1 .. Len(texts)
    <3> PICK k \in 4 .. 6: k = Len(texts)
      BY <1>2
    <3>1. n \in 1 .. k
      OBVIOUS
    <3> QED BY <3>1
  <2>2. Required[n].key \in Keys
    BY LevelKeys
  <2>3. cclog_json_get_param(object, Required[n].key, before)
          = ParamOf(<< level.required[n] >>, before)
    BY <1>2, <1>4, <1>8, <2>1, <2>2
  <2> QED BY <2>3, RequiredParamOf
<1>10. cclog_json_get_param(object, "msg_format", before) =
         IF level.msg_format = Null THEN Missing
         ELSE IF level.msg_format = <<>> THEN before
         ELSE Param("string", level.msg_format)
  <2>1. "msg_format" \in Keys
    BY LevelKeys
  <2>2. CASE level.msg_format = Null
    <3>1. KeyBehind(texts, Len(texts) + 1, "msg_format")
      BY <1>2, <2>2
    <3> QED BY <1>1, <1>6, <1>7, <2>1, <2>2, <3>1, MemberAbsent
  <2>3. CASE level.msg_format # Null
    <3>1. 5 \in 1 .. Len(texts) /\ KeyBehind(texts, 5, "msg_format")
      BY <1>2, <1>3, <1>4, <2>3
    <3>2. QuotedText(level.msg_format) \in Values /\ PlainString(level.msg_format)
      BY <2>3, PlainValue DEF PlainLevel
    <3>3. cclog_json_get_param(object, "msg_format", before)
            = ParamOf(QuotedText(level.msg_format), before)
      BY <1>4, <1>8, <2>1, <2>3, <3>1, <3>2
    <3> QED BY <2>3, <3>2, <3>3, ParamOfString DEF PlainString
  <2> QED BY <2>2, <2>3
<1>11. cclog_json_get_param(object, "callback", before) =
         IF level.callback = Null THEN Missing ELSE Param("string", level.callback.name)
  <2>1. "callback" \in Keys
    BY LevelKeys
  <2>2. CASE level.callback = Null
    <3>1. KeyBehind(texts, Len(texts) + 1, "callback")
      BY <1>2, <2>2
    <3> QED BY <1>1, <1>6, <1>7, <2>1, <2>2, <3>1, MemberAbsent
  <2>3. CASE level.callback # Null
    <3>1. last \in 1 .. Len(texts) /\ KeyBehind(texts, last, "callback")
      BY <1>2, <1>3, <1>4, <2>3
    <3>2. /\ QuotedText(level.callback.name) \in Values
          /\ PlainString(level.callback.name) /\ level.callback.name # <<>>
      BY <2>3, PlainValue DEF PlainLevel
    <3>3. cclog_json_get_param(object, "callback", before)
            = ParamOf(QuotedText(level.callback.name), before)
      BY <1>4, <1>8, <2>1, <2>3, <3>1, <3>2
    <3> QED BY <2>3, <3>2, <3>3, ParamOfString DEF PlainString
  <2> QED BY <2>2, <2>3
<1> QED BY <1>9, <1>10, <1>11 DEF object

\* Of an object that is cut, the first three parameters are read as they were
\* exported, if the fourth is there.
LEMMA CutLevelRead ==
  ASSUME NEW level, PlainLevel(level), NEW text, NEW d,
         Copies(text, LevelText(level), d), NEW last,
         cclog_json_get_param(text, Required[4].key, last) # Missing,
         NEW n \in 1 .. 3, NEW before
  PROVE  cclog_json_get_param(text, Required[n].key, before) = RequiredParam(level, n)
<1> DEFINE object == LevelText(level)
           texts == LevelTexts(level)
<1>1. PICK place: Layout(object, texts, BraceOpen, BraceClose, place)
  BY LevelLayout
<1>2. /\ Len(texts) \in 4 .. 6
      /\ \A m \in 1 .. 4: KeyBehind(texts, m, Required[m].key)
  BY LevelMembers
<1>3. PICK lines \in 4 .. 6: lines = Len(texts)
  BY <1>2
<1>4. \A m \in 1 .. 4: /\ texts[m] = Member(Required[m].key, << level.required[m] >>)
                       /\ << level.required[m] >> \in Values
  BY LevelLines
<1> HIDE DEF object, texts
<1>5. BraceOpen \notin Keys /\ BraceClose \notin Keys
  BY NoKeys
<1>6. place[3] < d
  <2>1. 4 \in 1 .. Len(texts) /\ Required[4].key \in Keys /\ 4 - 1 = 3
    BY <1>3, LevelKeys
  <2>2. KeyBehind(texts, 4, Required[4].key) /\ Copies(text, object, d)
    BY <1>2 DEF object
  <2>3. place[4 - 1] < d
    BY <1>1, <1>5, <2>1, <2>2, MemberCopied
  <2> QED BY <2>1, <2>3
<1>7. Agrees(text, object, place[n])
  <2>1. n \in 0 .. Len(texts) /\ 3 \in 0 .. Len(texts) /\ n <= 3
    BY <1>3
  <2>2. place[n] \in Nat /\ place[3] \in Nat /\ place[n] <= place[3]
    BY <1>1, <2>1, LayoutPlaces
  <2>3. Agrees(text, object, d)
    BY DEF Copies, object
  <2> QED BY <1>6, <2>2, <2>3 DEF Agrees
<1>8. n \in 1 .. Len(texts) /\ n \in 1 .. 4
  BY <1>3
<1>9. Required[n].key \in Keys
  BY <1>8, LevelKeys
<1>10. cclog_json_get_param(text, Required[n].key, before)
        = ParamOf(<< level.required[n] >>, before)
  BY <1>1, <1>2, <1>4, <1>5, <1>7, <1>8, <1>9, MemberRead
<1> QED BY <1>8, <1>10, RequiredParamOf

-----------------------------------------------------------------------------
(* The brackets of levels and of their array.                              *)

\* What the loops over objects count, and the loop over an array.
Braces == {BraceOpen, BraceClose}
Brackets == {BracketOpen, BracketClose}

\* A member has brackets only in its string.
LEMMA MemberQuiet ==
  ASSUME NEW B \in {Braces, Brackets}, NEW key \in Keys, NEW value \in Values
  PROVE  Member(key, value) \in Quiet(B)
<1>1. B \subseteq {BraceOpen, BraceClose, BracketOpen, BracketClose}
  BY DEF Braces, Brackets
<1>2. key \in Symbols /\ key # Quote /\ key \notin B
  BY <1>1, NoKeys DEF Symbols
<1>3. << key >> \in Quiet(B)
  BY <1>2, QuietSymbol
<1>4. value \in Quiet(B)
  <2>1. CASE \E x \in Booleans \cup Numbers \cup {"0"}: value = << x >>
    <3>1. PICK x \in Booleans \cup Numbers \cup {"0"}: value = << x >>
      BY <2>1
    <3>2. x \in Symbols /\ x # Quote
      BY NoQuotes DEF Symbols
    <3>3. x \notin {BraceOpen, BraceClose, BracketOpen, BracketClose}
      <4>1. CASE x \in Numbers
        BY <4>1, SymbolAssumption
      <4>2. CASE x \in Booleans \/ x = "0"
        BY <4>2, Zenon DEF Booleans, BraceOpen, BraceClose, BracketOpen, BracketClose
      <4> QED BY <4>1, <4>2
    <3>4. x \notin B
      BY <1>1, <3>3
    <3> QED BY <3>1, <3>2, <3>4, QuietSymbol
  <2>2. CASE \E s \in String: value = QuotedText(s) /\ ~Holds(s, Quote)
    <3>1. Quote \notin B
      BY <1>1, SymbolsDiffer
    <3> QED BY <2>2, <3>1, QuietString
  <2> QED BY <2>1, <2>2 DEF Values
<1> QED BY <1>3, <1>4, QuietJoin DEF Member

\* The members of a structure, if each is a key with its value.
LEMMA MembersQuiet ==
  ASSUME NEW B \in {Braces, Brackets}, NEW texts, Len(texts) \in Nat,
         \A n \in 1 .. Len(texts): texts[n] \in Quiet(B)
  PROVE  Members(texts) \in Quiet(B)
<1>1. Newline \notin B /\ Comma \notin B
  BY SymbolsDiffer DEF Braces, Brackets
<1>2. Separated(Quiet(B))
  BY <1>1, QuietSeparated
<1> QED BY <1>2, MembersIn

\* The object of a level has its braces, and none outside strings in between; it has
\* no bracket outside strings.
LEMMA LevelFramed ==
  ASSUME NEW level, PlainLevel(level)
  PROVE  /\ Framed(LevelText(level), BraceOpen, BraceClose)
         /\ LevelText(level) \in Quiet(Brackets)
<1> DEFINE texts == LevelTexts(level)
<1>1. LevelText(level) = Object(texts)
  BY DEF LevelText, LevelParams, LevelTexts, RequiredLines, FormatLines, CallbackLines
<1>2. /\ Len(texts) \in 4 .. 6
      /\ \A n \in 1 .. Len(texts): \E key \in Keys, value \in Values: texts[n] = Member(key, value)
  BY LevelMembers
<1> HIDE DEF texts
<1>3. Len(texts) \in Nat
  BY <1>2
<1>4. ASSUME NEW B \in {Braces, Brackets} PROVE Members(texts) \in Quiet(B)
  BY <1>2, <1>3, MemberQuiet, MembersQuiet
<1> DEFINE m == Members(texts)
<1> HIDE DEF m
<1>5. m \in Quiet(Braces) /\ m \in Quiet(Brackets)
  BY <1>4 DEF m
<1>6. /\ BraceOpen \in Symbols \ {Quote} /\ BraceClose \in Symbols \ {Quote}
      /\ Newline \notin Braces /\ Newline \notin Brackets
      /\ BraceOpen \notin Brackets /\ BraceClose \notin Brackets
  BY SymbolsDiffer DEF Braces, Brackets
<1>7. Framed(<< BraceOpen, Newline >> \o m \o << BraceClose >>, BraceOpen, BraceClose)
  BY <1>5, <1>6, FramedStructure DEF Braces
<1>8. << BraceOpen, Newline >> \o m \o << BraceClose >> \in Quiet(Brackets)
  BY <1>5, <1>6, QuietStructure
<1> QED BY <1>1, <1>7, <1>8 DEF Object, m

-----------------------------------------------------------------------------
(* The loops over structures.                                              *)

State(i, level, q) == [at |-> i, nested_level |-> level, in_string |-> q]

\* The variables of a loop at a place, if in_string is set at the places of J.
Walk(J, i, level) == IF i \in J THEN State(i, level, TRUE) ELSE State(i, level, FALSE)

\* What the proofs use of a state of a loop.
IsWalk(s, J, i, level) ==
  /\ s \in Loop /\ s.at = i /\ s.nested_level = level
  /\ s.in_string => i \in J
  /\ i \in J => s.in_string

\* The walk over a text takes its steps as the loop of the reader does.
LEMMA WalkFacts ==
  ASSUME NEW J, NEW i \in Nat, NEW level \in Int
  PROVE  IsWalk(Walk(J, i, level), J, i, level)
<1>1. CASE i \in J
  BY <1>1 DEF Walk, State, Loop, IsWalk
<1>2. CASE i \notin J
  BY <1>2 DEF Walk, State, Loop, IsWalk
<1> QED BY <1>1, <1>2

\* One symbol of a walk: a quote changes in_string, and brackets stand only where it
\* is set.
LEMMA WalkStep ==
  ASSUME NEW text, NEW open, NEW close, NEW J, NEW i \in Nat, NEW level \in Int,
         i + 1 \in J <=> IF text[i] = Quote THEN i \notin J ELSE i \in J,
         i \notin J => text[i] # open /\ text[i] # close
  PROVE  After(text, Walk(J, i, level), open, close) = Walk(J, i + 1, level)
<1>1. level + 0 = level
  OBVIOUS
<1>2. CASE i \in J
  <2>1. After(text, State(i, level, TRUE), open, close) =
          State(i + 1, level, IF text[i] = Quote THEN ~TRUE ELSE TRUE)
    BY <1>1 DEF After, State, Nested, Toggled
  <2>2. CASE text[i] = Quote
    BY <1>2, <2>1, <2>2 DEF Walk
  <2>3. CASE text[i] # Quote
    BY <1>2, <2>1, <2>3 DEF Walk
  <2> QED BY <2>2, <2>3
<1>3. CASE i \notin J
  <2>1. After(text, State(i, level, FALSE), open, close) =
          State(i + 1, level, IF text[i] = Quote THEN ~FALSE ELSE FALSE)
    BY <1>1, <1>3 DEF After, State, Nested, Toggled
  <2>2. CASE text[i] = Quote
    BY <1>3, <2>1, <2>2 DEF Walk
  <2>3. CASE text[i] # Quote
    BY <1>3, <2>1, <2>3 DEF Walk
  <2> QED BY <2>2, <2>3
<1> QED BY <1>2, <1>3

\* The first symbol of a structure.
Opens(text, i, level, open, close) ==
  After(text, Begin(i, level), open, close) = State(i + 1, level + 1, FALSE)

\* A start symbol outside a string opens a level.
LEMMA WalkOpen ==
  ASSUME NEW text, NEW open, open # Quote, NEW close, NEW i \in Nat, NEW level \in Int,
         text[i] = open
  PROVE  Opens(text, i, level, open, close)
BY DEF After, State, Begin, Nested, Toggled, Opens

\* The last symbol of a structure.
LEMMA WalkClose ==
  ASSUME NEW text, NEW close, NEW open, open # close, NEW J, NEW i \in Nat, NEW level \in Int,
         text[i] = close, i \notin J
  PROVE  After(text, Walk(J, i, level), open, close).nested_level = level - 1
<1>1. After(text, State(i, level, FALSE), open, close).nested_level = level + (-1)
  BY DEF After, State, Nested
<1> QED BY <1>1 DEF Walk

\* Symbols between objects.
Gap(text, k, b, ends) == \A i \in k .. b - 1: text[i] \notin Braces \cup ends /\ text[i] # Quote

\* The first n symbols of a structure stand in a text from place b.
Stands(text, f, b, n) == \A i \in 1 .. n: text[b - 1 + i] = f[i]

\* An object that is whole, or cut by the end of the array, ends there.
LEMMA ObjectEndAt ==
  ASSUME NEW text \in Seq(Symbols), NEW f, Framed(f, BraceOpen, BraceClose),
         NEW k \in Nat, NEW b \in Nat \ {0}, k <= b, NEW ends, BraceOpen \notin ends,
         Gap(text, k, b, ends), NEW n \in Nat \ {0}, n <= Len(f) - 1, Stands(text, f, b, n),
         b + n <= Len(text),
         \/ n = Len(f) - 1 /\ text[b + n] = BraceClose
         \/ b + n = Len(text) /\ text[b + n] = BracketClose
  PROVE  ObjectEnd(text, k, ends) = b + n + 1
<1>1. 0 \in Int /\ 1 \in Int
  OBVIOUS
<1>2. PICK inside: FrameStrings(inside, f, BraceOpen, BraceClose)
  BY DEF Framed
<1>3. PICK l \in Nat, len \in Nat: l = Len(f) /\ len = Len(text) /\ l >= 3 /\ f[1] = BraceOpen
  BY DEF Framed
<1> DEFINE J == {i \in b + 1 .. b + n : i - b + 1 \in inside}
           G == {Walk({}, i, 0) : i \in k .. b}
           W == {Walk(J, i, 1) : i \in b + 1 .. b + n}
           Z == {s \in Loop : s.at = b + n + 1 /\ b + n = len /\ text[b + n] # BraceClose}
           I == G \cup W \cup Z
<1>4. b + n \in Nat /\ b + n <= len /\ n <= l - 1
  BY <1>3
<1>5. text[b] = BraceOpen
  <2>1. 1 \in 1 .. n /\ b - 1 + 1 = b
    OBVIOUS
  <2> QED BY <1>3, <2>1 DEF Stands
<1>6. ASSUME NEW i \in b + 1 .. b + n - 1
      PROVE  /\ i + 1 \in J <=> IF text[i] = Quote THEN i \notin J ELSE i \in J
             /\ i \notin J => text[i] # BraceOpen /\ text[i] # BraceClose
  <2>1. PICK j \in 2 .. n: j = i - b + 1 /\ b - 1 + j = i /\ j + 1 = (i + 1) - b + 1
    <3>1. i - b + 1 \in 2 .. n /\ b - 1 + (i - b + 1) = i /\ (i - b + 1) + 1 = (i + 1) - b + 1
      OBVIOUS
    <3> QED BY <3>1
  <2>2. text[i] = f[j]
    <3>1. j \in 1 .. n
      OBVIOUS
    <3> QED BY <2>1, <3>1 DEF Stands
  <2>3. (i \in J <=> j \in inside) /\ (i + 1 \in J <=> j + 1 \in inside)
    <3>1. i \in b + 1 .. b + n /\ i + 1 \in b + 1 .. b + n
      OBVIOUS
    <3> QED BY <2>1, <3>1
  <2> HIDE DEF J
  <2>4. /\ j + 1 \in inside <=> IF f[j] = Quote THEN j \notin inside ELSE j \in inside
        /\ j \notin inside => f[j] \notin {BraceOpen, BraceClose}
    <3>1. j \in 2 .. Len(f) - 1
      BY <1>3, <1>4
    <3> QED BY <1>2, <3>1 DEF FrameStrings
  <2> QED BY <2>2, <2>3, <2>4
<1>7. b + 1 \notin J /\ (n = l - 1 => b + n \notin J)
  <2>1. (b + 1) - b + 1 = 2 /\ (n = l - 1 => (b + n) - b + 1 = l)
    BY <1>3
  <2>2. 2 \notin inside /\ l \notin inside
    BY <1>2, <1>3 DEF FrameStrings
  <2> QED BY <2>1, <2>2
<1> HIDE DEF J
<1>8. \A i \in k .. b: i \in Nat /\ i <= len
  BY <1>4
<1>9. \A i \in b + 1 .. b + n: i \in Nat /\ i <= len
  BY <1>4
<1>10. ASSUME NEW i \in k .. b
      PROVE  /\ ~ObjectStops(text, ends, Walk({}, i, 0)) /\ ~ObjectCloses(text, Walk({}, i, 0))
             /\ After(text, Walk({}, i, 0), BraceOpen, BraceClose) \in I
  <2> PICK s: s = Walk({}, i, 0)
    OBVIOUS
  <2>1. s \in Loop /\ s.at = i /\ i \in Nat /\ i <= len
    <3>1. i \in Nat /\ i <= len
      BY <1>8
    <3>2. IsWalk(s, {}, i, 0)
      BY <1>1, <3>1, WalkFacts
    <3> QED BY <3>1, <3>2 DEF IsWalk
  <2>2. text[i] \notin ends /\ text[i] # BraceClose
    <3>1. CASE i = b
      BY <1>5, <3>1, SymbolsDiffer
    <3>2. CASE i # b
      <4>1. i \in k .. b - 1
        BY <3>2
      <4> QED BY <4>1 DEF Gap, Braces
    <3> QED BY <3>1, <3>2
  <2>3. ~ObjectStops(text, ends, s)
    BY <1>3, <2>1, <2>2 DEF ObjectStops
  <2>4. ~ObjectCloses(text, s)
    BY <2>1, <2>2 DEF ObjectCloses
  <2>5. After(text, s, BraceOpen, BraceClose) \in I
    <3>1. CASE i = b
      <4>1. After(text, Walk({}, i, 0), BraceOpen, BraceClose) = Walk(J, i + 1, 1)
        <5>1. text[i] = BraceOpen /\ i + 1 \notin J /\ i \in Nat
          BY <1>5, <1>7, <2>1, <3>1
        <5>2. BraceOpen # Quote
          BY SymbolsDiffer
        <5>4. Walk({}, i, 0) = Begin(i, 0)
          BY DEF Walk, State, Begin
        <5>5. After(text, Begin(i, 0), BraceOpen, BraceClose) = State(i + 1, 1, FALSE)
          <6>1. Opens(text, i, 0, BraceOpen, BraceClose)
            BY <1>1, <5>1, <5>2, WalkOpen
          <6>2. 0 + 1 = 1
            OBVIOUS
          <6> QED BY <6>1, <6>2 DEF Opens
        <5> QED BY <5>1, <5>4, <5>5 DEF Walk
      <4>2. i + 1 \in b + 1 .. b + n
        BY <3>1
      <4> QED BY <4>1, <4>2
    <3>2. CASE i # b
      <4>1. i \in k .. b - 1 /\ i + 1 \in k .. b
        BY <3>2
      <4>2. text[i] # BraceOpen /\ text[i] # BraceClose /\ text[i] # Quote
        BY <4>1 DEF Gap, Braces
      <4>3. After(text, Walk({}, i, 0), BraceOpen, BraceClose) = Walk({}, i + 1, 0)
        BY <2>1, <4>2, WalkStep
      <4> QED BY <4>1, <4>3
    <3> QED BY <3>1, <3>2
  <2> HIDE DEF I
  <2> QED BY <2>3, <2>4, <2>5
<1>11. ASSUME NEW i \in b + 1 .. b + n
       PROVE  /\ ~ObjectStops(text, ends, Walk(J, i, 1))
              /\ ObjectCloses(text, Walk(J, i, 1)) => i = b + n
              /\ \/ ObjectCloses(text, Walk(J, i, 1))
                 \/ After(text, Walk(J, i, 1), BraceOpen, BraceClose) \in I
  <2> PICK s: s = Walk(J, i, 1)
    OBVIOUS
  <2>1. /\ s \in Loop /\ s.at = i /\ s.nested_level = 1 /\ (s.in_string <=> i \in J)
        /\ i \in Nat /\ i <= len
    <3>1. i \in Nat /\ i <= len
      BY <1>9
    <3>2. IsWalk(s, J, i, 1)
      BY <1>1, <3>1, WalkFacts
    <3> QED BY <3>1, <3>2 DEF IsWalk
  <2>2. ~ObjectStops(text, ends, s)
    BY <1>3, <2>1 DEF ObjectStops
  <2>3. CASE i # b + n
    <3>1. i \in b + 1 .. b + n - 1 /\ i + 1 \in b + 1 .. b + n
      BY <2>3
    <3>2. ~ObjectCloses(text, s)
      BY <1>6, <2>1, <3>1 DEF ObjectCloses
    <3>3. After(text, Walk(J, i, 1), BraceOpen, BraceClose) = Walk(J, i + 1, 1)
      BY <1>6, <2>1, <3>1, WalkStep
    <3> QED BY <2>2, <3>1, <3>2, <3>3
  <2>4. CASE i = b + n /\ text[i] = BraceClose
    <3>1. n = l - 1
      BY <1>3, <2>4, SymbolsDiffer
    <3>2. i \notin J
      BY <1>7, <2>4, <3>1
    <3>3. After(text, Walk(J, i, 1), BraceOpen, BraceClose).nested_level = 1 - 1
      BY <2>1, <2>4, <3>2, WalkClose, SymbolsDiffer
    <3>4. 1 - 1 = 0
      OBVIOUS
    <3>5. ObjectCloses(text, s)
      BY <2>1, <2>4, <3>2, <3>3, <3>4 DEF ObjectCloses
    <3> HIDE DEF I
    <3> QED BY <2>2, <2>4, <3>5
  <2>5. CASE i = b + n /\ text[i] # BraceClose
    <3>1. b + n = len
      BY <1>3, <2>5
    <3>2. /\ After(text, s, BraceOpen, BraceClose) \in Loop
          /\ After(text, s, BraceOpen, BraceClose).at = b + n + 1
      BY <1>3, <2>1, <2>5, LoopSteps DEF Steps
    <3>3. After(text, s, BraceOpen, BraceClose) \in Z
      BY <2>5, <3>1, <3>2
    <3> HIDE DEF Z
    <3> QED BY <2>2, <2>5, <3>3
  <2> QED BY <2>3, <2>4, <2>5
<1>12. \A s \in Z: ObjectStops(text, ends, s) /\ s.at = b + n + 1
  BY <1>3 DEF ObjectStops
<1>13. I \subseteq Loop
  <2>1. \A i \in k .. b: IsWalk(Walk({}, i, 0), {}, i, 0)
    BY <1>1, <1>8, WalkFacts
  <2>2. \A i \in b + 1 .. b + n: IsWalk(Walk(J, i, 1), J, i, 1)
    BY <1>1, <1>9, WalkFacts
  <2>3. Z \subseteq Loop
    OBVIOUS
  <2> HIDE DEF Z
  <2> QED BY <2>1, <2>2, <2>3 DEF IsWalk
<1>14. Begin(k, 0) \in I
  <2>1. k \in k .. b
    OBVIOUS
  <2>2. Begin(k, 0) = Walk({}, k, 0)
    BY DEF Begin, Walk, State
  <2> QED BY <2>1, <2>2
<1>15. ObjectKeeps(I, text, k, ends)
  <2> HIDE DEF Z
  <2>1. \A s \in I: \/ \E i \in k .. b: s = Walk({}, i, 0)
                    \/ \E i \in b + 1 .. b + n: s = Walk(J, i, 1)
                    \/ s \in Z
    OBVIOUS
  <2> HIDE DEF I
  <2>2. \A s \in I: ~ObjectStops(text, ends, s) /\ ~ObjectCloses(text, s) =>
                      After(text, s, BraceOpen, BraceClose) \in I
    BY <1>10, <1>11, <1>12, <2>1
  <2> QED BY <1>13, <1>14, <2>2 DEF ObjectKeeps
<1>16. PICK y \in I: \/ ObjectStops(text, ends, y) /\ ObjectEnd(text, k, ends) = y.at
                     \/ /\ ~ObjectStops(text, ends, y) /\ ObjectCloses(text, y)
                        /\ ObjectEnd(text, k, ends) = y.at + 1
  <2>1. Len(text) \in Nat
    OBVIOUS
  <2> HIDE DEF I
  <2> QED BY <1>15, <2>1, ObjectEndBy
<1>17. \/ \E i \in k .. b: y = Walk({}, i, 0)
       \/ \E i \in b + 1 .. b + n: y = Walk(J, i, 1)
       \/ y \in Z
  OBVIOUS
<1> HIDE DEF I, Z
<1>18. CASE \E i \in b + 1 .. b + n: y = Walk(J, i, 1)
  <2>1. PICK i \in b + 1 .. b + n: y = Walk(J, i, 1)
    BY <1>18
  <2>2. ~ObjectStops(text, ends, y) /\ (ObjectCloses(text, y) => i = b + n)
    BY <1>11, <2>1
  <2>3. y.at = i
    <3>1. IsWalk(y, J, i, 1)
      BY <1>1, <1>9, <2>1, WalkFacts
    <3> QED BY <3>1 DEF IsWalk
  <2> QED BY <1>16, <2>2, <2>3
<1> QED BY <1>10, <1>12, <1>16, <1>17, <1>18

\* Without another closing brace the search goes up to the end of the text.
LEMMA NoObjectEnd ==
  ASSUME NEW text, Len(text) \in Nat, NEW k \in Nat, k <= Len(text) + 1,
         \A i \in k .. Len(text): text[i] # BraceClose
  PROVE  ObjectEnd(text, k, {}) = Len(text) + 1
<1> DEFINE I == {s \in Loop : k <= s.at /\ s.at <= Len(text) + 1}
<1>1. \A s \in Loop: /\ s.at \in Nat /\ After(text, s, BraceOpen, BraceClose).at = s.at + 1
                     /\ After(text, s, BraceOpen, BraceClose) \in Loop
  BY LoopSteps DEF Steps
<1>2. \A s \in Loop: ObjectStops(text, {}, s) <=> s.at > Len(text)
  BY DEF ObjectStops
<1>3. ObjectKeeps(I, text, k, {})
  BY <1>1, <1>2, BeginFacts DEF ObjectKeeps
<1>4. \A s \in I: ~ObjectStops(text, {}, s) => ~ObjectCloses(text, s)
  <2> TAKE s \in I
  <2>1. CASE s.at <= Len(text)
    <3>1. s.at \in k .. Len(text)
      BY <1>1, <2>1
    <3> QED BY <3>1 DEF ObjectCloses
  <2> QED BY <1>1, <1>2, <2>1
<1>5. PICK y \in I: ObjectStops(text, {}, y) /\ ObjectEnd(text, k, {}) = y.at
  <2> HIDE DEF I
  <2> QED BY <1>3, <1>4, ObjectEndBy
<1> QED BY <1>1, <1>2, <1>5

\* The search of an object stops where it begins, if the array ends there.
LEMMA NothingLeft ==
  ASSUME NEW text, Len(text) \in Nat, NEW k \in Nat, NEW ends, k > Len(text) \/ text[k] \in ends
  PROVE  ObjectEnd(text, k, ends) = k
<1> DEFINE s == Begin(k, 0)
<1>1. s \in Loop /\ s.at = k /\ s.nested_level = 0 /\ s.in_string = FALSE
  BY BeginFacts DEF Begin
<1>2. ObjectStops(text, ends, s)
  BY <1>1 DEF ObjectStops
<1>3. ObjectKeeps({s}, text, k, ends)
  BY <1>1, <1>2 DEF ObjectKeeps
<1> HIDE DEF s
<1>4. PICK y \in {s}: \/ ObjectStops(text, ends, y) /\ ObjectEnd(text, k, ends) = y.at
                      \/ ~ObjectStops(text, ends, y) /\ ObjectCloses(text, y)
  BY <1>3, ObjectEndBy
<1> QED BY <1>1, <1>2, <1>4

-----------------------------------------------------------------------------
(* The objects of an array.                                                *)

\* The objects of an array stand one behind the other: e[n] is where object n ends,
\* and e[0] = 0.
ArrayEnds(f, objects, e) ==
  /\ f \in Seq(Symbols) /\ Len(objects) \in Nat /\ e \in [0 .. Len(objects) -> Nat]
  /\ e[0] = 0
  /\ \A n \in 0 .. Len(objects): n < Len(objects) =>
       /\ Framed(objects[n + 1], BraceOpen, BraceClose)
       /\ e[n + 1] = e[n] + 2 + Len(objects[n + 1]) /\ e[n + 1] <= Len(f) - 1
       /\ \A i \in 1 .. Len(objects[n + 1]): f[e[n] + 2 + i] = objects[n + 1][i]
       /\ f[e[n] + 1] \in {BracketOpen, Comma} /\ f[e[n] + 2] = Newline
  /\ Len(f) - 1 \in {e[Len(objects)] + 1, e[Len(objects)] + 2}
  /\ \A i \in e[Len(objects)] + 1 .. Len(f) - 1: f[i] \in {BracketOpen, Newline}
  /\ Len(f) - 1 = e[Len(objects)] + 2 => f[Len(f) - 1] = Newline
  /\ \A m, n \in 0 .. Len(objects): m <= n => e[m] <= e[n]

\* An array of framed objects that is laid out has places where its objects end.
LEMMA ArrayLayout ==
  ASSUME NEW objects, Len(objects) \in Nat,
         \A n \in 1 .. Len(objects): Framed(objects[n], BraceOpen, BraceClose),
         NEW f, NEW place, Layout(f, objects, BracketOpen, BracketClose, place)
  PROVE  \E e: ArrayEnds(f, objects, e)
<1> PICK N \in Nat, l \in Nat: N = Len(objects) /\ l = Len(f)
  BY LayoutPlaces
<1> DEFINE e == [n \in 0 .. N |-> IF n = 0 THEN 0 ELSE place[n - 1] + Len(objects[n])]
<1>1. /\ f \in Seq(Symbols) /\ place[0] = 2 /\ l = place[N] + 1
      /\ f[1] = BracketOpen /\ f[2] = Newline
  BY DEF Layout
<1>2. \A n \in 0 .. N: place[n] \in Nat /\ 2 <= place[n] /\ place[n] <= l - 1
  BY LayoutPlaces
<1>3. \A m, n \in 0 .. N: m <= n => place[m] <= place[n]
  BY LayoutPlaces
<1>4. ASSUME NEW n \in 1 .. N
      PROVE  /\ n - 1 \in 0 .. N /\ n \in 0 .. N /\ Len(objects[n]) \in Nat
             /\ place[n] = place[n - 1] + Len(objects[n]) + (IF n < N THEN 2 ELSE 1)
             /\ \A i \in 1 .. Len(objects[n]): f[place[n - 1] + i] = objects[n][i]
             /\ f[place[n]] = Newline
             /\ n < N => f[place[n] - 1] = Comma
  <2>1. n \in 0 .. N /\ n \in 1 .. Len(objects)
    OBVIOUS
  <2>2. /\ n - 1 \in 0 .. Len(objects) /\ Len(objects[n]) \in Nat
        /\ place[n] = place[n - 1] + Len(objects[n]) + (IF n < Len(objects) THEN 2 ELSE 1)
    BY <2>1, LayoutPlaces
  <2>3. /\ \A i \in 1 .. Len(objects[n]): f[place[n - 1] + i] = objects[n][i]
        /\ f[place[n]] = Newline
        /\ n < Len(objects) => f[place[n] - 1] = Comma
    BY <2>1 DEF Layout
  <2> QED BY <2>1, <2>2, <2>3
<1>5. e[0] = 0 /\ \A n \in 1 .. N: e[n] = place[n - 1] + Len(objects[n])
  OBVIOUS
<1>6. e \in [0 .. N -> Nat]
  <2>1. \A n \in 0 .. N: n = 0 \/ n \in 1 .. N
    OBVIOUS
  <2>2. \A n \in 1 .. N: place[n - 1] + Len(objects[n]) \in Nat
    <3> TAKE n \in 1 .. N
    <3>1. place[n - 1] \in Nat /\ Len(objects[n]) \in Nat
      BY <1>2, <1>4
    <3> QED BY <3>1
  <2> QED BY <2>1, <2>2
<1> HIDE DEF e
\* The place behind object n, and the symbols in front of it.
<1>7. ASSUME NEW n \in 0 .. N
      PROVE  place[n] = IF n = 0 \/ n < N THEN e[n] + 2 ELSE e[n] + 1
  <2>1. CASE n = 0
    BY <1>1, <1>5, <2>1
  <2>2. CASE n # 0
    <3>1. n \in 1 .. N
      BY <2>2
    <3> PICK a \in Nat, b \in Nat, c \in Nat:
          a = place[n - 1] /\ b = Len(objects[n]) /\ c = place[n]
      BY <1>2, <1>4, <3>1
    <3>2. c = a + b + (IF n < N THEN 2 ELSE 1) /\ e[n] = a + b
      BY <1>4, <1>5, <3>1
    <3> QED BY <2>2, <3>2
  <2> QED BY <2>1, <2>2
<1>8. ASSUME NEW n \in 0 .. N, n < N
      PROVE  /\ Framed(objects[n + 1], BraceOpen, BraceClose)
             /\ e[n + 1] = e[n] + 2 + Len(objects[n + 1]) /\ e[n + 1] <= l - 1
             /\ \A i \in 1 .. Len(objects[n + 1]): f[e[n] + 2 + i] = objects[n + 1][i]
             /\ f[e[n] + 1] \in {BracketOpen, Comma} /\ f[e[n] + 2] = Newline
  <2>1. PICK m \in 1 .. N: m = n + 1 /\ m - 1 = n
    <3>1. n + 1 \in 1 .. N /\ (n + 1) - 1 = n
      BY <1>8
    <3> QED BY <3>1
  <2>2. place[n] = e[n] + 2
    BY <1>7, <1>8
  <2>3. e[m] = place[n] + Len(objects[m]) /\ \A i \in 1 .. Len(objects[m]): f[place[n] + i] = objects[m][i]
    BY <1>4, <1>5, <2>1
  <2>4. e[m] <= l - 1
    <3>1. m \in 0 .. N /\ place[m] \in {e[m] + 1, e[m] + 2}
      BY <1>7
    <3>2. e[m] \in Nat /\ place[m] <= l - 1
      BY <1>2, <1>6, <3>1
    <3> QED BY <3>1, <3>2
  <2>5. f[e[n] + 1] \in {BracketOpen, Comma} /\ f[e[n] + 2] = Newline
    <3>1. CASE n = 0
      BY <1>1, <1>5, <3>1
    <3>2. CASE n # 0
      <4>1. n \in 1 .. N /\ e[n] \in Nat
        BY <1>6, <3>2
      <4>2. (e[n] + 2) - 1 = e[n] + 1
        BY <4>1
      <4>3. f[place[n]] = Newline /\ f[place[n] - 1] = Comma
        BY <1>4, <1>8, <4>1
      <4> QED BY <2>2, <4>2, <4>3
    <3> QED BY <3>1, <3>2
  <2>6. Framed(objects[m], BraceOpen, BraceClose)
    OBVIOUS
  <2> QED BY <2>1, <2>2, <2>3, <2>4, <2>5, <2>6
<1>9. /\ l - 1 \in {e[N] + 1, e[N] + 2}
      /\ \A i \in e[N] + 1 .. l - 1: f[i] \in {BracketOpen, Newline}
      /\ l - 1 = e[N] + 2 => f[l - 1] = Newline
  <2>1. l - 1 = place[N]
    BY <1>1, <1>2
  <2>2. CASE N = 0
    <3>1. e[N] = 0 /\ l - 1 = 2
      BY <1>1, <1>5, <2>1, <2>2
    <3> QED BY <1>1, <3>1
  <2>3. CASE N # 0
    <3>1. N \in 1 .. N /\ N \in 0 .. N /\ e[N] \in Nat
      BY <1>6, <2>3
    <3>2. place[N] = e[N] + 1 /\ f[place[N]] = Newline
      BY <1>4, <1>7, <2>3, <3>1
    <3> QED BY <2>1, <3>1, <3>2
  <2> QED BY <2>2, <2>3
<1>10. ASSUME NEW m \in 0 .. N, NEW n \in 0 .. N, m <= n PROVE e[m] <= e[n]
  <2>1. place[m] \in {e[m] + 1, e[m] + 2} /\ place[n] \in {e[n] + 1, e[n] + 2}
    BY <1>7
  <2>2. CASE m = n
    BY <1>6, <2>2
  <2>3. CASE m # n
    <3>1. n \in 1 .. N /\ m <= n - 1 /\ n - 1 \in 0 .. N
      BY <1>10, <2>3
    <3>2. place[m] <= place[n - 1] /\ e[n] = place[n - 1] + Len(objects[n])
      BY <1>3, <1>5, <3>1
    <3> PICK a \in Nat, b \in Nat, c \in Nat: a = place[m] /\ b = place[n - 1] /\ c = Len(objects[n])
      BY <1>2, <1>4, <3>1
    <3> PICK x \in Nat, y \in Nat: x = e[m] /\ y = e[n]
      BY <1>6
    <3>3. a = x + 1 \/ a = x + 2
      BY <2>1
    <3>4. a <= b /\ y = b + c
      BY <3>2
    <3>5. e[m] = x /\ e[n] = y /\ b \in Nat
      OBVIOUS
    <3>6. x <= y
      BY ONLY <3>3, <3>4, a \in Nat, b \in Nat, c \in Nat, x \in Nat, y \in Nat
    <3> QED BY ONLY <3>5, <3>6
  <2> QED BY <2>2, <2>3
<1>11. ArrayEnds(f, objects, e)
  BY <1>1, <1>5, <1>6, <1>8, <1>9, <1>10 DEF ArrayEnds
<1> QED BY <1>11

\* The first c symbols of an array, and its last one.
CutOf(text, f, c) ==
  /\ text \in Seq(Symbols) /\ f \in Seq(Symbols) /\ c \in 1 .. Len(f) - 1
  /\ Len(text) = c + 1 /\ text[c + 1] = BracketClose
  /\ \A i \in 1 .. c: text[i] = f[i]

\* One object of an array, with what is in front of it.
NextObject(f, o, a, b) ==
  /\ Framed(o, BraceOpen, BraceClose) /\ a \in Nat /\ b \in Nat /\ Len(o) \in Nat /\ Len(o) >= 3
  /\ b = a + 2 + Len(o) /\ b <= Len(f) - 1
  /\ \A i \in 1 .. Len(o): f[a + 2 + i] = o[i]
  /\ f[a + 1] \in {BracketOpen, Comma} /\ f[a + 2] = Newline

\* The object after the first n of an array is the next the reader meets.
LEMMA NextOfArray ==
  ASSUME NEW f, NEW objects, NEW e, ArrayEnds(f, objects, e),
         NEW n \in 0 .. Len(objects), n < Len(objects)
  PROVE  /\ NextObject(f, objects[n + 1], e[n], e[n + 1])
         /\ n + 1 \in 0 .. Len(objects)
<1>1. n + 1 \in 0 .. Len(objects) /\ e[n] \in Nat /\ e[n + 1] \in Nat
  <2>1. Len(objects) \in Nat /\ e \in [0 .. Len(objects) -> Nat]
    BY DEF ArrayEnds
  <2>2. n + 1 \in 0 .. Len(objects)
    BY <2>1
  <2> QED BY <2>1, <2>2
<1>2. Framed(objects[n + 1], BraceOpen, BraceClose)
  BY DEF ArrayEnds
<1>3. Len(objects[n + 1]) \in Nat /\ Len(objects[n + 1]) >= 3
  BY <1>2 DEF Framed
<1> QED BY <1>1, <1>2, <1>3 DEF ArrayEnds, NextObject

\* Where the search ends, if the object begins in the array.
LEMMA ObjectOfCut ==
  ASSUME NEW text, NEW f, NEW c, CutOf(text, f, c), NEW o, NEW a, NEW b, NextObject(f, o, a, b),
         a + 3 <= c, NEW k \in Nat, k <= a + 3, NEW ends, BraceOpen \notin ends,
         Gap(text, k, a + 3, ends)
  PROVE  ObjectEnd(text, k, ends) = IF b <= c THEN b + 1 ELSE c + 2
<1>1. PICK l \in Nat: l = Len(o) /\ l >= 3 /\ b = a + 2 + l /\ a \in Nat /\ b \in Nat
  BY DEF NextObject
<1>2. c \in Nat /\ Len(text) = c + 1 /\ text[c + 1] = BracketClose /\ text \in Seq(Symbols)
  BY DEF CutOf
<1>3. PICK n \in Nat \ {0}: n = IF b <= c THEN l - 1 ELSE c - a - 2
  <2>1. l - 1 \in Nat \ {0} /\ c - a - 2 \in Nat \ {0}
    BY <1>1, <1>2
  <2> QED BY <2>1
<1>4. /\ n <= l - 1 /\ a + 3 + n <= c + 1
      /\ b <= c => a + 3 + n = b /\ n = l - 1
      /\ ~(b <= c) => a + 3 + n = c + 1
  <2>1. CASE b <= c
    <3>1. n = l - 1
      BY <1>3, <2>1
    <3> QED BY <1>1, <1>2, <2>1, <3>1
  <2>2. CASE ~(b <= c)
    <3>1. n = c - a - 2
      BY <1>3, <2>2
    <3> QED BY <1>1, <1>2, <2>2, <3>1
  <2> QED BY <2>1, <2>2
<1>5. PICK start \in Nat \ {0}: start = a + 3
  BY <1>1
<1>6. Stands(text, o, start, n)
  <2>1. \A i \in 1 .. n: i \in 1 .. l /\ start - 1 + i = a + 2 + i /\ a + 2 + i \in 1 .. c
    BY <1>1, <1>2, <1>4, <1>5
  <2>2. \A i \in 1 .. n: text[start - 1 + i] = o[i]
    <3> TAKE i \in 1 .. n
    <3>1. i \in 1 .. l /\ start - 1 + i = a + 2 + i /\ a + 2 + i \in 1 .. c
      BY <2>1
    <3>2. f[a + 2 + i] = o[i]
      BY <1>1, <3>1 DEF NextObject
    <3>3. text[a + 2 + i] = f[a + 2 + i]
      BY <3>1 DEF CutOf
    <3> QED BY <3>1, <3>2, <3>3
  <2> QED BY <2>2 DEF Stands
<1>7. \/ n = Len(o) - 1 /\ text[start + n] = BraceClose
      \/ start + n = Len(text) /\ text[start + n] = BracketClose
  <2>1. CASE b <= c
    <3>1. start + n = b /\ b \in 1 .. c /\ l \in 1 .. Len(o) /\ a + 2 + l = b
      BY <1>1, <1>2, <1>4, <1>5, <2>1
    <3>2. text[b] = f[b] /\ f[b] = o[l]
      <4>1. f[a + 2 + l] = o[l]
        BY <3>1 DEF NextObject
      <4> QED BY <3>1, <4>1 DEF CutOf
    <3>3. o[l] = BraceClose
      BY <1>1 DEF NextObject, Framed
    <3> QED BY <1>1, <1>4, <2>1, <3>1, <3>2, <3>3
  <2>2. CASE ~(b <= c)
    BY <1>2, <1>4, <1>5, <2>2
  <2> QED BY <2>1, <2>2
<1>8. /\ Framed(o, BraceOpen, BraceClose) /\ n <= Len(o) - 1
      /\ k <= start /\ start + n <= Len(text) /\ Gap(text, k, start, ends)
  BY <1>1, <1>2, <1>4, <1>5 DEF NextObject
<1>9. ObjectEnd(text, k, ends) = start + n + 1
  BY <1>2, <1>6, <1>7, <1>8, ObjectEndAt
<1> QED BY <1>2, <1>4, <1>5, <1>9

\* What is skipped behind an object that is not cut: one more object, or all.
LEMMA SkipNext ==
  ASSUME NEW f, NEW objects, NEW e, ArrayEnds(f, objects, e), NEW text, NEW c,
         CutOf(text, f, c), NEW n \in 0 .. Len(objects), e[n] <= c
  PROVE  ObjectEnd(text, e[n] + 1, {}) =
           IF n < Len(objects) /\ e[n + 1] <= c THEN e[n + 1] + 1 ELSE c + 2
<1>1. PICK N \in Nat, a \in Nat: N = Len(objects) /\ a = e[n]
  BY DEF ArrayEnds
<1>2. PICK l \in Nat: l = Len(f)
  BY DEF ArrayEnds
<1>3. /\ c \in Nat /\ 1 <= c /\ c <= l - 1 /\ Len(text) = c + 1 /\ text \in Seq(Symbols)
      /\ text[c + 1] = BracketClose /\ \A i \in 1 .. c: text[i] = f[i]
  BY <1>2 DEF CutOf
<1>4. ASSUME \A i \in a + 1 .. c: f[i] # BraceClose
      PROVE  ObjectEnd(text, a + 1, {}) = c + 2
  <2>1. \A i \in a + 1 .. c + 1: text[i] # BraceClose
    <3> TAKE i \in a + 1 .. c + 1
    <3>1. CASE i = c + 1
      BY <1>3, <3>1, SymbolsDiffer
    <3>2. CASE i # c + 1
      <4>1. i \in a + 1 .. c /\ i \in 1 .. c
        BY <1>3, <3>2
      <4> QED BY <1>3, <1>4, <4>1
    <3> QED BY <3>1, <3>2
  <2>2. a + 1 \in Nat /\ a + 1 <= Len(text) + 1 /\ Len(text) \in Nat /\ Len(text) + 1 = c + 2
    BY <1>1, <1>3
  <2>3. \A i \in a + 1 .. Len(text): text[i] # BraceClose
    BY <1>3, <2>1
  <2>4. ObjectEnd(text, a + 1, {}) = Len(text) + 1
    BY <2>2, <2>3, NoObjectEnd
  <2> QED BY <2>2, <2>4
<1>5. CASE n < N
  <2>1. PICK o, b: NextObject(f, o, a, b) /\ b = e[n + 1] /\ b \in Nat
    <3>1. NextObject(f, objects[n + 1], e[n], e[n + 1])
      BY <1>1, <1>5, NextOfArray
    <3>2. e[n + 1] \in Nat
      BY <3>1 DEF NextObject
    <3> QED BY <1>1, <3>1, <3>2
  <2>2. f[a + 1] \in {BracketOpen, Comma} /\ f[a + 2] = Newline /\ b >= a + 5
    BY <1>1, <2>1 DEF NextObject
  <2>3. \A i \in a + 1 .. a + 2: f[i] \notin Braces /\ f[i] # Quote
    <3>1. \A i \in a + 1 .. a + 2: i = a + 1 \/ i = a + 2
      BY <1>1
    <3> QED BY <2>2, <3>1, SymbolsDiffer DEF Braces
  <2>4. CASE a + 3 <= c
    <3>1. Gap(text, a + 1, a + 3, {})
      <4>1. \A i \in a + 1 .. (a + 3) - 1: i \in a + 1 .. a + 2 /\ i \in 1 .. c
        BY <1>3, <2>4
      <4> QED BY <1>3, <2>3, <4>1 DEF Gap
    <3>2. a + 1 \in Nat /\ a + 1 <= a + 3
      BY <1>1
    <3>3. ObjectEnd(text, a + 1, {}) = IF b <= c THEN b + 1 ELSE c + 2
      BY <2>1, <2>4, <3>1, <3>2, ObjectOfCut
    <3> QED BY <1>1, <1>5, <2>1, <3>3
  <2>5. CASE ~(a + 3 <= c)
    <3>1. \A i \in a + 1 .. c: i \in a + 1 .. a + 2
      BY <1>3, <2>5
    <3>2. ObjectEnd(text, a + 1, {}) = c + 2
      BY <1>4, <2>3, <3>1 DEF Braces
    <3>3. ~(b <= c)
      <4>1. a \in Nat /\ b \in Nat /\ c \in Nat /\ b >= a + 5
        BY <1>1, <1>3, <2>1, <2>2
      <4> QED BY ONLY <2>5, <4>1
    <3> QED BY <1>1, <2>1, <3>2, <3>3
  <2> QED BY <2>4, <2>5
<1>6. CASE ~(n < N)
  <2>1. n = N
    BY <1>1, <1>6
  <2>2. \A i \in a + 1 .. l - 1: f[i] \in {BracketOpen, Newline}
    BY <1>1, <1>2, <2>1 DEF ArrayEnds
  <2>3. \A i \in a + 1 .. c: i \in a + 1 .. l - 1
    BY <1>3
  <2>4. ObjectEnd(text, a + 1, {}) = c + 2
    BY <1>4, <2>2, <2>3, SymbolsDiffer
  <2> QED BY <1>1, <1>6, <2>4
<1> QED BY <1>5, <1>6

\* Where the objects of an array that is cut are looked for.
LEMMA CutSkips ==
  ASSUME NEW f, NEW objects, NEW e, ArrayEnds(f, objects, e), NEW text, NEW c,
         CutOf(text, f, c), NEW skipped, Skips(skipped, text)
  PROVE  \A n \in Nat:
           skipped[n] = IF n <= Len(objects) /\ e[n] <= c THEN e[n] + 1 ELSE c + 2
<1> DEFINE S == {n \in Nat : skipped[n] = IF n <= Len(objects) /\ e[n] <= c THEN e[n] + 1
                                          ELSE c + 2}
<1>1. /\ Len(objects) \in Nat /\ e \in [0 .. Len(objects) -> Nat] /\ e[0] = 0
      /\ \A m, n \in 0 .. Len(objects): m <= n => e[m] <= e[n]
  BY DEF ArrayEnds
<1>2. c \in Nat /\ c >= 1 /\ Len(text) = c + 1
  BY DEF CutOf
<1>3. skipped[0] = 1 /\ \A n \in Nat: skipped[n + 1] = ObjectEnd(text, skipped[n], {})
  BY DEF Skips
<1>4. 0 \in S
  <2>1. 0 \in Nat /\ 0 <= Len(objects) /\ e[0] <= c /\ e[0] + 1 = 1
    BY <1>1, <1>2
  <2> QED BY <1>3, <2>1
<1>5. ASSUME NEW n \in Nat, n \in S PROVE n + 1 \in S
  <2>1. CASE n <= Len(objects) /\ e[n] <= c
    <3>1. skipped[n + 1] = ObjectEnd(text, e[n] + 1, {})
      BY <1>3, <1>5, <2>1
    <3>2. n \in 0 .. Len(objects)
      BY <1>1, <2>1
    <3>3. ObjectEnd(text, e[n] + 1, {}) =
            IF n < Len(objects) /\ e[n + 1] <= c THEN e[n + 1] + 1 ELSE c + 2
      BY <2>1, <3>2, SkipNext
    <3>4. n < Len(objects) <=> n + 1 <= Len(objects)
      BY <1>1
    <3> QED BY <3>1, <3>3, <3>4
  <2>2. CASE ~(n <= Len(objects) /\ e[n] <= c)
    <3>1. skipped[n + 1] = ObjectEnd(text, c + 2, {})
      BY <1>3, <1>5, <2>2
    <3>2. ObjectEnd(text, c + 2, {}) = c + 2
      <4>1. c + 2 \in Nat /\ c + 2 > Len(text) /\ Len(text) \in Nat
        BY <1>2
      <4> QED BY <4>1, NothingLeft
    <3>3. ~(n + 1 <= Len(objects) /\ e[n + 1] <= c)
      <4> SUFFICES ASSUME n + 1 <= Len(objects) /\ e[n + 1] <= c PROVE FALSE
        OBVIOUS
      <4>1. n \in 0 .. Len(objects) /\ n + 1 \in 0 .. Len(objects) /\ n <= n + 1
        BY <1>1
      <4>2. e[n] <= e[n + 1] /\ e[n] \in Nat /\ e[n + 1] \in Nat
        BY <1>1, <4>1
      <4>3. e[n] <= c /\ n <= Len(objects)
        BY <1>2, <4>1, <4>2
      <4> QED BY <2>2, <4>3
    <3> QED BY <3>1, <3>2, <3>3
  <2> QED BY <2>1, <2>2
<1> HIDE DEF S
<1>6. \A n \in Nat: n \in S
  BY <1>4, <1>5, NaturalInduction
<1> QED BY <1>6 DEF S

\* What is found of an object that begins at the end of an array.
LEMMA NoObject ==
  ASSUME NEW text, NEW f, NEW c, CutOf(text, f, c), NEW a \in Nat, a <= c,
         \A i \in a + 2 .. c: f[i] = Newline
  PROVE  ObjectFrom(text, a + 1) = <<>>
<1> DEFINE places == {k \in (a + 1) + 1 .. Len(text) : text[k] # Newline} \cup {Len(text) + 1}
<1>1. /\ c \in Nat /\ c >= 1 /\ Len(text) = c + 1 /\ text \in Seq(Symbols)
      /\ text[c + 1] = BracketClose /\ \A i \in 1 .. c: text[i] = f[i]
  BY DEF CutOf
<1>2. \A i \in a + 2 .. c: text[i] = Newline
  <2>1. \A i \in a + 2 .. c: i \in 1 .. c
    OBVIOUS
  <2> QED BY <1>1, <2>1
<1>3. PICK start \in Nat: start = IF a + 1 <= c THEN c + 1 ELSE c + 2
  BY <1>1
<1>4. Found(places) = start
  <2>1. places \subseteq Nat
    BY <1>1
  <2>2. start \in places
    <3>1. CASE a + 1 <= c
      <4>1. c + 1 \in (a + 1) + 1 .. Len(text) /\ start = c + 1
        BY <1>1, <1>3, <3>1
      <4>2. text[c + 1] # Newline
        BY <1>1, SymbolsDiffer
      <4> QED BY <4>1, <4>2
    <3>2. CASE ~(a + 1 <= c)
      <4>1. start = Len(text) + 1
        BY <1>1, <1>3, <3>2
      <4> QED BY <4>1
    <3> QED BY <3>1, <3>2
  <2>3. \A k \in places: start <= k
    <3> TAKE k \in places
    <3>1. CASE k = Len(text) + 1
      BY <1>1, <1>3, <3>1
    <3>2. CASE k # Len(text) + 1
      <4>1. k \in a + 2 .. c + 1 /\ text[k] # Newline
        BY <1>1, <3>2
      <4>2. k \notin a + 2 .. c
        BY <1>2, <4>1
      <4> QED BY <1>1, <1>3, <4>1, <4>2
    <3> QED BY <3>1, <3>2
  <2> HIDE DEF places
  <2> QED BY <2>1, <2>2, <2>3, FoundIs
<1> HIDE DEF places
<1>5. ObjectEnd(text, start, {BracketClose}) = start
  <2>1. start > Len(text) \/ text[start] \in {BracketClose}
    BY <1>1, <1>3
  <2>2. Len(text) \in Nat
    BY <1>1
  <2> QED BY <2>1, <2>2, NothingLeft
<1>6. SubSeq(text, start, start - 1) = <<>>
  OBVIOUS
<1>7. ~(a + 1 > Len(text))
  BY <1>1
<1>8. ObjectFrom(text, a + 1) = SubSeq(text, start, start - 1)
  BY <1>4, <1>5, <1>7 DEF ObjectFrom, places
<1> QED BY <1>6, <1>8

\* What is found of an object that is there, whole or cut.
LEMMA ObjectOrPart ==
  ASSUME NEW text, NEW f, NEW c, CutOf(text, f, c), NEW o, NEW a, NEW b, NextObject(f, o, a, b),
         a + 3 <= c
  PROVE  /\ b <= c => ObjectFrom(text, a + 1) = o
         /\ ~(b <= c) => \E d: Copies(ObjectFrom(text, a + 1), o, d)
<1> DEFINE places == {k \in (a + 1) + 1 .. Len(text) : text[k] # Newline} \cup {Len(text) + 1}
           start == a + 3
<1>1. PICK l \in Nat: l = Len(o) /\ l >= 3 /\ b = a + 2 + l /\ a \in Nat /\ b \in Nat
  BY DEF NextObject
<1>2. /\ c \in Nat /\ Len(text) = c + 1 /\ text \in Seq(Symbols)
      /\ text[c + 1] = BracketClose /\ \A i \in 1 .. c: text[i] = f[i]
  BY DEF CutOf
<1>3. /\ f[a + 2] = Newline /\ \A i \in 1 .. l: f[a + 2 + i] = o[i]
      /\ o[1] = BraceOpen /\ o \in Seq(Symbols)
  BY <1>1 DEF NextObject, Framed
<1>4. Found(places) = start
  <2>1. places \subseteq Nat
    BY <1>1, <1>2
  <2>2. text[a + 3] = BraceOpen /\ text[a + 2] = Newline
    <3>1. a + 2 \in 1 .. c /\ a + 3 \in 1 .. c /\ 1 \in 1 .. l /\ a + 2 + 1 = a + 3
      BY <1>1, <1>2
    <3>2. f[a + 2 + 1] = o[1]
      BY <1>3, <3>1
    <3> QED BY <1>2, <1>3, <3>1, <3>2
  <2>3. start \in places
    <3>1. start \in (a + 1) + 1 .. Len(text)
      BY <1>1, <1>2
    <3>2. text[start] # Newline
      BY <2>2, SymbolsDiffer
    <3> QED BY <3>1, <3>2
  <2>4. \A k \in places: start <= k
    <3> TAKE k \in places
    <3>1. CASE k = Len(text) + 1
      BY <1>1, <1>2, <3>1
    <3>2. CASE k # Len(text) + 1
      <4>1. k \in Nat /\ k >= a + 2 /\ text[k] # Newline
        BY <1>1, <1>2, <3>2
      <4> QED BY <1>1, <2>2, <4>1
    <3> QED BY <3>1, <3>2
  <2> HIDE DEF places, start
  <2> QED BY <2>1, <2>3, <2>4, FoundIs
<1> HIDE DEF places
<1>5. PICK end \in Nat: end = IF b <= c THEN b ELSE c + 1
  BY <1>1, <1>2
<1>6. ObjectEnd(text, start, {BracketClose}) = end + 1
  <2>1. start \in Nat /\ start <= a + 3
    BY <1>1
  <2>2. BraceOpen \notin {BracketClose}
    BY SymbolsDiffer
  <2>3. Gap(text, start, a + 3, {BracketClose})
    BY <1>1 DEF Gap
  <2>4. ObjectEnd(text, start, {BracketClose}) = IF b <= c THEN b + 1 ELSE c + 2
    BY <2>1, <2>2, <2>3, ObjectOfCut
  <2>5. (IF b <= c THEN b + 1 ELSE c + 2) = end + 1
    BY <1>1, <1>2, <1>5
  <2> QED BY <2>4, <2>5
<1> DEFINE part == SubSeq(text, start, end)
<1>7. ObjectFrom(text, a + 1) = part
  <2>1. ~(a + 1 > Len(text)) /\ (end + 1) - 1 = end
    BY <1>1, <1>2
  <2> QED BY <1>4, <1>6, <2>1 DEF ObjectFrom, places
<1>8. /\ part \in Seq(Symbols) /\ Len(part) = end - a - 2
      /\ \A i \in 1 .. end - a - 2: part[i] = text[a + 2 + i]
  <2>1. start \in Nat \ {0} /\ end <= Len(text) /\ start <= end /\ end - start + 1 = end - a - 2
    BY <1>1, <1>2, <1>5
  <2>2. \A i \in 1 .. end - a - 2: start + i - 1 = a + 2 + i
    BY <1>1
  <2> HIDE DEF start, part
  <2>3. /\ part \in Seq(Symbols)
        /\ Len(part) = IF start <= end THEN end - start + 1 ELSE 0
        /\ \A i \in 1 .. Len(part): part[i] = text[start + i - 1]
    BY <1>2, <2>1, PartFacts DEF part
  <2> QED BY <2>1, <2>2, <2>3
<1> HIDE DEF part, start
<1>9. ASSUME NEW i \in 1 .. end - a - 2, a + 2 + i <= c PROVE i \in 1 .. l /\ part[i] = o[i]
  <2>1. i \in 1 .. l /\ a + 2 + i \in 1 .. c
    BY <1>1, <1>2, <1>5, <1>9
  <2> QED BY <1>2, <1>3, <1>8, <2>1
<1>10. CASE b <= c
  <2>1. end - a - 2 = l /\ \A i \in 1 .. l: a + 2 + i <= c
    BY <1>1, <1>2, <1>5, <1>10
  <2>2. \A i \in 1 .. l: part[i] = o[i]
    BY <1>9, <2>1
  <2>3. part = o
    BY <1>1, <1>3, <1>8, <2>1, <2>2
  <2> QED BY <1>7, <1>10, <2>3
<1>11. CASE ~(b <= c)
  <2>1. PICK d \in Nat: /\ d = c - a - 2 /\ end - a - 2 = d + 1 /\ d <= l
                        /\ \A i \in 1 .. d: a + 2 + i <= c /\ i \in 1 .. end - a - 2
    <3>1. c - a - 2 \in Nat
      BY <1>1, <1>2
    <3> QED BY <1>1, <1>2, <1>5, <1>11, <3>1
  <2>2. \A i \in 1 .. d: part[i] = o[i]
    BY <1>9, <2>1
  <2>3. part[d + 1] \notin Keys
    <3>1. d + 1 \in 1 .. end - a - 2 /\ a + 2 + (d + 1) = c + 1
      BY <1>1, <1>2, <2>1
    <3>2. part[d + 1] = BracketClose
      BY <1>2, <1>8, <3>1
    <3> QED BY <3>2, NoKeys
  <2>4. \A i \in 1 .. Len(part): i > d => i = d + 1
    BY <1>8, <2>1
  <2>5. Copies(part, o, d)
    <3>1. d <= Len(part)
      BY <1>8, <2>1
    <3> QED BY <1>1, <1>8, <2>1, <2>2, <2>3, <2>4, <3>1 DEF Copies, Agrees
  <2> QED BY <1>7, <1>11, <2>5
<1> QED BY <1>10, <1>11

\* The objects of an array that is cut: those that it has in full, then perhaps a
\* part of the next one, and no more.
LEMMA CutObjects ==
  ASSUME NEW f, NEW objects, NEW e, ArrayEnds(f, objects, e), NEW text, NEW c,
         CutOf(text, f, c), NEW n \in Nat,
         cclog_json_get_object_from_array(text, n) \notin {Missing, <<>>}
  PROVE  /\ n < Len(objects)
         /\ \/ cclog_json_get_object_from_array(text, n) = objects[n + 1]
            \/ \E d: Copies(cclog_json_get_object_from_array(text, n), objects[n + 1], d)
         /\ \A m \in 0 .. n - 1: cclog_json_get_object_from_array(text, m) = objects[m + 1]
<1>1. /\ Len(objects) \in Nat /\ e \in [0 .. Len(objects) -> Nat]
      /\ \A i, j \in 0 .. Len(objects): i <= j => e[i] <= e[j]
  BY DEF ArrayEnds
<1>2. c \in Nat /\ Len(text) = c + 1 /\ c <= Len(f) - 1 /\ Len(f) \in Nat
  BY DEF CutOf
<1>3. PICK skipped: /\ Skips(skipped, text)
                    /\ \A i \in Nat: cclog_json_get_object_from_array(text, i)
                                       = ObjectFrom(text, skipped[i])
  <2>1. Len(text) \in Nat
    BY <1>2
  <2> QED BY <2>1, ObjectsSkipped
<1>4. \A i \in Nat: skipped[i] = IF i <= Len(objects) /\ e[i] <= c THEN e[i] + 1 ELSE c + 2
  BY <1>3, CutSkips
<1>5. n <= Len(objects) /\ e[n] <= c
  <2> SUFFICES ASSUME ~(n <= Len(objects) /\ e[n] <= c) PROVE FALSE
    OBVIOUS
  <2>1. skipped[n] = c + 2 /\ c + 2 > Len(text)
    BY <1>2, <1>4
  <2>2. ObjectFrom(text, skipped[n]) = Missing
    BY <2>1 DEF ObjectFrom
  <2> QED BY <1>3, <2>2
<1>6. PICK a \in Nat: a = e[n] /\ a <= c /\ n \in 0 .. Len(objects)
  BY <1>1, <1>5
<1>7. cclog_json_get_object_from_array(text, n) = ObjectFrom(text, a + 1)
  BY <1>3, <1>4, <1>5, <1>6
<1>8. n < Len(objects) /\ a + 3 <= c
  <2> SUFFICES ASSUME ~(n < Len(objects) /\ a + 3 <= c) PROVE FALSE
    OBVIOUS
  <2>1. \A i \in a + 2 .. c: f[i] = Newline
    <3>1. CASE n < Len(objects)
      <4>1. f[a + 2] = Newline
        BY <1>6, <3>1 DEF ArrayEnds
      <4>2. \A i \in a + 2 .. c: i = a + 2
        BY <1>2, <3>1
      <4> QED BY <4>1, <4>2
    <3>2. CASE ~(n < Len(objects))
      <4>1. n = Len(objects)
        BY <1>1, <1>6, <3>2
      <4>2. Len(f) - 1 \in {a + 1, a + 2} /\ (Len(f) - 1 = a + 2 => f[Len(f) - 1] = Newline)
        BY <1>6, <4>1 DEF ArrayEnds
      <4>3. \A i \in a + 2 .. c: i = a + 2 /\ Len(f) - 1 = a + 2
        BY <1>2, <4>2
      <4> QED BY <4>2, <4>3
    <3> QED BY <3>1, <3>2
  <2>2. ObjectFrom(text, a + 1) = <<>>
    BY <1>6, <2>1, NoObject
  <2> QED BY <1>7, <2>2
<1>9. NextObject(f, objects[n + 1], e[n], e[n + 1])
  BY <1>6, <1>8, NextOfArray
<1>10. \/ ObjectFrom(text, a + 1) = objects[n + 1]
       \/ \E d: Copies(ObjectFrom(text, a + 1), objects[n + 1], d)
  BY <1>6, <1>8, <1>9, ObjectOrPart
<1>11. ASSUME NEW m \in 0 .. n - 1
       PROVE  cclog_json_get_object_from_array(text, m) = objects[m + 1]
  <2>1. /\ m \in 0 .. Len(objects) /\ m + 1 \in 0 .. Len(objects) /\ m < Len(objects)
        /\ m \in Nat /\ m <= Len(objects) /\ m + 1 <= n
    BY <1>1, <1>6
  <2>2. NextObject(f, objects[m + 1], e[m], e[m + 1])
    BY <2>1, NextOfArray
  <2>3. e[m] \in Nat /\ e[m + 1] \in Nat /\ e[m + 1] <= a /\ e[m] + 5 <= e[m + 1]
    <3>1. e[m + 1] <= e[n]
      BY <1>1, <1>6, <2>1
    <3>2. e[m + 1] = e[m] + 2 + Len(objects[m + 1]) /\ Len(objects[m + 1]) >= 3
          /\ Len(objects[m + 1]) \in Nat /\ e[m] \in Nat /\ e[m + 1] \in Nat
      BY <2>2 DEF NextObject
    <3> PICK x \in Nat, y \in Nat, l \in Nat: x = e[m] /\ y = e[m + 1] /\ l = Len(objects[m + 1])
      BY <3>2
    <3>3. y = x + 2 + l /\ l >= 3
      BY <3>2
    <3>4. x + 5 <= y
      BY ONLY <3>3, x \in Nat, y \in Nat, l \in Nat
    <3>5. y <= a
      BY <1>6, <3>1
    <3> QED BY <3>4, <3>5
  <2>4. e[m] <= c /\ e[m] + 3 <= c /\ e[m + 1] <= c
    <3> PICK x \in Nat, y \in Nat: x = e[m] /\ y = e[m + 1] /\ y <= a /\ x + 5 <= y
      BY <2>3
    <3>1. a <= c /\ c \in Nat /\ y <= a /\ x + 5 <= y
      BY <1>2, <1>6
    <3>2. x <= c /\ x + 3 <= c /\ y <= c
      BY ONLY <3>1, a \in Nat, x \in Nat, y \in Nat
    <3> QED BY <3>2
  <2>5. ObjectFrom(text, e[m] + 1) = objects[m + 1]
    BY <2>2, <2>4, ObjectOrPart
  <2> QED BY <1>3, <1>4, <2>1, <2>4, <2>5
<1> QED BY <1>7, <1>8, <1>10, <1>11

\* An array that is whole has all of its objects.
LEMMA WholeObjects ==
  ASSUME NEW f, NEW objects, NEW e, ArrayEnds(f, objects, e), NEW text,
         CutOf(text, f, Len(f) - 1), NEW n \in Nat, n < Len(objects)
  PROVE  cclog_json_get_object_from_array(text, n) = objects[n + 1]
<1>1. PICK c \in Nat: c = Len(f) - 1 /\ Len(text) = c + 1 /\ CutOf(text, f, c)
  <2> PICK c: c = Len(f) - 1
    OBVIOUS
  <2>1. CutOf(text, f, c)
    OBVIOUS
  <2>2. c \in Nat /\ Len(text) = c + 1
    BY <2>1 DEF CutOf
  <2> QED BY <2>1, <2>2
<1>2. PICK skipped: /\ Skips(skipped, text)
                    /\ \A i \in Nat: cclog_json_get_object_from_array(text, i)
                                       = ObjectFrom(text, skipped[i])
  <2>1. Len(text) \in Nat
    BY <1>1
  <2> QED BY <2>1, ObjectsSkipped
<1>3. Len(objects) \in Nat
  BY DEF ArrayEnds
<1>4. n \in 0 .. Len(objects) /\ n <= Len(objects)
  BY <1>3
<1>5. NextObject(f, objects[n + 1], e[n], e[n + 1])
  BY <1>4, NextOfArray
<1>6. e[n + 1] <= c /\ e[n] + 3 <= c /\ e[n] <= c
  <2>1. /\ e[n + 1] = e[n] + 2 + Len(objects[n + 1]) /\ Len(objects[n + 1]) >= 3
        /\ Len(objects[n + 1]) \in Nat /\ e[n] \in Nat /\ e[n + 1] <= c
    BY <1>1, <1>5 DEF NextObject
  <2> QED BY <2>1
<1>7. ObjectFrom(text, e[n] + 1) = objects[n + 1]
  BY <1>1, <1>5, <1>6, ObjectOrPart
<1>8. skipped[n] = e[n] + 1
  <2>1. skipped[n] = IF n <= Len(objects) /\ e[n] <= c THEN e[n] + 1 ELSE c + 2
    BY <1>1, <1>2, CutSkips
  <2> QED BY <1>4, <1>6, <2>1
<1> QED BY <1>2, <1>7, <1>8

-----------------------------------------------------------------------------
(* The copy of a structure.                                                *)

\* A copy that has the first c symbols of a structure, and the end symbol.
CutAt(copy, f, c, close) ==
  /\ copy \in Seq(Symbols) /\ c \in 1 .. Len(f) - 1
  /\ Len(copy) = c + 1 /\ copy[c + 1] = close
  /\ \A i \in 1 .. c: copy[i] = f[i]

\* A copy of the first symbols of a text, with the end symbol, is the text cut there.
LEMMA CopyIsCut ==
  ASSUME NEW json \in Seq(Symbols), NEW close \in Symbols, NEW f, Len(f) \in Nat,
         NEW start \in Nat \ {0}, NEW c \in Nat \ {0}, c <= Len(f) - 1, start + c <= Len(json) + 1,
         \A i \in 1 .. c: json[start - 1 + i] = f[i]
  PROVE  CutAt(CopyUpTo(json, start, start + c, close), f, c, close)
<1> DEFINE part == SubSeq(json, start, start + c - 1)
<1>1. part \in Seq(Symbols) /\ Len(part) = c /\ \A i \in 1 .. c: part[i] = f[i]
  <2>1. PICK n \in Nat: n = start + c - 1 /\ start <= n /\ n <= Len(json) /\ n - start + 1 = c
    <3>1. start + c - 1 \in Nat
      OBVIOUS
    <3> QED BY <3>1
  <2> DEFINE p == SubSeq(json, start, n)
  <2>2. /\ p \in Seq(Symbols) /\ Len(p) = IF start <= n THEN n - start + 1 ELSE 0
        /\ \A i \in 1 .. Len(p): p[i] = json[start + i - 1]
    BY <2>1, PartFacts
  <2>3. p = part
    BY <2>1
  <2> HIDE DEF p, part
  <2>4. \A i \in 1 .. c: start + i - 1 = start - 1 + i
    OBVIOUS
  <2> QED BY <2>1, <2>2, <2>3, <2>4
<1>2. CopyUpTo(json, start, start + c, close) = Append(part, close)
  BY DEF CopyUpTo
<1> HIDE DEF part
<1> DEFINE copy == Append(part, close)
<1>3. /\ copy \in Seq(Symbols) /\ Len(copy) = c + 1 /\ copy[c + 1] = close
      /\ \A i \in 1 .. c: copy[i] = part[i]
  BY <1>1
<1> HIDE DEF copy
<1>4. CutAt(copy, f, c, close)
  BY <1>1, <1>3 DEF CutAt
<1> QED BY <1>2, <1>4 DEF copy

\* Where the structure of a key starts.
StartsAt(json, key, open, k) == k = Found(StructurePlaces(json, key, open))

\* A structure stands in a text from a place, as far as the text goes.
StandsUpToEnd(text, f, b) ==
  \A i \in 1 .. Len(f): b - 1 + i <= Len(text) => text[b - 1 + i] = f[i]

\* The copy of a structure has its first symbols, and all of them if it is whole in the
\* text and fits the buffer.
LEMMA CopyOfStructure ==
  ASSUME NEW json \in Seq(Symbols), NEW key, NEW open, NEW close \in Symbols,
         open # Quote, open # close, NEW f, Framed(f, open, close),
         NEW start \in Nat \ {0}, StartsAt(json, key, open, start),
         start <= Len(json), StandsUpToEnd(json, f, start)
  PROVE  \E c \in Nat:
           /\ CutAt(json_get_nested_structure(json, key, open, close), f, c, close)
           /\ Len(f) <= Capacity /\ start - 1 + Len(f) <= Len(json) => c = Len(f) - 1
<1> DEFINE copy == json_get_nested_structure(json, key, open, close)
<1>1. PICK inside: FrameStrings(inside, f, open, close)
  BY DEF Framed
<1>2. PICK l \in Nat, len \in Nat: l = Len(f) /\ len = Len(json) /\ l >= 3 /\ f[1] = open
  BY DEF Framed
<1>3. PICK last \in Nat: /\ last <= start + l - 1 /\ last <= len + 1 /\ start + 1 <= last
                         /\ last = start + l - 1 \/ last = len + 1
  <2>1. start + 1 <= len + 1 /\ start + 1 <= start + l - 1
    BY <1>2
  <2>2. CASE start + l - 1 <= len + 1
    <3>1. PICK k \in Nat: k = start + l - 1
      <4>1. start + l - 1 \in Nat
        BY <1>2
      <4> QED BY <4>1
    <3>2. k <= start + l - 1 /\ k <= len + 1 /\ start + 1 <= k
      BY <2>1, <2>2, <3>1
    <3> QED BY <3>1, <3>2
  <2>3. CASE ~(start + l - 1 <= len + 1)
    <3>1. len + 1 \in Nat /\ len + 1 <= start + l - 1
      BY <1>2, <2>3
    <3> QED BY <2>1, <3>1
  <2> QED BY <2>2, <2>3
<1>4. l \in Nat /\ l >= 3 /\ len \in Nat /\ last \in Nat /\ last <= start + l - 1 /\ last <= len + 1
  BY <1>2, <1>3
<1> DEFINE J == {i \in start + 1 .. last : i - start + 1 \in inside}
           W == {Walk(J, i, 0) : i \in start + 1 .. last}
           s0 == Begin(start, -1)
           I == {s0} \cup W
<1>5. 0 \in Int /\ -1 \in Int /\ (-1) + 1 = 0
  OBVIOUS
<1>6. ASSUME NEW i \in start + 1 .. last - 1
      PROVE  /\ i + 1 \in J <=> IF json[i] = Quote THEN i \notin J ELSE i \in J
             /\ i \notin J => json[i] # open /\ json[i] # close
  <2> HIDE DEF I, W, s0, copy
  <2>1. PICK j \in 2 .. l - 1: j = i - start + 1 /\ start - 1 + j = i /\ j + 1 = (i + 1) - start + 1
    <3>1. /\ i - start + 1 \in 2 .. l - 1 /\ start - 1 + (i - start + 1) = i
          /\ (i - start + 1) + 1 = (i + 1) - start + 1
      BY <1>4
    <3> QED BY <3>1
  <2>2. json[i] = f[j]
    <3>1. j \in 1 .. l /\ start - 1 + j <= len
      BY <1>4, <2>1
    <3> QED BY <1>2, <2>1, <3>1 DEF StandsUpToEnd
  <2>3. (i \in J <=> j \in inside) /\ (i + 1 \in J <=> j + 1 \in inside)
    <3>1. i \in start + 1 .. last /\ i + 1 \in start + 1 .. last
      OBVIOUS
    <3> QED BY <2>1, <3>1
  <2> HIDE DEF J
  <2>4. /\ j + 1 \in inside <=> IF f[j] = Quote THEN j \notin inside ELSE j \in inside
        /\ j \notin inside => f[j] \notin {open, close}
    <3>1. j \in 2 .. Len(f) - 1
      BY <1>2
    <3> QED BY <1>1, <3>1 DEF FrameStrings
  <2> QED BY <2>2, <2>3, <2>4
<1>7. start + 1 \notin J /\ (last = start + l - 1 => last \notin J)
  <2>1. (start + 1) - start + 1 = 2 /\ (last = start + l - 1 => last - start + 1 = l)
    BY <1>2
  <2>2. 2 \notin inside /\ l \notin inside
    BY <1>1, <1>2 DEF FrameStrings
  <2> QED BY <2>1, <2>2
<1> HIDE DEF J
<1>8. \A i \in start + 1 .. last: i \in Nat /\ i <= len + 1 /\ IsWalk(Walk(J, i, 0), J, i, 0)
  <2>1. \A i \in start + 1 .. last: i \in Nat /\ i <= len + 1
    BY <1>3
  <2> QED BY <1>5, <2>1, WalkFacts
<1>9. s0 \in Loop /\ s0.at = start
  BY <1>5, BeginFacts
\* The loop does not stop at the first symbol, and goes on in the structure.
<1>10. ~StructureStops(json, start, close, s0) /\ After(json, s0, open, close) \in W
  <2>1. json[start] = open
    <3>1. 1 \in 1 .. Len(f) /\ start - 1 + 1 = start
      BY <1>2
    <3> QED BY <1>2, <3>1 DEF StandsUpToEnd
  <2>2. ~StructureStops(json, start, close, s0)
    <3>1. ~(start > Len(json)) /\ json[start] # close
      BY <1>2, <2>1
    <3>2. ~Full(start - start)
      <4>1. start - start = 0
        OBVIOUS
      <4> QED BY <4>1, ReaderAssumption DEF Full
    <3> HIDE DEF s0
    <3> QED BY <1>9, <3>1, <3>2 DEF StructureStops
  <2>3. After(json, s0, open, close) = Walk(J, start + 1, 0)
    <3>1. Opens(json, start, -1, open, close)
      BY <1>5, <2>1, WalkOpen
    <3>2. After(json, s0, open, close) = State(start + 1, (-1) + 1, FALSE)
      BY <3>1 DEF Opens
    <3> QED BY <1>5, <1>7, <3>2 DEF Walk
  <2>4. start + 1 \in start + 1 .. last
    BY <1>3
  <2> QED BY <2>2, <2>3, <2>4
<1>11. ASSUME NEW i \in start + 1 .. last
       PROVE  /\ ~StructureStops(json, start, close, Walk(J, i, 0)) =>
                   i < last /\ After(json, Walk(J, i, 0), open, close) \in W
              /\ l <= Capacity /\ start - 1 + l <= len /\ i < last =>
                   ~StructureStops(json, start, close, Walk(J, i, 0))
  <2> PICK s: s = Walk(J, i, 0)
    OBVIOUS
  <2>1. /\ s \in Loop /\ s.at = i /\ s.nested_level = 0 /\ (s.in_string <=> i \in J)
        /\ i \in Nat /\ i <= len + 1
    BY <1>8 DEF IsWalk
  <2>2. ASSUME ~StructureStops(json, start, close, s) PROVE i < last
    <3> SUFFICES ASSUME i = last PROVE FALSE
      BY <1>3
    <3>1. ~(i > len) /\ ~(json[i] = close /\ i \notin J)
      BY <1>2, <2>1, <2>2 DEF StructureStops
    <3>2. last = start + l - 1 /\ last \in Nat
      BY <1>3, <3>1
    <3>3. json[i] = close
      <4>1. l \in 1 .. Len(f) /\ start - 1 + l = i /\ i <= Len(json)
        BY <1>2, <2>1, <3>1, <3>2
      <4>2. f[l] = close
        BY <1>2 DEF Framed
      <4> QED BY <4>1, <4>2 DEF StandsUpToEnd
    <3> QED BY <1>7, <3>1, <3>2, <3>3
  <2>3. ASSUME i < last PROVE After(json, s, open, close) \in W
    <3>1. i \in start + 1 .. last - 1 /\ i + 1 \in start + 1 .. last
      BY <2>3
    <3>2. After(json, Walk(J, i, 0), open, close) = Walk(J, i + 1, 0)
      BY <1>5, <1>6, <2>1, <3>1, WalkStep
    <3> QED BY <3>1, <3>2
  <2>4. ASSUME l <= Capacity, start - 1 + l <= len, i < last
        PROVE  ~StructureStops(json, start, close, s)
    <3>1. i \in start + 1 .. last - 1 /\ ~(i > len)
      BY <1>3, <2>4
    <3>2. ~Full(i - start)
      <4>1. i - start < Capacity
        BY <1>2, <1>3, <2>4, ReaderAssumption
      <4> QED BY <4>1, ReaderAssumption DEF Full
    <3>3. i \notin J => json[i] # close
      BY <1>6, <3>1
    <3> QED BY <1>2, <2>1, <3>1, <3>2, <3>3 DEF StructureStops
  <2> HIDE DEF W
  <2> QED BY <2>2, <2>3, <2>4
<1>12. StructureKeeps(I, json, start, open, close)
  <2>1. I \subseteq Loop /\ s0 \in I
    BY <1>8, <1>9 DEF IsWalk
  <2>2. \A s \in I: s = s0 \/ \E i \in start + 1 .. last: s = Walk(J, i, 0)
    OBVIOUS
  <2>3. W \subseteq I
    OBVIOUS
  <2> HIDE DEF I, W, s0
  <2>4. \A s \in I: ~StructureStops(json, start, close, s) => After(json, s, open, close) \in I
    BY <1>10, <1>11, <2>2, <2>3
  <2> QED BY <2>1, <2>4 DEF StructureKeeps, s0
<1>13. PICK y \in I: /\ StructureStops(json, start, close, y)
                     /\ copy = CopyUpTo(json, start, y.at, close)
  <2> HIDE DEF I
  <2> QED BY <1>2, <1>12, StructureBy DEF StartsAt
<1>14. PICK i \in start + 1 .. last: y = Walk(J, i, 0)
  <2> HIDE DEF s0
  <2> QED BY <1>10, <1>13
<1>15. PICK c \in Nat \ {0}: /\ c = i - start /\ i = start + c /\ c <= l - 1 /\ start + c <= len + 1
  <2>1. i - start \in Nat \ {0}
    OBVIOUS
  <2> QED BY <1>3, <2>1
<1>16. CutAt(copy, f, c, close)
  <2>1. y.at = start + c
    BY <1>8, <1>14, <1>15 DEF IsWalk
  <2>2. \A j \in 1 .. c: json[start - 1 + j] = f[j]
    <3>1. \A j \in 1 .. c: j \in 1 .. l /\ start - 1 + j <= len
      BY <1>4, <1>15
    <3> QED BY <1>2, <3>1 DEF StandsUpToEnd
  <2>3. CutAt(CopyUpTo(json, start, start + c, close), f, c, close)
    BY <1>2, <1>15, <2>2, CopyIsCut
  <2> QED BY <1>13, <2>1, <2>3
<1>17. ASSUME l <= Capacity, start - 1 + l <= len PROVE c = l - 1
  <2>1. ~(i < last)
    BY <1>11, <1>13, <1>14, <1>17
  <2>2. last = start + l - 1
    BY <1>4, <1>3, <1>17
  <2>3. i = last
    BY <1>4, <2>1
  <2> QED BY <1>4, <1>15, <2>2, <2>3
<1> HIDE DEF copy
<1>18. CutAt(copy, f, c, close) /\ (Len(f) <= Capacity /\ start - 1 + Len(f) <= Len(json) => c = Len(f) - 1)
  BY <1>2, <1>16, <1>17
<1> QED BY <1>18 DEF copy

\* A copy with all symbols of a structure is the structure.
LEMMA WholeCopy ==
  ASSUME NEW f, NEW open, NEW close, Framed(f, open, close), NEW copy,
         CutAt(copy, f, Len(f) - 1, close)
  PROVE  copy = f
<1>1. PICK l \in Nat: l = Len(f) /\ l >= 3 /\ f \in Seq(Symbols) /\ f[l] = close
  BY DEF Framed
<1>2. PICK c: c = Len(f) - 1
  OBVIOUS
<1>3. /\ copy \in Seq(Symbols) /\ Len(copy) = c + 1 /\ copy[c + 1] = close
      /\ \A i \in 1 .. c: copy[i] = f[i]
  BY <1>2 DEF CutAt
<1>4. c + 1 = l /\ \A i \in 1 .. l: i = l \/ i \in 1 .. c
  BY <1>1, <1>2
<1>5. \A i \in 1 .. l: copy[i] = f[i]
  BY <1>1, <1>3, <1>4
<1> QED BY <1>1, <1>3, <1>4, <1>5

\* A text without a key has no structure of it.
LEMMA StructureAbsent ==
  ASSUME NEW text \in Seq(Symbols), NEW key, Lacks(text, key), NEW open, NEW close
  PROVE  json_get_nested_structure(text, key, open, close) = Missing
<1>1. StructurePlaces(text, key, open) = {}
  <2>1. \A k \in 2 .. Len(text): k - 1 \in 1 .. Len(text)
    OBVIOUS
  <2> QED BY <2>1 DEF StructurePlaces, Lacks
<1>2. Found(StructurePlaces(text, key, open)) = Missing
  BY <1>1 DEF Found
<1> QED BY <1>2 DEF json_get_nested_structure, StructurePlaces

\* A text that may be cut behind any symbol, or go on behind the last.
PartOf(text, f) ==
  text \in Seq(Symbols) /\ \A i \in 1 .. Len(text): i <= Len(f) => text[i] = f[i]

\* The structure of a member is copied.
LEMMA StructureMember ==
  ASSUME NEW f, NEW texts, NEW outer, NEW end, NEW place, Layout(f, texts, outer, end, place),
         outer \notin Keys, NEW n \in 1 .. Len(texts), NEW key \in Keys,
         NEW open, NEW close \in Symbols, open # Quote, open # close,
         NEW g, Framed(g, open, close), texts[n] = Member(key, g), KeyBehind(texts, n, key),
         NEW text, PartOf(text, f)
  PROVE  LET copy == json_get_nested_structure(text, key, open, close)
         IN /\ copy # Missing => \E c \in Nat: CutAt(copy, g, c, close)
            /\ Len(g) <= Capacity /\ Len(f) <= Len(text) => CutAt(copy, g, Len(g) - 1, close)
<1> DEFINE copy == json_get_nested_structure(text, key, open, close)
           places == StructurePlaces(text, key, open)
<1>1. PICK a \in Nat, b \in Nat, l \in Nat, lf \in Nat, lt \in Nat:
        /\ a = place[n - 1] /\ b = place[n] /\ l = Len(g) /\ lf = Len(f) /\ lt = Len(text)
        /\ b <= lf - 1 /\ 2 <= a
  <2>1. /\ n - 1 \in 0 .. Len(texts) /\ n \in 0 .. Len(texts) /\ Len(f) \in Nat
        /\ place[n - 1] \in Nat /\ place[n] \in Nat /\ 2 <= place[n - 1] /\ place[n] <= Len(f) - 1
    <3>1. n - 1 \in 0 .. Len(texts) /\ n \in 0 .. Len(texts)
      BY DEF Layout
    <3> QED BY <3>1, LayoutPlaces
  <2>2. Len(g) \in Nat /\ Len(text) \in Nat
    BY DEF Framed, PartOf
  <2> QED BY <2>1, <2>2
<1>2. l >= 3 /\ g[1] = open /\ g \in Seq(Symbols)
  BY <1>1 DEF Framed
<1>3. /\ Len(texts[n]) = l + 1 /\ texts[n][1] = key
      /\ \A i \in 1 .. l: texts[n][1 + i] = g[i]
  <2>1. << key >> \in Seq(Symbols) /\ Len(<< key >>) = 1 /\ << key >>[1] = key
    BY DEF Symbols
  <2> PICK s \in Seq(Symbols): s = << key >>
    BY <2>1
  <2>2. /\ Len(s \o g) = Len(s) + Len(g)
        /\ \A i \in 1 .. Len(s): (s \o g)[i] = s[i]
        /\ \A i \in 1 .. Len(g): (s \o g)[Len(s) + i] = g[i]
    BY <1>2, JoinFacts
  <2>3. 1 \in 1 .. Len(s) /\ Len(s) = 1 /\ 1 + l = l + 1
    BY <2>1
  <2>4. texts[n] = s \o g
    BY DEF Member
  <2> QED BY <1>1, <2>1, <2>2, <2>3, <2>4
<1>4. /\ a + l + 1 <= b
      /\ \A i \in 1 .. l + 1: f[a + i] = texts[n][i]
  <2>1. b = a + (l + 1) + (IF n < Len(texts) THEN 2 ELSE 1)
    BY <1>1, <1>3, LayoutPlaces
  <2> PICK d \in Nat: d = IF n < Len(texts) THEN 2 ELSE 1
    OBVIOUS
  <2>2. b = a + (l + 1) + d
    BY <2>1
  <2>3. a + l + 1 <= b
    BY ONLY <2>2, a \in Nat, b \in Nat, l \in Nat, d \in Nat
  <2>4. \A i \in 1 .. Len(texts[n]): f[place[n - 1] + i] = texts[n][i]
    BY DEF Layout
  <2> QED BY <1>1, <1>3, <2>3, <2>4
<1>5. \A i \in 1 .. lt: i <= lf => text[i] = f[i]
  BY <1>1 DEF PartOf
<1>6. /\ a \in Nat /\ b \in Nat /\ l \in Nat /\ lf \in Nat /\ lt \in Nat
      /\ l >= 3 /\ b <= lf - 1 /\ 2 <= a /\ a + l + 1 <= b
  BY <1>1, <1>2, <1>4
<1>7. f[a + 1] = key /\ \A i \in 1 .. l: f[a + 1 + i] = g[i] /\ a + 1 + i <= lf
  <2>1. 1 \in 1 .. l + 1 /\ \A i \in 1 .. l: 1 + i \in 1 .. l + 1 /\ a + (1 + i) = a + 1 + i
    OBVIOUS
  <2>2. \A i \in 1 .. l: a + 1 + i <= lf
    BY <1>6
  <2> QED BY <1>3, <1>4, <2>1, <2>2
<1>8. PICK start \in Nat \ {0}: start = a + 2 /\ start - 1 = a + 1
  OBVIOUS
<1>9. ASSUME start <= lt
      PROVE  \E c \in Nat: /\ CutAt(copy, g, c, close)
                           /\ Len(g) <= Capacity /\ start - 1 + Len(g) <= Len(text) => c = Len(g) - 1
  <2>1. text[start - 1] = key /\ text[start] = open
    <3>1. a + 1 \in 1 .. lt /\ a + 2 \in 1 .. lt /\ 1 \in 1 .. l /\ a + 1 + 1 = a + 2 /\ a + 1 <= lf
      BY <1>6, <1>8, <1>9
    <3>2. f[a + 1 + 1] = g[1] /\ a + 1 + 1 <= lf
      BY <1>7, <3>1
    <3> QED BY <1>2, <1>5, <1>7, <1>8, <3>1, <3>2
  <2>2. \A k \in places: start <= k
    <3> SUFFICES ASSUME NEW k \in places, k < start PROVE FALSE
      BY <1>8 DEF StructurePlaces
    <3>1. k \in 2 .. lt /\ text[k - 1] = key
      BY <1>1 DEF StructurePlaces
    <3> HIDE DEF places
    <3>2. k - 1 \in 1 .. a /\ k - 1 \in 1 .. lt /\ k - 1 <= lf
      BY <1>6, <1>8, <3>1
    <3>3. f[k - 1] # key
      <4>1. n \in 1 .. Len(texts) + 1
        BY DEF Layout
      <4>2. \A i \in 1 .. place[n - 1]: f[i] # key
        BY <4>1, KeyIsBehind
      <4> QED BY <1>1, <3>2, <4>2
    <3> QED BY <1>5, <3>1, <3>2, <3>3
  <2>3. start \in places /\ places \subseteq Nat
    <3>1. start \in 2 .. Len(text)
      BY <1>1, <1>8, <1>9
    <3> QED BY <2>1, <3>1 DEF StructurePlaces
  <2>4. StartsAt(text, key, open, start)
    <3> HIDE DEF places
    <3>1. Found(places) = start
      BY <2>2, <2>3, FoundIs
    <3> QED BY <3>1 DEF StartsAt, places
  <2>5. StandsUpToEnd(text, g, start)
    <3>1. ASSUME NEW i \in 1 .. l, start - 1 + i <= lt PROVE text[start - 1 + i] = g[i]
      <4>1. a + 1 + i <= lf /\ a + 1 + i <= lt
        BY <1>7, <1>8, <3>1
      <4>2. start - 1 + i = a + 1 + i
        BY <1>8
      <4>3. a + 1 + i \in 1 .. lt
        BY <4>1
      <4> QED BY <1>5, <1>7, <4>1, <4>2, <4>3
    <3> QED BY <1>1, <3>1 DEF StandsUpToEnd
  <2>6. text \in Seq(Symbols) /\ start <= Len(text)
    BY <1>1, <1>9 DEF PartOf
  <2> QED BY <2>4, <2>5, <2>6, CopyOfStructure
<1>10. copy # Missing => start <= lt
  <2> SUFFICES ASSUME places # {} PROVE start <= lt
    BY DEF json_get_nested_structure, StructurePlaces, Found
  <2>1. PICK k \in 2 .. lt: text[k - 1] = key
    BY <1>1 DEF StructurePlaces
  <2> SUFFICES ASSUME ~(start <= k) PROVE FALSE
    BY <1>8
  <2>2. k - 1 \in 1 .. a /\ k - 1 \in 1 .. lt /\ k - 1 <= lf
    BY <1>6, <1>8
  <2>3. f[k - 1] # key
    <3>1. n \in 1 .. Len(texts) + 1
      BY DEF Layout
    <3>2. \A i \in 1 .. place[n - 1]: f[i] # key
      BY <3>1, KeyIsBehind
    <3> QED BY <1>1, <2>2, <3>2
  <2> QED BY <1>5, <2>1, <2>2, <2>3
<1>11. ASSUME Len(g) <= Capacity, Len(f) <= Len(text)
       PROVE  CutAt(copy, g, Len(g) - 1, close)
  <2>1. start <= lt /\ start - 1 + Len(g) <= Len(text)
    <3>1. lf <= lt
      BY <1>1, <1>11
    <3>2. start <= lt /\ start - 1 + l <= lt
      BY <1>6, <1>8, <3>1
    <3> QED BY <1>1, <3>2
  <2> HIDE DEF copy
  <2> QED BY <1>9, <1>11, <2>1
<1> HIDE DEF copy
<1>12. copy # Missing => \E c \in Nat: CutAt(copy, g, c, close)
  BY <1>9, <1>10
<1> QED BY <1>11, <1>12 DEF copy

-----------------------------------------------------------------------------
(* The array of the levels.                                                *)

\* No level has the key of a server.
LEMMA LevelLacks ==
  ASSUME NEW level, PlainLevel(level)
  PROVE  Lacks(LevelText(level), "server")
<1> DEFINE object == LevelText(level)
           texts == LevelTexts(level)
<1>1. PICK place: Layout(object, texts, BraceOpen, BraceClose, place)
  BY LevelLayout
<1> HIDE DEF object, texts
<1>2. PICK optional \in {4, 5}, last \in 4 .. 6:
        /\ optional = IF level.msg_format = Null THEN 4 ELSE 5
        /\ last = IF level.callback = Null THEN optional ELSE optional + 1
  OBVIOUS
<1>3. /\ Len(texts) = last
      /\ \A n \in 1 .. 4: /\ texts[n] = Member(Required[n].key, << level.required[n] >>)
                          /\ << level.required[n] >> \in Values
      /\ level.msg_format # Null =>
           texts[5] = Member("msg_format", QuotedText(level.msg_format))
      /\ level.callback # Null =>
           texts[last] = Member("callback", QuotedText(level.callback.name))
  BY <1>2, LevelLines DEF texts
<1>4. /\ level.msg_format # Null => QuotedText(level.msg_format) \in Values
      /\ level.callback # Null => QuotedText(level.callback.name) \in Values
  BY PlainValue DEF PlainLevel
<1>5. /\ \A n \in 1 .. 4: Required[n].key \in Keys /\ "server" # Required[n].key
      /\ {"msg_format", "callback", "server"} \subseteq Keys
      /\ "server" # "msg_format" /\ "server" # "callback"
  BY LevelKeys
<1>6. \A n \in 1 .. last:
        \/ n \in 1 .. 4
        \/ n = 5 /\ level.msg_format # Null
        \/ n = last /\ level.callback # Null
  BY <1>2
<1>7. ASSUME NEW n \in 1 .. last PROVE Lacks(texts[n], "server")
  <2>1. CASE n \in 1 .. 4
    BY <1>3, <1>5, <2>1, MemberLacks
  <2>2. CASE n = 5 /\ level.msg_format # Null
    BY <1>3, <1>4, <1>5, <2>2, MemberLacks
  <2>3. CASE n = last /\ level.callback # Null
    BY <1>3, <1>4, <1>5, <2>3, MemberLacks
  <2> QED BY <1>6, <2>1, <2>2, <2>3
<1>8. KeyBehind(texts, Len(texts) + 1, "server")
  <2>1. \A j \in 1 .. (last + 1) - 1: j \in 1 .. last
    OBVIOUS
  <2> QED BY <1>3, <1>7, <2>1 DEF KeyBehind
<1>9. BraceOpen \notin Keys /\ BraceClose \notin Keys
  BY NoKeys
<1>10. Lacks(object, "server")
  BY <1>1, <1>5, <1>8, <1>9, LayoutLacks
<1> QED BY <1>10 DEF object

\* Levels whose strings are plain, and the array they are exported as.
PlainLevels(lv) == lv \in Seq(Level) /\ \A k \in 1 .. Len(lv): PlainLevel(lv[k])
Objects(lv) == [k \in DOMAIN lv |-> LevelText(lv[k])]

\* The array of plain levels has its brackets, and between them one object behind
\* the other.
LEMMA ArrayOfLevels ==
  ASSUME NEW lv, PlainLevels(lv)
  PROVE  /\ Len(lv) \in Nat /\ Len(Objects(lv)) = Len(lv)
         /\ \A k \in 1 .. Len(lv): Objects(lv)[k] = LevelText(lv[k])
         /\ Framed(Array(Objects(lv)), BracketOpen, BracketClose)
         /\ Lacks(Array(Objects(lv)), "server")
         /\ \E e: ArrayEnds(Array(Objects(lv)), Objects(lv), e)
<1> PICK N \in Nat: N = Len(lv) /\ DOMAIN lv = 1 .. N
  BY DEF PlainLevels
<1> DEFINE o == Objects(lv)
<1>1. Len(o) = N /\ \A k \in 1 .. N: o[k] = LevelText(lv[k])
  BY DEF Objects
<1> HIDE DEF o
<1>2. \A k \in 1 .. N: /\ Framed(o[k], BraceOpen, BraceClose) /\ o[k] \in Quiet(Brackets)
                       /\ Lacks(o[k], "server")
  BY <1>1, LevelFramed, LevelLacks DEF PlainLevels
<1>3. \A k \in 1 .. N: o[k] \in Seq(Symbols)
  BY <1>2 DEF Framed
<1>4. /\ BracketOpen \in Symbols \ {Quote} /\ BracketClose \in Symbols \ {Quote}
      /\ Newline \notin {BracketOpen, BracketClose}
  BY SymbolsDiffer
<1>5. Members(o) \in Quiet(Brackets)
  BY <1>1, <1>2, MembersQuiet
<1> DEFINE f == << BracketOpen, Newline >> \o Members(o) \o << BracketClose >>
<1>6. Framed(f, BracketOpen, BracketClose)
  <2> DEFINE m == Members(o)
  <2> HIDE DEF m
  <2>1. m \in Quiet({BracketOpen, BracketClose})
    BY <1>5 DEF Brackets, m
  <2>2. Framed(<< BracketOpen, Newline >> \o m \o << BracketClose >>, BracketOpen, BracketClose)
    BY <1>4, <2>1, FramedStructure
  <2> QED BY <2>2 DEF m
<1>7. PICK place: Layout(f, o, BracketOpen, BracketClose, place)
  BY <1>1, <1>3, <1>4, StructureLayout
<1> HIDE DEF f
<1>8. \E e: ArrayEnds(f, o, e)
  BY <1>1, <1>2, <1>7, ArrayLayout
<1>9. Lacks(f, "server")
  <2>1. BracketOpen \notin Keys /\ BracketClose \notin Keys /\ "server" \in Keys
    BY NoKeys, LevelKeys
  <2>2. KeyBehind(o, Len(o) + 1, "server")
    <3>1. \A j \in 1 .. (N + 1) - 1: j \in 1 .. N
      OBVIOUS
    <3> QED BY <1>1, <1>2, <3>1 DEF KeyBehind
  <2> QED BY <1>7, <2>1, <2>2, LayoutLacks
<1>10. Array(o) = f
  BY DEF Array, f
<1> QED BY <1>1, <1>6, <1>8, <1>9, <1>10 DEF o

-----------------------------------------------------------------------------
(* The members of the export.                                              *)

\* The members of cclog_json_load_current_config.
ServerObject(options) == Object(<< << "port", options.port >> >>)

\* The object of a server is whole in its buffer, and gives its port.
LEMMA ServerRead ==
  ASSUME NEW options, options.port \in Numbers
  PROVE  /\ Framed(ServerObject(options), BraceOpen, BraceClose)
         /\ Len(ServerObject(options)) <= Capacity
         /\ ServerObject(options) \in Seq(Symbols)
         /\ \A before:
              cclog_json_get_param(ServerObject(options), "port", before)
                = Param("number", options.port)
<1> DEFINE f == ServerObject(options)
<1>1. /\ options.port \in Symbols /\ "port" \in Symbols /\ "port" \in Keys
      /\ << options.port >> \in Values
  BY LevelKeys DEF Symbols, Values
<1>2. << "port", options.port >> = Member("port", << options.port >>)
  BY <1>1, PairJoined DEF Member
<1> PICK member \in Seq(Symbols): member = << "port", options.port >>
  <2>1. << "port", options.port >> \in Seq(Symbols)
    BY <1>1
  <2> QED BY <2>1
<1> PICK texts \in Seq(Seq(Symbols)): texts = << member >>
  <2>1. << member >> \in Seq(Seq(Symbols))
    OBVIOUS
  <2> QED BY <2>1
<1>3. /\ Len(texts) = 1 /\ texts[1] = Member("port", << options.port >>) /\ texts[1] \in Seq(Symbols)
      /\ Len(texts[1]) = 2
  BY <1>2
<1>4. f = << BraceOpen, Newline >> \o Members(texts) \o << BraceClose >>
  BY DEF ServerObject, Object
<1> HIDE DEF f
<1>5. /\ BraceOpen \in Symbols \ {Quote} /\ BraceClose \in Symbols \ {Quote}
      /\ Newline \notin {BraceOpen, BraceClose}
  BY SymbolsDiffer
<1>6. PICK place: Layout(f, texts, BraceOpen, BraceClose, place)
  <2>1. \A n \in 1 .. Len(texts): texts[n] \in Seq(Symbols)
    <3>1. \A n \in 1 .. 1: n = 1
      OBVIOUS
    <3> QED BY ONLY <1>3, <3>1
  <2>2. Len(texts) \in Nat
    BY <1>3
  <2> QED BY <1>4, <1>5, <2>1, <2>2, StructureLayout
<1>7. place[1] = 5 /\ Len(f) = 6 /\ f \in Seq(Symbols)
  <2>1. 1 \in 1 .. Len(texts) /\ 1 - 1 = 0 /\ ~(1 < Len(texts)) /\ 0 \in 0 .. Len(texts)
    BY <1>3
  <2>2. place[1] = place[0] + 2 + 1 /\ place[0] = 2 /\ f \in Seq(Symbols)
    BY <1>3, <1>6, <2>1 DEF Layout, BehindMember
  <2> QED BY <1>3, <1>6, <2>2 DEF Layout
<1>8. Framed(f, BraceOpen, BraceClose)
  <2> DEFINE m == Members(texts)
  <2>1. \A n \in 1 .. Len(texts): texts[n] \in Quiet(Braces)
    BY <1>1, <1>3, MemberQuiet
  <2>2. m \in Quiet({BraceOpen, BraceClose})
    <3>1. Len(texts) \in Nat
      BY <1>3
    <3> QED BY <2>1, <3>1, MembersQuiet DEF Braces
  <2> HIDE DEF m
  <2>3. Framed(<< BraceOpen, Newline >> \o m \o << BraceClose >>, BraceOpen, BraceClose)
    BY <1>5, <2>2, FramedStructure
  <2> QED BY <1>4, <2>3 DEF m
<1>9. ASSUME NEW before
      PROVE  cclog_json_get_param(f, "port", before) = Param("number", options.port)
  <2>1. 1 \in 1 .. Len(texts) /\ KeyBehind(texts, 1, "port") /\ BraceOpen \notin Keys
    BY <1>3, NoKeys DEF KeyBehind
  <2>2. Agrees(f, f, place[1])
    BY <1>7 DEF Agrees
  <2>3. cclog_json_get_param(f, "port", before) = ParamOf(<< options.port >>, before)
    BY <1>1, <1>3, <1>6, <2>1, <2>2, MemberRead
  <2> QED BY <2>3, ParamOfNumber
<1>10. Len(f) <= Capacity
  BY <1>7, ReaderAssumption
<1> QED BY <1>7, <1>8, <1>9, <1>10 DEF f

\* Options and levels whose strings are plain, a server or none.
PlainExport(options, lv) ==
  options \in Options /\ PlainString(options.format) /\ PlainLevels(lv)

\* The keys of the export, and where each comes first.
ExportMembers(texts, options, lv) ==
  /\ Len(texts) = IF options.port = Null THEN 5 ELSE 6
  /\ \A n \in 1 .. Len(texts): texts[n] \in Seq(Symbols)
  /\ texts[3] = Member("def_msg_format", QuotedText(options.format))
  /\ texts[4] = Member("logger_verbosity", << options.verbosity >>)
  /\ texts[5] = Member("log_levels", Array(Objects(lv)))
  /\ options.port # Null => texts[6] = Member("server", ServerObject(options))
  /\ KeyBehind(texts, 3, "def_msg_format") /\ KeyBehind(texts, 4, "logger_verbosity")
  /\ KeyBehind(texts, 5, "log_levels") /\ KeyBehind(texts, 6, "server")

\* The texts of an export are the members of its document.
LEMMA ExportLines ==
  ASSUME NEW options, NEW lv, PlainExport(options, lv)
  PROVE  ExportMembers(ExportMembersOf(options, lv), options, lv)
<1> DEFINE path == << "log_file_path" >> \o QuotedText(<<>>)
           method == << "log_method", "0" >>
           format == << "def_msg_format" >> \o QuotedText(options.format)
           verbosity == << "logger_verbosity", options.verbosity >>
           log_levels == << "log_levels" >> \o Array(Objects(lv))
           server == << "server" >> \o ServerObject(options)
           texts == ExportMembersOf(options, lv)
<1>1. /\ options.verbosity \in Numbers /\ options.port \in Numbers \cup {Null}
      /\ PlainString(options.format) /\ PlainString(<<>>)
  BY DEF PlainExport, Options, OptionsOf, PlainString, String, Holds
<1>2. /\ QuotedText(<<>>) \in Values /\ << "0" >> \in Values
      /\ QuotedText(options.format) \in Values /\ << options.verbosity >> \in Values
  BY <1>1, PlainValue DEF Values
<1>3. {"log_file_path", "log_method", "def_msg_format", "logger_verbosity", "log_levels", "server"}
        \subseteq Keys
  BY LevelKeys
<1>4. /\ path = Member("log_file_path", QuotedText(<<>>))
      /\ method = Member("log_method", << "0" >>)
      /\ format = Member("def_msg_format", QuotedText(options.format))
      /\ verbosity = Member("logger_verbosity", << options.verbosity >>)
      /\ log_levels = Member("log_levels", Array(Objects(lv)))
      /\ server = Member("server", ServerObject(options))
  <2>1. "0" \in Symbols /\ options.verbosity \in Symbols /\ Keys \subseteq Symbols
    BY <1>1 DEF Symbols
  <2>2. /\ method = Member("log_method", << "0" >>)
        /\ verbosity = Member("logger_verbosity", << options.verbosity >>)
    BY <1>3, <2>1, PairJoined DEF Member
  <2> QED BY <2>2 DEF Member
<1>5. /\ path \in Seq(Symbols) /\ method \in Seq(Symbols) /\ format \in Seq(Symbols)
      /\ verbosity \in Seq(Symbols)
      /\ \A key \in Keys:
           /\ key # "log_file_path" => Lacks(path, key)
           /\ key # "log_method" => Lacks(method, key)
           /\ key # "def_msg_format" => Lacks(format, key)
           /\ key # "logger_verbosity" => Lacks(verbosity, key)
  <2>1. path \in Seq(Symbols) /\ \A key \in Keys: key # "log_file_path" => Lacks(path, key)
    <3>1. "server" # "log_file_path"
      OBVIOUS
    <3> HIDE DEF path
    <3> QED BY <1>2, <1>3, <1>4, <3>1, MemberLacks
  <2>2. method \in Seq(Symbols) /\ \A key \in Keys: key # "log_method" => Lacks(method, key)
    <3>1. "server" # "log_method"
      OBVIOUS
    <3> HIDE DEF method
    <3> QED BY <1>2, <1>3, <1>4, <3>1, MemberLacks
  <2>3. format \in Seq(Symbols) /\ \A key \in Keys: key # "def_msg_format" => Lacks(format, key)
    <3>1. "server" # "def_msg_format"
      OBVIOUS
    <3> HIDE DEF format
    <3> QED BY <1>2, <1>3, <1>4, <3>1, MemberLacks
  <2>4. /\ verbosity \in Seq(Symbols)
        /\ \A key \in Keys: key # "logger_verbosity" => Lacks(verbosity, key)
    <3>1. "server" # "logger_verbosity"
      OBVIOUS
    <3> HIDE DEF verbosity
    <3> QED BY <1>2, <1>3, <1>4, <3>1, MemberLacks
  <2> HIDE DEF path, method, format, verbosity
  <2> QED BY <2>1, <2>2, <2>3, <2>4
<1>6. log_levels \in Seq(Symbols) /\ Lacks(log_levels, "server")
  <2>1. Array(Objects(lv)) \in Seq(Symbols) /\ Lacks(Array(Objects(lv)), "server")
    BY ArrayOfLevels DEF PlainExport, Framed
  <2>2. "server" # "log_levels"
    OBVIOUS
  <2> QED BY <1>3, <1>4, <2>1, <2>2, JoinLacks
<1>7. options.port # Null => server \in Seq(Symbols)
  <2>1. options.port # Null => ServerObject(options) \in Seq(Symbols)
    BY <1>1, ServerRead
  <2>2. << "server" >> \in Seq(Symbols)
    BY <1>3 DEF Symbols
  <2> QED BY <2>1, <2>2, JoinFacts
<1>8. /\ Len(texts) = IF options.port = Null THEN 5 ELSE 6
      /\ texts[1] = path /\ texts[2] = method /\ texts[3] = format /\ texts[4] = verbosity
      /\ texts[5] = log_levels
      /\ options.port # Null => texts[6] = server
  <2> DEFINE main == << path, method, format, verbosity, log_levels >>
             four == << path, method, format, verbosity >>
             T == Seq(Symbols)
  <2>5. texts = (four \o << log_levels >>) \o (IF options.port = Null THEN <<>> ELSE << server >>)
    BY DEF ExportMembersOf, OptionParams, ServerObject, Objects
  <2> HIDE DEF path, method, format, verbosity, log_levels, server, texts
  <2>2. /\ main \in Seq(T) /\ Len(main) = 5 /\ main[1] = path /\ main[2] = method
        /\ main[3] = format /\ main[4] = verbosity /\ main[5] = log_levels
    <3> HIDE DEF T
    <3>1. path \in T /\ method \in T /\ format \in T /\ verbosity \in T /\ log_levels \in T
      BY <1>5, <1>6 DEF T
    <3> QED BY <3>1
  <2>6. four \o << log_levels >> = main
    <3> HIDE DEF T
    <3>1. path \in T /\ method \in T /\ format \in T /\ verbosity \in T /\ log_levels \in T
      BY <1>5, <1>6 DEF T
    <3>2. PICK p \in Seq(T), l \in Seq(T):
            /\ p = four /\ Len(p) = 4 /\ p[1] = path /\ p[2] = method /\ p[3] = format
            /\ p[4] = verbosity
            /\ l = << log_levels >> /\ Len(l) = 1 /\ l[1] = log_levels
      <4>1. /\ four \in Seq(T) /\ Len(four) = 4 /\ four[1] = path /\ four[2] = method
            /\ four[3] = format /\ four[4] = verbosity
        BY <3>1
      <4>2. << log_levels >> \in Seq(T) /\ Len(<< log_levels >>) = 1 /\ << log_levels >>[1] = log_levels
        BY <3>1
      <4> HIDE DEF four
      <4> QED BY <4>1, <4>2
    <3> DEFINE v == p \o l
    <3>3. /\ v \in Seq(T) /\ Len(v) = Len(p) + Len(l)
          /\ \A i \in 1 .. Len(p): v[i] = p[i]
          /\ \A i \in 1 .. Len(l): v[Len(p) + i] = l[i]
      BY JoinFacts
    <3> HIDE DEF v, main
    <3>4. 1 \in 1 .. 4 /\ 2 \in 1 .. 4 /\ 3 \in 1 .. 4 /\ 4 \in 1 .. 4 /\ 1 \in 1 .. 1
      OBVIOUS
    <3>5. Len(v) = 5 /\ v[1] = path /\ v[2] = method /\ v[3] = format /\ v[4] = verbosity
          /\ v[5] = log_levels
      BY <3>2, <3>3, <3>4
    <3>6. \A i \in 1 .. 5: i = 1 \/ i = 2 \/ i = 3 \/ i = 4 \/ i = 5
      OBVIOUS
    <3>7. \A i \in 1 .. 5: v[i] = main[i]
      BY <2>2, <3>5, <3>6
    <3>8. PICK u \in Seq(T), w \in Seq(T): u = v /\ w = main
      BY <2>2, <3>3
    <3>9. Len(u) = Len(w) /\ \A i \in 1 .. Len(u): u[i] = w[i]
      BY <2>2, <3>5, <3>7, <3>8
    <3>10. u = w
      BY <3>9
    <3> QED BY <3>2, <3>8, <3>10 DEF v
  <2>1. texts = main \o (IF options.port = Null THEN <<>> ELSE << server >>)
    BY <2>5, <2>6
  <2> HIDE DEF main, T
  <2>3. CASE options.port = Null
    BY <2>1, <2>2, <2>3
  <2>4. CASE options.port # Null
    <3>1. server \in T
      BY <1>7, <2>4 DEF T
    <3>2. << server >> \in Seq(T) /\ Len(<< server >>) = 1 /\ << server >>[1] = server
      BY <3>1
    <3> PICK last \in Seq(T): last = << server >>
      BY <3>2
    <3>3. /\ Len(main \o last) = Len(main) + Len(last)
          /\ \A i \in 1 .. Len(main): (main \o last)[i] = main[i]
          /\ \A i \in 1 .. Len(last): (main \o last)[Len(main) + i] = last[i]
      <4>1. main \in Seq(T)
        BY <2>2
      <4> QED BY <4>1, JoinFacts
    <3>4. texts = main \o last
      BY <2>1, <2>4
    <3>5. Len(last) = 1 /\ last[1] = server
      BY <3>2
    <3>6. 1 \in 1 .. 1 /\ 5 + 1 = 6
          /\ 1 \in 1 .. 5 /\ 2 \in 1 .. 5 /\ 3 \in 1 .. 5 /\ 4 \in 1 .. 5 /\ 5 \in 1 .. 5
      OBVIOUS
    <3> QED BY <2>2, <2>4, <3>3, <3>4, <3>5, <3>6
  <2> QED BY <2>3, <2>4
<1> HIDE DEF path, method, format, verbosity, log_levels, server, texts
<1>9. \A n \in 1 .. Len(texts): texts[n] \in Seq(Symbols)
  <2>1. \A n \in 1 .. Len(texts): n \in {1, 2, 3, 4, 5} \/ (n = 6 /\ options.port # Null)
    BY <1>8
  <2> QED BY <1>5, <1>6, <1>7, <1>8, <2>1
<1>10. KeyBehind(texts, 3, "def_msg_format")
  <2>1. \A n \in 1 .. 3 - 1: n = 1 \/ n = 2
    OBVIOUS
  <2>2. "def_msg_format" # "log_file_path" /\ "def_msg_format" # "log_method"
    OBVIOUS
  <2> QED BY <1>3, <1>5, <1>8, <2>1, <2>2 DEF KeyBehind
<1>11. KeyBehind(texts, 4, "logger_verbosity")
  <2>1. \A n \in 1 .. 4 - 1: n = 1 \/ n = 2 \/ n = 3
    OBVIOUS
  <2>2. /\ "logger_verbosity" # "log_file_path" /\ "logger_verbosity" # "log_method"
        /\ "logger_verbosity" # "def_msg_format"
    OBVIOUS
  <2> QED BY <1>3, <1>5, <1>8, <2>1, <2>2 DEF KeyBehind
<1>12. KeyBehind(texts, 5, "log_levels")
  <2>1. \A n \in 1 .. 5 - 1: n = 1 \/ n = 2 \/ n = 3 \/ n = 4
    OBVIOUS
  <2>2. /\ "log_levels" # "log_file_path" /\ "log_levels" # "log_method"
        /\ "log_levels" # "def_msg_format" /\ "log_levels" # "logger_verbosity"
    OBVIOUS
  <2> QED BY <1>3, <1>5, <1>8, <2>1, <2>2 DEF KeyBehind
<1>13. KeyBehind(texts, 6, "server")
  <2>1. \A n \in 1 .. 6 - 1: n = 1 \/ n = 2 \/ n = 3 \/ n = 4 \/ n = 5
    OBVIOUS
  <2>2. /\ "server" # "log_file_path" /\ "server" # "log_method"
        /\ "server" # "def_msg_format" /\ "server" # "logger_verbosity"
    OBVIOUS
  <2> QED BY <1>3, <1>5, <1>6, <1>8, <2>1, <2>2 DEF KeyBehind
<1>14. ExportMembers(texts, options, lv)
  BY <1>4, <1>8, <1>9, <1>10, <1>11, <1>12, <1>13 DEF ExportMembers
<1> QED BY <1>14 DEF texts

\* The export is one object with its members, and a line end.
LEMMA ExportLayout ==
  ASSUME NEW options, NEW lv, PlainExport(options, lv)
  PROVE  /\ \E place: Layout(Object(ExportMembersOf(options, lv)), ExportMembersOf(options, lv),
                             BraceOpen, BraceClose, place)
         /\ Document(options, lv) = Object(ExportMembersOf(options, lv)) \o << Newline >>
<1> DEFINE texts == ExportMembersOf(options, lv)
<1>1. Document(options, lv) = Object(texts) \o << Newline >>
  BY DEF Document, ExportMembersOf
<1> HIDE DEF texts
<1>2. ExportMembers(texts, options, lv)
  BY ExportLines DEF texts
<1>3. Len(texts) \in Nat /\ \A n \in 1 .. Len(texts): texts[n] \in Seq(Symbols)
  BY <1>2 DEF ExportMembers
<1>4. BraceOpen \in Symbols /\ BraceClose \in Symbols
  BY SymbolsDiffer
<1>5. \E place:
        Layout(<< BraceOpen, Newline >> \o Members(texts) \o << BraceClose >>,
               texts, BraceOpen, BraceClose, place)
  BY <1>3, <1>4, StructureLayout
<1> QED BY <1>1, <1>5 DEF Object, texts

\* What a file holds of a text and the line end behind it.
LEMMA FileIsPart ==
  ASSUME NEW f \in Seq(Symbols), NEW n \in 0 .. Len(f \o << Newline >>)
  PROVE  /\ PartOf(f \o << Newline >>, f) /\ Len(f) <= Len(f \o << Newline >>)
         /\ PartOf(SubSeq(f \o << Newline >>, 1, n), f)
<1> PICK last \in Seq(Symbols): last = << Newline >>
  <2>1. << Newline >> \in Seq(Symbols)
    BY SymbolsDiffer
  <2> QED BY <2>1
<1> DEFINE t == f \o last
<1>1. Len(last) = 1
  OBVIOUS
<1>2. /\ t \in Seq(Symbols) /\ Len(t) = Len(f) + Len(last) /\ Len(f) \in Nat
      /\ \A i \in 1 .. Len(f): t[i] = f[i]
  BY JoinFacts
<1>3. t = f \o << Newline >>
  OBVIOUS
<1> HIDE DEF t
<1>4. Len(t) = Len(f) + 1 /\ n \in 0 .. Len(t)
  BY <1>1, <1>2, <1>3
<1>5. PartOf(t, f)
  <2>1. \A i \in 1 .. Len(t): i <= Len(f) => i \in 1 .. Len(f)
    BY <1>2
  <2> QED BY <1>2, <2>1 DEF PartOf
<1> DEFINE p == SubSeq(t, 1, n)
<1>6. p \in Seq(Symbols) /\ Len(p) = n /\ \A i \in 1 .. n: p[i] = t[i]
  <2>1. n \in Nat /\ n <= Len(t) /\ Len(t) \in Nat
    BY <1>2, <1>4
  <2>2. t \in Seq(Symbols)
    BY <1>2
  <2> QED BY <2>1, <2>2
<1> HIDE DEF p
<1>7. PartOf(p, f)
  <2>1. \A i \in 1 .. Len(p): i \in 1 .. n /\ (i <= Len(f) => i \in 1 .. Len(f))
    BY <1>2, <1>6
  <2> QED BY <1>2, <1>6, <2>1 DEF PartOf
<1>8. Len(f) <= Len(t)
  BY <1>2, <1>4
<1> QED BY <1>3, <1>5, <1>7, <1>8 DEF p

\* Of a file that is whole, the options and the structures are read as they were
\* exported.
LEMMA FileRead ==
  ASSUME NEW options, NEW lv, PlainExport(options, lv), NEW text,
         PartOf(text, Object(ExportMembersOf(options, lv))),
         Len(Object(ExportMembersOf(options, lv))) <= Len(text)
  PROVE  /\ options.format # <<>> => \A before:
              cclog_json_get_param(text, "def_msg_format", before)
                = Param("string", options.format)
         /\ \A before: cclog_json_get_param(text, "logger_verbosity", before)
                         = Param("number", options.verbosity)
         /\ Len(Array(Objects(lv))) <= Capacity =>
              cclog_json_get_array(text, "log_levels") = Array(Objects(lv))
         /\ options.port # Null =>
              cclog_json_get_object(text, "server") = ServerObject(options)
<1> DEFINE texts == ExportMembersOf(options, lv)
           f == Object(texts)
<1>1. PICK place: Layout(f, texts, BraceOpen, BraceClose, place)
  BY ExportLayout
<1>2. PartOf(text, f) /\ Len(f) <= Len(text)
  OBVIOUS
<1>3. ExportMembers(texts, options, lv)
  BY ExportLines
<1> HIDE DEF texts, f
<1>4. /\ texts[3] = Member("def_msg_format", QuotedText(options.format))
      /\ texts[4] = Member("logger_verbosity", << options.verbosity >>)
      /\ texts[5] = Member("log_levels", Array(Objects(lv)))
      /\ options.port # Null => texts[6] = Member("server", ServerObject(options))
      /\ KeyBehind(texts, 3, "def_msg_format") /\ KeyBehind(texts, 4, "logger_verbosity")
      /\ KeyBehind(texts, 5, "log_levels") /\ KeyBehind(texts, 6, "server")
  BY <1>3 DEF ExportMembers
<1>5. /\ 3 \in 1 .. Len(texts) /\ 4 \in 1 .. Len(texts) /\ 5 \in 1 .. Len(texts)
      /\ options.port # Null => 6 \in 1 .. Len(texts)
  BY <1>3 DEF ExportMembers
<1>6. BraceOpen \notin Keys /\ {"def_msg_format", "logger_verbosity", "log_levels", "server"} \subseteq Keys
  BY NoKeys, LevelKeys
<1>7. ASSUME NEW n \in 1 .. Len(texts) PROVE Agrees(text, f, place[n])
  <2>1. n \in 0 .. Len(texts)
    BY <1>1 DEF Layout
  <2>2. place[n] \in Nat /\ place[n] <= Len(f) - 1 /\ Len(f) \in Nat
    BY <1>1, <2>1, LayoutPlaces
  <2>3. text \in Seq(Symbols) /\ \A i \in 1 .. Len(text): i <= Len(f) => text[i] = f[i]
    BY <1>2 DEF PartOf
  <2>4. Len(text) \in Nat
    BY <2>3
  <2>5. place[n] <= Len(text) /\ \A i \in 1 .. place[n]: i \in 1 .. Len(text) /\ i <= Len(f)
    BY <1>2, <2>2, <2>4
  <2> QED BY <2>2, <2>3, <2>5 DEF Agrees
<1>8. ASSUME options.format # <<>>, NEW before
      PROVE  cclog_json_get_param(text, "def_msg_format", before) = Param("string", options.format)
  <2>1. QuotedText(options.format) \in Values /\ options.format \in String /\ ~Holds(options.format, Quote)
    BY PlainValue DEF PlainExport, PlainString
  <2>2. cclog_json_get_param(text, "def_msg_format", before)
          = ParamOf(QuotedText(options.format), before)
    BY <1>1, <1>4, <1>5, <1>6, <1>7, <2>1, MemberRead
  <2> QED BY <1>8, <2>1, <2>2, ParamOfString DEF PlainExport, PlainString
<1>9. ASSUME NEW before
      PROVE  cclog_json_get_param(text, "logger_verbosity", before)
               = Param("number", options.verbosity)
  <2>1. options.verbosity \in Numbers /\ << options.verbosity >> \in Values
    BY DEF PlainExport, Options, OptionsOf, Values
  <2>2. cclog_json_get_param(text, "logger_verbosity", before)
          = ParamOf(<< options.verbosity >>, before)
    BY <1>1, <1>4, <1>5, <1>6, <1>7, <2>1, MemberRead
  <2> QED BY <2>1, <2>2, ParamOfNumber
<1>10. ASSUME NEW n \in 1 .. Len(texts), NEW key \in Keys, NEW open, NEW close \in Symbols,
              open # Quote, open # close, NEW g, Framed(g, open, close),
              texts[n] = Member(key, g), KeyBehind(texts, n, key), Len(g) <= Capacity
       PROVE  json_get_nested_structure(text, key, open, close) = g
  <2> DEFINE copy == json_get_nested_structure(text, key, open, close)
  <2>1. CutAt(copy, g, Len(g) - 1, close)
    BY <1>1, <1>2, <1>6, <1>10, StructureMember
  <2> HIDE DEF copy
  <2>2. copy = g
    BY <1>10, <2>1, WholeCopy
  <2> QED BY <2>2 DEF copy
<1>11. ASSUME Len(Array(Objects(lv))) <= Capacity
       PROVE  cclog_json_get_array(text, "log_levels") = Array(Objects(lv))
  <2>1. Framed(Array(Objects(lv)), BracketOpen, BracketClose)
    BY ArrayOfLevels DEF PlainExport
  <2>2. BracketOpen # Quote /\ BracketOpen # BracketClose /\ BracketClose \in Symbols
    BY SymbolsDiffer
  <2> QED BY <1>4, <1>5, <1>6, <1>10, <1>11, <2>1, <2>2 DEF cclog_json_get_array
<1>12. ASSUME options.port # Null
       PROVE  cclog_json_get_object(text, "server") = ServerObject(options)
  <2>1. options.port \in Numbers
    BY <1>12 DEF PlainExport, Options, OptionsOf
  <2>2. Framed(ServerObject(options), BraceOpen, BraceClose) /\ Len(ServerObject(options)) <= Capacity
    BY <2>1, ServerRead
  <2>3. BraceOpen # Quote /\ BraceOpen # BraceClose /\ BraceClose \in Symbols
    BY SymbolsDiffer
  <2> QED BY <1>4, <1>5, <1>6, <1>10, <1>12, <2>2, <2>3 DEF cclog_json_get_object
<1> QED BY <1>8, <1>9, <1>11, <1>12

\* Of a file that is cut, the array of the levels has its first symbols.
LEMMA FileCut ==
  ASSUME NEW options, NEW lv, PlainExport(options, lv), NEW text,
         PartOf(text, Object(ExportMembersOf(options, lv))),
         cclog_json_get_array(text, "log_levels") # Missing
  PROVE  \E c: CutOf(cclog_json_get_array(text, "log_levels"), Array(Objects(lv)), c)
<1> DEFINE texts == ExportMembersOf(options, lv)
           f == Object(texts)
           g == Array(Objects(lv))
           copy == cclog_json_get_array(text, "log_levels")
<1>1. PICK place: Layout(f, texts, BraceOpen, BraceClose, place)
  BY ExportLayout
<1>2. PartOf(text, f) /\ copy # Missing
  OBVIOUS
<1>3. ExportMembers(texts, options, lv)
  BY ExportLines
<1>4. Framed(g, BracketOpen, BracketClose)
  BY ArrayOfLevels DEF PlainExport
<1>5. copy = json_get_nested_structure(text, "log_levels", BracketOpen, BracketClose)
  BY DEF cclog_json_get_array
<1>6. texts[5] = Member("log_levels", g) /\ KeyBehind(texts, 5, "log_levels") /\ 5 \in 1 .. Len(texts)
  BY <1>3 DEF ExportMembers
<1> HIDE DEF texts, f, g, copy
<1>7. BraceOpen \notin Keys /\ "log_levels" \in Keys
  BY NoKeys, LevelKeys
<1>8. BracketOpen # Quote /\ BracketOpen # BracketClose /\ BracketClose \in Symbols
  BY SymbolsDiffer
<1>9. \E c \in Nat: CutAt(copy, g, c, BracketClose)
  BY <1>1, <1>2, <1>4, <1>5, <1>6, <1>7, <1>8, StructureMember
<1>10. \E c: CutOf(copy, g, c)
  BY <1>4, <1>9 DEF CutAt, CutOf, Framed
<1> QED BY <1>10 DEF copy, g

\* Without a server the export has no object of one.
LEMMA NoServer ==
  ASSUME NEW options, NEW lv, PlainExport(options, lv), options.port = Null
  PROVE  cclog_json_get_object(Document(options, lv), "server") = Missing
<1> DEFINE texts == ExportMembersOf(options, lv)
           f == Object(texts)
           t == Document(options, lv)
<1>1. PICK place: Layout(f, texts, BraceOpen, BraceClose, place)
  BY ExportLayout
<1>2. ExportMembers(texts, options, lv)
  BY ExportLines
<1>3. t = f \o << Newline >>
  BY ExportLayout
<1> HIDE DEF texts, f, t
<1>4. KeyBehind(texts, Len(texts) + 1, "server")
  <2>1. Len(texts) + 1 = 6 /\ KeyBehind(texts, 6, "server")
    BY <1>2 DEF ExportMembers
  <2> QED BY <2>1
<1>5. BraceOpen \notin Keys /\ BraceClose \notin Keys /\ "server" \in Keys /\ Newline \notin Keys
  BY NoKeys, LevelKeys
<1>6. Lacks(f, "server") /\ f \in Seq(Symbols)
  <2>1. Lacks(f, "server")
    BY <1>1, <1>4, <1>5, LayoutLacks
  <2>2. f \in Seq(Symbols)
    BY <1>1 DEF Layout
  <2> QED BY <2>1, <2>2
<1> PICK last \in Seq(Symbols): last = << Newline >>
  <2>1. << Newline >> \in Seq(Symbols)
    BY SymbolsDiffer
  <2> QED BY <2>1
<1>7. Len(last) = 1 /\ last[1] = Newline
  OBVIOUS
<1>8. /\ t \in Seq(Symbols) /\ Len(t) = Len(f) + Len(last) /\ Len(f) \in Nat
      /\ \A i \in 1 .. Len(f): t[i] = f[i]
      /\ \A i \in 1 .. Len(last): t[Len(f) + i] = last[i]
  BY <1>3, <1>6, JoinFacts
<1>9. \A i \in 1 .. Len(t): t[i] # "server"
  <2>1. 1 \in 1 .. Len(last) /\ \A i \in 1 .. Len(t): i \in 1 .. Len(f) \/ i = Len(f) + 1
    BY <1>7, <1>8
  <2> QED BY <1>5, <1>6, <1>7, <1>8, <2>1 DEF Lacks
<1>10. Lacks(t, "server")
  BY <1>9 DEF Lacks
<1>11. json_get_nested_structure(t, "server", BraceOpen, BraceClose) = Missing
  BY <1>8, <1>10, StructureAbsent
<1> QED BY <1>11 DEF cclog_json_get_object, t

-----------------------------------------------------------------------------
(* A level that is read.                                                   *)

\* The NULL pointer is no string, and strings are texts.
LEMMA NullIsNoString == Null \notin String /\ String \subseteq Text
<1>1. Letters \subseteq Symbols
  BY DEF Symbols
<1>2. Seq(Letters) \subseteq Seq(Symbols)
  BY <1>1
<1> QED BY <1>2, ReaderAssumption DEF String, Text

\* No mapping has the NULL pointer for a name.
LEMMA NoMapping == get_mapping_from_name(Null) = Null
<1>1. ~ \E i \in DOMAIN cb_mappings: cb_mappings[i].name = Null
  BY NullIsNoString, ApplicationAssumption
<1> QED BY <1>1 DEF get_mapping_from_name

\* What the load makes of an object, as LoadLevel says it.
LastParam(object) == RequiredParams(object)[Len(Required)]
\* What LoadLevel reads of an object, each parameter behind the one before.
FormatParam(object) == cclog_json_get_param(object, "msg_format", LastParam(object))
CallbackParam(object) ==
  cclog_json_get_param(object, "callback",
    IF FormatParam(object) = Missing THEN LastParam(object) ELSE FormatParam(object))
OptionalParam(param) == param # Missing => param.type = "string"

\* The level that is made of them.
ReadLevel(object) ==
  [required |-> [n \in DOMAIN Required |-> RequiredParams(object)[n].value],
   msg_format |-> StringOf(FormatParam(object)),
   callback |-> get_mapping_from_name(StringOf(CallbackParam(object)))]

\* The required parameters, as soon as each is read with its type.
LEMMA RequiredRead ==
  ASSUME NEW object, object \in Text, rv \in Params, LastParam(object) # Missing,
         NEW n \in 1 .. 4
  PROVE  /\ RequiredParams(object)[n] # Missing
         /\ \E before: cclog_json_get_param(object, Required[n].key, before)
                         = RequiredParams(object)[n]
<1> DEFINE param == RequiredParams(object)
           V == Params \cup {Missing}
<1>1. RequiredInOrder(object, param)
  BY RequiredSteps
<1>2. ASSUME NEW p \in V, NEW m \in 1 .. 4, NextParam(object, p, m) # Missing
      PROVE  p # Missing /\ NextParam(object, p, m) \in V
  BY <1>2, RequiredSteps
<1>3. ASSUME NEW p, NEW m, NextParam(object, p, m) # Missing
      PROVE  NextParam(object, p, m) = cclog_json_get_param(object, Required[m].key, p)
  BY <1>3 DEF NextParam
<1>4. param[4] # Missing
  BY LevelKeys DEF LastParam
<1> HIDE DEF param
<1>5. /\ param[1] = NextParam(object, param[0], 1) /\ param[2] = NextParam(object, param[1], 2)
      /\ param[3] = NextParam(object, param[2], 3) /\ param[4] = NextParam(object, param[3], 4)
      /\ param[0] \in V
  BY <1>1 DEF RequiredInOrder
<1>6. 1 \in 1 .. 4 /\ 2 \in 1 .. 4 /\ 3 \in 1 .. 4 /\ 4 \in 1 .. 4
  OBVIOUS
<1>7. \A p \in V, m \in 1 .. 4: NextParam(object, p, m) \in V
  BY <1>2 DEF V
<1> HIDE DEF V
<1>8. param[1] \in V /\ param[2] \in V /\ param[3] \in V
  <2>1. param[1] \in V
    BY <1>5, <1>6, <1>7
  <2>2. param[2] \in V
    BY <1>5, <1>6, <1>7, <2>1
  <2> QED BY <1>5, <1>6, <1>7, <2>1, <2>2
<1>9. param[1] # Missing /\ param[2] # Missing /\ param[3] # Missing
  <2>1. param[3] # Missing
    BY <1>2, <1>4, <1>5, <1>6, <1>8
  <2>2. param[2] # Missing
    BY <1>2, <1>5, <1>6, <1>8, <2>1
  <2> QED BY <1>2, <1>5, <1>6, <1>8, <2>1, <2>2
<1>10. n = 1 \/ n = 2 \/ n = 3 \/ n = 4
  OBVIOUS
<1>11. /\ param[1] = cclog_json_get_param(object, Required[1].key, param[0])
       /\ param[2] = cclog_json_get_param(object, Required[2].key, param[1])
       /\ param[3] = cclog_json_get_param(object, Required[3].key, param[2])
       /\ param[4] = cclog_json_get_param(object, Required[4].key, param[3])
  BY <1>3, <1>4, <1>5, <1>9
<1>12. param[n] # Missing /\ \E before: cclog_json_get_param(object, Required[n].key, before) = param[n]
  BY <1>4, <1>9, <1>10, <1>11
<1> QED BY <1>12 DEF param

\* The object of a level that is whole gives the level, unless its format is empty.
LEMMA WholeLevel ==
  ASSUME NEW level, PlainLevel(level), NEW object, object = LevelText(level),
         object \in Text, rv \in Params
  PROVE  /\ LastParam(object) # Missing
         /\ OptionalParam(CallbackParam(object))
         /\ level.msg_format # <<>> => OptionalParam(FormatParam(object))
         /\ OptionalParam(FormatParam(object)) => ReadLevel(object) = level
<1> DEFINE param == RequiredParams(object)
<1>1. RequiredInOrder(object, param)
  BY RequiredSteps
<1>2. \A n \in 1 .. 4: \A before:
        cclog_json_get_param(object, Required[n].key, before) = RequiredParam(level, n)
  BY LevelRead
<1> HIDE DEF param
<1>3. /\ level.required \in Booleans \X Booleans \X Numbers \X Numbers
      /\ level.msg_format \in String \cup {Null}
      /\ level = [required |-> level.required, msg_format |-> level.msg_format,
                  callback |-> level.callback]
  BY DEF PlainLevel, Level, LevelOf
<1>4. ASSUME NEW n \in 1 .. 4
      PROVE  /\ RequiredParam(level, n) \in Params
             /\ RequiredParam(level, n).type = Required[n].type
             /\ RequiredParam(level, n).value = level.required[n]
  <2>1. CASE n = 1 \/ n = 2
    <3>1. level.required[n] \in Booleans /\ Required[n].type = "boolean"
      BY <1>3, <2>1, LevelKeys
    <3> QED BY <3>1 DEF RequiredParam, Param, Params
  <2>2. CASE n = 3 \/ n = 4
    <3>1. level.required[n] \in Numbers /\ Required[n].type = "number"
      BY <1>3, <2>2, LevelKeys
    <3> QED BY <3>1 DEF RequiredParam, Param, Params
  <2> QED BY <2>1, <2>2
<1>5. \A p: p # Missing => \A n \in 1 .. 4: NextParam(object, p, n) = RequiredParam(level, n)
  BY <1>2, <1>4, ReaderAssumption DEF NextParam, HasType
<1>6. \A n \in 1 .. 4: RequiredParam(level, n) # Missing
  BY <1>4, ReaderAssumption
<1>7. \A n \in 1 .. 4: param[n] = RequiredParam(level, n)
  <2>1. 1 \in 1 .. 4 /\ 2 \in 1 .. 4 /\ 3 \in 1 .. 4 /\ 4 \in 1 .. 4
    OBVIOUS
  <2>2. /\ param[1] = NextParam(object, param[0], 1) /\ param[2] = NextParam(object, param[1], 2)
        /\ param[3] = NextParam(object, param[2], 3) /\ param[4] = NextParam(object, param[3], 4)
        /\ param[0] # Missing
    BY <1>1, ReaderAssumption DEF RequiredInOrder
  <2>3. param[1] = RequiredParam(level, 1)
    BY <1>5, <2>1, <2>2
  <2>4. param[2] = RequiredParam(level, 2)
    BY <1>5, <1>6, <2>1, <2>2, <2>3
  <2>5. param[3] = RequiredParam(level, 3)
    BY <1>5, <1>6, <2>1, <2>2, <2>4
  <2>6. param[4] = RequiredParam(level, 4)
    BY <1>5, <1>6, <2>1, <2>2, <2>5
  <2>7. \A n \in 1 .. 4: n = 1 \/ n = 2 \/ n = 3 \/ n = 4
    OBVIOUS
  <2> QED BY <2>3, <2>4, <2>5, <2>6, <2>7
<1> DEFINE last == LastParam(object)
           format == FormatParam(object)
           callback == CallbackParam(object)
<1>8. last = param[4] /\ last # Missing /\ last.type = "number"
  <2>1. last = param[4] /\ 4 \in 1 .. 4 /\ Required[4].type = "number"
    BY LevelKeys DEF LastParam, param
  <2> QED BY <1>4, <1>6, <1>7, <2>1
<1>9. format = IF level.msg_format = Null THEN Missing
               ELSE IF level.msg_format = <<>> THEN last
               ELSE Param("string", level.msg_format)
  BY LevelRead DEF FormatParam
<1>10. callback = IF level.callback = Null THEN Missing
                  ELSE Param("string", level.callback.name)
  BY LevelRead DEF CallbackParam
<1> HIDE DEF last, format, callback
<1>11. \A s \in String: Param("string", s) # Missing /\ Param("string", s).type = "string"
                        /\ Param("string", s).value = s
  <2>1. \A s \in String: Param("string", s) \in Params
    BY NullIsNoString DEF Param, Params
  <2> QED BY <2>1, ReaderAssumption DEF Param
<1>12. level.callback # Null =>
         /\ level.callback.name \in String
         /\ get_mapping_from_name(level.callback.name) = level.callback
  BY DEF PlainLevel, PlainString
<1>13. OptionalParam(callback) /\ get_mapping_from_name(StringOf(callback)) = level.callback
  BY <1>10, <1>11, <1>12, NoMapping DEF OptionalParam, StringOf
<1>14. level.msg_format # <<>> => OptionalParam(format)
  BY <1>3, <1>9, <1>11 DEF OptionalParam
<1>15. OptionalParam(format) => StringOf(format) = level.msg_format
  BY <1>3, <1>8, <1>9, <1>11 DEF OptionalParam, StringOf
<1>16. [n \in DOMAIN Required |-> param[n].value] = level.required
  <2>1. \A n \in 1 .. 4: param[n].value = level.required[n]
    BY <1>4, <1>7
  <2>2. level.required = [n \in 1 .. 4 |-> level.required[n]] /\ DOMAIN Required = 1 .. 4
    BY <1>3, LevelKeys
  <2> QED BY <2>1, <2>2
<1>17. OptionalParam(format) => ReadLevel(object) = level
  <2>1. ReadLevel(object) = [required |-> [n \in DOMAIN Required |-> param[n].value],
                           msg_format |-> StringOf(format),
                           callback |-> get_mapping_from_name(StringOf(callback))]
    BY DEF ReadLevel, param, format, callback
  <2> QED BY <1>3, <1>13, <1>15, <1>16, <2>1
<1> QED BY <1>8, <1>13, <1>14, <1>17 DEF last, format, callback

\* An object that is cut gives the first three parameters of its level.
LEMMA CutLevel ==
  ASSUME NEW level, PlainLevel(level), NEW object, NEW d, Copies(object, LevelText(level), d),
         object \in Text, rv \in Params, LastParam(object) # Missing, NEW n \in 1 .. 3
  PROVE  ReadLevel(object).required[n] = level.required[n]
<1>1. n \in 1 .. 4 /\ 4 \in 1 .. 4
  OBVIOUS
<1>2. \E before: cclog_json_get_param(object, Required[4].key, before) # Missing
  BY <1>1, RequiredRead
<1>3. PICK before: cclog_json_get_param(object, Required[n].key, before) = RequiredParams(object)[n]
  BY <1>1, RequiredRead
<1>4. RequiredParams(object)[n] = RequiredParam(level, n)
  BY <1>2, <1>3, CutLevelRead
<1>5. ReadLevel(object).required[n] = RequiredParams(object)[n].value
  BY <1>1, LevelKeys DEF ReadLevel
<1> QED BY <1>4, <1>5 DEF RequiredParam, Param

-----------------------------------------------------------------------------
(* What holds between a file and the levels of it.                         *)

\* The file as it was exported, and the text of its levels.
ExportedText == Exported(saved.options, saved.levels)
SavedArray == Array(Objects(saved.levels))

\* What a file was exported from, and where the load has an array of it.
SavedInv ==
  /\ file # Null => /\ saved.options \in Options /\ saved.levels \in Seq(Level)
                    /\ \E n \in 0 .. Len(ExportedText): file = SubSeq(ExportedText, 1, n)
  /\ file = Null => array = Null /\ outcome = "none"
  /\ array = Null => index = 0
  /\ pc = "idle" /\ outcome = "none" => array = Null
  /\ pc \in {"format", "verbosity", "array"} => array = Null /\ outcome = "none" /\ file # Null
  /\ pc \in {"levels", "server"} => array # Null /\ outcome = "none" /\ file # Null

\* What is saved has plain strings, if Plain says so.
LEMMA SavedIsPlain ==
  ASSUME NEW c, c.options \in Options, c.levels \in Seq(Level), Plain(c)
  PROVE  PlainExport(c.options, c.levels)
<1>1. \A s \in Strings(c): ~Holds(s, Quote) /\ ~Holds(s, Newline)
  BY DEF Plain
<1>2. PlainString(c.options.format)
  <2>1. c.options.format \in String
    BY DEF Options, OptionsOf
  <2>2. c.options.format \in Strings(c)
    BY <2>1, NullIsNoString DEF Strings
  <2> QED BY <1>1, <2>1, <2>2 DEF PlainString
<1>3. ASSUME NEW k \in 1 .. Len(c.levels) PROVE PlainLevel(c.levels[k])
  <2>1. k \in DOMAIN c.levels /\ c.levels[k] \in Level
    OBVIOUS
  <2>2. c.levels[k].msg_format # Null => PlainString(c.levels[k].msg_format)
    <3>1. c.levels[k].msg_format \in String \cup {Null}
      BY <2>1 DEF Level, LevelOf
    <3>2. c.levels[k].msg_format # Null => c.levels[k].msg_format \in Strings(c)
      BY <2>1 DEF Strings
    <3> QED BY <1>1, <3>1, <3>2 DEF PlainString
  <2>3. ASSUME c.levels[k].callback # Null
        PROVE  /\ PlainString(c.levels[k].callback.name) /\ c.levels[k].callback.name # <<>>
               /\ get_mapping_from_name(c.levels[k].callback.name) = c.levels[k].callback
    <3>1. c.levels[k].callback.name \in String
      <4>1. c.levels[k].callback \in {cb_mappings[i] : i \in DOMAIN cb_mappings}
        BY <2>1, <2>3 DEF Level, LevelOf
      <4> QED BY <4>1, ApplicationAssumption
    <3>2. c.levels[k].callback.name \in Strings(c)
      BY <2>1, <2>3 DEF Strings, Names
    <3> QED BY <1>1, <2>1, <2>3, <3>1, <3>2 DEF PlainString, Plain
  <2> QED BY <2>1, <2>2, <2>3 DEF PlainLevel
<1> QED BY <1>2, <1>3 DEF PlainExport, PlainLevels

\* The export of what is plain has every line whole.
LEMMA PlainIsWhole ==
  ASSUME NEW c, c.options \in Options, c.levels \in Seq(Level), Plain(c)
  PROVE  Exported(c.options, c.levels) = Document(c.options, c.levels)
BY ExportWhole DEF Plain

\* The file is the export, or a part of it.
LEMMA FilePart ==
  ASSUME SavedInv, file # Null, Plain(saved)
  PROVE  /\ PlainExport(saved.options, saved.levels)
         /\ PartOf(file, Object(ExportMembersOf(saved.options, saved.levels)))
         /\ file = ExportedText =>
              Len(Object(ExportMembersOf(saved.options, saved.levels))) <= Len(file)
<1> DEFINE f == Object(ExportMembersOf(saved.options, saved.levels))
<1>1. PlainExport(saved.options, saved.levels)
  BY SavedIsPlain DEF SavedInv
<1>2. ExportedText = f \o << Newline >> /\ f \in Seq(Symbols)
  <2>1. ExportedText = Document(saved.options, saved.levels)
    BY PlainIsWhole DEF ExportedText, SavedInv
  <2> QED BY <1>1, <2>1, ExportLayout DEF Layout
<1>3. PICK n \in 0 .. Len(ExportedText): file = SubSeq(ExportedText, 1, n)
  BY DEF SavedInv
<1> HIDE DEF f
<1>4. PartOf(file, f)
  BY <1>2, <1>3, FileIsPart
<1>5. Len(f) <= Len(f \o << Newline >>)
  BY <1>2, <1>3, FileIsPart
<1> QED BY <1>1, <1>2, <1>4, <1>5 DEF f

\* Every step keeps this.
LEMMA SavedStep ==
  ASSUME SavedInv, ReaderInv, [Next]_vars PROVE SavedInv'
<1>1. CASE AppAddsLevel
  BY <1>1 DEF AppAddsLevel, loadVars, SavedInv, ExportedText
<1>2. CASE cclogger_export_config_json
  <2> SUFFICES ASSUME ~ UNCHANGED <<file, saved, array, index, outcome>> \/ pc' # "overrun"
               PROVE  SavedInv'
    <3>1. pc = "idle"
      BY <1>2 DEF cclogger_export_config_json
    <3> QED BY <3>1 DEF SavedInv, ExportedText
  <2>1. /\ pc = "idle" /\ file = Null /\ saved' = [options |-> config, levels |-> levels]
        /\ UNCHANGED <<pc, array, index, outcome>>
    BY <1>2 DEF cclogger_export_config_json, loadVars, levels
  <2>2. config \in Options /\ levels \in Seq(Level)
    BY <2>1 DEF ReaderInv
  <2>3. saved'.options = config /\ saved'.levels = levels
    BY <2>1
  <2>4. PICK n \in 0 .. Len(Exported(config, levels)): file' = SubSeq(Exported(config, levels), 1, n)
    BY <1>2 DEF cclogger_export_config_json, levels
  <2>5. ExportedText' = Exported(config, levels)
    BY <2>3 DEF ExportedText
  <2>6. file' # Null
    <3> DEFINE t == Exported(config, levels)
    <3>1. t \in Seq(Symbols)
      BY <2>2, ExportTyped DEF Text
    <3> HIDE DEF t
    <3>2. SubSeq(t, 1, n) \in Seq(Symbols)
      <4>1. n \in Nat /\ n <= Len(t)
        BY <2>4, <3>1 DEF t
      <4> QED BY <3>1, <4>1
    <3>3. file' \in Seq(Symbols)
      BY <2>4, <3>2 DEF t
    <3> QED BY <3>3, ReaderAssumption
  <2>7. array = Null /\ index = 0
    BY <2>1 DEF SavedInv
  <2>8. \E m \in 0 .. Len(ExportedText'): file' = SubSeq(ExportedText', 1, m)
    BY <2>4, <2>5
  <2> HIDE DEF ExportedText
  <2> QED BY <2>1, <2>2, <2>3, <2>6, <2>7, <2>8 DEF SavedInv
<1>3. CASE Restart
  BY <1>3 DEF Restart, SavedInv, ExportedText
<1>4. CASE BeginLoad
  BY <1>4 DEF BeginLoad, SavedInv, ExportedText
<1>5. CASE LoadFormat
  <2>1. /\ UNCHANGED <<file, saved, array, index>> /\ pc = "format"
        /\ \/ pc' = "idle" /\ outcome' = "failed"
           \/ pc' = "verbosity" /\ outcome' = outcome
           \/ pc' = "wild_pointer"
    BY <1>5 DEF LoadFormat, Fails, Ends
  <2> QED BY <2>1 DEF SavedInv, ExportedText
<1>6. CASE LoadVerbosity
  <2>1. /\ UNCHANGED <<file, saved, array, index>> /\ pc = "verbosity"
        /\ \/ pc' = "idle" /\ outcome' = "failed"
           \/ pc' = "array" /\ outcome' = outcome
    BY <1>6 DEF LoadVerbosity, Fails, Ends
  <2> QED BY <2>1 DEF SavedInv, ExportedText
<1>7. CASE LoadArray
  <2> DEFINE copy == cclog_json_get_array(file, "log_levels")
  <2>1. /\ UNCHANGED <<file, saved, index>> /\ pc = "array"
        /\ \/ pc' = "idle" /\ outcome' = "failed" /\ array' = array
           \/ copy # Missing /\ pc' = "levels" /\ outcome' = outcome /\ array' = copy
    BY <1>7 DEF LoadArray, Fails, Ends
  <2>2. copy # Missing => copy # Null
    <3>1. copy = Missing \/ copy \in Text
      BY <1>7, StructureTyped DEF LoadArray, ReaderInv, cclog_json_get_array
    <3> HIDE DEF copy
    <3> QED BY <3>1, ReaderAssumption DEF Text
  <2> HIDE DEF copy
  <2> QED BY <2>1, <2>2 DEF SavedInv, ExportedText
<1>8. CASE LoadLevel
  <2>1. /\ UNCHANGED <<file, saved, array>> /\ pc = "levels"
        /\ \/ pc' = "idle" /\ outcome' = "failed"
           \/ pc' = "double_free"
           \/ UNCHANGED <<pc, outcome>>
    BY <1>8 DEF LoadLevel, LevelFails, Fails, Ends
  <2> QED BY <2>1 DEF SavedInv, ExportedText
<1>9. CASE LevelsEnd
  BY <1>9 DEF LevelsEnd, SavedInv, ExportedText
<1>10. CASE LoadServer
  <2>1. /\ UNCHANGED <<file, saved, array, index>> /\ pc = "server"
        /\ pc' = "idle" /\ outcome' \in {"loaded", "failed"}
    BY <1>10 DEF LoadServer, Fails, Ends
  <2> QED BY <2>1 DEF SavedInv, ExportedText
<1>11. CASE UNCHANGED vars
  BY <1>11 DEF vars, loadVars, SavedInv, ExportedText
<1> QED BY <1>1, <1>2, <1>3, <1>4, <1>5, <1>6, <1>7, <1>8, <1>9, <1>10, <1>11 DEF Next

\* What the application exported and the part of it in the file stay related, in every
\* reachable state.
LEMMA SavedInvariant == Spec => [](ListInv /\ ReaderInv /\ SavedInv)
<1>1. Init => ListInv /\ ReaderInv /\ SavedInv
  <2>1. Init => ListInv
    BY DEF Init, ListInit, ListInv, NodesWhole
  <2>2. Init => ReaderInv
    BY NoLevels, SetsLoaded, ApplicationAssumption DEF Init, ListInit, ReaderInv, TypeOK
  <2> QED BY <2>1, <2>2 DEF Init, SavedInv
<1>2. ListInv /\ ReaderInv /\ SavedInv /\ [Next]_vars => (ListInv /\ ReaderInv /\ SavedInv)'
  BY ListStep, ReaderStep, SavedStep
<1> QED BY <1>1, <1>2, PTL DEF Spec

-----------------------------------------------------------------------------
(* Damage is in the last level.                                            *)

\* An object that is read, and the level that is made of it.
LEMMA LevelOfObject ==
  ASSUME NEW lv, PlainLevels(lv), NEW text, NEW c, CutOf(text, Array(Objects(lv)), c),
         NEW i \in Nat, NEW j, j = i + 1, NEW object,
         object = cclog_json_get_object_from_array(text, i), object \notin {Missing, <<>>},
         object \in Text, rv \in Params, LastParam(object) # Missing,
         OptionalParam(FormatParam(object))
  PROVE  /\ i < Len(lv)
         /\ \A n \in 1 .. 3: ReadLevel(object).required[n] = lv[j].required[n]
         /\ object = LevelText(lv[j]) => ReadLevel(object) = lv[j]
         /\ \A m \in 0 .. i - 1:
              cclog_json_get_object_from_array(text, m) = Objects(lv)[m + 1]
<1> DEFINE f == Array(Objects(lv))
           o == Objects(lv)
<1>1. PICK e: ArrayEnds(f, o, e)
  BY ArrayOfLevels
<1>2. /\ Len(lv) \in Nat /\ Len(o) = Len(lv)
      /\ \A k \in 1 .. Len(lv): o[k] = LevelText(lv[k])
  BY ArrayOfLevels
<1> HIDE DEF f, o
<1>3. CutOf(text, f, c)
  BY DEF f
<1>4. /\ i < Len(o)
      /\ object = o[i + 1] \/ \E d: Copies(object, o[i + 1], d)
      /\ \A m \in 0 .. i - 1: cclog_json_get_object_from_array(text, m) = o[m + 1]
  BY <1>1, <1>3, CutObjects
<1>5. j \in 1 .. Len(lv) /\ i < Len(lv)
  BY <1>2, <1>4
<1>6. o[j] = LevelText(lv[j]) /\ PlainLevel(lv[j])
  BY <1>2, <1>5 DEF PlainLevels
<1>7. object = LevelText(lv[j]) => ReadLevel(object) = lv[j]
  BY <1>6, WholeLevel
<1>8. \A n \in 1 .. 3: ReadLevel(object).required[n] = lv[j].required[n]
  BY <1>4, <1>6, <1>7, CutLevel
<1> QED BY <1>4, <1>5, <1>7, <1>8 DEF o

\* The levels that were read are the first that were saved, up to the last.
LevelsRead ==
  /\ index = Len(levels) /\ index <= Len(saved.levels)
  /\ \A k \in 1 .. index: \A n \in 1 .. 3: levels[k].required[n] = saved.levels[k].required[n]
  /\ \A k \in 1 .. index: k < index => levels[k] = saved.levels[k]

\* A level whose object is whole is the one that was saved.
ObjectsRead ==
  /\ \E c: CutOf(array, SavedArray, c)
  /\ \A k \in 1 .. index:
       cclog_json_get_object_from_array(array, k - 1) = LevelText(saved.levels[k])
         => levels[k] = saved.levels[k]

\* Inductive for DamageIsLast: what LoadLevel has read of an array that may be cut.
DamageInv ==
  array # Null /\ Plain(saved) => LevelsRead /\ (pc = "levels" => ObjectsRead)

\* What LoadLevel does: the load fails, or has one level more.
LEMMA LoadLevelCases ==
  ASSUME LoadLevel
  PROVE  LET object == cclog_json_get_object_from_array(array, index)
         IN /\ pc = "levels" /\ object \notin {Missing, <<>>} /\ UNCHANGED <<config, file, saved, array>>
            /\ \/ /\ UNCHANGED <<listVars, index>>
                  /\ \/ pc' = "idle" /\ outcome' = "failed"
                     \/ pc' = "double_free" /\ UNCHANGED outcome
                  /\ \/ LastParam(object) = Missing
                     \/ ~OptionalParam(FormatParam(object))
                     \/ ~OptionalParam(CallbackParam(object))
               \/ /\ LastParam(object) # Missing /\ OptionalParam(FormatParam(object))
                  /\ AddLevel(ReadLevel(object)) /\ index' = index + 1
                  /\ UNCHANGED <<pc, outcome>>
BY DEF LoadLevel, LevelFails, Fails, Ends, LastParam, FormatParam, CallbackParam, OptionalParam,
       ReadLevel

\* A level that is added differs from the one that was saved, if it does, in what
\* was cut.
LEMMA DamageAddStep ==
  ASSUME SavedInv, ReaderInv, ListInv, LevelsRead, ObjectsRead, Plain(saved), pc = "levels",
         NEW object, object = cclog_json_get_object_from_array(array, index),
         object \notin {Missing, <<>>}, LastParam(object) # Missing,
         OptionalParam(FormatParam(object)), AddLevel(ReadLevel(object)), index' = index + 1,
         UNCHANGED <<saved, array>>
  PROVE  LevelsRead' /\ ObjectsRead'
<1>1. PICK N \in Nat: N = Len(saved.levels) /\ saved.levels \in Seq(Level)
  BY DEF SavedInv
<1>2. PICK i \in Nat: i = index
  BY DEF ReaderInv, TypeOK
<1>3. PICK j \in Nat: j = i + 1 /\ j = index'
  BY <1>2
<1>4. PICK c: CutOf(array, SavedArray, c)
  BY DEF ObjectsRead
<1> DEFINE lv == saved.levels
           level == ReadLevel(object)
<1>5. PlainLevels(lv)
  BY SavedIsPlain DEF SavedInv, PlainExport
<1>6. /\ i < Len(lv)
      /\ \A n \in 1 .. 3: level.required[n] = lv[j].required[n]
      /\ object = LevelText(lv[j]) => level = lv[j]
      /\ \A m \in 0 .. i - 1: cclog_json_get_object_from_array(array, m) = Objects(lv)[m + 1]
  <2>1. object \in Text /\ rv \in Params
    BY <1>2, ObjectTyped DEF ReaderInv
  <2>2. CutOf(array, Array(Objects(lv)), c)
    BY <1>4 DEF SavedArray
  <2> HIDE DEF lv, level
  <2> QED BY <1>2, <1>3, <1>5, <2>1, <2>2, LevelOfObject DEF level
<1> HIDE DEF level
<1>7. /\ levels' = Append(levels, level) /\ Len(levels) = i
      /\ levels \in Seq(LevelOf(Text))
  BY <1>2, AddLevelStep DEF LevelsRead, ReaderInv, TypeOK, level
<1>8. /\ Len(levels') = j /\ levels'[j] = level
      /\ \A k \in 1 .. i: levels'[k] = levels[k]
  <2> DEFINE L == levels
             T == {L[k] : k \in DOMAIN L} \cup {level}
  <2>1. L \in Seq(T) /\ level \in T /\ Len(L) = i
    BY <1>7
  <2> HIDE DEF L, T
  <2>2. /\ Len(Append(L, level)) = i + 1 /\ Append(L, level)[i + 1] = level
        /\ \A k \in 1 .. i: Append(L, level)[k] = L[k]
    BY <2>1
  <2> QED BY <1>3, <1>7, <2>2 DEF L
<1>9. \A k \in 1 .. j: k \in 1 .. i \/ k = j
  BY <1>3
<1>10. \A k \in 1 .. i: levels[k] = lv[k]
  <2> TAKE k \in 1 .. i
  <2>1. k - 1 \in 0 .. i - 1 /\ (k - 1) + 1 = k
    OBVIOUS
  <2>2. cclog_json_get_object_from_array(array, k - 1) = Objects(lv)[k]
    BY <1>6, <2>1
  <2>3. k \in DOMAIN lv
    BY <1>1, <1>6
  <2>4. Objects(lv)[k] = LevelText(lv[k])
    BY <2>3 DEF Objects
  <2> QED BY <1>2, <2>2, <2>4 DEF ObjectsRead
<1>11. \A k \in 1 .. j: \A n \in 1 .. 3: levels'[k].required[n] = lv[k].required[n]
  <2>1. \A k \in 1 .. i: \A n \in 1 .. 3: levels'[k].required[n] = lv[k].required[n]
    BY <1>8, <1>10
  <2>2. \A n \in 1 .. 3: levels'[j].required[n] = lv[j].required[n]
    BY <1>6, <1>8
  <2> QED BY <1>9, <2>1, <2>2
<1>12. \A k \in 1 .. j: k < j => levels'[k] = lv[k]
  <2>1. \A k \in 1 .. j: k < j => k \in 1 .. i
    BY <1>3
  <2> QED BY <1>8, <1>10, <2>1
<1>13. \A k \in 1 .. j: cclog_json_get_object_from_array(array, k - 1) = LevelText(lv[k])
                         => levels'[k] = lv[k]
  <2>1. j - 1 = i
    BY <1>3
  <2>2. cclog_json_get_object_from_array(array, j - 1) = object
    BY <1>2, <2>1
  <2> QED BY <1>6, <1>8, <1>9, <1>10, <2>2
<1>14. j <= Len(lv)
  BY <1>1, <1>3, <1>6
<1>15. saved' = saved /\ array' = array /\ index' = j
  BY <1>3
<1>16. LevelsRead'
  BY <1>8, <1>11, <1>12, <1>14, <1>15 DEF LevelsRead
<1>17. ObjectsRead'
  BY <1>4, <1>13, <1>15 DEF ObjectsRead, SavedArray
<1> QED BY <1>16, <1>17

\* Steps that leave the levels and their array alone.
LEMMA DamageStays ==
  ASSUME DamageInv, ListInv, UNCHANGED <<listVars, saved, array, index>>,
         pc' = "levels" => pc = "levels"
  PROVE  DamageInv'
<1>1. levels' = levels
  BY ListStays
<1> QED BY <1>1 DEF DamageInv, LevelsRead, ObjectsRead, SavedArray

\* Every step keeps the damage in the last level.
LEMMA DamageStep ==
  ASSUME SavedInv, ReaderInv, ListInv, DamageInv, [Next]_vars PROVE DamageInv'
\* No array is there before the levels are read.
<1>1. CASE AppAddsLevel
  BY <1>1 DEF AppAddsLevel, loadVars, SavedInv, DamageInv
<1>2. CASE cclogger_export_config_json
  BY <1>2 DEF cclogger_export_config_json, loadVars, SavedInv, DamageInv
<1>3. CASE Restart
  BY <1>3 DEF Restart, SavedInv, DamageInv
<1>4. CASE BeginLoad
  BY <1>4 DEF BeginLoad, SavedInv, DamageInv
<1>5. CASE LoadFormat \/ LoadVerbosity
  BY <1>5 DEF LoadFormat, LoadVerbosity, SavedInv, DamageInv
<1>6. CASE LoadArray
  <2> DEFINE copy == cclog_json_get_array(file, "log_levels")
  <2>1. /\ UNCHANGED <<file, saved, index>> /\ array = Null /\ index = 0 /\ file # Null
        /\ \/ array' = array
           \/ copy # Missing /\ array' = copy /\ cclogger_reset_log_levels
    BY <1>6 DEF LoadArray, SavedInv
  <2>2. CASE array' = array
    BY <2>1, <2>2 DEF DamageInv
  <2>3. CASE copy # Missing /\ array' = copy /\ cclogger_reset_log_levels
    <3> SUFFICES ASSUME Plain(saved) PROVE LevelsRead' /\ ObjectsRead'
      BY <2>1 DEF DamageInv
    <3>1. levels' = <<>> /\ index' = 0 /\ saved' = saved
      BY <2>1, <2>3, ResetStep
    <3>2. Len(saved.levels) \in Nat
      BY <2>1 DEF SavedInv
    <3>3. \E c: CutOf(copy, SavedArray, c)
      <4>1. /\ PlainExport(saved.options, saved.levels)
            /\ PartOf(file, Object(ExportMembersOf(saved.options, saved.levels)))
        BY <2>1, FilePart
      <4> QED BY <2>3, <4>1, FileCut DEF SavedArray
    <3> HIDE DEF copy
    <3>4. SavedArray' = SavedArray
      BY <3>1 DEF SavedArray
    <3>5. \E c: CutOf(array', SavedArray', c)
      BY <2>3, <3>3, <3>4
    <3>6. ObjectsRead'
      BY <3>1, <3>5 DEF ObjectsRead
    <3>7. LevelsRead'
      BY <3>1, <3>2 DEF LevelsRead
    <3> QED BY <3>6, <3>7
  <2> QED BY <2>1, <2>2, <2>3
<1>7. CASE LoadLevel
  <2> DEFINE object == cclog_json_get_object_from_array(array, index)
  <2>1. /\ pc = "levels" /\ object \notin {Missing, <<>>} /\ UNCHANGED <<config, file, saved, array>>
        /\ \/ UNCHANGED <<listVars, index>> /\ pc' # "levels"
           \/ /\ LastParam(object) # Missing /\ OptionalParam(FormatParam(object))
              /\ AddLevel(ReadLevel(object)) /\ index' = index + 1
    BY <1>7, LoadLevelCases
  <2> HIDE DEF object
  <2>2. CASE UNCHANGED <<listVars, index>> /\ pc' # "levels"
    BY <2>1, <2>2, DamageStays
  <2>3. CASE /\ LastParam(object) # Missing /\ OptionalParam(FormatParam(object))
             /\ AddLevel(ReadLevel(object)) /\ index' = index + 1
    <3> SUFFICES ASSUME array # Null, Plain(saved) PROVE LevelsRead' /\ ObjectsRead'
      BY <2>1 DEF DamageInv
    <3>1. LevelsRead /\ ObjectsRead
      BY <2>1 DEF DamageInv
    <3> QED BY <2>1, <2>3, <3>1, DamageAddStep DEF object
  <2> QED BY <2>1, <2>2, <2>3
<1>8. CASE LevelsEnd
  BY <1>8, DamageStays DEF LevelsEnd
<1>9. CASE LoadServer
  BY <1>9, DamageStays DEF LoadServer, Fails, Ends
<1>10. CASE UNCHANGED vars
  BY <1>10, DamageStays DEF vars, loadVars
<1> QED BY <1>1, <1>2, <1>3, <1>4, <1>5, <1>6, <1>7, <1>8, <1>9, <1>10 DEF Next

\* A load of a file that is cut anywhere gives the first levels that were exported,
\* of which only the last may differ, and its first three parameters may not.
THEOREM DamageIsTheLast == Spec => []DamageIsLast
<1>1. Init => DamageInv
  BY DEF Init, DamageInv
<1>2. ListInv /\ ReaderInv /\ SavedInv /\ DamageInv /\ [Next]_vars => DamageInv'
  BY DamageStep
<1>3. ReaderInv /\ SavedInv /\ DamageInv => DamageIsLast
  <2> SUFFICES ASSUME ReaderInv, SavedInv, DamageInv, array # Null, Plain(saved), NEW k \in DOMAIN levels
               PROVE  /\ k \in DOMAIN saved.levels
                      /\ \A n \in 1 .. 3: levels[k].required[n] = saved.levels[k].required[n]
                      /\ k < Len(levels) => levels[k] = saved.levels[k]
    BY DEF DamageIsLast
  <2>1. levels \in Seq(LevelOf(Text)) /\ LevelsRead /\ saved.levels \in Seq(Level)
    BY DEF ReaderInv, TypeOK, DamageInv, SavedInv
  <2>2. PICK N \in Nat, M \in Nat: /\ N = Len(levels) /\ M = Len(saved.levels)
                                   /\ DOMAIN levels = 1 .. N /\ DOMAIN saved.levels = 1 .. M
    BY <2>1
  <2>3. N <= M /\ index = N
    BY <2>1, <2>2 DEF LevelsRead
  <2>4. k \in 1 .. N /\ k \in 1 .. M
    BY <2>2, <2>3
  <2> QED BY <2>1, <2>2, <2>3, <2>4 DEF LevelsRead
<1> QED BY <1>1, <1>2, <1>3, SavedInvariant, PTL DEF Spec

-----------------------------------------------------------------------------
(* A file that is whole gives all back.                                    *)

\* What RoundTrip asks of the levels and the options.
Readable ==
  /\ Plain(saved) /\ \A string \in Strings(saved): string # <<>>
  /\ Len(SavedArray) <= Capacity

\* Inductive for RoundTrip: each part of a readable file is given back once its step is done.
RoundInv ==
  file # Null /\ file = ExportedText /\ Readable =>
    /\ pc \in {"verbosity", "array", "levels", "server"} \/ outcome # "none" =>
         config.format = saved.options.format
    /\ pc \in {"array", "levels", "server"} \/ outcome # "none" =>
         config.verbosity = saved.options.verbosity
    /\ pc = "levels" => array = SavedArray
    /\ pc = "server" \/ outcome # "none" => levels = saved.levels
    /\ outcome = "loaded" /\ saved.options.port # Null => config.port = saved.options.port
    /\ outcome = "failed" => saved.options.port # Null

\* The objects of an array that is whole are those of its levels, and no more.
LEMMA WholeArray ==
  ASSUME NEW lv, PlainLevels(lv), NEW i \in Nat, NEW j, j = i + 1, NEW object,
         object = cclog_json_get_object_from_array(Array(Objects(lv)), i)
  PROVE  /\ i < Len(lv) => object = LevelText(lv[j]) /\ object \notin {Missing, <<>>}
         /\ object \notin {Missing, <<>>} => i < Len(lv)
<1> DEFINE f == Array(Objects(lv))
           o == Objects(lv)
<1>1. PICK e: ArrayEnds(f, o, e)
  BY ArrayOfLevels
<1>2. /\ Len(lv) \in Nat /\ Len(o) = Len(lv) /\ Framed(f, BracketOpen, BracketClose)
      /\ \A k \in 1 .. Len(lv): o[k] = LevelText(lv[k])
  BY ArrayOfLevels
<1>3. object = cclog_json_get_object_from_array(f, i)
  OBVIOUS
<1> HIDE DEF f, o
<1>4. PICK l \in Nat, c \in Nat: l = Len(f) /\ c = l - 1 /\ c + 1 = l /\ c >= 1
  <2>1. Len(f) \in Nat /\ Len(f) >= 3
    BY <1>2 DEF Framed
  <2> PICK l \in Nat: l = Len(f)
    BY <2>1
  <2>2. l - 1 \in Nat /\ (l - 1) + 1 = l /\ l - 1 >= 1
    BY <2>1
  <2> QED BY <2>2
<1>5. CutOf(f, f, c)
  <2>1. f \in Seq(Symbols) /\ f[c + 1] = BracketClose /\ Len(f) = c + 1
    BY <1>2, <1>4 DEF Framed
  <2>2. c \in 1 .. Len(f) - 1
    BY <1>4
  <2> QED BY <2>1, <2>2 DEF CutOf
<1>6. CutOf(f, f, Len(f) - 1)
  BY <1>4, <1>5
<1>7. ASSUME i < Len(lv) PROVE object = LevelText(lv[j]) /\ object \notin {Missing, <<>>}
  <2>1. cclog_json_get_object_from_array(f, i) = o[i + 1]
    BY <1>1, <1>2, <1>6, <1>7, WholeObjects
  <2>2. j \in 1 .. Len(lv)
    BY <1>2, <1>7
  <2>3. object = LevelText(lv[j])
    BY <1>2, <1>3, <2>1, <2>2
  <2>4. Framed(LevelText(lv[j]), BraceOpen, BraceClose)
    BY <2>2, LevelFramed DEF PlainLevels
  <2>5. object \in Seq(Symbols) /\ Len(object) >= 3
    BY <2>3, <2>4 DEF Framed
  <2>6. object # Missing
    BY <2>5, ReaderAssumption
  <2>7. object # <<>>
    BY <2>5
  <2> QED BY <2>3, <2>6, <2>7
<1>8. ASSUME object \notin {Missing, <<>>} PROVE i < Len(lv)
  BY <1>1, <1>2, <1>3, <1>5, <1>8, CutObjects
<1> QED BY <1>7, <1>8

\* An object of a readable file gives its level.
LEMMA ReadableLevel ==
  ASSUME SavedInv, ReaderInv, Readable, pc = "levels", array = SavedArray,
         NEW object, object = cclog_json_get_object_from_array(array, index),
         object \notin {Missing, <<>>}
  PROVE  /\ LastParam(object) # Missing /\ OptionalParam(FormatParam(object))
         /\ OptionalParam(CallbackParam(object))
<1> DEFINE lv == saved.levels
<1>1. PlainLevels(lv) /\ Len(lv) \in Nat
  BY SavedIsPlain DEF SavedInv, PlainExport, Readable
<1>2. PICK i \in Nat, j \in Nat: i = index /\ j = i + 1
  <2>1. index \in Nat /\ index + 1 \in Nat
    BY DEF ReaderInv, TypeOK
  <2> QED BY <2>1
<1>3. object = cclog_json_get_object_from_array(Array(Objects(lv)), i)
  BY <1>2 DEF SavedArray
<1> HIDE DEF lv
<1>4. object = LevelText(lv[j]) /\ i < Len(lv)
  BY <1>1, <1>2, <1>3, WholeArray
<1>5. j \in 1 .. Len(lv)
  BY <1>1, <1>2, <1>4
<1>6. PlainLevel(lv[j])
  BY <1>1, <1>5 DEF PlainLevels
<1>7. lv[j].msg_format # <<>>
  <2>1. lv[j].msg_format # Null => lv[j].msg_format \in Strings(saved)
    <3>1. j \in DOMAIN saved.levels
      BY <1>1, <1>5 DEF lv, SavedInv
    <3> QED BY <3>1 DEF lv, Strings
  <2>2. <<>> \in String
    BY DEF String
  <2> QED BY <2>1, <2>2, NullIsNoString DEF Readable
<1>8. object \in Text /\ rv \in Params
  BY <1>2, ObjectTyped DEF ReaderInv
<1> QED BY <1>4, <1>6, <1>7, <1>8, WholeLevel

\* At the end of a readable array all levels are read.
LEMMA ReadableEnd ==
  ASSUME SavedInv, ReaderInv, DamageInv, Readable, pc = "levels", array = SavedArray,
         cclog_json_get_object_from_array(array, index) \in {Missing, <<>>}
  PROVE  levels = saved.levels
<1> DEFINE lv == saved.levels
<1>1. PlainLevels(lv) /\ lv \in Seq(Level) /\ levels \in Seq(LevelOf(Text))
  BY SavedIsPlain DEF SavedInv, PlainExport, Readable, ReaderInv, TypeOK
<1>2. PICK i \in Nat, N \in Nat: i = index /\ N = Len(lv)
  <2>1. index \in Nat
    BY DEF ReaderInv, TypeOK
  <2>2. Len(lv) \in Nat
    BY <1>1
  <2> QED BY <2>1, <2>2
<1>3. LevelsRead /\ ObjectsRead
  BY DEF DamageInv, SavedInv, Readable
<1>4. i = Len(levels) /\ i <= N
  BY <1>2, <1>3 DEF LevelsRead
<1>5. \A k \in Nat: \A j: j = k + 1 /\ k < N =>
        /\ cclog_json_get_object_from_array(array, k) = LevelText(lv[j])
        /\ cclog_json_get_object_from_array(array, k) \notin {Missing, <<>>}
  <2> TAKE k \in Nat
  <2> TAKE j
  <2> HAVE j = k + 1 /\ k < N
  <2> DEFINE object == cclog_json_get_object_from_array(array, k)
  <2>1. object = cclog_json_get_object_from_array(Array(Objects(lv)), k)
    BY DEF SavedArray
  <2> HIDE DEF object, lv
  <2>2. object = LevelText(lv[j]) /\ object \notin {Missing, <<>>}
    BY <1>1, <1>2, <2>1, WholeArray
  <2> QED BY <2>2 DEF object
<1>6. i = N
  <2>1. ~(i < N)
    BY <1>2, <1>5
  <2> QED BY <1>4, <2>1
<1>7. \A k \in 1 .. N: levels[k] = lv[k]
  <2> TAKE k \in 1 .. N
  <2>1. k - 1 \in Nat /\ k = (k - 1) + 1 /\ k - 1 < N
    OBVIOUS
  <2>2. cclog_json_get_object_from_array(array, k - 1) = LevelText(lv[k])
    BY <1>5, <2>1
  <2> QED BY <1>2, <1>3, <1>6, <2>2 DEF ObjectsRead
<1> DEFINE L == levels
<1> HIDE DEF L, lv
<1>8. L = lv
  <2>1. /\ L \in Seq(LevelOf(Text)) /\ lv \in Seq(LevelOf(Text))
        /\ Len(L) = Len(lv) /\ \A k \in 1 .. Len(lv): L[k] = lv[k]
    BY <1>1, <1>2, <1>4, <1>6, <1>7, SetsLoaded DEF L
  <2> QED BY <2>1
<1> QED BY <1>8 DEF L, lv

\* The options that are read of a readable file.
LEMMA ReadableFile ==
  ASSUME SavedInv, file # Null, file = ExportedText, Readable
  PROVE  /\ \A before: cclog_json_get_param(file, "def_msg_format", before)
                         = Param("string", saved.options.format)
         /\ \A before: cclog_json_get_param(file, "logger_verbosity", before)
                         = Param("number", saved.options.verbosity)
         /\ cclog_json_get_array(file, "log_levels") = SavedArray
         /\ saved.options.port # Null =>
              /\ cclog_json_get_object(file, "server") # Missing
              /\ \A before:
                   cclog_json_get_param(cclog_json_get_object(file, "server"), "port", before)
                     = Param("number", saved.options.port)
         /\ saved.options.port = Null => cclog_json_get_object(file, "server") = Missing
         /\ saved.options.format \in String
<1>1. /\ PlainExport(saved.options, saved.levels)
      /\ PartOf(file, Object(ExportMembersOf(saved.options, saved.levels)))
      /\ Len(Object(ExportMembersOf(saved.options, saved.levels))) <= Len(file)
  BY FilePart DEF Readable
<1>2. saved.options.format \in String /\ saved.options.port \in Numbers \cup {Null}
  BY DEF SavedInv, Options, OptionsOf
<1>3. saved.options.format # <<>>
  <2>1. saved.options.format \in Strings(saved)
    BY <1>2, NullIsNoString DEF Strings
  <2> QED BY <2>1 DEF Readable
<1>4. Len(Array(Objects(saved.levels))) <= Capacity
  BY DEF Readable, SavedArray
<1>5. /\ \A before: cclog_json_get_param(file, "def_msg_format", before)
                      = Param("string", saved.options.format)
      /\ \A before: cclog_json_get_param(file, "logger_verbosity", before)
                      = Param("number", saved.options.verbosity)
      /\ cclog_json_get_array(file, "log_levels") = SavedArray
      /\ saved.options.port # Null =>
           cclog_json_get_object(file, "server") = ServerObject(saved.options)
  BY <1>1, <1>3, <1>4, FileRead DEF SavedArray
<1>6. ASSUME saved.options.port # Null
      PROVE  /\ cclog_json_get_object(file, "server") # Missing
             /\ \A before:
                  cclog_json_get_param(cclog_json_get_object(file, "server"), "port", before)
                    = Param("number", saved.options.port)
  <2>1. saved.options.port \in Numbers
    BY <1>2, <1>6
  <2>2. /\ ServerObject(saved.options) \in Seq(Symbols)
        /\ \A before: cclog_json_get_param(ServerObject(saved.options), "port", before)
                        = Param("number", saved.options.port)
    BY <2>1, ServerRead
  <2> QED BY <1>5, <1>6, <2>2, ReaderAssumption
<1>7. saved.options.port = Null => cclog_json_get_object(file, "server") = Missing
  <2>1. ExportedText = Document(saved.options, saved.levels)
    BY PlainIsWhole DEF ExportedText, SavedInv, Readable
  <2> QED BY <1>1, <2>1, NoServer
<1> QED BY <1>2, <1>5, <1>6, <1>7

\* Steps of the load that read the options.
LEMMA RoundFormatStep ==
  ASSUME SavedInv, ReaderInv, ListInv, LoadFormat PROVE RoundInv'
<1> SUFFICES ASSUME file' # Null, file' = ExportedText', Readable' PROVE RoundInv'
  BY DEF RoundInv
<1>1. UNCHANGED <<file, saved>> /\ pc = "format" /\ outcome = "none"
  BY DEF LoadFormat, SavedInv
<1>2. file # Null /\ file = ExportedText /\ Readable
  BY <1>1 DEF ExportedText, Readable, SavedArray
<1> DEFINE param == cclog_json_get_param(file, "def_msg_format", rv)
<1>3. param = Param("string", saved.options.format) /\ saved.options.format \in String
  BY <1>2, ReadableFile
<1>4. param # Missing /\ param.type = "string" /\ param.value = saved.options.format
  <2>1. Param("string", saved.options.format) \in Params
    BY <1>3, NullIsNoString DEF Param, Params
  <2> QED BY <1>3, <2>1, ReaderAssumption DEF Param
<1>5. /\ config' = [config EXCEPT !.format = param.value]
      /\ pc' = "verbosity" /\ outcome' = outcome
  BY <1>3, <1>4, NullIsNoString DEF LoadFormat
<1> HIDE DEF param
<1>6. config'.format = saved.options.format
  BY <1>4, <1>5 DEF ReaderInv, TypeOK, OptionsOf
<1> QED BY <1>1, <1>5, <1>6 DEF RoundInv

\* The verbosity that is read of a readable file is the one that was exported.
LEMMA RoundVerbosityStep ==
  ASSUME SavedInv, ReaderInv, ListInv, RoundInv, LoadVerbosity PROVE RoundInv'
<1> SUFFICES ASSUME file' # Null, file' = ExportedText', Readable' PROVE RoundInv'
  BY DEF RoundInv
<1>1. UNCHANGED <<file, saved>> /\ pc = "verbosity" /\ outcome = "none"
  BY DEF LoadVerbosity, SavedInv
<1>2. file # Null /\ file = ExportedText /\ Readable
  BY <1>1 DEF ExportedText, Readable, SavedArray
<1> DEFINE param == cclog_json_get_param(file, "logger_verbosity", rv)
<1>3. param = Param("number", saved.options.verbosity) /\ saved.options.verbosity \in Numbers
  BY <1>2, ReadableFile DEF SavedInv, Options, OptionsOf
<1>4. param # Missing /\ param.type = "number" /\ param.value = saved.options.verbosity
  <2>1. Param("number", saved.options.verbosity) \in Params
    BY <1>3 DEF Param, Params
  <2> QED BY <1>3, <2>1, ReaderAssumption DEF Param
<1>5. /\ config' = [config EXCEPT !.verbosity = param.value]
      /\ pc' = "array" /\ outcome' = outcome
  BY <1>4 DEF LoadVerbosity
<1> HIDE DEF param
<1>6. config'.verbosity = saved.options.verbosity /\ config'.format = config.format
  BY <1>4, <1>5 DEF ReaderInv, TypeOK, OptionsOf
<1>7. config.format = saved.options.format
  BY <1>1, <1>2 DEF RoundInv
<1> QED BY <1>1, <1>5, <1>6, <1>7 DEF RoundInv

\* The array that is copied from a readable file is the whole array of the levels.
LEMMA RoundArrayStep ==
  ASSUME SavedInv, ReaderInv, ListInv, RoundInv, LoadArray PROVE RoundInv'
<1> SUFFICES ASSUME file' # Null, file' = ExportedText', Readable' PROVE RoundInv'
  BY DEF RoundInv
<1>1. UNCHANGED <<config, file, saved>> /\ pc = "array" /\ outcome = "none"
  BY DEF LoadArray, SavedInv
<1>2. file # Null /\ file = ExportedText /\ Readable
  BY <1>1 DEF ExportedText, Readable, SavedArray
<1> DEFINE copy == cclog_json_get_array(file, "log_levels")
<1>3. copy = SavedArray
  BY <1>2, ReadableFile
<1>4. copy # Missing
  <2>1. PlainLevels(saved.levels)
    BY <1>2, SavedIsPlain DEF SavedInv, PlainExport, Readable
  <2>2. Array(Objects(saved.levels)) \in Seq(Symbols)
    BY <2>1, ArrayOfLevels DEF Framed
  <2> QED BY <1>3, <2>2, ReaderAssumption DEF SavedArray
<1>5. array' = copy /\ pc' = "levels" /\ outcome' = outcome
  BY <1>4 DEF LoadArray
<1> HIDE DEF copy
<1>6. SavedArray' = SavedArray
  BY <1>1 DEF SavedArray
<1>7. config.format = saved.options.format /\ config.verbosity = saved.options.verbosity
  BY <1>1, <1>2 DEF RoundInv
<1> QED BY <1>1, <1>3, <1>5, <1>6, <1>7 DEF RoundInv

\* No level of a readable file fails.
LEMMA RoundLevelStep ==
  ASSUME SavedInv, ReaderInv, ListInv, RoundInv, LoadLevel PROVE RoundInv'
<1> SUFFICES ASSUME file' # Null, file' = ExportedText', Readable' PROVE RoundInv'
  BY DEF RoundInv
<1> DEFINE object == cclog_json_get_object_from_array(array, index)
<1>1. /\ pc = "levels" /\ object \notin {Missing, <<>>} /\ UNCHANGED <<config, file, saved, array>>
      /\ \/ LastParam(object) = Missing
         \/ ~OptionalParam(FormatParam(object))
         \/ ~OptionalParam(CallbackParam(object))
         \/ UNCHANGED <<pc, outcome>>
  BY LoadLevelCases
<1> HIDE DEF object
<1>2. file # Null /\ file = ExportedText /\ Readable /\ outcome = "none"
  BY <1>1 DEF ExportedText, Readable, SavedArray, SavedInv
<1>3. array = SavedArray
  BY <1>1, <1>2 DEF RoundInv
<1>4. UNCHANGED <<pc, outcome>>
  BY <1>1, <1>2, <1>3, ReadableLevel DEF object
<1>5. SavedArray' = SavedArray
  BY <1>1 DEF SavedArray
<1>6. config.format = saved.options.format /\ config.verbosity = saved.options.verbosity
  BY <1>1, <1>2 DEF RoundInv
<1> QED BY <1>1, <1>2, <1>3, <1>4, <1>5, <1>6 DEF RoundInv

\* The levels end when all that were exported are back.
LEMMA RoundEndStep ==
  ASSUME SavedInv, ReaderInv, ListInv, DamageInv, RoundInv, LevelsEnd PROVE RoundInv'
<1> SUFFICES ASSUME file' # Null, file' = ExportedText', Readable' PROVE RoundInv'
  BY DEF RoundInv
<1>1. /\ UNCHANGED <<listVars, config, file, saved, array, outcome>> /\ pc = "levels" /\ pc' = "server"
      /\ cclog_json_get_object_from_array(array, index) \in {Missing, <<>>} /\ outcome = "none"
  BY DEF LevelsEnd, SavedInv
<1>2. file # Null /\ file = ExportedText /\ Readable
  BY <1>1 DEF ExportedText, Readable, SavedArray
<1>3. array = SavedArray
  BY <1>1, <1>2 DEF RoundInv
<1>4. levels = saved.levels
  BY <1>1, <1>2, <1>3, ReadableEnd
<1>5. levels' = levels
  BY <1>1, ListStays
<1>6. config.format = saved.options.format /\ config.verbosity = saved.options.verbosity
  BY <1>1, <1>2 DEF RoundInv
<1> QED BY <1>1, <1>4, <1>5, <1>6 DEF RoundInv

\* A server is read with its port, and none is found where there is none.
LEMMA RoundServerStep ==
  ASSUME SavedInv, ReaderInv, ListInv, RoundInv, LoadServer PROVE RoundInv'
<1> SUFFICES ASSUME file' # Null, file' = ExportedText', Readable' PROVE RoundInv'
  BY DEF RoundInv
<1> DEFINE server == cclog_json_get_object(file, "server")
           port == cclog_json_get_param(server, "port", rv)
<1>1. /\ UNCHANGED <<listVars, file, saved, array>> /\ pc = "server" /\ pc' = "idle"
      /\ \/ server = Missing /\ outcome' = "loaded" /\ UNCHANGED config
         \/ server # Missing /\ outcome' = "failed" /\ UNCHANGED config
         \/ /\ server # Missing /\ outcome' = "loaded"
            /\ config' = [config EXCEPT !.port = port.value]
  BY DEF LoadServer, Fails, Ends
<1>2. file # Null /\ file = ExportedText /\ Readable
  BY <1>1 DEF ExportedText, Readable, SavedArray, SavedInv
<1>3. /\ saved.options.port # Null => server # Missing /\ port = Param("number", saved.options.port)
      /\ saved.options.port = Null => server = Missing
  BY <1>2, ReadableFile
<1> HIDE DEF port, server
<1>4. /\ config.format = saved.options.format /\ config.verbosity = saved.options.verbosity
      /\ levels = saved.levels
  BY <1>1, <1>2 DEF RoundInv
<1>5. levels' = levels
  BY <1>1, ListStays
<1>6. config'.format = config.format /\ config'.verbosity = config.verbosity
  BY <1>1 DEF ReaderInv, TypeOK, OptionsOf
<1>7. outcome' = "loaded" /\ saved.options.port # Null => config'.port = saved.options.port
  <2> SUFFICES ASSUME outcome' = "loaded", saved.options.port # Null
               PROVE  config'.port = saved.options.port
    OBVIOUS
  <2>1. config' = [config EXCEPT !.port = port.value] /\ port.value = saved.options.port
    BY <1>1, <1>3 DEF Param
  <2> QED BY <2>1 DEF ReaderInv, TypeOK, OptionsOf
<1>8. outcome' = "failed" => saved.options.port # Null
  BY <1>1, <1>3
<1> QED BY <1>1, <1>4, <1>5, <1>6, <1>7, <1>8 DEF RoundInv

\* Every step keeps what was read of a readable file.
LEMMA RoundStep ==
  ASSUME SavedInv, ReaderInv, ListInv, DamageInv, RoundInv, [Next]_vars PROVE RoundInv'
<1>1. CASE AppAddsLevel
  BY <1>1 DEF AppAddsLevel, RoundInv
<1>2. CASE cclogger_export_config_json
  <2>1. pc' \in {"idle", "overrun"} /\ outcome' = "none"
    BY <1>2 DEF cclogger_export_config_json, loadVars, SavedInv
  <2> QED BY <2>1 DEF RoundInv
<1>3. CASE Restart
  <2>1. pc' = "idle" /\ outcome' = "none"
    BY <1>3 DEF Restart
  <2> QED BY <2>1 DEF RoundInv
<1>4. CASE BeginLoad
  <2>1. pc' = "format" /\ outcome' = "none"
    BY <1>4 DEF BeginLoad
  <2> QED BY <2>1 DEF RoundInv
<1>5. CASE LoadFormat
  BY <1>5, RoundFormatStep
<1>6. CASE LoadVerbosity
  BY <1>6, RoundVerbosityStep
<1>7. CASE LoadArray
  BY <1>7, RoundArrayStep
<1>8. CASE LoadLevel
  BY <1>8, RoundLevelStep
<1>9. CASE LevelsEnd
  BY <1>9, RoundEndStep
<1>10. CASE LoadServer
  BY <1>10, RoundServerStep
<1>11. CASE UNCHANGED vars
  <2>1. levels' = levels
    BY <1>11, ListStays DEF vars
  <2> QED BY <1>11, <2>1 DEF vars, loadVars, RoundInv, ExportedText, Readable, SavedArray
<1> QED BY <1>1, <1>2, <1>3, <1>4, <1>5, <1>6, <1>7, <1>8, <1>9, <1>10, <1>11 DEF Next

\* A load of a whole file gives back the options and the levels that were exported,
\* for any strings that fit their lines and have no quotes and line ends, whatever
\* brackets they hold.
THEOREM LoadGivesBack == Spec => []RoundTrip
<1>1. Init => DamageInv /\ RoundInv
  BY DEF Init, DamageInv, RoundInv
<1>2. ListInv /\ ReaderInv /\ SavedInv /\ DamageInv /\ RoundInv /\ [Next]_vars => (DamageInv /\ RoundInv)'
  BY DamageStep, RoundStep
<1>3. ReaderInv /\ SavedInv /\ RoundInv => RoundTrip
  <2> DEFINE text == Array([k \in DOMAIN saved.levels |-> LevelText(saved.levels[k])])
  <2> SUFFICES ASSUME ReaderInv, SavedInv, RoundInv, outcome # "none",
                      file = Exported(saved.options, saved.levels), Plain(saved),
                      \A string \in Strings(saved): string # <<>>, Len(text) <= Capacity
               PROVE  /\ config.format = saved.options.format
                      /\ config.verbosity = saved.options.verbosity
                      /\ levels = saved.levels
                      /\ IF outcome = "loaded"
                         THEN saved.options.port # Null => config.port = saved.options.port
                         ELSE saved.options.port # Null
    BY DEF RoundTrip
  <2>1. SavedArray = text
    BY DEF SavedArray, Objects
  <2>2. file # Null
    BY DEF SavedInv
  <2>3. outcome \in {"none", "loaded", "failed"}
    BY DEF ReaderInv, TypeOK
  <2>4. Readable
    BY <2>1 DEF Readable
  <2>5. file = ExportedText
    BY DEF ExportedText
  <2> HIDE DEF text
  <2>6. /\ config.format = saved.options.format
        /\ config.verbosity = saved.options.verbosity
        /\ levels = saved.levels
        /\ outcome = "loaded" /\ saved.options.port # Null => config.port = saved.options.port
        /\ outcome = "failed" => saved.options.port # Null
    BY <2>2, <2>4, <2>5 DEF RoundInv
  <2> QED BY <2>3, <2>6
<1> QED BY <1>1, <1>2, <1>3, SavedInvariant, PTL DEF Spec

=============================================================================

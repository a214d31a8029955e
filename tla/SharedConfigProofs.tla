------------------------- MODULE SharedConfigProofs -------------------------
(***************************************************************************)
(* The configuration in shared memory, for any parameters, any levels and  *)
(* any number of readers: what the builder leaves in the buffer, and what  *)
(* a page shows.                                                           *)
(***************************************************************************)
EXTENDS SharedConfig, SetInduction, SequenceTheorems

-----------------------------------------------------------------------------
(* Brackets and values.                                                    *)

\* The brackets are openers and closers, and none is both.
LEMMA Brackets ==
  /\ BraceOpen \in Openers /\ BracketOpen \in Openers
  /\ BraceClose \in Closers /\ BracketClose \in Closers
  /\ Openers \cap Closers = {}
<1>1. /\ BraceOpen # BraceClose /\ BraceOpen # BracketClose
      /\ BracketOpen # BraceClose /\ BracketOpen # BracketClose
  BY Zenon DEF BraceOpen, BraceClose, BracketOpen, BracketClose
<1> QED BY <1>1 DEF Openers, Closers

\* No value of a parameter is a bracket; what lines lose are numbers, and lines of
\* brackets lose nothing.
LEMMA Texts ==
  /\ \A v \in ParamValues: v \notin Openers /\ v \notin Closers
  /\ \A b \in Openers \cup Closers: LossOf(b) = 0
  /\ \A x: LossOf(x) \in Nat /\ (LossOf(x) > 0 => x \in ParamValues)
BY BuilderAssumption DEF LossOf

-----------------------------------------------------------------------------
(* Calls of the builder and the entries they write.                        *)

Keys == ParamNames \cup {"log_level", "log_levels", "server", "port", ""}
MemberOps == {"add_object", "add_array", "add_parameter", "end_object", "end_array"}
CallSet == [op: MemberOps, key: Keys, value: ParamValues \cup {NoValue}]
EntrySet == [name: Keys \cup {Unnamed}, text: ParamValues \cup Openers \cup Closers,
             indent: Nat]

\* The static variables of the builder between two calls.
BuilderState(indent, arr) == [indent |-> indent, arr |-> arr]
BuilderStates == [indent: Nat, arr: BOOLEAN]

\* The call writes the entry, and takes the static variables from s to t.
Adds(call, entry, s, t) ==
  \/ /\ call.op = "add_parameter" /\ call.value \in ParamValues
     /\ entry = Entry(call.key, call.value, s.indent) /\ t = s
  \/ /\ call.op = "add_object"
     /\ entry = Entry(IF s.arr THEN Unnamed ELSE call.key, BraceOpen, s.indent)
     /\ t = BuilderState(s.indent + 1, s.arr)
  \/ /\ call.op = "add_array"
     /\ entry = Entry(call.key, BracketOpen, s.indent)
     /\ t = BuilderState(s.indent + 1, TRUE)
  \/ /\ call.op = "end_object" /\ s.indent > 0
     /\ entry = Entry(Unnamed, BraceClose, s.indent - 1)
     /\ t = BuilderState(s.indent - 1, s.arr)
  \/ /\ call.op = "end_array" /\ s.indent > 0
     /\ entry = Entry(Unnamed, BracketClose, s.indent - 1)
     /\ t = BuilderState(s.indent - 1, FALSE)

\* The static variables before each call, and after the last.
Passes(st, calls, entries, a, b) ==
  /\ st \in [1 .. Len(calls) + 1 -> BuilderStates]
  /\ st[1] = a /\ st[Len(calls) + 1] = b
  /\ \A k \in 1 .. Len(calls): Adds(calls[k], entries[k], st[k], st[k + 1])

\* The calls write the entries, one each, and take the variables from a to b.
Builds(calls, entries, a, b) ==
  /\ calls \in Seq(CallSet) /\ entries \in Seq(EntrySet)
  /\ Len(calls) = Len(entries)
  /\ \E st: Passes(st, calls, entries, a, b)

\* No calls build no entries.
LEMMA BuildsNothing ==
  ASSUME NEW a \in BuilderStates
  PROVE  Builds(<<>>, <<>>, a, a)
<1>1. Passes([k \in 1 .. 1 |-> a], <<>>, <<>>, a, a)
  BY DEF Passes
<1> QED BY <1>1 DEF Builds

\* A call that adds an entry builds that entry.
LEMMA BuildsOne ==
  ASSUME NEW call \in CallSet, NEW entry \in EntrySet,
         NEW a \in BuilderStates, NEW b \in BuilderStates, Adds(call, entry, a, b)
  PROVE  Builds(<<call>>, <<entry>>, a, b)
<1> DEFINE st == [k \in 1 .. 2 |-> IF k = 1 THEN a ELSE b]
<1>1. Passes(st, <<call>>, <<entry>>, a, b)
  <2>1. /\ st \in [1 .. 2 -> BuilderStates] /\ st[1] = a /\ st[2] = b
    OBVIOUS
  <2>2. Len(<<call>>) = 1 /\ <<call>>[1] = call /\ <<entry>>[1] = entry
    OBVIOUS
  <2> QED BY <2>1, <2>2 DEF Passes
<1> QED BY <1>1 DEF Builds

\* What is built by one run of calls and then by another.
LEMMA BuildsBoth ==
  ASSUME NEW c1, NEW e1, NEW c2, NEW e2, NEW a, NEW b, NEW d,
         Builds(c1, e1, a, b), Builds(c2, e2, b, d)
  PROVE  Builds(c1 \o c2, e1 \o e2, a, d)
<1> DEFINE n1 == Len(c1)
           n2 == Len(c2)
<1>1. /\ n1 \in Nat /\ n2 \in Nat /\ n1 = Len(e1) /\ n2 = Len(e2)
      /\ c1 \in Seq(CallSet) /\ c2 \in Seq(CallSet)
      /\ e1 \in Seq(EntrySet) /\ e2 \in Seq(EntrySet)
  BY DEF Builds
<1>2. /\ c1 \o c2 \in Seq(CallSet) /\ e1 \o e2 \in Seq(EntrySet)
      /\ Len(c1 \o c2) = n1 + n2 /\ Len(e1 \o e2) = n1 + n2
  BY <1>1
<1>3. /\ \A k \in 1 .. n1: (c1 \o c2)[k] = c1[k] /\ (e1 \o e2)[k] = e1[k]
      /\ \A k \in n1 + 1 .. n1 + n2:
           (c1 \o c2)[k] = c2[k - n1] /\ (e1 \o e2)[k] = e2[k - n1]
  BY <1>1
<1>4. PICK s1: Passes(s1, c1, e1, a, b)
  BY DEF Builds
<1>5. PICK s2: Passes(s2, c2, e2, b, d)
  BY DEF Builds
<1> DEFINE st == [k \in 1 .. n1 + n2 + 1 |-> IF k <= n1 THEN s1[k] ELSE s2[k - n1]]
<1>6. /\ s1 \in [1 .. n1 + 1 -> BuilderStates] /\ s1[1] = a /\ s1[n1 + 1] = b
      /\ s2 \in [1 .. n2 + 1 -> BuilderStates] /\ s2[1] = b /\ s2[n2 + 1] = d
      /\ \A k \in 1 .. n1: Adds(c1[k], e1[k], s1[k], s1[k + 1])
      /\ \A k \in 1 .. n2: Adds(c2[k], e2[k], s2[k], s2[k + 1])
  BY <1>4, <1>5 DEF Passes
<1> HIDE DEF n1, n2
<1>7. st \in [1 .. n1 + n2 + 1 -> BuilderStates]
  BY <1>1, <1>6
<1>8. st[1] = a /\ st[n1 + n2 + 1] = d
  BY <1>1, <1>6
<1>9. ASSUME NEW k \in 1 .. n1 + n2
      PROVE  Adds((c1 \o c2)[k], (e1 \o e2)[k], st[k], st[k + 1])
  <2>1. CASE k <= n1
    <3>1. k \in 1 .. n1 /\ st[k] = s1[k] /\ st[k + 1] = s1[k + 1]
      BY <1>1, <1>6, <2>1
    <3> QED BY <1>3, <1>6, <3>1
  <2>2. CASE k > n1
    <3>1. /\ k \in n1 + 1 .. n1 + n2 /\ k - n1 \in 1 .. n2
          /\ st[k] = s2[k - n1] /\ st[k + 1] = s2[(k - n1) + 1]
      BY <1>1, <2>2
    <3> QED BY <1>3, <1>6, <3>1
  <2>3. k <= n1 \/ k > n1
    BY <1>1
  <2> QED BY <2>1, <2>2, <2>3, Zenon
<1>10. Passes(st, c1 \o c2, e1 \o e2, a, d)
  BY <1>2, <1>7, <1>8, <1>9 DEF Passes
<1> QED BY <1>1, <1>2, <1>10 DEF Builds

\* Parameters, one after another, in the container that is open.
LEMMA BuildsParameters ==
  ASSUME NEW params \in Seq(Param), NEW a \in BuilderStates
  PROVE  Builds(ParameterCalls(params), ParameterEntries(params, a.indent), a, a)
<1> DEFINE n == Len(params)
           calls == ParameterCalls(params)
           entries == ParameterEntries(params, a.indent)
<1>0. n \in Nat /\ DOMAIN params = 1 .. n /\ \A i \in 1 .. n: params[i] \in Param
  OBVIOUS
<1>1. /\ calls \in Seq(CallSet) /\ Len(calls) = n
      /\ \A i \in 1 .. n: calls[i] = Parameter(params[i])
  <2>1. calls = [i \in 1 .. n |-> Parameter(params[i])]
    BY <1>0 DEF ParameterCalls
  <2>2. ASSUME NEW p \in Param PROVE Parameter(p) \in CallSet
    BY DEF Param, Parameter, CallSet, MemberOps, Keys
  <2> QED BY <1>0, <2>1, <2>2
<1>2. /\ entries \in Seq(EntrySet) /\ Len(entries) = n
      /\ \A i \in 1 .. n: entries[i] = Entry(params[i].key, params[i].value, a.indent)
  <2>1. entries = [i \in 1 .. n |-> Entry(params[i].key, params[i].value, a.indent)]
    BY <1>0 DEF ParameterEntries
  <2>2. ASSUME NEW p \in Param PROVE Entry(p.key, p.value, a.indent) \in EntrySet
    BY DEF Param, Entry, EntrySet, BuilderStates, Keys
  <2> QED BY <1>0, <2>1, <2>2
<1>3. \A k \in 1 .. n: Adds(calls[k], entries[k], a, a)
  <2>1. ASSUME NEW p \in Param
        PROVE  Adds(Parameter(p), Entry(p.key, p.value, a.indent), a, a)
    BY DEF Adds, Parameter, Param
  <2> HIDE DEF calls, entries
  <2> QED BY <1>0, <1>1, <1>2, <2>1
<1> DEFINE st == [k \in 1 .. n + 1 |-> a]
<1>4. /\ st \in [1 .. n + 1 -> BuilderStates] /\ st[1] = a /\ st[n + 1] = a
      /\ \A k \in 1 .. n: st[k] = a /\ st[k + 1] = a
  BY <1>0
<1> HIDE DEF st, calls, entries, n
<1>5. Passes(st, calls, entries, a, a)
  BY <1>0, <1>1, <1>2, <1>3, <1>4 DEF Passes
<1>6. Builds(calls, entries, a, a)
  BY <1>1, <1>2, <1>5 DEF Builds
<1> QED BY <1>6 DEF calls, entries

\* export_log_level, in the array: an object without a name.
LEMMA BuildsLevel ==
  ASSUME NEW level \in Seq(Param)
  PROVE  Builds(LevelCalls(level), LevelEntries(level),
                BuilderState(2, TRUE), BuilderState(2, TRUE))
<1> DEFINE s == BuilderState(2, TRUE)
           t == BuilderState(3, TRUE)
           c1 == Call("add_object", "log_level")
           c3 == Call("end_object", "")
           e1 == Entry(Unnamed, BraceOpen, 2)
           e3 == Entry(Unnamed, BraceClose, 2)
<1>1. s \in BuilderStates /\ t \in BuilderStates /\ t.indent = 3
  BY DEF BuilderStates, BuilderState
<1>2. c1 \in CallSet /\ c3 \in CallSet
  BY DEF Call, CallSet, MemberOps, Keys
<1>3. e1 \in EntrySet /\ e3 \in EntrySet
  BY Brackets DEF Entry, EntrySet
<1>4. Adds(c1, e1, s, t) /\ Adds(c3, e3, t, s)
  BY DEF Adds, Call, BuilderState
<1>5. LevelCalls(level) = <<c1>> \o ParameterCalls(level) \o <<c3>>
  BY DEF LevelCalls
<1>6. LevelEntries(level) = <<e1>> \o ParameterEntries(level, t.indent) \o <<e3>>
  BY <1>1 DEF LevelEntries
<1> HIDE DEF s, t, c1, c3, e1, e3
<1>7. Builds(<<c1>>, <<e1>>, s, t) /\ Builds(<<c3>>, <<e3>>, t, s)
  BY <1>1, <1>2, <1>3, <1>4, BuildsOne
<1>8. Builds(ParameterCalls(level), ParameterEntries(level, t.indent), t, t)
  BY <1>1, BuildsParameters
<1>9. Builds(<<c1>> \o ParameterCalls(level), <<e1>> \o ParameterEntries(level, t.indent), s, t)
  BY <1>7, <1>8, BuildsBoth
<1>10. Builds(LevelCalls(level), LevelEntries(level), s, s)
  BY <1>5, <1>6, <1>7, <1>9, BuildsBoth
<1> QED BY <1>10 DEF s

\* The recursion over the levels, for any sequence of texts, one for each level:
\* the texts of the first n levels, one after another.
Joins(joined, texts, n) ==
  joined = [k \in 0 .. n |-> IF k = 0 THEN <<>> ELSE joined[k - 1] \o texts[k]]

\* A list of texts can be joined.
LEMMA JoinsExists ==
  ASSUME NEW T, NEW n \in Nat, NEW texts \in [1 .. n -> Seq(T)]
  PROVE  \E joined: Joins(joined, texts, n)
<1> DEFINE V == Seq(T)
           step == [k \in Nat |-> [v \in V |-> IF k < n THEN v \o texts[k + 1] ELSE v]]
<1>1. <<>> \in V
  OBVIOUS
<1>2. step \in [Nat -> [V -> V]]
  <2>1. ASSUME NEW k \in Nat, NEW v \in V
        PROVE  (IF k < n THEN v \o texts[k + 1] ELSE v) \in V
    <3>1. CASE k < n
      <4>1. texts[k + 1] \in Seq(T)
        BY <3>1
      <4> QED BY <3>1, <4>1
    <3>2. CASE ~(k < n)
      BY <3>2
    <3> QED BY <3>1, <3>2
  <2> HIDE DEF V
  <2> QED BY <2>1
<1> HIDE DEF V, step
<1>3. PICK h \in [0 .. n -> V]: Begins(h, n, <<>>, step)
  BY <1>1, <1>2, BeginningExists
<1>4. ASSUME NEW k \in 0 .. n
      PROVE  h[k] = IF k = 0 THEN <<>> ELSE h[k - 1] \o texts[k]
  <2>1. CASE k = 0
    BY <1>3, <2>1 DEF Begins
  <2>2. CASE k # 0
    <3>1. k - 1 \in 0 .. n - 1 /\ (k - 1) + 1 = k /\ k - 1 \in Nat /\ k - 1 < n
      BY <2>2
    <3>2. h[k - 1] \in V
      BY <3>1
    <3>3. h[k] = step[k - 1][h[k - 1]]
      BY <1>3, <3>1 DEF Begins
    <3> QED BY <2>2, <3>1, <3>2, <3>3 DEF step
  <2> QED BY <2>1, <2>2
<1>5. h = [k \in 0 .. n |-> IF k = 0 THEN <<>> ELSE h[k - 1] \o texts[k]]
  BY <1>4
<1> QED BY <1>5 DEF Joins
\* The calls for the levels are those for each level, one level after another.
LEMMA LevelsCallsJoin ==
  ASSUME NEW levels \in Seq(Seq(Param))
  PROVE  \E joined:
           /\ Joins(joined, [k \in 1 .. Len(levels) |-> LevelCalls(levels[k])], Len(levels))
           /\ LevelsCalls(levels) = joined[Len(levels)]
<1> DEFINE n == Len(levels)
           texts == [k \in 1 .. n |-> LevelCalls(levels[k])]
           chosen == CHOOSE f: f = [k \in 0 .. n |-> IF k = 0 THEN <<>>
                                     ELSE f[k - 1] \o LevelCalls(levels[k])]
<1>1. n \in Nat /\ \A k \in 1 .. n: levels[k] \in Seq(Param)
  OBVIOUS
<1>2. texts \in [1 .. n -> Seq(CallSet)]
  BY <1>1, BuildsLevel DEF Builds
<1> HIDE DEF texts
<1>3. PICK f: Joins(f, texts, n)
  BY <1>1, <1>2, JoinsExists
<1>4. \A k \in 0 .. n: k # 0 => texts[k] = LevelCalls(levels[k])
  BY <1>1 DEF texts
<1>5. f = [k \in 0 .. n |-> IF k = 0 THEN <<>> ELSE f[k - 1] \o LevelCalls(levels[k])]
  BY <1>3, <1>4 DEF Joins
<1>6. chosen = [k \in 0 .. n |-> IF k = 0 THEN <<>>
                                 ELSE chosen[k - 1] \o LevelCalls(levels[k])]
  BY <1>5
<1>7. LevelsCalls(levels) = chosen[n]
  BY DEF LevelsCalls
<1> HIDE DEF chosen
<1>8. Joins(chosen, texts, n)
  BY <1>4, <1>6 DEF Joins
<1> QED BY <1>7, <1>8 DEF texts

\* So are the entries of the levels.
LEMMA LevelsEntriesJoin ==
  ASSUME NEW levels \in Seq(Seq(Param))
  PROVE  \E joined:
           /\ Joins(joined, [k \in 1 .. Len(levels) |-> LevelEntries(levels[k])], Len(levels))
           /\ LevelsEntries(levels) = joined[Len(levels)]
<1> DEFINE n == Len(levels)
           texts == [k \in 1 .. n |-> LevelEntries(levels[k])]
           chosen == CHOOSE f: f = [k \in 0 .. n |-> IF k = 0 THEN <<>>
                                     ELSE f[k - 1] \o LevelEntries(levels[k])]
<1>1. n \in Nat /\ \A k \in 1 .. n: levels[k] \in Seq(Param)
  OBVIOUS
<1>2. texts \in [1 .. n -> Seq(EntrySet)]
  BY <1>1, BuildsLevel DEF Builds
<1> HIDE DEF texts
<1>3. PICK f: Joins(f, texts, n)
  BY <1>1, <1>2, JoinsExists
<1>4. \A k \in 0 .. n: k # 0 => texts[k] = LevelEntries(levels[k])
  BY <1>1 DEF texts
<1>5. f = [k \in 0 .. n |-> IF k = 0 THEN <<>> ELSE f[k - 1] \o LevelEntries(levels[k])]
  BY <1>3, <1>4 DEF Joins
<1>6. chosen = [k \in 0 .. n |-> IF k = 0 THEN <<>>
                                 ELSE chosen[k - 1] \o LevelEntries(levels[k])]
  BY <1>5
<1>7. LevelsEntries(levels) = chosen[n]
  BY DEF LevelsEntries
<1> HIDE DEF chosen
<1>8. Joins(chosen, texts, n)
  BY <1>4, <1>6 DEF Joins
<1> QED BY <1>7, <1>8 DEF texts

\* cclog_llist_foreach(log_levels_list, export_log_level) writes the entries of
\* every level.
LEMMA BuildsLevels ==
  ASSUME NEW levels \in Seq(Seq(Param))
  PROVE  Builds(LevelsCalls(levels), LevelsEntries(levels),
                BuilderState(2, TRUE), BuilderState(2, TRUE))
<1> DEFINE n == Len(levels)
           s == BuilderState(2, TRUE)
           ctexts == [k \in 1 .. n |-> LevelCalls(levels[k])]
           etexts == [k \in 1 .. n |-> LevelEntries(levels[k])]
<1>1. n \in Nat /\ \A k \in 1 .. n: levels[k] \in Seq(Param)
  OBVIOUS
<1>2. PICK c: Joins(c, ctexts, n) /\ LevelsCalls(levels) = c[n]
  BY LevelsCallsJoin
<1>3. PICK e: Joins(e, etexts, n) /\ LevelsEntries(levels) = e[n]
  BY LevelsEntriesJoin
<1>4. s \in BuilderStates
  BY DEF BuilderState, BuilderStates
<1>5. \A k \in 1 .. n: Builds(ctexts[k], etexts[k], s, s)
  BY <1>1, BuildsLevel
<1> HIDE DEF ctexts, etexts, s
<1> DEFINE S == {k \in 0 .. n : Builds(c[k], e[k], s, s)}
<1>6. 0 \in S
  <2>1. c[0] = <<>> /\ e[0] = <<>>
    BY <1>1, <1>2, <1>3 DEF Joins
  <2>2. Builds(c[0], e[0], s, s)
    BY <1>4, <2>1, BuildsNothing
  <2> QED BY <1>1, <2>2
<1>7. ASSUME NEW k \in 0 .. n, k < n, k \in S PROVE k + 1 \in S
  <2>1. k + 1 \in 0 .. n /\ k + 1 \in 1 .. n /\ k + 1 # 0 /\ (k + 1) - 1 = k
    BY <1>1, <1>7
  <2>2. c[k + 1] = c[k] \o ctexts[k + 1] /\ e[k + 1] = e[k] \o etexts[k + 1]
    BY <1>2, <1>3, <2>1 DEF Joins
  <2>3. Builds(c[k], e[k], s, s) /\ Builds(ctexts[k + 1], etexts[k + 1], s, s)
    BY <1>5, <1>7, <2>1
  <2>4. Builds(c[k + 1], e[k + 1], s, s)
    BY <2>2, <2>3, BuildsBoth
  <2> QED BY <2>1, <2>4
<1> HIDE DEF S
<1>8. \A k \in 0 .. n: k \in S
  BY <1>1, <1>6, <1>7, BoundedInduction
<1>9. Builds(c[n], e[n], s, s)
  BY <1>1, <1>8 DEF S
<1> QED BY <1>2, <1>3, <1>9 DEF s
\* A configuration as cclog_json_load_current_config takes it.
LEMMA ConfigFacts ==
  ASSUME NEW c \in Configs
  PROVE  /\ c.params \in Seq(Param) /\ c.levels \in Seq(Seq(Param))
         /\ c.server \in BOOLEAN /\ c.port \in ParamValues
BY ConfigsAssumption DEF ConfigRecord

\* Three elements, one after another.
LEMMA Triple ==
  ASSUME NEW T, NEW x \in T, NEW y \in T, NEW z \in T
  PROVE  (<<x>> \o <<y>>) \o <<z>> = <<x, y, z>>
<1>1. /\ <<x>> \in Seq(T) /\ Len(<<x>>) = 1 /\ <<x>>[1] = x
      /\ <<y>> \in Seq(T) /\ Len(<<y>>) = 1 /\ <<y>>[1] = y
      /\ <<z>> \in Seq(T) /\ Len(<<z>>) = 1 /\ <<z>>[1] = z
  OBVIOUS
<1> DEFINE p == <<x>> \o <<y>>
           w == <<z>>
           q == p \o w
           r == <<x, y, z>>
<1>2. p \in Seq(T) /\ Len(p) = 2 /\ p[1] = x /\ p[2] = y
  BY <1>1
<1>0. w \in Seq(T) /\ Len(w) = 1 /\ w[1] = z
  BY <1>1
<1> HIDE DEF p, w
<1>3. q \in Seq(T) /\ Len(q) = 3 /\ q[1] = x /\ q[2] = y /\ q[3] = z
  <2>1. /\ q \in Seq(T) /\ Len(q) = Len(p) + Len(w)
        /\ \A i \in 1 .. Len(p) + Len(w): q[i] = IF i <= Len(p) THEN p[i] ELSE w[i - Len(p)]
    BY <1>0, <1>2, ConcatProperties
  <2> HIDE DEF q
  <2>2. Len(q) = 3 /\ \A i \in 1 .. 3: q[i] = IF i <= 2 THEN p[i] ELSE w[i - 2]
    BY <1>0, <1>2, <2>1
  <2>3. 1 \in 1 .. 3 /\ 2 \in 1 .. 3 /\ 3 \in 1 .. 3 /\ 3 - 2 = 1
    OBVIOUS
  <2>4. q[1] = p[1] /\ q[2] = p[2] /\ q[3] = w[1]
    BY <2>2, <2>3
  <2> QED BY <1>0, <1>2, <2>1, <2>2, <2>4
<1>4. r \in Seq(T) /\ Len(r) = 3 /\ r[1] = x /\ r[2] = y /\ r[3] = z
  OBVIOUS
<1> HIDE DEF q, r
<1>5. \A i \in 1 .. Len(q): q[i] = r[i]
  BY <1>3, <1>4
<1>6. q = r
  BY <1>3, <1>4, <1>5, SeqEqual
<1> QED BY <1>6 DEF q, p, r, w

\* The server of a configuration: an object with its port, if it is enabled.
LEMMA BuildsServer ==
  ASSUME NEW c \in Configs, NEW s, s = BuilderState(1, FALSE)
  PROVE  Builds(IF c.server
                THEN << Call("add_object", "server"), Parameter(Port(c)), Call("end_object", "") >>
                ELSE <<>>,
                IF c.server
                THEN << Entry("server", BraceOpen, 1), Entry("port", c.port, 2),
                        Entry(Unnamed, BraceClose, 1) >>
                ELSE <<>>, s, s)
<1> DEFINE t == BuilderState(2, FALSE)
           c1 == Call("add_object", "server")
           c2 == Parameter(Port(c))
           c3 == Call("end_object", "")
           e1 == Entry("server", BraceOpen, 1)
           e2 == Entry("port", c.port, 2)
           e3 == Entry(Unnamed, BraceClose, 1)
<1>1. s \in BuilderStates /\ t \in BuilderStates
  BY DEF BuilderState, BuilderStates
<1>2. c1 \in CallSet /\ c2 \in CallSet /\ c3 \in CallSet
  BY ConfigFacts DEF Call, Parameter, Port, CallSet, MemberOps, Keys
<1>3. e1 \in EntrySet /\ e2 \in EntrySet /\ e3 \in EntrySet
  BY ConfigFacts, Brackets DEF Entry, EntrySet, Keys
<1>4. Adds(c1, e1, s, t) /\ Adds(c2, e2, t, t) /\ Adds(c3, e3, t, s)
  BY ConfigFacts DEF Adds, Call, Parameter, Port, BuilderState
<1> HIDE DEF t, c1, c2, c3, e1, e2, e3
<1>5. Builds(<<c1>>, <<e1>>, s, t) /\ Builds(<<c2>>, <<e2>>, t, t) /\ Builds(<<c3>>, <<e3>>, t, s)
  BY <1>1, <1>2, <1>3, <1>4, BuildsOne
<1>6. Builds((<<c1>> \o <<c2>>) \o <<c3>>, (<<e1>> \o <<e2>>) \o <<e3>>, s, s)
  BY <1>5, BuildsBoth
<1>7. /\ (<<c1>> \o <<c2>>) \o <<c3>> = <<c1, c2, c3>>
      /\ (<<e1>> \o <<e2>>) \o <<e3>> = <<e1, e2, e3>>
  BY <1>2, <1>3, Triple
<1>8. CASE c.server
  BY <1>6, <1>7, <1>8 DEF c1, c2, c3, e1, e2, e3
<1>9. CASE ~c.server
  BY <1>1, <1>9, BuildsNothing
<1> QED BY <1>8, <1>9, ConfigFacts

\* The calls between start_buffer and end_buffer write the members of the
\* document, whatever in_array was left at.
LEMMA BuildsMembers ==
  ASSUME NEW c \in Configs, NEW arr \in BOOLEAN
  PROVE  Builds(MemberCalls(c), MemberEntries(c), BuilderState(1, arr), BuilderState(1, FALSE))
<1> DEFINE s == BuilderState(1, arr)
           t == BuilderState(2, TRUE)
           u == BuilderState(1, FALSE)
           c1 == ParameterCalls(c.params)
           e1 == ParameterEntries(c.params, 1)
           c2 == Call("add_array", "log_levels")
           e2 == Entry("log_levels", BracketOpen, 1)
           c3 == LevelsCalls(c.levels)
           e3 == LevelsEntries(c.levels)
           c4 == Call("end_array", "")
           e4 == Entry(Unnamed, BracketClose, 1)
           c5 == IF c.server
                 THEN << Call("add_object", "server"), Parameter(Port(c)), Call("end_object", "") >>
                 ELSE <<>>
           e5 == IF c.server
                 THEN << Entry("server", BraceOpen, 1), Entry("port", c.port, 2),
                         Entry(Unnamed, BraceClose, 1) >>
                 ELSE <<>>
<1>1. s \in BuilderStates /\ t \in BuilderStates /\ u \in BuilderStates /\ s.indent = 1
  BY DEF BuilderState, BuilderStates
<1>2. Builds(c1, e1, s, s)
  <2>1. Builds(c1, ParameterEntries(c.params, s.indent), s, s)
    <3> HIDE DEF s
    <3> QED BY <1>1, ConfigFacts, BuildsParameters
  <2> QED BY <1>1, <2>1
<1>3. Builds(<<c2>>, <<e2>>, s, t)
  <2>1. c2 \in CallSet /\ e2 \in EntrySet
    BY Brackets DEF Call, CallSet, MemberOps, Keys, Entry, EntrySet
  <2>2. Adds(c2, e2, s, t)
    BY DEF Adds, Call, BuilderState
  <2> HIDE DEF c2, e2, s, t
  <2> QED BY <1>1, <2>1, <2>2, BuildsOne
<1>4. Builds(c3, e3, t, t)
  BY ConfigFacts, BuildsLevels
<1>5. Builds(<<c4>>, <<e4>>, t, u)
  <2>1. c4 \in CallSet /\ e4 \in EntrySet
    BY Brackets DEF Call, CallSet, MemberOps, Keys, Entry, EntrySet
  <2>2. Adds(c4, e4, t, u)
    BY DEF Adds, Call, BuilderState
  <2> HIDE DEF c4, e4, t, u
  <2> QED BY <1>1, <2>1, <2>2, BuildsOne
<1>6. Builds(c5, e5, u, u)
  BY BuildsServer
<1>7. /\ MemberCalls(c) = c1 \o <<c2>> \o c3 \o <<c4>> \o c5
      /\ MemberEntries(c) = e1 \o <<e2>> \o e3 \o <<e4>> \o e5
  BY ConfigFacts DEF MemberCalls, MemberEntries
<1> HIDE DEF c1, c2, c3, c4, c5, e1, e2, e3, e4, e5, s, t, u
<1>8. Builds(c1 \o <<c2>>, e1 \o <<e2>>, s, t)
  BY <1>2, <1>3, BuildsBoth
<1>9. Builds(c1 \o <<c2>> \o c3, e1 \o <<e2>> \o e3, s, t)
  BY <1>4, <1>8, BuildsBoth
<1>10. Builds(c1 \o <<c2>> \o c3 \o <<c4>>, e1 \o <<e2>> \o e3 \o <<e4>>, s, u)
  BY <1>5, <1>9, BuildsBoth
<1>11. Builds(c1 \o <<c2>> \o c3 \o <<c4>> \o c5, e1 \o <<e2>> \o e3 \o <<e4>> \o e5, s, u)
  BY <1>6, <1>10, BuildsBoth
<1> QED BY <1>7, <1>11 DEF s, u
-----------------------------------------------------------------------------
(* The program of calls and the lines of the document.                     *)

AllCalls ==
  [op: MemberOps \cup {"buffer_clear", "start_buffer", "end_buffer"}, key: Keys,
   value: ParamValues \cup {NoValue}]

\* Where the elements of two sequences are when one follows the other.
LEMMA Concatenation ==
  ASSUME NEW T, NEW s \in Seq(T), NEW t \in Seq(T)
  PROVE  /\ s \o t \in Seq(T) /\ Len(s \o t) = Len(s) + Len(t)
         /\ Len(s) \in Nat /\ Len(t) \in Nat
         /\ \A i \in 1 .. Len(s): (s \o t)[i] = s[i]
         /\ \A i \in 1 .. Len(t): (s \o t)[Len(s) + i] = t[i]
<1> DEFINE q == s \o t
<1>0. Len(s) \in Nat /\ Len(t) \in Nat
  OBVIOUS
<1>1. /\ q \in Seq(T) /\ Len(q) = Len(s) + Len(t)
      /\ \A i \in 1 .. Len(s) + Len(t): q[i] = IF i <= Len(s) THEN s[i] ELSE t[i - Len(s)]
  BY ConcatProperties
<1>2. \A i \in 1 .. Len(s): i \in 1 .. Len(s) + Len(t) /\ i <= Len(s)
  BY <1>0
<1>3. \A i \in 1 .. Len(t): /\ Len(s) + i \in 1 .. Len(s) + Len(t)
                            /\ ~(Len(s) + i <= Len(s)) /\ (Len(s) + i) - Len(s) = i
  BY <1>0
<1> HIDE DEF q
<1>4. /\ \A i \in 1 .. Len(s): q[i] = s[i]
      /\ \A i \in 1 .. Len(t): q[Len(s) + i] = t[i]
  BY <1>0, <1>1, <1>2, <1>3
<1> QED BY <1>0, <1>1, <1>4 DEF q

\* The calls for a configuration: clear, start, the members, end; each but the
\* first for one entry.
LEMMA ProgramShape ==
  ASSUME NEW c \in Configs, NEW m, m = Len(MemberCalls(c))
  PROVE  /\ m \in Nat /\ ConfigCalls(c) \in Seq(AllCalls) /\ Len(ConfigCalls(c)) = m + 3
         /\ ConfigCalls(c)[1].op = "buffer_clear" /\ ConfigCalls(c)[2].op = "start_buffer"
         /\ \A i \in 1 .. m: ConfigCalls(c)[i + 2] = MemberCalls(c)[i]
         /\ ConfigCalls(c)[m + 3].op = "end_buffer"
         /\ ConfigEntries(c) \in Seq(EntrySet) /\ Len(ConfigEntries(c)) = m + 2
         /\ ConfigEntries(c)[1] = Entry(Unnamed, BraceOpen, 0)
         /\ \A i \in 1 .. m: ConfigEntries(c)[i + 1] = MemberEntries(c)[i]
         /\ ConfigEntries(c)[m + 2] = Entry(Unnamed, BraceClose, 0)
<1> DEFINE c1 == Call("buffer_clear", "")
           c2 == Call("start_buffer", "")
           c3 == Call("end_buffer", "")
           e1 == Entry(Unnamed, BraceOpen, 0)
           e2 == Entry(Unnamed, BraceClose, 0)
           mc == MemberCalls(c)
           me == MemberEntries(c)
<1>1. c1 \in AllCalls /\ c2 \in AllCalls /\ c3 \in AllCalls
  BY DEF AllCalls, Call, Keys
<1>2. e1 \in EntrySet /\ e2 \in EntrySet
  BY Brackets DEF EntrySet, Entry
<1>3. mc \in Seq(AllCalls) /\ me \in Seq(EntrySet) /\ Len(mc) = m /\ Len(me) = m /\ m \in Nat
  <2>1. mc \in Seq(CallSet) /\ me \in Seq(EntrySet) /\ Len(mc) = Len(me)
    BY BuildsMembers DEF Builds
  <2>2. \A x \in CallSet: x \in AllCalls
    BY DEF CallSet, AllCalls
  <2> HIDE DEF mc, me
  <2>3. mc \in Seq(AllCalls)
    BY <2>1, <2>2
  <2> QED BY <2>1, <2>3 DEF mc
<1>4. c1.op = "buffer_clear" /\ c2.op = "start_buffer" /\ c3.op = "end_buffer"
  BY DEF Call
<1>5. ConfigCalls(c) = <<c1, c2>> \o mc \o <<c3>>
  BY DEF ConfigCalls
<1>6. ConfigEntries(c) = <<e1>> \o me \o <<e2>>
  BY DEF ConfigEntries
<1> HIDE DEF c1, c2, c3, e1, e2, mc, me
<1> DEFINE head == <<c1, c2>>
           tail == <<c3>>
           first == <<e1>>
           last == <<e2>>
<1>7. /\ head \in Seq(AllCalls) /\ Len(head) = 2 /\ head[1] = c1 /\ head[2] = c2
      /\ tail \in Seq(AllCalls) /\ Len(tail) = 1 /\ tail[1] = c3
      /\ first \in Seq(EntrySet) /\ Len(first) = 1 /\ first[1] = e1
      /\ last \in Seq(EntrySet) /\ Len(last) = 1 /\ last[1] = e2
  BY <1>1, <1>2
<1> HIDE DEF head, tail, first, last
<1>8. PICK hm: hm = head \o mc
  OBVIOUS
<1>9. PICK fm: fm = first \o me
  OBVIOUS
<1>10. hm \in Seq(AllCalls) /\ fm \in Seq(EntrySet)
  BY <1>3, <1>7, <1>8, <1>9, Concatenation
<1>11. /\ Len(hm) = Len(head) + Len(mc)
       /\ \A i \in 1 .. Len(head): hm[i] = head[i]
       /\ \A i \in 1 .. Len(mc): hm[Len(head) + i] = mc[i]
  <2>1. head \in Seq(AllCalls) /\ mc \in Seq(AllCalls)
    BY <1>3, <1>7
  <2> QED BY <1>8, <2>1
<1>12. /\ Len(fm) = Len(first) + Len(me)
       /\ \A i \in 1 .. Len(first): fm[i] = first[i]
       /\ \A i \in 1 .. Len(me): fm[Len(first) + i] = me[i]
  <2>1. first \in Seq(EntrySet) /\ me \in Seq(EntrySet)
    BY <1>3, <1>7
  <2> QED BY <1>9, <2>1
<1>13. PICK C: C = hm \o tail
  OBVIOUS
<1>14. PICK E: E = fm \o last
  OBVIOUS
<1>15. C = ConfigCalls(c) /\ E = ConfigEntries(c)
  BY <1>5, <1>6, <1>8, <1>9, <1>13, <1>14 DEF head, tail, first, last
<1>16. C \in Seq(AllCalls) /\ E \in Seq(EntrySet)
  BY <1>7, <1>10, <1>13, <1>14, Concatenation
<1>17. /\ Len(C) = Len(hm) + Len(tail)
       /\ \A i \in 1 .. Len(hm): C[i] = hm[i]
       /\ \A i \in 1 .. Len(tail): C[Len(hm) + i] = tail[i]
  <2>1. tail \in Seq(AllCalls)
    BY <1>7
  <2>2. hm \in Seq(AllCalls)
    BY <1>10
  <2> QED BY <1>13, <2>1, <2>2
<1>18. /\ Len(E) = Len(fm) + Len(last)
       /\ \A i \in 1 .. Len(fm): E[i] = fm[i]
       /\ \A i \in 1 .. Len(last): E[Len(fm) + i] = last[i]
  <2>1. last \in Seq(EntrySet)
    BY <1>7
  <2>2. fm \in Seq(EntrySet)
    BY <1>10
  <2> QED BY <1>14, <2>1, <2>2
<1>19. /\ C \in Seq(AllCalls) /\ Len(C) = m + 3 /\ C[1] = c1 /\ C[2] = c2
       /\ \A i \in 1 .. m: C[i + 2] = mc[i]
       /\ C[m + 3] = c3
  BY <1>3, <1>7, <1>11, <1>16, <1>17
<1>20. /\ E \in Seq(EntrySet) /\ Len(E) = m + 2 /\ E[1] = e1
       /\ \A i \in 1 .. m: E[i + 1] = me[i]
       /\ E[m + 2] = e2
  BY <1>3, <1>7, <1>12, <1>16, <1>18
<1> QED BY <1>3, <1>4, <1>15, <1>19, <1>20 DEF mc, me, e1, e2

-----------------------------------------------------------------------------
(* The lines that the entries make.                                        *)

EntryLine(e, comma, newline) == Line(e.name, e.text, comma, newline, e.indent)

\* An entry as it is written, and as the document has it.
FreshComma(E, i) == E[i].text \notin Openers /\ i < Len(E) /\ LossOf(E[i].text) < 2
FreshNewline(E, i) == LossOf(E[i].text) = 0
FreshLine(E, i) == EntryLine(E[i], FreshComma(E, i), FreshNewline(E, i))
FinalLine(E, i) == EntryLine(E[i], Comma(E, i), Newline(E, i))

\* The buffer after n entries: the comma of the last may still go.
Lines(E, n) == [i \in 1 .. n |-> IF i < n THEN FinalLine(E, i) ELSE FreshLine(E, i)]

\* The excess after n entries: what the last has lost, unless one before has
\* spoiled the text; then it is more, and stays.
ExcessHolds(E, n, ex) ==
  /\ ex \in Nat
  /\ n = 0 => ex = 0
  /\ n > 0 => /\ Spoiled(E, n - 1) => ex > LossOf(E[n].text)
              /\ ~Spoiled(E, n - 1) => ex = LossOf(E[n].text)

\* What is spoiled after one more entry.
LEMMA SpoiledStep ==
  ASSUME NEW E, NEW n \in Nat
  PROVE  /\ ~Spoiled(E, 0)
         /\ Spoiled(E, n + 1) <=> Spoiled(E, n) \/ Spoils(E, n + 1)
<1>1. \A i \in 1 .. n + 1: i \in 1 .. n \/ i = n + 1
  OBVIOUS
<1>2. \A i \in 1 .. n: i \in 1 .. n + 1
  OBVIOUS
<1>3. n + 1 \in 1 .. n + 1
  OBVIOUS
<1>4. ~Spoiled(E, 0)
  BY DEF Spoiled
<1> QED BY <1>1, <1>2, <1>3, <1>4 DEF Spoiled

\* The document is what is left when every entry is written.
LEMMA DocumentLines ==
  ASSUME NEW c \in Configs
  PROVE  Document[c] = Lines(ConfigEntries(c), Len(ConfigEntries(c)))
<1> DEFINE E == ConfigEntries(c)
           last == Len(E)
<1>1. Document[c] = [i \in 1 .. last |-> FinalLine(E, i)]
  BY DEF Document, DocumentOf, FinalLine, EntryLine
<1>2. last \in Nat
  BY ProgramShape
<1> HIDE DEF E
<1>3. ASSUME NEW i \in 1 .. last, ~(i < last)
      PROVE  FinalLine(E, i) = FreshLine(E, i)
  <2>1. ~IsLast(E, i)
    BY <1>3 DEF IsLast
  <2>2. LossOf(E[i].text) \in Nat
    BY Texts
  <2>3. Comma(E, i) = FreshComma(E, i)
    BY <1>3 DEF Comma, FreshComma
  <2>4. Newline(E, i) = FreshNewline(E, i)
    <3>1. Newline(E, i) <=> FreshNewline(E, i)
      BY <2>1, <2>2 DEF Newline, FreshNewline
    <3> QED BY <3>1 DEF Newline, FreshNewline
  <2> QED BY <2>3, <2>4, Zenon DEF FinalLine, FreshLine
<1>4. \A i \in 1 .. last:
        FinalLine(E, i) = IF i < last THEN FinalLine(E, i) ELSE FreshLine(E, i)
  BY <1>3
<1> QED BY <1>1, <1>4 DEF Lines, E

\* Where the builder looks for a comma when a container ends (buffer_remove_last_coma):
\* at the last line, unless the text is spoiled.
LEMMA LooksWhenNotSpoiled ==
  ASSUME NEW E, NEW n \in Nat, n > 0, n < Len(E), Len(E) \in Nat, E[n + 1].text \in Closers,
         json_buffer = Lines(E, n), ExcessHolds(E, n, excess)
  PROVE  LooksAtComa(json_buffer) <=> ~Spoiled(E, n)
<1> DEFINE loss == LossOf(E[n].text)
<1>1. loss \in Nat /\ (loss > 0 => E[n].text \notin Openers)
  BY Texts
<1>2. IsLast(E, n)
  BY DEF IsLast
<1>3. Spoils(E, n) <=> loss > 1
  BY <1>1, <1>2 DEF Spoils
<1>4. Spoiled(E, n) <=> Spoiled(E, n - 1) \/ loss > 1
  <2>1. PICK m \in Nat: n = m + 1
    <3>1. n - 1 \in Nat /\ n = (n - 1) + 1
      OBVIOUS
    <3> QED BY <3>1
  <2>2. n - 1 = m
    BY <2>1
  <2> QED BY <1>3, <2>1, <2>2, SpoiledStep
<1>5. /\ Len(json_buffer) = n
      /\ json_buffer[n] = FreshLine(E, n)
  BY DEF Lines
<1>6. /\ json_buffer[n].comma <=> (E[n].text \notin Openers /\ loss < 2)
      /\ json_buffer[n].newline <=> loss = 0
  <2>1. /\ json_buffer[n].comma = FreshComma(E, n)
        /\ json_buffer[n].newline = FreshNewline(E, n)
    BY <1>5 DEF FreshLine, EntryLine, Line
  <2> QED BY <2>1 DEF FreshComma, FreshNewline
<1>7. LooksAtComa(json_buffer) <=> \/ excess = 0
                                   \/ /\ excess = 1 /\ E[n].text \notin Openers
                                      /\ loss < 2 /\ ~(loss = 0)
  BY <1>5, <1>6 DEF LooksAtComa
<1>8. /\ excess \in Nat
      /\ Spoiled(E, n - 1) => excess > loss
      /\ ~Spoiled(E, n - 1) => excess = loss
  BY DEF ExcessHolds
<1> HIDE DEF loss
<1>9. CASE Spoiled(E, n - 1)
  <2>1. excess > loss
    BY <1>8, <1>9
  <2>2. ~(excess = 0) /\ (excess = 1 => loss = 0)
    BY <1>1, <1>8, <2>1
  <2> QED BY <1>4, <1>7, <1>9, <2>2
<1>10. CASE ~Spoiled(E, n - 1)
  <2>1. excess = loss
    BY <1>8, <1>10
  <2> QED BY <1>1, <1>4, <1>7, <1>10, <2>1
<1> QED BY <1>9, <1>10

\* The last line, when the next entry is written: as the document has it.
LEMMA LastLineFinal ==
  ASSUME NEW E, NEW n \in Nat, n > 0, n < Len(E), Len(E) \in Nat
  PROVE  IF E[n + 1].text \in Closers /\ ~Spoiled(E, n)
         THEN Bare(FreshLine(E, n)) = FinalLine(E, n)
         ELSE FreshLine(E, n) = FinalLine(E, n)
<1> DEFINE loss == LossOf(E[n].text)
<1>1. loss \in Nat
  BY Texts
<1>2. IsLast(E, n) <=> E[n + 1].text \in Closers
  BY DEF IsLast
<1>3. CASE E[n + 1].text \in Closers /\ ~Spoiled(E, n)
  <2>1. loss = 0 \/ loss = 1
    <3>1. ~Spoils(E, n)
      <4>1. n \in 1 .. n
        OBVIOUS
      <4> QED BY <1>3, <4>1 DEF Spoiled
    <3> QED BY <1>1, <3>1 DEF Spoils
  <2>2. Comma(E, n) = FALSE
    BY <1>2, <1>3 DEF Comma
  <2>3. Newline(E, n) = TRUE
    BY <1>2, <1>3, <2>1 DEF Newline
  <2>4. Bare(FreshLine(E, n)) = FinalLine(E, n)
    <3>1. Bare(FreshLine(E, n)) = Line(E[n].name, E[n].text, FALSE, TRUE, E[n].indent)
      BY DEF Bare, FreshLine, EntryLine, Line
    <3> QED BY <2>2, <2>3, <3>1, Zenon DEF FinalLine, EntryLine
  <2> QED BY <1>3, <2>4, Zenon
<1>4. CASE ~(E[n + 1].text \in Closers /\ ~Spoiled(E, n))
  <2>1. Comma(E, n) = FreshComma(E, n)
    BY <1>2, <1>4 DEF Comma, FreshComma
  <2>2. Newline(E, n) = FreshNewline(E, n)
    <3>1. Newline(E, n) <=> FreshNewline(E, n)
      <4>1. IsLast(E, n) => Spoiled(E, n)
        BY <1>2, <1>4
      <4>2. LossOf(E[n].text) \in Nat
        BY <1>1
      <4> QED BY <4>1, <4>2 DEF Newline, FreshNewline
    <3> QED BY <3>1 DEF Newline, FreshNewline
  <2>3. FreshLine(E, n) = FinalLine(E, n)
    BY <2>1, <2>2, Zenon DEF FreshLine, FinalLine
  <2> QED BY <1>4, <2>3, Zenon
<1> QED BY <1>3, <1>4, Zenon

\* Writing one more entry, after a closing bracket has taken the last comma away.
LEMMA WriteEntry ==
  ASSUME NEW E, NEW n \in Nat, n < Len(E), Len(E) \in Nat,
         E[n + 1].text \in Closers => n > 0,
         NEW buffer, buffer = Lines(E, n),
         NEW base, base = IF E[n + 1].text \in Closers /\ ~Spoiled(E, n)
                          THEN [buffer EXCEPT ![Len(buffer)] = Bare(@)] ELSE buffer
  PROVE  Append(base, FreshLine(E, n + 1)) = Lines(E, n + 1)
<1> DEFINE line == FreshLine(E, n + 1)
           next == Lines(E, n + 1)
           repairs == E[n + 1].text \in Closers /\ ~Spoiled(E, n)
<1>1. /\ Len(buffer) = n /\ DOMAIN buffer = 1 .. n
      /\ \A i \in 1 .. n: buffer[i] = IF i < n THEN FinalLine(E, i) ELSE FreshLine(E, i)
  BY DEF Lines
<1>2. /\ next = [i \in 1 .. n + 1 |-> next[i]]
      /\ next[n + 1] = line
      /\ \A i \in 1 .. n: next[i] = FinalLine(E, i)
  BY DEF Lines
<1> HIDE DEF repairs
<1>3. /\ base = [i \in 1 .. n |-> base[i]]
      /\ \A i \in 1 .. n: i < n => base[i] = FinalLine(E, i)
  <2>1. buffer = [i \in 1 .. n |-> buffer[i]]
    BY DEF Lines
  <2>2. DOMAIN base = 1 .. n /\ \A i \in 1 .. n: i < n => base[i] = buffer[i]
    BY <1>1, <2>1
  <2>3. base = [i \in 1 .. n |-> base[i]]
    <3>1. CASE repairs
      BY <1>1, <2>1, <3>1 DEF repairs
    <3>2. CASE ~repairs
      BY <2>1, <3>2 DEF repairs
    <3> QED BY <3>1, <3>2
  <2> QED BY <1>1, <2>2, <2>3
<1>4. n > 0 => base[n] = FinalLine(E, n)
  <2> SUFFICES ASSUME n > 0 PROVE base[n] = FinalLine(E, n)
    OBVIOUS
  <2>1. buffer[n] = FreshLine(E, n) /\ n \in 1 .. n
    BY <1>1
  <2>2. CASE repairs
    <3>1. base[n] = Bare(buffer[n])
      BY <1>1, <2>1, <2>2 DEF repairs
    <3> QED BY <2>1, <2>2, <3>1, LastLineFinal DEF repairs
  <2>3. CASE ~repairs
    <3>1. base[n] = buffer[n]
      BY <2>3 DEF repairs
    <3> QED BY <2>1, <2>3, <3>1, LastLineFinal DEF repairs
  <2> QED BY <2>2, <2>3
<1> HIDE DEF line, next
<1>5. \A i \in 1 .. n: base[i] = next[i]
  <2>1. \A i \in 1 .. n: i < n \/ (i = n /\ n > 0)
    OBVIOUS
  <2> QED BY <1>2, <1>3, <1>4, <2>1
<1>6. Append(base, line) = [i \in 1 .. n + 1 |-> IF i <= n THEN base[i] ELSE line]
  BY <1>3
<1>7. ASSUME NEW i \in 1 .. n + 1 PROVE next[i] = IF i <= n THEN base[i] ELSE line
  <2>1. CASE i <= n
    <3>1. i \in 1 .. n
      BY <2>1
    <3> QED BY <1>5, <2>1, <3>1, Zenon
  <2>2. CASE ~(i <= n)
    <3>1. i = n + 1
      BY <2>2
    <3> QED BY <1>2, <2>2, <3>1, Zenon
  <2> QED BY <2>1, <2>2
<1>8. Append(base, line) = next
  BY <1>2, <1>6, <1>7
<1> QED BY <1>8 DEF line, next

\* The excess after one more entry.
LEMMA ExcessStep ==
  ASSUME NEW E, NEW n \in Nat, n < Len(E), Len(E) \in Nat,
         E[n + 1].text \in Closers => n > 0,
         NEW ex, ExcessHolds(E, n, ex),
         NEW next, next = IF E[n + 1].text \in Closers
                          THEN IF Spoiled(E, n) THEN ex ELSE 0
                          ELSE ex + LossOf(E[n + 1].text)
  PROVE  ExcessHolds(E, n + 1, next)
<1> DEFINE loss == LossOf(E[n + 1].text)
           before == LossOf(E[n].text)
<1>1. /\ loss \in Nat /\ before \in Nat /\ ex \in Nat
      /\ E[n + 1].text \in Closers => loss = 0
  BY Texts DEF ExcessHolds
<1>2. n = 0 => ex = 0 /\ ~Spoiled(E, n)
  BY SpoiledStep DEF ExcessHolds
<1>3. ASSUME n > 0
      PROVE  /\ Spoiled(E, n) => ex > 0
             /\ ~Spoiled(E, n) => ex = before /\ ~Spoils(E, n)
  <2>1. PICK m \in Nat: n = m + 1 /\ n - 1 = m
    <3>1. n - 1 \in Nat /\ n = (n - 1) + 1
      BY <1>3
    <3> QED BY <3>1
  <2>2. /\ Spoiled(E, m) => ex > before
        /\ ~Spoiled(E, m) => ex = before
    BY <1>3, <2>1 DEF ExcessHolds
  <2>3. Spoiled(E, n) <=> Spoiled(E, m) \/ Spoils(E, n)
    BY <2>1, SpoiledStep
  <2>4. Spoils(E, n) => before > 0
    BY DEF Spoils
  <2> HIDE DEF before
  <2> QED BY <1>1, <2>2, <2>3, <2>4
<1>4. ASSUME n > 0, ~Spoiled(E, n), E[n + 1].text \notin Closers
      PROVE  ex = 0
  <2>1. ex = before /\ ~Spoils(E, n)
    BY <1>3, <1>4
  <2>2. ~IsLast(E, n)
    BY <1>4 DEF IsLast
  <2> QED BY <1>1, <2>1, <2>2 DEF Spoils
<1> HIDE DEF loss, before
<1>5. next \in Nat
  BY <1>1 DEF loss
<1>6. ASSUME Spoiled(E, n) PROVE next > loss
  <2>1. n > 0 /\ ex > 0
    BY <1>2, <1>3, <1>6
  <2> QED BY <1>1, <1>6, <2>1 DEF loss
<1>7. ASSUME ~Spoiled(E, n) PROVE next = loss
  <2>1. CASE E[n + 1].text \in Closers
    BY <1>1, <1>7, <2>1
  <2>2. CASE E[n + 1].text \notin Closers
    <3>1. ex = 0
      BY <1>2, <1>4, <1>7, <2>2
    <3> QED BY <1>1, <2>2, <3>1 DEF loss
  <2> QED BY <2>1, <2>2
<1>8. n + 1 > 0 /\ ~(n + 1 = 0) /\ (n + 1) - 1 = n
  OBVIOUS
<1> QED BY <1>5, <1>6, <1>7, <1>8 DEF ExcessHolds, loss

\* A call of the builder between start_buffer and end_buffer: the line it writes,
\* after a closing bracket has taken the last comma away, and what it leaves in the
\* static variables.
LEMMA CallWrites ==
  ASSUME NEW call \in CallSet, NEW entry \in EntrySet, NEW s \in BuilderStates, NEW t,
         Adds(call, entry, s, t), s = BuilderState(indent_level, in_array), Execute(call),
         excess \in Nat
  PROVE  /\ t = BuilderState(indent_level', in_array')
         /\ json_buffer' = Append(IF entry.text \in Closers THEN WithoutLastComa(json_buffer)
                                  ELSE json_buffer,
                                  EntryLine(entry, entry.text \notin Openers
                                                     /\ LossOf(entry.text) < 2,
                                            LossOf(entry.text) = 0))
         /\ excess' = IF entry.text \in Closers THEN ExcessLeft ELSE excess + LossOf(entry.text)
         /\ entry.text \in Closers => s.indent > 0
<1>1. s.indent = indent_level /\ s.arr = in_array /\ indent_level \in Nat /\ in_array \in BOOLEAN
  BY DEF BuilderState, BuilderStates
<1>2. CASE call.op = "add_parameter"
  <2>1. entry = Entry(call.key, call.value, indent_level) /\ t = s /\ call.value \in ParamValues
    BY <1>1, <1>2 DEF Adds
  <2>2. cclog_json_add_parameter(call.key, call.value)
    BY <1>2 DEF Execute
  <2>3. call.value \notin Openers /\ call.value \notin Closers
    BY <2>1, Texts
  <2> QED BY <2>1, <2>2, <2>3 DEF cclog_json_add_parameter, Entry, EntryLine, Written
<1>3. CASE call.op = "add_object"
  <2>1. /\ entry = Entry(IF in_array THEN Unnamed ELSE call.key, BraceOpen, indent_level)
        /\ t = BuilderState(indent_level + 1, in_array)
    BY <1>1, <1>3 DEF Adds
  <2>2. cclog_json_add_object(call.key)
    BY <1>3 DEF Execute
  <2>3. BraceOpen \in Openers /\ BraceOpen \notin Closers /\ LossOf(BraceOpen) = 0
    BY Brackets, Texts
  <2> QED BY <2>1, <2>2, <2>3 DEF cclog_json_add_object, Entry, EntryLine, Written
<1>4. CASE call.op = "add_array"
  <2>1. /\ entry = Entry(call.key, BracketOpen, indent_level)
        /\ t = BuilderState(indent_level + 1, TRUE)
    BY <1>1, <1>4 DEF Adds
  <2>2. cclog_json_add_array(call.key)
    BY <1>4 DEF Execute
  <2>3. BracketOpen \in Openers /\ BracketOpen \notin Closers /\ LossOf(BracketOpen) = 0
    BY Brackets, Texts
  <2> QED BY <2>1, <2>2, <2>3 DEF cclog_json_add_array, Entry, EntryLine, Written
<1>5. CASE call.op = "end_object"
  <2>1. /\ indent_level > 0
        /\ entry = Entry(Unnamed, BraceClose, indent_level - 1)
        /\ t = BuilderState(indent_level - 1, in_array)
    BY <1>1, <1>5 DEF Adds
  <2>2. cclog_json_end_object
    BY <1>5 DEF Execute
  <2>3. BraceClose \in Closers /\ BraceClose \notin Openers /\ LossOf(BraceClose) = 0
    BY Brackets, Texts
  <2> QED BY <1>1, <2>1, <2>2, <2>3 DEF cclog_json_end_object, Entry, EntryLine, Written
<1>6. CASE call.op = "end_array"
  <2>1. /\ indent_level > 0
        /\ entry = Entry(Unnamed, BracketClose, indent_level - 1)
        /\ t = BuilderState(indent_level - 1, FALSE)
    BY <1>1, <1>6 DEF Adds
  <2>2. cclog_json_end_array
    BY <1>6 DEF Execute
  <2>3. BracketClose \in Closers /\ BracketClose \notin Openers /\ LossOf(BracketClose) = 0
    BY Brackets, Texts
  <2> QED BY <1>1, <2>1, <2>2, <2>3 DEF cclog_json_end_array, Entry, EntryLine, Written
<1> QED BY <1>2, <1>3, <1>4, <1>5, <1>6 DEF Adds
-----------------------------------------------------------------------------
(* Where a publication is.                                                 *)

\* What is left of the calls when k of them are made.
Remaining(calls, C, k) ==
  /\ calls \in Seq(AllCalls) /\ Len(calls) = Len(C) - k
  /\ \A i \in 1 .. Len(C) - k: calls[i] = C[k + i]

\* The next call of a list of calls, and what remains after it.
LEMMA RemainingTail ==
  ASSUME NEW C \in Seq(AllCalls), NEW k \in Nat, NEW calls, Remaining(calls, C, k)
  PROVE  /\ k < Len(C) => /\ calls # <<>> /\ Head(calls) = C[k + 1]
                          /\ Remaining(Tail(calls), C, k + 1)
         /\ k >= Len(C) => calls = <<>>
<1>1. /\ calls \in Seq(AllCalls) /\ Len(calls) = Len(C) - k /\ Len(C) \in Nat
      /\ \A i \in 1 .. Len(C) - k: calls[i] = C[k + i]
  BY DEF Remaining
<1>2. ASSUME k < Len(C)
      PROVE  calls # <<>> /\ Head(calls) = C[k + 1] /\ Remaining(Tail(calls), C, k + 1)
  <2>1. calls # <<>> /\ 1 \in 1 .. Len(C) - k
    BY <1>1, <1>2
  <2>2. Head(calls) = calls[1]
    BY <1>1, <2>1
  <2>3. /\ Tail(calls) \in Seq(AllCalls) /\ Len(Tail(calls)) = Len(calls) - 1
        /\ \A i \in 1 .. Len(calls) - 1: Tail(calls)[i] = calls[i + 1]
    BY <1>1, <2>1
  <2> DEFINE rest == Tail(calls)
  <2> HIDE DEF rest
  <2>4. rest \in Seq(AllCalls) /\ Len(rest) = Len(C) - (k + 1)
    BY <1>1, <2>3 DEF rest
  <2>5. ASSUME NEW i \in 1 .. Len(C) - (k + 1) PROVE rest[i] = C[(k + 1) + i]
    <3>0. PICK m \in Nat: m = Len(C)
      OBVIOUS
    <3>1. /\ i \in 1 .. Len(calls) - 1 /\ i + 1 \in 1 .. Len(C) - k
          /\ k + (i + 1) = (k + 1) + i
      <4>1. i \in Nat /\ 1 <= i /\ i <= m - (k + 1)
        BY <3>0
      <4>2. k + (i + 1) = (k + 1) + i
        BY <4>1
      <4>3. 1 <= i + 1 /\ i + 1 <= m - k /\ i <= (m - k) - 1
        BY <4>1
      <4> QED BY <1>1, <3>0, <4>1, <4>2, <4>3
    <3>2. rest[i] = calls[i + 1] /\ calls[i + 1] = C[k + (i + 1)]
      BY <1>1, <2>3, <3>1 DEF rest
    <3> QED BY <3>1, <3>2
  <2>6. Remaining(rest, C, k + 1)
    BY <2>4, <2>5 DEF Remaining
  <2> QED BY <1>1, <2>1, <2>2, <2>6 DEF rest
<1>3. k >= Len(C) => calls = <<>>
  BY <1>1
<1> QED BY <1>2, <1>3

\* The buffer holds the first n entries.
BufferHolds(E, n) ==
  json_buffer = Lines(E, n) /\ ExcessHolds(E, n, excess)

\* The static variables are those after the member before the n-th entry.
Underway(c, n) ==
  \E arr \in BOOLEAN: \E st:
    /\ Passes(st, MemberCalls(c), MemberEntries(c), BuilderState(1, arr), BuilderState(1, FALSE))
    /\ BuilderState(indent_level, in_array) = st[n]

\* n entries of c are written.
Building(c, n) ==
  /\ indent_level \in Nat /\ in_array \in BOOLEAN
  /\ BufferHolds(ConfigEntries(c), n)
  /\ n <= Len(MemberCalls(c)) + 1 => Underway(c, n)

\* None is.
Cleared ==
  json_buffer = <<>> /\ excess = 0 /\ indent_level = 0 /\ in_array \in BOOLEAN

\* k calls of the publication of c are made.
Made(c, k) ==
  /\ k \in 0 .. Len(MemberCalls(c)) + 3
  /\ Remaining(program, ConfigCalls(c), k)
  /\ k <= 1 => Cleared
  /\ k > 1 => Building(c, k - 1)

\* Inductive invariant: some number of the calls for the configuration are made.
PublishInv == config \in Configs /\ \E k \in Nat: Made(config, k)

\* A call that writes the next entry of a configuration.
LEMMA EntryWritten ==
  ASSUME NEW E \in Seq(EntrySet), NEW n \in Nat, n < Len(E), BufferHolds(E, n),
         E[n + 1].text \in Closers => n > 0,
         json_buffer' = Append(IF E[n + 1].text \in Closers THEN WithoutLastComa(json_buffer)
                               ELSE json_buffer, FreshLine(E, n + 1)),
         excess' = IF E[n + 1].text \in Closers THEN ExcessLeft
                   ELSE excess + LossOf(E[n + 1].text)
  PROVE  BufferHolds(E, n + 1)'
<1>1. Len(E) \in Nat
  OBVIOUS
<1>2. PICK ex: ex = excess
  OBVIOUS
<1>3. PICK buffer: buffer = json_buffer
  OBVIOUS
<1>4. PICK base: base = IF E[n + 1].text \in Closers THEN WithoutLastComa(json_buffer)
                        ELSE json_buffer
  OBVIOUS
<1>5. ExcessHolds(E, n, ex) /\ ExcessHolds(E, n, excess) /\ buffer = Lines(E, n)
      /\ json_buffer = Lines(E, n)
  BY <1>2, <1>3 DEF BufferHolds
<1>6. E[n + 1].text \in Closers => (LooksAtComa(json_buffer) <=> ~Spoiled(E, n))
  BY <1>1, <1>5, LooksWhenNotSpoiled
<1>7. base = IF E[n + 1].text \in Closers /\ ~Spoiled(E, n)
             THEN [buffer EXCEPT ![Len(buffer)] = Bare(@)] ELSE buffer
  BY <1>3, <1>4, <1>6, Zenon DEF WithoutLastComa
<1>8. Append(base, FreshLine(E, n + 1)) = Lines(E, n + 1)
  BY <1>1, <1>5, <1>7, WriteEntry
<1>9. json_buffer' = Lines(E, n + 1)
  BY <1>4, <1>8
<1>10. PICK next: next = excess'
  OBVIOUS
<1>11. next = IF E[n + 1].text \in Closers
              THEN IF Spoiled(E, n) THEN ex ELSE 0
              ELSE ex + LossOf(E[n + 1].text)
  BY <1>2, <1>6, <1>10, Zenon DEF ExcessLeft
<1>12. ExcessHolds(E, n + 1, next)
  BY <1>1, <1>5, <1>11, ExcessStep
<1>13. ExcessHolds(E, n + 1, excess)'
  BY <1>10, <1>12 DEF ExcessHolds
<1> QED BY <1>9, <1>13 DEF BufferHolds

\* A call for a member writes its entry.
LEMMA MemberWritten ==
  ASSUME NEW c \in Configs, NEW n \in 1 .. Len(MemberCalls(c)), Building(c, n),
         Execute(MemberCalls(c)[n])
  PROVE  Building(c, n + 1)'
<1> DEFINE E == ConfigEntries(c)
           mc == MemberCalls(c)
           me == MemberEntries(c)
           m == Len(mc)
<1>1. m \in Nat /\ Len(E) = m + 2 /\ E \in Seq(EntrySet) /\ \A i \in 1 .. m: E[i + 1] = me[i]
  BY ProgramShape
<1>2. mc \in Seq(CallSet) /\ me \in Seq(EntrySet) /\ Len(me) = m
  BY BuildsMembers DEF Builds
<1> HIDE DEF E, mc, me, m
<1>3. n \in 1 .. m /\ n \in Nat /\ n <= m + 1
  BY <1>1 DEF m, mc
<1>a. PICK arr \in BOOLEAN: \E st:
        /\ Passes(st, mc, me, BuilderState(1, arr), BuilderState(1, FALSE))
        /\ BuilderState(indent_level, in_array) = st[n]
  BY <1>3 DEF Building, Underway, m, mc, me
<1>4. PICK st:
        /\ Passes(st, mc, me, BuilderState(1, arr), BuilderState(1, FALSE))
        /\ BuilderState(indent_level, in_array) = st[n]
  BY <1>a, Zenon
<1>5. PICK call: call = mc[n]
  OBVIOUS
<1>6. PICK entry: entry = me[n]
  OBVIOUS
<1>7. call \in CallSet /\ entry \in EntrySet
  BY <1>2, <1>3, <1>5, <1>6 DEF m
<1>8. Adds(call, entry, st[n], st[n + 1]) /\ st[n] \in BuilderStates /\ st[n + 1] \in BuilderStates
  <2>1. n \in 1 .. m + 1 /\ n + 1 \in 1 .. m + 1
    BY <1>1, <1>3
  <2> QED BY <1>3, <1>4, <1>5, <1>6, <2>1 DEF Passes, m
<1>9. Execute(call)
  BY <1>5 DEF mc
<1>10. PICK s \in BuilderStates: s = st[n]
  BY <1>8
<1>11. PICK t \in BuilderStates: t = st[n + 1]
  BY <1>8
<1>12. Adds(call, entry, s, t) /\ s = BuilderState(indent_level, in_array)
  BY <1>4, <1>8, <1>10, <1>11
<1>14. BufferHolds(E, n)
  BY DEF Building, E
<1>13. /\ t = BuilderState(indent_level', in_array')
       /\ json_buffer' = Append(IF entry.text \in Closers THEN WithoutLastComa(json_buffer)
                                ELSE json_buffer,
                                EntryLine(entry, entry.text \notin Openers
                                                   /\ LossOf(entry.text) < 2,
                                          LossOf(entry.text) = 0))
       /\ excess' = IF entry.text \in Closers THEN ExcessLeft ELSE excess + LossOf(entry.text)
  <2>1. excess \in Nat
    BY <1>14 DEF BufferHolds, ExcessHolds
  <2> QED BY <1>7, <1>9, <1>12, <2>1, CallWrites
<1>15. n < Len(E) /\ n + 1 < Len(E) /\ E[n + 1] = entry /\ n > 0
  BY <1>1, <1>3, <1>6
<1>16. FreshLine(E, n + 1) = EntryLine(entry, entry.text \notin Openers
                                                /\ LossOf(entry.text) < 2,
                                       LossOf(entry.text) = 0)
  <2>1. FreshComma(E, n + 1) = (entry.text \notin Openers /\ LossOf(entry.text) < 2)
    BY <1>15 DEF FreshComma
  <2>2. FreshNewline(E, n + 1) = (LossOf(entry.text) = 0)
    BY <1>15 DEF FreshNewline
  <2> QED BY <1>15, <2>1, <2>2, Zenon DEF FreshLine
<1>17. json_buffer' = Append(IF E[n + 1].text \in Closers THEN WithoutLastComa(json_buffer)
                             ELSE json_buffer, FreshLine(E, n + 1))
  BY <1>13, <1>15, <1>16, Zenon
<1>18. excess' = IF E[n + 1].text \in Closers THEN ExcessLeft
                 ELSE excess + LossOf(E[n + 1].text)
  BY <1>13, <1>15
<1>19. BufferHolds(E, n + 1)'
  BY <1>1, <1>3, <1>14, <1>15, <1>17, <1>18, EntryWritten
<1>20. indent_level' \in Nat /\ in_array' \in BOOLEAN
  BY <1>13 DEF BuilderState, BuilderStates
<1>21. Underway(c, n + 1)'
  BY <1>4, <1>11, <1>13, Zenon DEF Underway, mc, me
<1> QED BY <1>19, <1>20, <1>21 DEF Building, E

\* cclog_json_start_buffer writes the first.
LEMMA StartWritten ==
  ASSUME NEW c \in Configs, Cleared, cclog_json_start_buffer
  PROVE  Building(c, 1)'
<1> DEFINE E == ConfigEntries(c)
<1>1. E \in Seq(EntrySet) /\ 0 < Len(E) /\ 1 < Len(E) /\ E[1] = Entry(Unnamed, BraceOpen, 0)
  <2>1. PICK m: m = Len(MemberCalls(c))
    OBVIOUS
  <2>2. m \in Nat /\ E \in Seq(EntrySet) /\ Len(E) = m + 2 /\ E[1] = Entry(Unnamed, BraceOpen, 0)
    BY <2>1, ProgramShape
  <2> QED BY <2>2
<1>2. json_buffer = <<>> /\ excess = 0 /\ indent_level = 0 /\ in_array \in BOOLEAN
  BY DEF Cleared
<1>3. /\ json_buffer' = Written(<<>>, Unnamed, BraceOpen, FALSE, indent_level)
      /\ indent_level' = indent_level + 1 /\ excess' = excess /\ in_array' = in_array
  BY <1>2 DEF cclog_json_start_buffer
<1>4. indent_level' = 1 /\ excess' = 0 /\ in_array' \in BOOLEAN
  BY <1>2, <1>3
<1>5. BraceOpen \in Openers /\ BraceOpen \notin Closers /\ LossOf(BraceOpen) = 0
  BY Brackets, Texts
<1> HIDE DEF E
<1>6. E[1].text = BraceOpen /\ E[1].name = Unnamed /\ E[1].indent = 0
  BY <1>1 DEF Entry
<1>7. /\ (FALSE /\ LossOf(BraceOpen) < 2) = FreshComma(E, 1)
      /\ (LossOf(BraceOpen) = 0) = FreshNewline(E, 1)
  BY <1>5, <1>6 DEF FreshComma, FreshNewline
<1>8. json_buffer' = Append(<<>>, FreshLine(E, 1))
  BY <1>2, <1>3, <1>6, <1>7, Zenon DEF Written, FreshLine, EntryLine
<1>9. Lines(E, 0) = <<>>
  BY DEF Lines
<1>10. BufferHolds(E, 0)
  BY <1>2, <1>9 DEF BufferHolds, ExcessHolds
<1>11. BufferHolds(E, 0 + 1)'
  <2>1. 0 + 1 = 1 /\ 0 \in Nat
    OBVIOUS
  <2>2. excess' = IF E[0 + 1].text \in Closers THEN ExcessLeft
                  ELSE excess + LossOf(E[0 + 1].text)
    BY <1>2, <1>3, <1>5, <1>6
  <2>3. E[0 + 1].text \in Closers => 0 > 0
    BY <1>5, <1>6
  <2>4. json_buffer' = Append(IF E[0 + 1].text \in Closers THEN WithoutLastComa(json_buffer)
                              ELSE json_buffer, FreshLine(E, 0 + 1))
    BY <1>2, <1>5, <1>6, <1>8
  <2> QED BY <1>1, <1>10, <2>1, <2>2, <2>3, <2>4, EntryWritten
<1>12. Underway(c, 1)'
  <2>1. PICK arr \in BOOLEAN: arr = in_array'
    BY <1>4
  <2>2. PICK st: Passes(st, MemberCalls(c), MemberEntries(c), BuilderState(1, arr),
                        BuilderState(1, FALSE))
    BY BuildsMembers DEF Builds
  <2>3. BuilderState(indent_level, in_array)' = st[1]
    BY <1>4, <2>1, <2>2 DEF Passes
  <2> QED BY <2>2, <2>3 DEF Underway
<1> QED BY <1>4, <1>11, <1>12 DEF Building, E

\* cclog_json_end_buffer writes the last.
LEMMA EndWritten ==
  ASSUME NEW c \in Configs, NEW n, n = Len(MemberCalls(c)) + 1, Building(c, n),
         cclog_json_end_buffer
  PROVE  Building(c, n + 1)'
<1> DEFINE E == ConfigEntries(c)
           m == Len(MemberCalls(c))
<1>1. /\ m \in Nat /\ Len(E) = m + 2 /\ E \in Seq(EntrySet)
      /\ E[m + 2] = Entry(Unnamed, BraceClose, 0)
  BY ProgramShape
<1>2. Underway(c, n) /\ BufferHolds(E, n)
  BY <1>1 DEF Building
<1>3. PICK arr \in BOOLEAN: \E st:
        /\ Passes(st, MemberCalls(c), MemberEntries(c), BuilderState(1, arr),
                  BuilderState(1, FALSE))
        /\ BuilderState(indent_level, in_array) = st[n]
  BY <1>2 DEF Underway
<1>4. BuilderState(indent_level, in_array) = BuilderState(1, FALSE)
  <2>1. PICK st:
          /\ Passes(st, MemberCalls(c), MemberEntries(c), BuilderState(1, arr),
                    BuilderState(1, FALSE))
          /\ BuilderState(indent_level, in_array) = st[n]
    BY <1>3, Zenon
  <2> QED BY <2>1 DEF Passes
<1>5. indent_level = 1 /\ in_array = FALSE
  BY <1>4 DEF BuilderState
<1>6. /\ json_buffer' = Written(WithoutLastComa(json_buffer), Unnamed, BraceClose, FALSE,
                                indent_level - 1)
      /\ indent_level' = 0 /\ in_array' \in BOOLEAN /\ excess' = ExcessLeft
  <2>1. /\ json_buffer' = Written(WithoutLastComa(json_buffer), Unnamed, BraceClose, FALSE,
                                  indent_level - 1)
        /\ indent_level' = indent_level - 1 /\ in_array' = in_array /\ excess' = ExcessLeft
    BY DEF cclog_json_end_buffer
  <2>2. indent_level' = 0
    BY <1>5, <2>1
  <2>3. in_array' \in BOOLEAN
    BY <1>5, <2>1
  <2> QED BY <2>1, <2>2, <2>3
<1> HIDE DEF E, m
<1>7. n \in Nat /\ n > 0 /\ n < Len(E) /\ n + 1 = m + 2 /\ ~(n + 1 < Len(E))
  BY <1>1 DEF m
<1>8. BraceClose \in Closers /\ LossOf(BraceClose) = 0 /\ indent_level - 1 = 0
  BY <1>5, Brackets, Texts
<1>9. E[n + 1].text = BraceClose /\ E[n + 1].name = Unnamed /\ E[n + 1].indent = 0
  BY <1>1, <1>7 DEF Entry
<1>10. /\ (FALSE /\ LossOf(BraceClose) < 2) = FreshComma(E, n + 1)
       /\ (LossOf(BraceClose) = 0) = FreshNewline(E, n + 1)
  BY <1>7, <1>9 DEF FreshComma, FreshNewline
<1>11. json_buffer' = Append(WithoutLastComa(json_buffer), FreshLine(E, n + 1))
  BY <1>6, <1>8, <1>9, <1>10, Zenon DEF Written, FreshLine, EntryLine
<1>12. BufferHolds(E, n + 1)'
  <2>1. json_buffer' = Append(IF E[n + 1].text \in Closers THEN WithoutLastComa(json_buffer)
                              ELSE json_buffer, FreshLine(E, n + 1))
    BY <1>8, <1>9, <1>11
  <2>2. excess' = IF E[n + 1].text \in Closers THEN ExcessLeft
                  ELSE excess + LossOf(E[n + 1].text)
    BY <1>6, <1>8, <1>9
  <2> QED BY <1>1, <1>2, <1>7, <2>1, <2>2, EntryWritten
<1>13. ~(n + 1 <= m + 1)
  BY <1>1, <1>7
<1> QED BY <1>6, <1>12, <1>13 DEF Building, E, m

\* buffer_clear clears the builder.
LEMMA ClearedByClear ==
  ASSUME in_array \in BOOLEAN, cclog_json_buffer_clear
  PROVE  Cleared'
BY DEF Cleared, cclog_json_buffer_clear

\* The calls that begin and end a document.
LEMMA OneCall ==
  ASSUME NEW call, Execute(call)
  PROVE  /\ call.op = "buffer_clear" => cclog_json_buffer_clear
         /\ call.op = "start_buffer" => cclog_json_start_buffer
         /\ call.op = "end_buffer" => cclog_json_end_buffer
BY DEF Execute

\* The next call of the publication.
LEMMA PublishCall ==
  ASSUME NEW c \in Configs, NEW k \in Nat, Made(c, k), PublishStep
  PROVE  Made(c, k + 1)'
<1> DEFINE C == ConfigCalls(c)
           mc == MemberCalls(c)
           m == Len(mc)
<1>1. /\ m \in Nat /\ C \in Seq(AllCalls) /\ Len(C) = m + 3
      /\ C[1].op = "buffer_clear" /\ C[2].op = "start_buffer" /\ C[m + 3].op = "end_buffer"
      /\ \A i \in 1 .. m: C[i + 2] = mc[i]
  BY ProgramShape
<1>2. /\ k \in 0 .. m + 3 /\ Remaining(program, C, k)
      /\ k <= 1 => Cleared
      /\ k > 1 => Building(c, k - 1)
  BY DEF Made
<1>3. program # <<>> /\ program' = Tail(program) /\ Execute(Head(program))
  BY DEF PublishStep, Publishing
<1> HIDE DEF C, mc, m
<1>4. k < m + 3
  BY <1>1, <1>2, <1>3, RemainingTail
<1>5. Execute(C[k + 1]) /\ Remaining(program', C, k + 1)
  BY <1>1, <1>2, <1>3, <1>4, RemainingTail
<1>6. k + 1 \in 0 .. m + 3
  BY <1>1, <1>4
<1>7. CASE k = 0
  <2>1. cclog_json_buffer_clear
    BY <1>1, <1>5, <1>7, OneCall
  <2>2. in_array \in BOOLEAN
    BY <1>2, <1>7 DEF Cleared
  <2>3. Cleared'
    BY <2>1, <2>2, ClearedByClear
  <2>4. k + 1 <= 1 /\ ~(k + 1 > 1)
    BY <1>7
  <2> QED BY <1>5, <1>6, <2>3, <2>4 DEF Made, C, mc, m
<1>8. CASE k = 1
  <2>1. cclog_json_start_buffer
    BY <1>1, <1>5, <1>8, OneCall
  <2>2. Building(c, 1)'
    BY <1>2, <1>8, <2>1, StartWritten
  <2>3. ~(k + 1 <= 1) /\ (k + 1) - 1 = 1
    BY <1>8
  <2> QED BY <1>5, <1>6, <2>2, <2>3 DEF Made, C, mc, m
<1>9. CASE k > 1
  <2>1. PICK n \in Nat: n = k - 1
    BY <1>9
  <2>2. ~(k + 1 <= 1) /\ (k + 1) - 1 = n + 1 /\ k + 1 = n + 2 /\ Building(c, n)
    BY <1>2, <1>9, <2>1
  <2>3. CASE n <= m
    <3>1. n \in 1 .. m
      BY <1>1, <1>9, <2>1, <2>3
    <3>2. Execute(mc[n])
      BY <1>1, <1>5, <2>2, <3>1
    <3>3. Building(c, n + 1)'
      BY <2>2, <3>1, <3>2, MemberWritten DEF m, mc
    <3> QED BY <1>5, <1>6, <2>2, <3>3 DEF Made, C, mc, m
  <2>4. CASE n > m
    <3>1. n = m + 1 /\ k + 1 = m + 3
      BY <1>1, <1>4, <2>1, <2>4
    <3>2. cclog_json_end_buffer
      BY <1>1, <1>5, <3>1, OneCall
    <3>3. Building(c, n + 1)'
      BY <2>2, <3>1, <3>2, EndWritten DEF m, mc
    <3> QED BY <1>5, <1>6, <2>2, <3>3 DEF Made, C, mc, m
  <2>5. n <= m \/ n > m
    BY <1>1
  <2> QED BY <2>3, <2>4, <2>5, Zenon
<1>10. k = 0 \/ k = 1 \/ k > 1
  OBVIOUS
<1> QED BY <1>7, <1>8, <1>9, <1>10, Zenon

\* The calls of a new document, of which the first clears the buffer.
LEMMA Started ==
  ASSUME NEW c \in Configs
  PROVE  /\ Remaining(ConfigCalls(c), ConfigCalls(c), 0)
         /\ Remaining(Tail(ConfigCalls(c)), ConfigCalls(c), 1)
         /\ Head(ConfigCalls(c)).op = "buffer_clear"
<1> DEFINE C == ConfigCalls(c)
           m == Len(MemberCalls(c))
<1>1. m \in Nat /\ C \in Seq(AllCalls) /\ Len(C) = m + 3 /\ C[1].op = "buffer_clear"
  BY ProgramShape
<1> HIDE DEF C, m
<1>2. Remaining(C, C, 0)
  BY <1>1 DEF Remaining
<1>3. 0 < Len(C) /\ 0 + 1 = 1 /\ 0 \in Nat
  BY <1>1
<1>4. Head(C) = C[0 + 1] /\ Remaining(Tail(C), C, 0 + 1)
  BY <1>1, <1>2, <1>3, RemainingTail
<1> QED BY <1>1, <1>2, <1>3, <1>4 DEF C

\* The invariant holds in every state.
LEMMA PublishInvariant == Spec => []PublishInv
<1>1. Init => PublishInv
  <2> SUFFICES ASSUME Init PROVE PublishInv
    OBVIOUS
  <2>1. config \in Configs /\ program = ConfigCalls(config) /\ Cleared
    BY DEF Init, BuilderInit, Cleared
  <2>2. PICK c \in Configs: c = config
    BY <2>1
  <2>3. Len(MemberCalls(c)) \in Nat
    BY ProgramShape
  <2>4. Made(c, 0)
    BY <2>1, <2>2, <2>3, Started DEF Made
  <2> QED BY <2>2, <2>4 DEF PublishInv
<1>2. PublishInv /\ [Next]_vars => PublishInv'
  <2> SUFFICES ASSUME PublishInv, [Next]_vars PROVE PublishInv'
    OBVIOUS
  <2>1. PICK k \in Nat: Made(config, k)
    BY DEF PublishInv
  <2>2. config \in Configs
    BY DEF PublishInv
  <2>3. ASSUME NEW c \in Configs, BeginPublish(c) PROVE PublishInv'
    <3>1. config' = c /\ program' = Tail(ConfigCalls(c)) /\ Execute(Head(ConfigCalls(c)))
      BY <2>3 DEF BeginPublish
    <3>2. in_array \in BOOLEAN
      BY <2>1 DEF Made, Building, Cleared
    <3>3. Cleared'
      BY <3>1, <3>2, Started, OneCall, ClearedByClear
    <3>4. Len(MemberCalls(c)) \in Nat
      BY ProgramShape
    <3>5. Made(c, 1)'
      BY <3>1, <3>3, <3>4, Started DEF Made
    <3> QED BY <3>1, <3>5 DEF PublishInv
  <2>4. ASSUME PublishStep PROVE PublishInv'
    <3>1. PICK c \in Configs: c = config
      BY <2>2
    <3>2. config' = c
      BY <2>4, <3>1 DEF PublishStep
    <3>3. Made(c, k + 1)'
      BY <2>1, <2>4, <3>1, PublishCall
    <3> QED BY <3>2, <3>3 DEF PublishInv
  <2>5. ASSUME UNCHANGED <<builderVars, writerVars>> PROVE PublishInv'
    <3>1. Made(config, k)'
      BY <2>1, <2>5 DEF Made, Cleared, Building, BufferHolds, Underway, builderVars, writerVars
    <3> QED BY <2>2, <2>5, <3>1 DEF PublishInv, writerVars
  <2> QED BY <2>3, <2>4, <2>5 DEF Next, vars, ReadLength, CopyLine, CopyEnds
<1> QED BY <1>1, <1>2, PTL DEF Spec

-----------------------------------------------------------------------------
(* What is in the buffer.                                                  *)

\* Whatever is under way, the buffer is a sequence of lines.
LEMMA BufferIsText ==
  PublishInv => /\ \E T: json_buffer \in Seq(T)
                /\ Len(json_buffer) \in Nat /\ excess \in Nat
<1> SUFFICES ASSUME PublishInv
             PROVE  /\ \E T: json_buffer \in Seq(T)
                    /\ Len(json_buffer) \in Nat /\ excess \in Nat
  OBVIOUS
<1>1. PICK k \in Nat: Made(config, k)
  BY DEF PublishInv
<1>2. CASE k <= 1
  <2>1. json_buffer = <<>> /\ excess = 0
    BY <1>1, <1>2 DEF Made, Cleared
  <2>2. json_buffer \in Seq({}) /\ Len(json_buffer) = 0
    BY <2>1
  <2> QED BY <2>1, <2>2
<1>3. CASE k > 1
  <2>1. PICK n \in Nat: n = k - 1
    BY <1>3
  <2>2. json_buffer = Lines(ConfigEntries(config), n) /\ excess \in Nat
    BY <1>1, <1>3, <2>1 DEF Made, Building, BufferHolds, ExcessHolds
  <2>3. /\ json_buffer = [i \in 1 .. n |-> json_buffer[i]] /\ DOMAIN json_buffer = 1 .. n
    BY <2>2 DEF Lines
  <2> DEFINE T == {json_buffer[i] : i \in 1 .. n}
  <2>4. \A i \in 1 .. n: json_buffer[i] \in T
    OBVIOUS
  <2> HIDE DEF T
  <2>5. json_buffer \in Seq(T) /\ Len(json_buffer) = n
    BY <2>3, <2>4
  <2> QED BY <2>2, <2>5
<1> QED BY <1>2, <1>3

\* When no call is left, the buffer holds the document.
LEMMA PublishedText ==
  PublishInv /\ ~Publishing => json_buffer = Document[config]
<1> SUFFICES ASSUME PublishInv, ~Publishing PROVE json_buffer = Document[config]
  OBVIOUS
<1>1. PICK k \in Nat: Made(config, k)
  BY DEF PublishInv
<1>2. PICK c \in Configs: c = config
  BY DEF PublishInv
<1>3. PICK m: m = Len(MemberCalls(c))
  OBVIOUS
<1>4. /\ m \in Nat /\ ConfigCalls(c) \in Seq(AllCalls) /\ Len(ConfigCalls(c)) = m + 3
      /\ Len(ConfigEntries(c)) = m + 2
  BY <1>3, ProgramShape
<1>5. k \in 0 .. m + 3 /\ Remaining(program, ConfigCalls(c), k)
  BY <1>1, <1>2, <1>3 DEF Made
<1>6. program = <<>>
  BY DEF Publishing
<1>7. k = m + 3
  BY <1>4, <1>5, <1>6, RemainingTail
<1>8. k > 1 /\ k - 1 = m + 2
  BY <1>4, <1>7
<1>9. json_buffer = Lines(ConfigEntries(c), m + 2)
  BY <1>1, <1>2, <1>8 DEF Made, Building, BufferHolds
<1> QED BY <1>2, <1>4, <1>9, DocumentLines

\* The commas of a document are right up to its first cut.
LEMMA DocumentCommas ==
  ASSUME NEW c \in Configs
  PROVE  CommasRightBefore(Document[c], FirstCut(Document[c]))
<1> DEFINE E == ConfigEntries(c)
           lines == Document[c]
           last == Len(E)
           Ends(n) == /\ \A i \in 1 .. n - 1: lines[i].newline
                      /\ n \in DOMAIN lines => ~lines[n].newline
<1>1. last \in Nat /\ lines = Lines(E, last)
  <2>1. PICK m: m = Len(MemberCalls(c))
    OBVIOUS
  <2>2. m \in Nat /\ last = m + 2
    BY <2>1, ProgramShape
  <2> QED BY <2>2, DocumentLines
<1> HIDE DEF E
<1>2. /\ DOMAIN lines = 1 .. last /\ Len(lines) = last
      /\ \A i \in 1 .. last:
           lines[i] = IF i < last THEN FinalLine(E, i) ELSE FreshLine(E, i)
  BY <1>1 DEF Lines
<1> HIDE DEF lines, last
<1>3. ASSUME NEW i \in 1 .. last
      PROVE  /\ lines[i].text = E[i].text
             /\ lines[i].newline => ~Spoils(E, i)
             /\ i < last => (lines[i].comma <=> Comma(E, i))
             /\ i = last => ~lines[i].comma
  <2>1. LossOf(E[i].text) \in Nat
    BY Texts
  <2>2. CASE i < last
    <3>1. lines[i] = FinalLine(E, i)
      BY <1>2, <2>2
    <3>2. /\ lines[i].text = E[i].text /\ lines[i].comma = Comma(E, i)
          /\ lines[i].newline = Newline(E, i)
      BY <3>1 DEF FinalLine, EntryLine, Line
    <3>3. Newline(E, i) => ~Spoils(E, i)
      BY <2>1 DEF Newline, Spoils
    <3> QED BY <1>1, <2>2, <3>2, <3>3
  <2>3. CASE ~(i < last)
    <3>1. lines[i] = FreshLine(E, i)
      BY <1>2, <2>3
    <3>2. /\ lines[i].text = E[i].text /\ lines[i].comma = FreshComma(E, i)
          /\ lines[i].newline = FreshNewline(E, i)
      BY <3>1 DEF FreshLine, EntryLine, Line
    <3>3. ~FreshComma(E, i)
      BY <2>3 DEF FreshComma, last
    <3>4. FreshNewline(E, i) => ~Spoils(E, i)
      BY <2>1 DEF FreshNewline, Spoils
    <3> QED BY <2>3, <3>2, <3>3, <3>4
  <2> QED BY <2>2, <2>3
<1>4. \E n \in 1 .. last + 1: Ends(n)
  <2> DEFINE T == {n \in 1 .. last + 1 : n \in DOMAIN lines => ~lines[n].newline}
  <2>1. last + 1 \in T /\ T \subseteq Nat
    BY <1>1, <1>2
  <2>2. PICK n \in T: \A y \in T: n <= y
    <3> HIDE DEF T
    <3> QED BY <2>1, SmallestExists
  <2>3. ASSUME NEW i \in 1 .. n - 1 PROVE lines[i].newline
    <3>1. i \in 1 .. last + 1 /\ ~(n <= i)
      BY <1>1, <2>2
    <3>2. i \notin T
      BY <2>2, <3>1
    <3> QED BY <3>1, <3>2
  <2> QED BY <2>2, <2>3
<1> DEFINE f == FirstCut(lines)
<1>5. f \in 1 .. last + 1 /\ Ends(f)
  BY <1>2, <1>4 DEF FirstCut
<1> HIDE DEF f
<1>6. ASSUME NEW i \in DOMAIN lines, i < f
      PROVE  lines[i].comma <=> /\ lines[i].text \notin Openers
                                /\ i < Len(lines) /\ lines[i + 1].text \notin Closers
  <2>1. i \in 1 .. last /\ \A j \in 1 .. i: j \in 1 .. f - 1 /\ j \in 1 .. last
    BY <1>1, <1>2, <1>5, <1>6
  <2>2. \A j \in 1 .. i: ~Spoils(E, j)
    BY <1>3, <1>5, <2>1
  <2>3. ~Spoiled(E, i)
    BY <2>2 DEF Spoiled
  <2>4. CASE i < last
    <3>1. i + 1 \in 1 .. last
      BY <1>1, <2>1, <2>4
    <3>2. lines[i].comma <=> Comma(E, i)
      BY <1>3, <2>1, <2>4
    <3>3. lines[i].text = E[i].text /\ lines[i + 1].text = E[i + 1].text
      BY <1>3, <2>1, <3>1
    <3>4. IsLast(E, i) <=> E[i + 1].text \in Closers
      BY <2>4 DEF IsLast, last
    <3>5. i \in 1 .. i
      BY <1>1, <2>1
    <3>6. LossOf(E[i].text) < 2 \/ lines[i + 1].text \in Closers
      <4>1. LossOf(E[i].text) \in Nat
        BY Texts
      <4> QED BY <2>2, <3>3, <3>4, <3>5, <4>1 DEF Spoils
    <3> QED BY <1>2, <2>3, <2>4, <3>2, <3>3, <3>4, <3>6 DEF Comma, last
  <2>5. CASE ~(i < last)
    <3>1. i = last
      BY <1>1, <2>1, <2>5
    <3> QED BY <1>2, <1>3, <2>1, <2>5, <3>1
  <2> QED BY <2>4, <2>5
<1> QED BY <1>6 DEF CommasRightBefore, f, lines

\* When no publication is under way the buffer holds the document of the current
\* configuration (cclog_json_load_current_config), whatever it and the static
\* variables of json.c held before, and its commas are right up to the first line
\* that has lost its newline (buffer_remove_last_coma).
THEOREM DocumentIsPublished == Spec => []PublishedDocument
<1>1. PublishInv => PublishedDocument
  BY PublishedText, DocumentCommas DEF PublishedDocument, PublishInv
<1> QED BY <1>1, PublishInvariant, PTL

-----------------------------------------------------------------------------
(* The pages.                                                              *)

PageTypes ==
  /\ page \in [Readers -> {"new", "copy", "served"}] /\ length \in [Readers -> Nat]
  /\ DOMAIN body = Readers
  /\ undisturbed \subseteq {r \in Readers : page[r] = "copy"}

\* A copy that no publication has overlapped is a beginning of the buffer, and no
\* publication is under way.
QuietCopies ==
  \A r \in undisturbed:
    /\ ~Publishing
    /\ length[r] = Len(json_buffer)
    /\ Len(body[r]) \in 0 .. Len(json_buffer)
    /\ body[r] = SubSeq(json_buffer, 1, Len(body[r]))

\* Inductive invariant of the pages, given that of the publications.
PageInv == PageTypes /\ QuietCopies

\* A reader that begins keeps the invariant of the pages.
LEMMA ReadLengthKeeps ==
  ASSUME PublishInv, PageInv, NEW r \in Readers, ReadLength(r)
  PROVE  PageInv'
<1>1. PICK T: json_buffer \in Seq(T)
  BY BufferIsText
<1>2. Len(json_buffer) \in Nat
  BY BufferIsText
<1>3. PageTypes'
  <2>1. page' \in [Readers -> {"new", "copy", "served"}]
    BY DEF PageInv, PageTypes, ReadLength
  <2>2. length' \in [Readers -> Nat]
    BY <1>2 DEF PageInv, PageTypes, ReadLength
  <2>3. DOMAIN body' = Readers
    BY DEF PageInv, PageTypes, ReadLength
  <2>4. undisturbed' \subseteq {s \in Readers : page'[s] = "copy"}
    BY DEF PageInv, PageTypes, ReadLength
  <2> QED BY <2>1, <2>2, <2>3, <2>4 DEF PageTypes
<1>4. ASSUME NEW s \in undisturbed'
      PROVE  /\ ~Publishing'
             /\ length'[s] = Len(json_buffer')
             /\ Len(body'[s]) \in 0 .. Len(json_buffer')
             /\ body'[s] = SubSeq(json_buffer', 1, Len(body'[s]))
  <2>1. json_buffer' = json_buffer /\ Publishing' = Publishing /\ s \in Readers
    BY <1>3 DEF ReadLength, builderVars, writerVars, Publishing, PageTypes
  <2>2. CASE s = r
    <3>1. ~Publishing
      BY <2>2 DEF ReadLength, PageInv, PageTypes
    <3>2. length'[s] = Len(json_buffer) /\ body'[s] = <<>>
      BY <2>1, <2>2 DEF ReadLength, PageInv, PageTypes
    <3>3. SubSeq(json_buffer, 1, 0) = <<>> /\ Len(<<>>) = 0
      BY <1>1
    <3> QED BY <1>2, <2>1, <3>1, <3>2, <3>3
  <2>3. CASE s # r
    <3>1. s \in undisturbed
      BY <2>3 DEF ReadLength
    <3>2. length'[s] = length[s] /\ body'[s] = body[s]
      BY <2>1, <2>3 DEF ReadLength, PageInv, PageTypes
    <3> QED BY <2>1, <3>1, <3>2 DEF PageInv, QuietCopies
  <2> QED BY <2>2, <2>3
<1> QED BY <1>3, <1>4 DEF PageInv, QuietCopies

\* One more element of the beginning of a sequence.
LEMMA Beginning ==
  ASSUME NEW T, NEW s \in Seq(T), NEW n \in Nat, n < Len(s)
  PROVE  Append(SubSeq(s, 1, n), s[n + 1]) = SubSeq(s, 1, n + 1)
         /\ Len(SubSeq(s, 1, n + 1)) = n + 1
OBVIOUS

\* A line that is copied keeps the invariant of the pages.
LEMMA CopyLineKeeps ==
  ASSUME PublishInv, PageInv, NEW r \in Readers, CopyLine(r)
  PROVE  PageInv'
<1>1. PICK T: json_buffer \in Seq(T)
  BY BufferIsText
<1>2. /\ page' = page /\ length' = length /\ undisturbed' = undisturbed
      /\ json_buffer' = json_buffer /\ Publishing' = Publishing
      /\ body' = [body EXCEPT ![r] = Append(@, json_buffer[Copied(r) + 1])]
      /\ Copied(r) < Len(json_buffer)
  BY DEF CopyLine, builderVars, writerVars, Publishing
<1>3. PageTypes'
  BY <1>2 DEF PageInv, PageTypes
<1>4. ASSUME NEW s \in undisturbed
      PROVE  /\ ~Publishing
             /\ length[s] = Len(json_buffer)
             /\ Len(body'[s]) \in 0 .. Len(json_buffer)
             /\ body'[s] = SubSeq(json_buffer, 1, Len(body'[s]))
  <2>1. /\ ~Publishing /\ length[s] = Len(json_buffer)
        /\ Len(body[s]) \in 0 .. Len(json_buffer)
        /\ body[s] = SubSeq(json_buffer, 1, Len(body[s]))
    BY DEF PageInv, QuietCopies
  <2>2. s \in Readers /\ DOMAIN body = Readers
    BY DEF PageInv, PageTypes
  <2>3. CASE s = r
    <3>1. PICK n: n = Len(body[r])
      OBVIOUS
    <3>2. n \in Nat /\ n < Len(json_buffer) /\ Len(json_buffer) \in Nat
      BY <1>2, <2>1, <2>3, <3>1, BufferIsText DEF Copied
    <3>3. body'[s] = Append(SubSeq(json_buffer, 1, n), json_buffer[n + 1])
      BY <1>2, <2>1, <2>2, <2>3, <3>1 DEF Copied
    <3>4. body'[s] = SubSeq(json_buffer, 1, n + 1) /\ Len(SubSeq(json_buffer, 1, n + 1)) = n + 1
      BY <1>1, <3>2, <3>3, Beginning
    <3>5. n + 1 \in 0 .. Len(json_buffer)
      BY <3>2
    <3> QED BY <2>1, <3>4, <3>5
  <2>4. CASE s # r
    <3>1. body'[s] = body[s]
      BY <1>2, <2>2, <2>4
    <3> QED BY <2>1, <3>1
  <2> QED BY <2>3, <2>4
<1> QED BY <1>2, <1>3, <1>4 DEF PageInv, QuietCopies

\* The end of a copy keeps the invariant of the pages.
LEMMA CopyEndsKeeps ==
  ASSUME PageInv, NEW r \in Readers, CopyEnds(r)
  PROVE  PageInv'
<1>1. PageTypes'
  BY DEF PageInv, PageTypes, CopyEnds
<1>2. QuietCopies'
  BY DEF PageInv, QuietCopies, CopyEnds, builderVars, writerVars, Publishing
<1> QED BY <1>1, <1>2 DEF PageInv

\* The invariant of the pages holds in every reachable state.
LEMMA PageInvariant == Spec => []PageInv
<1>1. Init => PageInv
  BY DEF Init, PageInv, PageTypes, QuietCopies
<1>2. PublishInv /\ PageInv /\ [Next]_vars => PageInv'
  <2> SUFFICES ASSUME PublishInv, PageInv, [Next]_vars PROVE PageInv'
    OBVIOUS
  <2>1. ASSUME NEW c \in Configs, BeginPublish(c) PROVE PageInv'
    <3>1. undisturbed' = {} /\ UNCHANGED readerVars
      BY <2>1 DEF BeginPublish
    <3> QED BY <3>1 DEF PageInv, PageTypes, QuietCopies, readerVars
  <2>2. ASSUME PublishStep PROVE PageInv'
    <3>1. UNCHANGED <<readerVars, undisturbed>> /\ undisturbed = {}
      BY <2>2 DEF PublishStep, PageInv, QuietCopies
    <3> QED BY <3>1 DEF PageInv, PageTypes, QuietCopies, readerVars
  <2>3. ASSUME UNCHANGED vars PROVE PageInv'
    BY <2>3 DEF PageInv, PageTypes, QuietCopies, Publishing, vars, builderVars, writerVars, readerVars
  <2> QED BY <2>1, <2>2, <2>3, ReadLengthKeeps, CopyLineKeeps, CopyEndsKeeps DEF Next
<1> QED BY <1>1, <1>2, PublishInvariant, PTL DEF Spec

\* The static variables of json.c stay in their types, json_buffer_lenght is never
\* less than the length of the text, and the pages are as server_mapping_config
\* leaves them.
THEOREM ConfigTypes == Spec => []TypeOK
<1>1. PublishInv /\ PageInv => TypeOK
  <2> SUFFICES ASSUME PublishInv, PageInv PROVE TypeOK
    OBVIOUS
  <2>1. PICK k \in Nat: Made(config, k)
    BY DEF PublishInv
  <2>2. indent_level \in Nat /\ in_array \in BOOLEAN
    <3>1. CASE k <= 1
      BY <2>1, <3>1 DEF Made, Cleared
    <3>2. CASE k > 1
      BY <2>1, <3>2 DEF Made, Building
    <3> QED BY <3>1, <3>2
  <2>3. excess \in Nat /\ config \in Configs
    BY BufferIsText DEF PublishInv
  <2> QED BY <2>2, <2>3 DEF TypeOK, PageInv, PageTypes
<1> QED BY <1>1, PublishInvariant, PageInvariant, PTL

\* A page whose copy no publication has overlapped announces the length of the
\* current document, and its body is a prefix of it (server_mapping_config).
THEOREM QuietPagesAreExact == Spec => []QuietPageExact
<1>1. PublishInv /\ PageInv => QuietPageExact
  BY PublishedText DEF PageInv, QuietCopies, QuietPageExact, Copied
<1> QED BY <1>1, PublishInvariant, PageInvariant, PTL

-----------------------------------------------------------------------------
(* The shared memory is a safe register.                                   *)

Reading == {r \in Readers : page[r] = "copy"}
Result == [r \in Readers |-> IF page[r] = "served" THEN body[r] ELSE NoValue]

\* A publication that begins is the start of a write of the register.
LEMMA BeginIsWrite ==
  ASSUME PublishInv, PageInv, NEW c \in Configs, BeginPublish(c)
  PROVE  Register!BeginWrite
<1>1. ~Publishing /\ config' = c /\ program' = Tail(ConfigCalls(c))
      /\ undisturbed' = {} /\ page' = page /\ body' = body
  BY DEF BeginPublish, readerVars
<1>2. Publishing'
  <2>1. PICK m: m = Len(MemberCalls(c))
    OBVIOUS
  <2>2. m \in Nat /\ ConfigCalls(c) \in Seq(AllCalls) /\ Len(ConfigCalls(c)) = m + 3
    BY <2>1, ProgramShape
  <2>3. PICK rest: rest = Tail(ConfigCalls(c))
    OBVIOUS
  <2>4. rest # <<>>
    <3>1. Len(rest) = m + 2
      BY <2>2, <2>3
    <3> QED BY <2>2, <3>1
  <2> QED BY <1>1, <2>3, <2>4 DEF Publishing
<1>3. Document[config'] \in {Document[d] : d \in Configs}
  BY <1>1
<1> QED BY <1>1, <1>2, <1>3 DEF Register!BeginWrite

\* A call of the builder ends the write or is a stutter.
LEMMA CallIsWrite ==
  ASSUME PublishStep
  PROVE  Register!EndWrite \/ UNCHANGED Register!registerVars
<1>1. Publishing /\ config' = config /\ undisturbed' = undisturbed /\ page' = page /\ body' = body
  BY DEF PublishStep, readerVars
<1>2. /\ (Document[config])' = Document[config]
      /\ Reading' = Reading /\ Result' = Result
  BY <1>1 DEF Document, Reading, Result
<1>3. CASE Publishing'
  <2>1. Publishing' = Publishing
    BY <1>1, <1>3
  <2> QED BY <1>1, <1>2, <2>1 DEF Register!registerVars, Reading, Result
<1>4. CASE ~Publishing'
  <2>1. Publishing' = FALSE
    BY <1>4 DEF Publishing
  <2> QED BY <1>1, <1>2, <2>1 DEF Register!EndWrite, Reading, Result
<1> QED BY <1>3, <1>4

\* A reader that begins is the start of a read of the register.
LEMMA ReadLengthIsBegin ==
  ASSUME PageInv, NEW r \in Readers, ReadLength(r)
  PROVE  Register!BeginRead(r)
<1>1. /\ page[r] # "copy" /\ page' = [page EXCEPT ![r] = "copy"]
      /\ body' = [body EXCEPT ![r] = <<>>]
      /\ undisturbed' = IF Publishing THEN undisturbed ELSE undisturbed \cup {r}
      /\ config' = config /\ Publishing' = Publishing
  BY DEF ReadLength, writerVars, Publishing
<1>2. DOMAIN page = Readers /\ DOMAIN body = Readers
  BY DEF PageInv, PageTypes
<1>3. Reading' = Reading \cup {r} /\ r \notin Reading
  BY <1>1, <1>2 DEF Reading
<1>4. Result' = [Result EXCEPT ![r] = NoValue]
  BY <1>1, <1>2 DEF Result
<1>5. (Document[config])' = Document[config]
  BY <1>1 DEF Document
<1> QED BY <1>1, <1>3, <1>4, <1>5 DEF Register!BeginRead, Reading, Result

\* A line that is copied is a stutter of the register.
LEMMA CopyLineIsStutter ==
  ASSUME PageInv, NEW r \in Readers, CopyLine(r)
  PROVE  UNCHANGED Register!registerVars
<1>1. /\ page[r] = "copy" /\ page' = page /\ undisturbed' = undisturbed
      /\ \A s \in Readers: s # r => body'[s] = body[s]
      /\ config' = config /\ Publishing' = Publishing
  BY DEF CopyLine, writerVars, Publishing, PageInv, PageTypes
<1>2. Reading' = Reading /\ Result' = Result
  BY <1>1 DEF Reading, Result
<1>3. (Document[config])' = Document[config]
  BY <1>1 DEF Document
<1> QED BY <1>1, <1>2, <1>3 DEF Register!registerVars, Reading, Result

\* The end of a copy is the end of a read of the register.
LEMMA CopyEndsIsEnd ==
  ASSUME PublishInv, PageInv, NEW r \in Readers, CopyEnds(r)
  PROVE  Register!EndRead(r)
<1>1. /\ page[r] = "copy" /\ page' = [page EXCEPT ![r] = "served"] /\ body' = body
      /\ undisturbed' = undisturbed \ {r} /\ Copied(r) >= Len(json_buffer)
      /\ config' = config /\ Publishing' = Publishing
  BY DEF CopyEnds, writerVars, Publishing
<1>2. DOMAIN page = Readers /\ DOMAIN body = Readers
  BY DEF PageInv, PageTypes
<1>3. r \in Reading /\ Reading' = Reading \ {r}
  BY <1>1, <1>2 DEF Reading
<1>4. Result'[r] = body[r] /\ \A s \in Readers \ {r}: Result'[s] = Result[s]
  BY <1>1, <1>2 DEF Result
<1>5. ASSUME r \in undisturbed PROVE body[r] = Document[config]
  <2>1. PICK T: json_buffer \in Seq(T)
    BY BufferIsText
  <2>2. /\ ~Publishing /\ Len(body[r]) \in 0 .. Len(json_buffer)
        /\ body[r] = SubSeq(json_buffer, 1, Len(body[r])) /\ Len(json_buffer) \in Nat
    BY <1>5, BufferIsText DEF PageInv, QuietCopies
  <2>3. Len(body[r]) = Len(json_buffer)
    BY <1>1, <2>2 DEF Copied
  <2>4. SubSeq(json_buffer, 1, Len(json_buffer)) = json_buffer
    BY <2>1
  <2> QED BY <2>2, <2>3, <2>4, PublishedText
<1>6. (Document[config])' = Document[config]
  BY <1>1 DEF Document
<1> QED BY <1>1, <1>3, <1>4, <1>5, <1>6 DEF Register!EndRead, Reading, Result

\* The memory the application and its server share is a safe register: a page that
\* is served shows the current document unless a publication overlapped its copy
\* (cclog_json_load_current_config, server_mapping_config).
THEOREM PageIsRegister == Spec => ImplementsRegister
<1>1. Init => Register!Init
  <2> SUFFICES ASSUME Init PROVE Register!Init
    OBVIOUS
  <2>1. Document[config] \in {Document[c] : c \in Configs} /\ Publishing \in BOOLEAN
    BY DEF Init, Publishing
  <2>2. Reading = {} /\ undisturbed = {} /\ Result = [r \in Readers |-> NoValue]
    BY DEF Init, Reading, Result
  <2> QED BY <2>1, <2>2 DEF Register!Init, Reading, Result
<1>2. PublishInv /\ PageInv /\ [Next]_vars => [Register!Next]_(Register!registerVars)
  <2> SUFFICES ASSUME PublishInv, PageInv, [Next]_vars
               PROVE  [Register!Next]_(Register!registerVars)
    OBVIOUS
  <2>1. ASSUME UNCHANGED vars PROVE UNCHANGED Register!registerVars
    BY <2>1 DEF vars, writerVars, readerVars, Publishing, Document, Register!registerVars
  <2> QED BY <2>1, BeginIsWrite, CallIsWrite, ReadLengthIsBegin, CopyLineIsStutter, CopyEndsIsEnd
          DEF Next, Register!Next
<1> QED BY <1>1, <1>2, PublishInvariant, PageInvariant, PTL
        DEF Spec, ImplementsRegister, Register!Spec
=============================================================================

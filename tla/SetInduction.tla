----------------------------- MODULE SetInduction -----------------------------
(***************************************************************************)
(* Induction over the naturals, and definitions by recursion, stated with  *)
(* sets and functions: what holds of 0 and passes from n to n + 1 is given *)
(* as a set of naturals, and a recursive definition by the function that   *)
(* makes one value from the one before.                                    *)
(***************************************************************************)
EXTENDS WellFoundedInduction, TLAPS

-----------------------------------------------------------------------------
(* Induction.                                                              *)

\* The order of the naturals, as a set of pairs, is well founded.
LEMMA LessWellFounded == IsWellFoundedOn({p \in Nat \X Nat : p[1] < p[2]}, Nat)
<1>1. {p \in Nat \X Nat : p[1] < p[2]} = OpToRel(<, Nat)
  BY DEF OpToRel
<1> QED BY <1>1, NatLessThanWellFounded

\* A set of naturals that is not empty has a smallest element.
THEOREM SmallestExists ==
  ASSUME NEW T, T \subseteq Nat, T # {}
  PROVE  \E x \in T: \A y \in T: x <= y
<1> DEFINE R == {p \in Nat \X Nat : p[1] < p[2]}
<1>1. IsWellFoundedOn(R, Nat)
  BY LessWellFounded
<1>2. \E x \in T: \A y \in T: ~(<<y, x>> \in R)
  <2> HIDE DEF R
  <2> QED BY <1>1, WFMin
<1>3. PICK x \in T: \A y \in T: ~(<<y, x>> \in R)
  BY <1>2
<1>4. ASSUME NEW y \in T PROVE x <= y
  <2>1. x \in Nat /\ y \in Nat
    OBVIOUS
  <2>2. ~(<<y, x>> \in R)
    BY <1>3
  <2>3. ~(y < x)
    BY <2>1, <2>2, Zenon
  <2> HIDE DEF R
  <2> QED BY <2>1, <2>3
<1> QED BY <1>4

\* A set that has 0, and n + 1 with each n, has every natural.
THEOREM NaturalInduction ==
  ASSUME NEW S, 0 \in S, \A n \in Nat: n \in S => n + 1 \in S
  PROVE  \A n \in Nat: n \in S
<1> DEFINE T == Nat \ S
<1>1. SUFFICES ASSUME T # {} PROVE FALSE
  OBVIOUS
<1>2. PICK x \in T: \A y \in T: x <= y
  BY <1>1, SmallestExists
<1>3. x # 0 /\ x - 1 \in Nat
  OBVIOUS
<1>4. x - 1 \in S
  BY <1>2, <1>3
<1> QED BY <1>3, <1>4

\* Induction up to a bound.
THEOREM BoundedInduction ==
  ASSUME NEW N \in Nat, NEW S, 0 \in S, \A n \in 0 .. N: n < N /\ n \in S => n + 1 \in S
  PROVE  \A n \in 0 .. N: n \in S
<1> DEFINE T == {n \in Nat : n <= N => n \in S}
<1>1. 0 \in T
  OBVIOUS
<1>2. \A n \in Nat: n \in T => n + 1 \in T
  OBVIOUS
<1> HIDE DEF T
<1>3. \A n \in Nat: n \in T
  BY <1>1, <1>2, NaturalInduction
<1> QED BY <1>3 DEF T

\* A set of naturals with an upper bound, that is not empty, has a largest
\* element.
THEOREM LargestExists ==
  ASSUME NEW N \in Nat, NEW T, T \subseteq 0 .. N, T # {}
  PROVE  \E x \in T: \A y \in T: y <= x
<1> DEFINE U == {N - x : x \in T}
<1>1. U \subseteq Nat /\ U # {}
  <2>1. \A x \in T: x \in Nat /\ x <= N
    OBVIOUS
  <2>2. \A x \in T: N - x \in Nat
    BY <2>1
  <2> QED BY <2>2
<1>2. PICK u \in U: \A v \in U: u <= v
  BY <1>1, SmallestExists
<1>3. PICK x \in T: u = N - x
  OBVIOUS
<1>4. ASSUME NEW y \in T PROVE y <= x
  <2>1. N - x <= N - y
    BY <1>2, <1>3
  <2>2. x \in 0 .. N /\ y \in 0 .. N
    OBVIOUS
  <2> QED BY <2>1, <2>2
<1> QED BY <1>4

-----------------------------------------------------------------------------
(* Recursion.                                                              *)

\* f is defined by its first value and by a function from each value to the
\* next.
Recursive(f, first, step) ==
  /\ f[0] = first
  /\ \A n \in Nat: f[n + 1] = step[n][f[n]]

\* Two functions that are defined so agree.
THEOREM RecursionUnique ==
  ASSUME NEW first, NEW step, NEW f, NEW g,
         Recursive(f, first, step), Recursive(g, first, step)
  PROVE  \A n \in Nat: f[n] = g[n]
<1> DEFINE S == {n \in Nat : f[n] = g[n]}
<1>1. 0 \in S
  BY DEF Recursive
<1>2. \A n \in Nat: n \in S => n + 1 \in S
  BY DEF Recursive
<1> HIDE DEF S
<1>3. \A n \in Nat: n \in S
  BY <1>1, <1>2, NaturalInduction
<1> QED BY <1>3 DEF S

\* The first n + 1 values of such a function.
Begins(h, n, first, step) ==
  /\ h[0] = first
  /\ \A k \in 0 .. n - 1: h[k + 1] = step[k][h[k]]

\* The first values do not depend on how many are taken.
LEMMA BeginningUnique ==
  ASSUME NEW first, NEW step, NEW m \in Nat, NEW n \in Nat, m <= n, NEW g, NEW h,
         Begins(g, m, first, step), Begins(h, n, first, step)
  PROVE  g[m] = h[m]
<1> DEFINE S == {k \in 0 .. m : g[k] = h[k]}
<1>1. 0 \in S
  BY DEF Begins
<1>2. \A k \in 0 .. m: k < m /\ k \in S => k + 1 \in S
  BY DEF Begins
<1> HIDE DEF S
<1>3. \A k \in 0 .. m: k \in S
  BY <1>1, <1>2, BoundedInduction
<1> QED BY <1>3 DEF S

\* There are first n + 1 values, for every n.
LEMMA BeginningExists ==
  ASSUME NEW V, NEW first \in V, NEW step \in [Nat -> [V -> V]]
  PROVE  \A n \in Nat: \E h \in [0 .. n -> V]: Begins(h, n, first, step)
<1> DEFINE S == {n \in Nat : \E h \in [0 .. n -> V]: Begins(h, n, first, step)}
<1>1. 0 \in S
  <2>1. [k \in 0 .. 0 |-> first] \in [0 .. 0 -> V]
    OBVIOUS
  <2>2. Begins([k \in 0 .. 0 |-> first], 0, first, step)
    BY DEF Begins
  <2> QED BY <2>1, <2>2
<1>2. ASSUME NEW n \in Nat, n \in S PROVE n + 1 \in S
  <2>1. PICK h \in [0 .. n -> V]: Begins(h, n, first, step)
    BY <1>2
  <2> DEFINE g == [k \in 0 .. n + 1 |-> IF k <= n THEN h[k] ELSE step[n][h[n]]]
  <2>2. h[n] \in V /\ step[n][h[n]] \in V
    OBVIOUS
  <2>3. g \in [0 .. n + 1 -> V]
    BY <2>2
  <2>4. Begins(g, n + 1, first, step)
    <3>1. g[0] = first
      BY <2>1 DEF Begins
    <3>2. ASSUME NEW k \in 0 .. (n + 1) - 1 PROVE g[k + 1] = step[k][g[k]]
      <4>1. CASE k = n
        BY <4>1
      <4>2. CASE k < n
        BY <2>1, <4>2 DEF Begins
      <4> QED BY <4>1, <4>2
    <3> QED BY <3>1, <3>2 DEF Begins
  <2> HIDE DEF g
  <2> QED BY <2>3, <2>4
<1> HIDE DEF S
<1>3. \A n \in Nat: n \in S
  BY <1>1, <1>2, NaturalInduction
<1> QED BY <1>3 DEF S

\* A first value and a function from each value to the next define a function.
THEOREM RecursionExists ==
  ASSUME NEW V, NEW first \in V, NEW step \in [Nat -> [V -> V]]
  PROVE  \E f \in [Nat -> V]: Recursive(f, first, step)
<1> DEFINE Beginning(n) == CHOOSE h \in [0 .. n -> V]: Begins(h, n, first, step)
           f == [n \in Nat |-> Beginning(n)[n]]
<1>1. \A n \in Nat: Beginning(n) \in [0 .. n -> V] /\ Begins(Beginning(n), n, first, step)
  BY BeginningExists
<1> HIDE DEF Beginning
<1>2. f \in [Nat -> V]
  BY <1>1
<1>3. f[0] = first
  BY <1>1 DEF Begins
<1>4. ASSUME NEW n \in Nat PROVE f[n + 1] = step[n][f[n]]
  <2>1. n + 1 \in Nat /\ n \in 0 .. (n + 1) - 1
    OBVIOUS
  <2>2. Beginning(n + 1)[n + 1] = step[n][Beginning(n + 1)[n]]
    BY <1>1, <2>1 DEF Begins
  <2>3. Beginning(n)[n] = Beginning(n + 1)[n]
    BY <1>1, <2>1, BeginningUnique
  <2> QED BY <2>1, <2>2, <2>3
<1> QED BY <1>2, <1>3, <1>4 DEF Recursive

\* f is defined so up to the N-th value.
Counted(f, N, first, step) ==
  f[0] = first /\ \A n \in 1 .. N: f[n] = step[n][f[n - 1]]

\* A first value and a function from each value to the next define N more.
LEMMA CountedExists ==
  ASSUME NEW V, NEW first \in V, NEW N \in Nat, NEW step \in [1 .. N -> [V -> V]]
  PROVE  \E f \in [0 .. N -> V]: Counted(f, N, first, step)
<1> DEFINE onward == [n \in Nat |-> [v \in V |-> IF n < N THEN step[n + 1][v] ELSE v]]
<1>1. ASSUME NEW n \in Nat PROVE onward[n] \in [V -> V]
  <2>1. ASSUME NEW v \in V, n < N PROVE step[n + 1][v] \in V
    <3>1. n + 1 \in 1 .. N
      BY <2>1
    <3> QED BY <3>1
  <2> QED BY <2>1
<1>2. onward \in [Nat -> [V -> V]]
  BY <1>1
<1> HIDE DEF onward
<1>3. PICK f \in [Nat -> V]: Recursive(f, first, onward)
  BY <1>2, RecursionExists
<1> DEFINE g == [n \in 0 .. N |-> f[n]]
<1>4. ASSUME NEW n \in 1 .. N PROVE g[n] = step[n][g[n - 1]]
  <2>1. PICK m \in Nat: n = m + 1 /\ m = n - 1 /\ m < N
    <3>1. n - 1 \in Nat /\ n = (n - 1) + 1 /\ n - 1 < N
      OBVIOUS
    <3> QED BY <3>1
  <2>2. f[m + 1] = onward[m][f[m]] /\ f[m] \in V
    BY <1>3 DEF Recursive
  <2>3. onward[m][f[m]] = step[m + 1][f[m]]
    BY <2>1, <2>2 DEF onward
  <2>4. g[n] = f[n] /\ g[n - 1] = f[m]
    BY <2>1
  <2> HIDE DEF g
  <2> QED BY <2>1, <2>2, <2>3, <2>4
<1>5. g[0] = first /\ g \in [0 .. N -> V]
  BY <1>3 DEF Recursive
<1> HIDE DEF g
<1> QED BY <1>4, <1>5 DEF Counted

\* Values up to the N-th stay in a set that has the first, and each after the one
\* before it.
LEMMA CountedStays ==
  ASSUME NEW V, NEW N \in Nat, NEW f, f[0] \in V,
         \A n \in 1 .. N: f[n - 1] \in V => f[n] \in V
  PROVE  \A n \in 0 .. N: f[n] \in V
<1> DEFINE S == {n \in Nat : f[n] \in V}
<1>1. 0 \in S
  OBVIOUS
<1>2. ASSUME NEW n \in 0 .. N, n < N, n \in S PROVE n + 1 \in S
  <2>1. PICK m \in 1 .. N: m = n + 1 /\ m - 1 = n /\ m \in Nat
    <3>1. n + 1 \in 1 .. N /\ (n + 1) - 1 = n /\ n + 1 \in Nat
      BY <1>2
    <3> QED BY <3>1
  <2>2. f[m - 1] \in V
    BY <1>2, <2>1
  <2>3. f[m] \in V
    BY <2>2
  <2> QED BY <2>1, <2>3
<1> HIDE DEF S
<1>3. \A n \in 0 .. N: n \in S
  BY <1>1, <1>2, BoundedInduction
<1> QED BY <1>3 DEF S

-----------------------------------------------------------------------------
(* Loops.  A loop goes from state to state until it comes to one of `stop',  *)
(* and gives the result of that one; `left' counts down on the way.          *)

\* e gives the results of a loop.
LoopResult(e, X, stop, result, next) ==
  \A x \in X: e[x] = IF x \in stop THEN result[x] ELSE e[next[x]]

CountsDown(X, stop, next, left) ==
  /\ next \in [X -> X] /\ left \in [X -> Nat]
  /\ \A x \in X: x \notin stop => left[next[x]] < left[x]

\* The states I are kept by every step.
KeptByLoop(I, X, stop, next) == I \subseteq X /\ \A x \in I: x \notin stop => next[x] \in I

\* A loop that counts down has a result in every state.
THEOREM LoopExists ==
  ASSUME NEW X, NEW V, NEW stop, NEW result \in [X -> V], NEW next, NEW left,
         CountsDown(X, stop, next, left)
  PROVE  \E e \in [X -> V]: LoopResult(e, X, stop, result, next)
<1> USE DEF CountsDown
<1> DEFINE W == [X -> V]
           once == [g \in W |-> [x \in X |-> IF x \in stop THEN result[x] ELSE g[next[x]]]]
           step == [n \in Nat |-> once]
<1>1. once \in [W -> W]
  OBVIOUS
<1>2. step \in [Nat -> [W -> W]]
  BY <1>1
<1>3. result \in W
  OBVIOUS
<1> HIDE DEF W, step
<1>4. PICK f \in [Nat -> W]: Recursive(f, result, step)
  BY <1>2, <1>3, RecursionExists
<1> USE DEF W, step
<1>5. \A n \in Nat: \A x \in X: f[n + 1][x] = IF x \in stop THEN result[x] ELSE f[n][next[x]]
  <2> TAKE n \in Nat
  <2>1. f[n] \in W /\ f[n + 1] = step[n][f[n]]
    BY <1>4 DEF Recursive
  <2>2. f[n + 1] = once[f[n]]
    BY <2>1
  <2> QED BY <2>1, <2>2
<1> HIDE DEF W, step
<1>6. \A x \in X: f[0][x] = result[x]
  BY <1>4 DEF Recursive
<1> DEFINE S == {n \in Nat : \A x \in X: left[x] <= n => f[n + 1][x] = f[n][x]}
<1>7. 0 \in S
  <2>1. ASSUME NEW x \in X, left[x] <= 0 PROVE f[0 + 1][x] = f[0][x]
    <3>1. x \in stop
      <4>1. next[x] \in X /\ left[x] \in Nat /\ left[next[x]] \in Nat
        OBVIOUS
      <4> QED BY <2>1, <4>1
    <3> QED BY <1>5, <1>6, <3>1
  <2> QED BY <2>1
<1>8. ASSUME NEW n \in Nat, n \in S PROVE n + 1 \in S
  <2>1. ASSUME NEW x \in X, left[x] <= n + 1 PROVE f[(n + 1) + 1][x] = f[n + 1][x]
    <3>1. CASE x \in stop
      <4>1. n + 1 \in Nat
        OBVIOUS
      <4> QED BY <1>5, <3>1, <4>1
    <3>2. CASE x \notin stop
      <4>1. next[x] \in X /\ left[x] \in Nat /\ left[next[x]] \in Nat
        OBVIOUS
      <4>2. left[next[x]] <= n
        BY <2>1, <3>2, <4>1
      <4>3. f[n + 1][next[x]] = f[n][next[x]]
        BY <1>8, <4>1, <4>2
      <4>4. n + 1 \in Nat
        OBVIOUS
      <4>5. f[(n + 1) + 1][x] = f[n + 1][next[x]] /\ f[n + 1][x] = f[n][next[x]]
        BY <1>5, <3>2, <4>4
      <4> QED BY <4>3, <4>5
    <3> QED BY <3>1, <3>2
  <2> QED BY <2>1
<1> HIDE DEF S
<1>9. \A n \in Nat: n \in S
  BY <1>7, <1>8, NaturalInduction
<1>10. \A n \in Nat: \A x \in X: left[x] <= n => f[n + 1][x] = f[n][x]
  BY <1>9 DEF S
<1> DEFINE T == {n \in Nat : \A x \in X: left[x] <= n => f[n][x] = f[left[x]][x]}
<1>11. 0 \in T
  OBVIOUS
<1>12. ASSUME NEW n \in Nat, n \in T PROVE n + 1 \in T
  <2>1. ASSUME NEW x \in X, left[x] <= n + 1 PROVE f[n + 1][x] = f[left[x]][x]
    <3>1. left[x] \in Nat
      OBVIOUS
    <3>2. CASE left[x] = n + 1
      BY <3>2
    <3>3. CASE left[x] <= n
      BY <1>10, <1>12, <3>3
    <3> QED BY <2>1, <3>1, <3>2, <3>3
  <2> QED BY <2>1
<1> HIDE DEF T
<1>13. \A n \in Nat: n \in T
  BY <1>11, <1>12, NaturalInduction
<1>14. \A n \in Nat: \A x \in X: left[x] <= n => f[n][x] = f[left[x]][x]
  BY <1>13 DEF T
<1> DEFINE e == [x \in X |-> f[left[x]][x]]
<1>15. e \in [X -> V]
  <2>1. ASSUME NEW x \in X PROVE f[left[x]][x] \in V
    <3>1. f[left[x]] \in W
      BY <1>4
    <3> QED BY <3>1 DEF W
  <2> QED BY <2>1
<1>16. ASSUME NEW x \in X PROVE e[x] = IF x \in stop THEN result[x] ELSE e[next[x]]
  <2>1. left[x] \in Nat /\ next[x] \in X /\ left[next[x]] \in Nat
    OBVIOUS
  <2>2. f[left[x] + 1][x] = f[left[x]][x]
    BY <1>10, <2>1
  <2>3. CASE x \in stop
    BY <1>5, <2>1, <2>2, <2>3
  <2>4. CASE x \notin stop
    <3>1. f[left[x]][next[x]] = f[left[next[x]]][next[x]]
      BY <1>14, <2>1, <2>4
    <3>2. f[left[x] + 1][x] = f[left[x]][next[x]]
      BY <1>5, <2>1, <2>4
    <3> QED BY <2>1, <2>2, <2>4, <3>1, <3>2
  <2> QED BY <2>3, <2>4
<1> QED BY <1>15, <1>16 DEF LoopResult

\* What holds where a loop begins, and passes from each state to the next, holds
\* of the state whose result it gives.
THEOREM LoopInvariant ==
  ASSUME NEW X, NEW stop, NEW result, NEW next, NEW left, NEW e, NEW I,
         CountsDown(X, stop, next, left), LoopResult(e, X, stop, result, next),
         KeptByLoop(I, X, stop, next)
  PROVE  \A x \in I: \E y \in I: y \in stop /\ e[x] = result[y]
<1> USE DEF CountsDown, KeptByLoop
<1> DEFINE Ends(x) == \E y \in I: y \in stop /\ e[x] = result[y]
           S == {n \in Nat : \A x \in I: left[x] <= n => Ends(x)}
<1>1. \A x \in I: x \in stop => Ends(x)
  BY DEF LoopResult
<1>2. \A x \in I: x \notin stop => next[x] \in I /\ e[x] = e[next[x]]
                                  /\ left[x] \in Nat /\ left[next[x]] \in Nat
                                  /\ left[next[x]] < left[x]
  BY DEF LoopResult
<1>3. \A x \in I: x \notin stop => (Ends(next[x]) => Ends(x))
  BY <1>2
<1> HIDE DEF Ends
<1>4. 0 \in S
  BY <1>1, <1>2
<1>5. ASSUME NEW n \in Nat, n \in S PROVE n + 1 \in S
  <2>1. ASSUME NEW x \in I, left[x] <= n + 1 PROVE Ends(x)
    <3>1. CASE x \in stop
      BY <1>1, <3>1
    <3>2. CASE x \notin stop
      <4>1. next[x] \in I /\ left[next[x]] <= n
        BY <1>2, <2>1, <3>2
      <4>2. Ends(next[x])
        BY <1>5, <4>1
      <4> QED BY <1>3, <3>2, <4>2
    <3> QED BY <3>1, <3>2
  <2> QED BY <2>1
<1> HIDE DEF S
<1>6. \A n \in Nat: n \in S
  BY <1>4, <1>5, NaturalInduction
<1>7. \A x \in I: Ends(x)
  <2> TAKE x \in I
  <2>1. left[x] \in Nat
    OBVIOUS
  <2> QED BY <1>6, <2>1 DEF S
<1> QED BY <1>7 DEF Ends
=============================================================================

----------------------------- MODULE Induction -----------------------------
(***************************************************************************)
(* Induction and recursion over a stretch of the naturals.  What is to hold *)
(* of the numbers is a set of them, and what a recursion does at each step  *)
(* is a function, so that the facts below can be cited of any set and any   *)
(* step: they take no operator.                                            *)
(***************************************************************************)
EXTENDS Selections, FiniteSetTheorems, WellFoundedInduction, TLAPS

\* A set of naturals has a least element.
LEMMA Least ==
    ASSUME NEW S, S \subseteq Nat, S # {}
    PROVE  \E m \in S : \A k \in S : m <= k
<1>1. PICK m \in S : \A k \in S : ~ (<<k, m>> \in OpToRel(<, Nat))
  BY NatLessThanWellFounded, WFMin, Zenon
<1>2. \A k \in S : ~ (k < m)
  BY <1>1 DEF OpToRel
<1> QED BY <1>2

\* What holds of 0, and of the next number with every number, holds up to any limit.
LEMMA Upward ==
    ASSUME NEW N \in Nat, NEW P, 0 \in P, \A n \in 0 .. N - 1 : n \in P => n + 1 \in P
    PROVE  \A n \in 0 .. N : n \in P
<1> SUFFICES ASSUME NEW w \in 0 .. N, w \notin P PROVE FALSE
  OBVIOUS
<1> DEFINE Wrong == {n \in 0 .. N : n \notin P}
<1>1. PICK m \in Wrong : \A k \in Wrong : m <= k
  <2>1. Wrong \subseteq Nat /\ Wrong # {}
    OBVIOUS
  <2> HIDE DEF Wrong
  <2> QED BY <2>1, Least
<1>2. m # 0 /\ m \in 0 .. N
  OBVIOUS
<1>3. m - 1 \in 0 .. N - 1 /\ m - 1 \notin Wrong
  <2>1. ~ (m <= m - 1) /\ m - 1 \in 0 .. N - 1
    BY <1>2
  <2> HIDE DEF Wrong
  <2> QED BY <1>1, <2>1
<1> QED BY <1>2, <1>3

\* The values a recursion goes through, from a, with one step for each number up to N.
Values(N, a, step, f) == [n \in 0 .. N |-> IF n = 0 THEN a ELSE step[n][f[n - 1]]]

\* There is such a recursion.
LEMMA Iterates ==
    ASSUME NEW N \in Nat, NEW S, NEW a \in S, NEW step \in [1 .. N -> [S -> S]]
    PROVE  \E f \in [0 .. N -> S] : f = Values(N, a, step, f)
<1> DEFINE P == {m \in 0 .. N : \E f \in [0 .. m -> S] : f = Values(m, a, step, f)}
<1>1. 0 \in P
  <2>1. [n \in 0 .. 0 |-> a] \in [0 .. 0 -> S]
    OBVIOUS
  <2>2. [n \in 0 .. 0 |-> a] = Values(0, a, step, [n \in 0 .. 0 |-> a])
    BY DEF Values
  <2> QED BY <2>1, <2>2
<1>2. ASSUME NEW m \in 0 .. N - 1, m \in P PROVE m + 1 \in P
  <2>1. PICK f \in [0 .. m -> S] : f = Values(m, a, step, f)
    BY <1>2
  <2> DEFINE g == [n \in 0 .. m + 1 |-> IF n = m + 1 THEN step[m + 1][f[m]] ELSE f[n]]
  <2>2. step[m + 1][f[m]] \in S
    <3>1. m + 1 \in 1 .. N /\ f[m] \in S
      OBVIOUS
    <3> QED BY <3>1
  <2>3. g \in [0 .. m + 1 -> S]
    BY <2>2
  <2>4. ASSUME NEW n \in 0 .. m + 1
        PROVE  g[n] = IF n = 0 THEN a ELSE step[n][g[n - 1]]
    <3>1. CASE n = m + 1
      BY <3>1
    <3>2. CASE n \in 0 .. m
      <4>1. f[n] = IF n = 0 THEN a ELSE step[n][f[n - 1]]
        BY <2>1, <3>2 DEF Values
      <4> QED BY <3>2, <4>1
    <3> QED BY <3>1, <3>2
  <2>5. g = Values(m + 1, a, step, g)
    <3>1. g = [n \in 0 .. m + 1 |-> g[n]]
      OBVIOUS
    <3> HIDE DEF g
    <3> QED BY <2>4, <3>1 DEF Values
  <2>6. m + 1 \in 0 .. N
    OBVIOUS
  <2> HIDE DEF g
  <2> QED BY <2>3, <2>5, <2>6
<1>3. N \in P
  <2>1. N \in 0 .. N
    OBVIOUS
  <2> HIDE DEF P
  <2> QED BY <1>1, <1>2, <2>1, Upward
<1> QED BY <1>3

LEMMA IteratesNumbers ==
    ASSUME NEW N \in Nat, NEW step \in [1 .. N -> [Nat -> Nat]]
    PROVE  \E f \in [0 .. N -> Nat] : f = Values(N, 0, step, f)
<1> DEFINE M == N
           Q == Nat
           none == 0
           next == step
<1>1. M \in Nat /\ none \in Q /\ next \in [1 .. M -> [Q -> Q]]
  OBVIOUS
<1> HIDE DEF M, Q, none, next
<1>2. M \in Nat => \A S : \A a \in S : \A s \in [1 .. M -> [S -> S]] : \E f \in [0 .. M -> S] : f = Values(M, a, s, f)
  BY Iterates
<1>3. \E f \in [0 .. M -> Q] : f = Values(M, none, next, f)
  BY <1>1, <1>2, Zenon
<1> QED BY <1>3 DEF M, Q, none, next

(***************************************************************************)
(* Counting, up to a number                                                *)
(***************************************************************************)

Count(P, n) == Cardinality(P \cap (1 .. n))

LEMMA CountSteps ==
    ASSUME NEW P, NEW n \in Nat
    PROVE  /\ Count(P, n) \in Nat /\ IsFiniteSet(P \cap (1 .. n))
           /\ Count(P, 0) = 0
           /\ Count(P, n + 1) = Count(P, n) + (IF n + 1 \in P THEN 1 ELSE 0)
<1>1. IsFiniteSet(1 .. n)
  BY FS_Interval
<1>2. IsFiniteSet(P \cap (1 .. n))
  BY <1>1, FS_Intersection
<1>3. Count(P, n) \in Nat
  BY <1>2, FS_CardinalityType DEF Count
<1>4. P \cap (1 .. 0) = {}
  OBVIOUS
<1>5. Count(P, 0) = 0
  BY <1>4, FS_EmptySet DEF Count
<1>6. Count(P, n + 1) = Count(P, n) + (IF n + 1 \in P THEN 1 ELSE 0)
  <2>1. CASE n + 1 \in P
    <3>1. P \cap (1 .. n + 1) = (P \cap (1 .. n)) \cup {n + 1} /\ n + 1 \notin P \cap (1 .. n)
      BY <2>1
    <3>2. Cardinality((P \cap (1 .. n)) \cup {n + 1}) = Cardinality(P \cap (1 .. n)) + 1
      BY <1>2, <3>1, FS_AddElement
    <3> QED BY <2>1, <3>1, <3>2 DEF Count
  <2>2. CASE n + 1 \notin P
    <3>1. P \cap (1 .. n + 1) = P \cap (1 .. n)
      BY <2>2
    <3> QED BY <1>3, <2>2, <3>1 DEF Count
  <2> QED BY <2>1, <2>2
<1> QED BY <1>2, <1>3, <1>5, <1>6

\* How often something is in a sequence.
Times(x, s) == Cardinality({i \in 1 .. Len(s) : s[i] = x})

LEMMA TimesIsCount ==
    ASSUME NEW S, NEW s \in Seq(S), NEW x
    PROVE  Times(x, s) = Count({i \in Nat : s[i] = x}, Len(s)) /\ Times(x, s) \in Nat
<1>1. Len(s) \in Nat
  OBVIOUS
<1>2. {i \in 1 .. Len(s) : s[i] = x} = {i \in Nat : s[i] = x} \cap (1 .. Len(s))
  BY <1>1
<1> QED BY <1>1, <1>2, CountSteps DEF Times, Count

LEMMA TimesOfAppend ==
    ASSUME NEW S, NEW s \in Seq(S), NEW e \in S, NEW x
    PROVE  Times(x, Append(s, e)) = Times(x, s) + (IF e = x THEN 1 ELSE 0)
<1> DEFINE t == Append(s, e)
           N == Len(s)
<1>1. /\ t \in Seq(S) /\ Len(t) = N + 1 /\ t[N + 1] = e /\ N \in Nat
      /\ \A i \in 1 .. N : t[i] = s[i]
  OBVIOUS
<1>2. {i \in Nat : t[i] = x} \cap (1 .. N) = {i \in Nat : s[i] = x} \cap (1 .. N)
  BY <1>1
<1>3. Count({i \in Nat : t[i] = x}, N) = Count({i \in Nat : s[i] = x}, N)
  BY <1>2 DEF Count
<1>4. Times(x, t) = Count({i \in Nat : t[i] = x}, N + 1)
  BY <1>1, TimesIsCount
<1>5. Times(x, s) = Count({i \in Nat : s[i] = x}, N)
  BY TimesIsCount
<1>6. N + 1 \in {i \in Nat : t[i] = x} <=> e = x
  BY <1>1
<1> HIDE DEF t, N
<1>7. Count({i \in Nat : t[i] = x}, N + 1)
      = Count({i \in Nat : t[i] = x}, N) + (IF N + 1 \in {i \in Nat : t[i] = x} THEN 1 ELSE 0)
  BY <1>1, CountSteps
<1>8. Times(x, t) = Times(x, s) + (IF e = x THEN 1 ELSE 0)
  BY <1>3, <1>4, <1>5, <1>6, <1>7
<1> QED BY <1>8 DEF t

LEMMA TimesOfConcat ==
    ASSUME NEW S, NEW s \in Seq(S), NEW t \in Seq(S), NEW x
    PROVE  Times(x, s \o t) = Times(x, s) + Times(x, t)
<1> DEFINE u == s \o t
           M == Len(s)
           N == Len(t)
           In(v) == {i \in Nat : v[i] = x}
           P == {n \in 0 .. N : Count(In(u), M + n) = Count(In(s), M) + Count(In(t), n)}
<1>1. /\ u \in Seq(S) /\ Len(u) = M + N /\ M \in Nat /\ N \in Nat
      /\ \A i \in 1 .. M : u[i] = s[i]
      /\ \A i \in 1 .. N : u[M + i] = t[i]
  OBVIOUS
<1>2. /\ Times(x, u) = Count(In(u), M + N)
      /\ Times(x, s) = Count(In(s), M) /\ Times(x, t) = Count(In(t), N)
  BY <1>1, TimesIsCount
<1> HIDE DEF u, M, N
<1>3. \A n \in Nat : M + n \in Nat /\ (M + n) + 1 = M + (n + 1)
  BY <1>1
<1>4. 0 \in P
  <2>1. In(u) \cap (1 .. M) = In(s) \cap (1 .. M)
    BY <1>1
  <2>2. Count(In(u), M) = Count(In(s), M)
    BY <2>1 DEF Count
  <2>3. Count(In(t), 0) = 0 /\ Count(In(s), M) \in Nat
    BY <1>1, CountSteps
  <2>4. M + 0 = M /\ 0 \in 0 .. N
    BY <1>1
  <2> QED BY <2>2, <2>3, <2>4
<1>5. ASSUME NEW n \in 0 .. N - 1, n \in P PROVE n + 1 \in P
  <2>1. n \in Nat /\ n + 1 \in 1 .. N /\ n + 1 \in 0 .. N
    BY <1>1
  <2>2. (M + n) + 1 \in In(u) <=> n + 1 \in In(t)
    <3>1. (M + n) + 1 = M + (n + 1) /\ (M + n) + 1 \in Nat /\ n + 1 \in Nat
      BY <1>1, <2>1
    <3>2. u[M + (n + 1)] = t[n + 1]
      BY <1>1, <2>1
    <3> QED BY <3>1, <3>2
  <2> HIDE DEF In
  <2>3. Count(In(u), (M + n) + 1) = Count(In(u), M + n) + (IF (M + n) + 1 \in In(u) THEN 1 ELSE 0)
    BY <1>3, <2>1, CountSteps
  <2>4. /\ Count(In(t), n + 1) = Count(In(t), n) + (IF n + 1 \in In(t) THEN 1 ELSE 0)
        /\ Count(In(t), n) \in Nat /\ Count(In(s), M) \in Nat
    BY <1>1, <2>1, CountSteps
  <2>5. Count(In(u), M + n) = Count(In(s), M) + Count(In(t), n)
    BY <1>5
  <2>6. Count(In(u), M + (n + 1)) = Count(In(s), M) + Count(In(t), n + 1)
    <3>1. Count(In(u), M + (n + 1)) = Count(In(u), (M + n) + 1)
      BY <1>3, <2>1
    <3>2. CASE n + 1 \in In(t)
      BY <2>2, <2>3, <2>4, <2>5, <3>1, <3>2
    <3>3. CASE n + 1 \notin In(t)
      BY <2>2, <2>3, <2>4, <2>5, <3>1, <3>3
    <3> QED BY <3>2, <3>3
  <2> QED BY <2>1, <2>6
<1>6. N \in P
  <2>1. N \in 0 .. N
    BY <1>1
  <2> HIDE DEF P
  <2> QED BY <1>1, <1>4, <1>5, <2>1, Upward
<1>7. Times(x, u) = Times(x, s) + Times(x, t)
  BY <1>2, <1>6
<1> QED BY <1>7 DEF u

(***************************************************************************)
(* Selected: what it returns                                               *)
(***************************************************************************)

SelectOne(s, places, n, r) == IF n \in places THEN Append(r, s[n]) ELSE r

\* f goes through what is kept of the first n elements.
Selects(f, s, places) ==
    /\ Selected(s, places) = f[Len(s)] /\ f[0] = <<>>
    /\ \A n \in 1 .. Len(s) : f[n] = SelectOne(s, places, n, f[n - 1])

LEMMA SelectedSteps ==
    ASSUME NEW S, NEW s \in Seq(S), NEW places
    PROVE  \E f \in [0 .. Len(s) -> Seq(S)] : Selects(f, s, places)
<1> DEFINE N == Len(s)
           Q == Seq(S)
           none == <<>>
           step == [n \in 1 .. N |-> [r \in Q |-> SelectOne(s, places, n, r)]]
           Loop(f) == [n \in 0 .. N |-> IF n = 0 THEN <<>> ELSE SelectOne(s, places, n, f[n - 1])]
           upTo == CHOOSE f : f = Loop(f)
<1>1. N \in Nat /\ none \in Q /\ \A n \in 1 .. N : s[n] \in S
  OBVIOUS
<1>2. ASSUME NEW n \in 1 .. N, NEW r \in Q PROVE SelectOne(s, places, n, r) \in Q
  BY <1>1 DEF SelectOne
<1>3. Selected(s, places) = upTo[N]
  BY DEF Selected, SelectOne
<1> HIDE DEF N, Q
<1>4. step \in [1 .. N -> [Q -> Q]]
  BY <1>2
<1>5. PICK f \in [0 .. N -> Q] : f = Values(N, none, step, f)
  <2> HIDE DEF step, none
  <2> QED BY <1>1, <1>4, Iterates
<1>6. ASSUME NEW n \in 1 .. N
      PROVE  n - 1 \in 0 .. N /\ f[n] = SelectOne(s, places, n, f[n - 1])
  <2>1. n - 1 \in 0 .. N /\ n \in 0 .. N /\ n # 0
    BY <1>1
  <2>2. f[n - 1] \in Q
    BY <1>5, <2>1
  <2>3. f[n] = step[n][f[n - 1]]
    <3> HIDE DEF step
    <3> QED BY <1>5, <2>1 DEF Values
  <2> QED BY <2>1, <2>2, <2>3
<1>7. f[0] = <<>>
  <2>1. 0 \in 0 .. N
    BY <1>1
  <2> QED BY <1>5, <2>1 DEF Values
<1>8. f = Loop(f)
  <2>1. ASSUME NEW n \in 0 .. N PROVE f[n] = Loop(f)[n]
    <3>1. n = 0 \/ n \in 1 .. N
      BY <1>1
    <3> QED BY <1>6, <1>7, <3>1
  <2> QED BY <1>5, <2>1
<1>9. upTo = Loop(upTo)
  <2> HIDE DEF Loop
  <2> QED BY <1>8
<1> HIDE DEF upTo
<1> DEFINE P == {n \in 0 .. N : upTo[n] = f[n]}
<1>10. 0 \in P
  <2>1. 0 \in 0 .. N
    BY <1>1
  <2> QED BY <1>7, <1>9, <2>1
<1>11. ASSUME NEW n \in 0 .. N - 1, n \in P PROVE n + 1 \in P
  <2>1. n + 1 \in 1 .. N /\ n + 1 \in 0 .. N /\ n + 1 # 0 /\ (n + 1) - 1 = n
    BY <1>1
  <2>2. upTo[n + 1] = SelectOne(s, places, n + 1, upTo[n])
    BY <1>9, <2>1
  <2>3. f[n + 1] = SelectOne(s, places, n + 1, f[n])
    BY <1>6, <2>1
  <2> QED BY <1>11, <2>1, <2>2, <2>3
<1>12. upTo[N] = f[N]
  <2>1. N \in 0 .. N
    BY <1>1
  <2>2. N \in P
    <3> HIDE DEF P
    <3> QED BY <1>1, <1>10, <1>11, <2>1, Upward
  <2> QED BY <2>2
<1> QED BY <1>3, <1>5, <1>6, <1>7, <1>12 DEF N, Q, Selects

\* It keeps the elements at the places and no others, each as often as it is there.
LEMMA SelectedKeeps ==
    ASSUME NEW S, NEW s \in Seq(S), NEW places
    PROVE  /\ Selected(s, places) \in Seq(S)
           /\ \A x : Times(x, Selected(s, places)) = Count({i \in Nat : i \in places /\ s[i] = x}, Len(s))
<1> DEFINE N == Len(s)
           At(x) == {i \in Nat : i \in places /\ s[i] = x}
<1>0. PICK f \in [0 .. Len(s) -> Seq(S)] : Selects(f, s, places)
  BY SelectedSteps
<1>1. /\ Selected(s, places) = f[N] /\ f[0] = <<>>
      /\ \A n \in 1 .. N : f[n] = SelectOne(s, places, n, f[n - 1])
  BY <1>0 DEF Selects
<1>2. N \in Nat /\ \A n \in 1 .. N : s[n] \in S
  OBVIOUS
<1>3. ASSUME NEW x PROVE Times(x, Selected(s, places)) = Count(At(x), N)
  <2> DEFINE P == {n \in 0 .. N : Times(x, f[n]) = Count(At(x), n)}
  <2>1. 0 \in P
    <3>1. Times(x, <<>>) = 0
      <4>1. {i \in 1 .. Len(<<>>) : <<>>[i] = x} = {}
        OBVIOUS
      <4> QED BY <4>1, FS_EmptySet DEF Times
    <3>2. Count(At(x), 0) = 0
      BY CountSteps
    <3> QED BY <1>1, <1>2, <3>1, <3>2
  <2>2. ASSUME NEW n \in 0 .. N - 1, n \in P PROVE n + 1 \in P
    <3>1. /\ n + 1 \in 1 .. N /\ n + 1 \in 0 .. N /\ (n + 1) - 1 = n /\ n \in Nat
          /\ f[n] \in Seq(S) /\ s[n + 1] \in S
      BY <1>1, <1>2
    <3>2. f[n + 1] = SelectOne(s, places, n + 1, f[n])
      BY <1>1, <3>1
    <3>3. Count(At(x), n + 1) = Count(At(x), n) + (IF n + 1 \in At(x) THEN 1 ELSE 0)
          /\ Count(At(x), n) \in Nat
      <4> HIDE DEF At
      <4> QED BY <3>1, CountSteps
    <3>4. n + 1 \in At(x) <=> n + 1 \in places /\ s[n + 1] = x
      BY <3>1
    <3>5. Times(x, Append(f[n], s[n + 1])) = Times(x, f[n]) + (IF s[n + 1] = x THEN 1 ELSE 0)
      BY <3>1, TimesOfAppend
    <3> HIDE DEF At
    <3>6. Times(x, f[n + 1]) = Count(At(x), n + 1)
      BY <2>2, <3>2, <3>3, <3>4, <3>5 DEF SelectOne
    <3> QED BY <3>1, <3>6
  <2>3. N \in P
    <3>1. N \in 0 .. N
      BY <1>2
    <3> HIDE DEF P, N
    <3> QED BY <1>2, <2>1, <2>2, <3>1, Upward
  <2> QED BY <1>1, <2>3
<1> QED BY <1>1, <1>2, <1>3

=============================================================================

------------------------------ MODULE FoldFacts ------------------------------
(***************************************************************************)
(* What FoldLeft computes, for the models that read files and streams with *)
(* it.  A module that wants these facts for an operator of its own         *)
(* instantiates Op(e, a, x): the state after the element x in the state a, *)
(* with e standing for whatever else the operator depends on.              *)
(*                                                                         *)
(* The provers cannot apply an induction principle to a formula, but they  *)
(* can apply one to a set of numbers (NatSet), which is all that induction *)
(* over the length of a sequence needs.                                    *)
(***************************************************************************)
EXTENDS Integers, Sequences, SequencesExt, SequenceTheorems, WellFoundedInduction, TLAPS

CONSTANT Op(_, _, _)

Fold(e, a, s) == FoldLeft(LAMBDA b, x : Op(e, b, x), a, s)

Below == {p \in Nat \X Nat : p[1] < p[2]}

\* A set of numbers that contains 0 and the successor of each of its elements
\* contains every number.
LEMMA NatSet ==
    ASSUME NEW S, 0 \in S, \A n \in Nat : n \in S => n + 1 \in S
    PROVE  \A n \in Nat : n \in S
<1> DEFINE T == Nat \ S
<1> SUFFICES ASSUME T # {} PROVE FALSE
  OBVIOUS
<1>1. IsWellFoundedOn(Below, Nat)
  BY NatLessThanWellFounded, Zenon DEF OpToRel, Below
<1>2. PICK x \in T : \A y \in T : <<y, x>> \notin Below
  BY <1>1, WFMin
<1>3. x \in Nat /\ x # 0 /\ x - 1 \in Nat /\ x - 1 < x /\ (x - 1) + 1 = x
  BY <1>2
<1>4. x - 1 \in T
  BY <1>2, <1>3
<1>5. <<x - 1, x>>[1] = x - 1 /\ <<x - 1, x>>[2] = x /\ <<x - 1, x>> \in Nat \X Nat
  BY <1>3
<1>6. <<x - 1, x>> \in Below
  BY <1>3, <1>5, Zenon DEF Below
<1> QED BY <1>2, <1>4, <1>6

\* The recursive function by which FoldLeft is defined, on the subsets of D.
Steps(e, a, s, D) ==
    CHOOSE h : h = [t \in SUBSET D |->
                       IF t = {} THEN a ELSE Op(e, h[t \ {Max(t)}], s[Max(t)])]

\* FoldLeft is that function at the whole domain.
LEMMA FoldIsSteps ==
    ASSUME NEW e, NEW a, NEW s
    PROVE  Fold(e, a, s) = Steps(e, a, s, DOMAIN s)[DOMAIN s]
  BY DEF Fold, FoldLeft, MapThenFoldSet, Steps

\* The last element of an initial segment.
LEMMA MaxIs ==
    ASSUME NEW k \in Nat, NEW t \in SUBSET (1 .. k), k \in t
    PROVE  Max(t) = k
<1>1. \A y \in t : y \in Nat /\ k >= y
  OBVIOUS
<1>2. Max(t) \in t /\ \A y \in t : Max(t) >= y
  BY <1>1, Zenon DEF Max
<1>3. Max(t) >= k /\ k >= Max(t) /\ Max(t) \in Nat
  BY <1>1, <1>2
<1> QED BY <1>3

IsSteps(h, e, a, s, k) ==
    h = [t \in SUBSET (1 .. k) |->
            IF t = {} THEN a ELSE Op(e, h[t \ {Max(t)}], s[Max(t)])]

\* The recursion has a solution on the initial segments, so that the function
\* chosen satisfies its equation there.
LEMMA StepsExist ==
    ASSUME NEW e, NEW a, NEW s
    PROVE  \A k \in Nat : \E h : IsSteps(h, e, a, s, k)
<1> DEFINE S == {k \in Nat : \E h : IsSteps(h, e, a, s, k)}
<1>1. 0 \in S
  <2> DEFINE h == [t \in SUBSET (1 .. 0) |-> a]
  <2>1. \A t \in SUBSET (1 .. 0) : t = {}
    OBVIOUS
  <2>2. IsSteps(h, e, a, s, 0)
    BY <2>1 DEF IsSteps
  <2> QED BY <2>2
<1>2. ASSUME NEW k \in Nat, k \in S
      PROVE  k + 1 \in S
  <2>1. PICK h : IsSteps(h, e, a, s, k)
    BY <1>2
  <2> DEFINE D == SUBSET (1 .. k + 1)
             g == [t \in D |-> IF k + 1 \in t THEN Op(e, h[t \ {k + 1}], s[k + 1]) ELSE h[t]]
  <2>2. ASSUME NEW t \in D
        PROVE  g[t] = IF t = {} THEN a ELSE Op(e, g[t \ {Max(t)}], s[Max(t)])
    <3>1. CASE k + 1 \in t
      <4>1. Max(t) = k + 1
        BY <3>1, MaxIs
      <4>2. t \ {k + 1} \in D /\ k + 1 \notin t \ {k + 1}
        OBVIOUS
      <4>3. g[t \ {k + 1}] = h[t \ {k + 1}]
        BY <4>2
      <4> HIDE DEF g
      <4> QED BY <3>1, <4>1, <4>3 DEF g
    <3>2. CASE k + 1 \notin t
      <4>1. t \in SUBSET (1 .. k)
        BY <3>2
      <4>2. h[t] = IF t = {} THEN a ELSE Op(e, h[t \ {Max(t)}], s[Max(t)])
        BY <2>1, <4>1, Zenon DEF IsSteps
      <4>3. t \ {Max(t)} \in D /\ k + 1 \notin t \ {Max(t)}
        BY <3>2
      <4>4. g[t] = h[t] /\ g[t \ {Max(t)}] = h[t \ {Max(t)}]
        BY <3>2, <4>3
      <4> HIDE DEF g
      <4> QED BY <4>2, <4>4
    <3> QED BY <3>1, <3>2
  <2>3. g = [t \in D |-> g[t]]
    OBVIOUS
  <2>4. IsSteps(g, e, a, s, k + 1)
    <3> HIDE DEF g
    <3> QED BY <2>2, <2>3, Zenon DEF IsSteps
  <2> QED BY <2>4
<1> HIDE DEF S
<1>3. \A k \in Nat : k \in S
  BY <1>1, <1>2, NatSet
<1> QED BY <1>3 DEF S

\* What the recursive function says of initial segments.
LEMMA StepsZero ==
    ASSUME NEW e, NEW a, NEW s, NEW n \in Nat, NEW h, IsSteps(h, e, a, s, n)
    PROVE  h[1 .. 0] = a
<1>1. {} \in SUBSET (1 .. n) /\ 1 .. 0 = {}
  OBVIOUS
<1>2. h[{}] = IF {} = {} THEN a ELSE Op(e, h[{} \ {Max({})}], s[Max({})])
  BY <1>1, Zenon DEF IsSteps
<1> QED BY <1>1, <1>2

\* One element more is one application more.
LEMMA StepsNext ==
    ASSUME NEW e, NEW a, NEW s, NEW n \in Nat, NEW h, IsSteps(h, e, a, s, n),
           NEW k \in Nat, k + 1 <= n
    PROVE  h[1 .. (k + 1)] = Op(e, h[1 .. k], s[k + 1])
<1> DEFINE t == 1 .. (k + 1)
<1>1. t \in SUBSET (1 .. n)
  OBVIOUS
<1>2. h[t] = IF t = {} THEN a ELSE Op(e, h[t \ {Max(t)}], s[Max(t)])
  BY <1>1, Zenon DEF IsSteps
<1>3. k + 1 \in Nat /\ k + 1 \in t /\ t \ {k + 1} = 1 .. k /\ t # {}
  OBVIOUS
<1>4. Max(t) = k + 1
  BY <1>3, MaxIs
<1> HIDE DEF t
<1>5. h[t] = Op(e, h[1 .. k], s[k + 1])
  BY <1>2, <1>3, <1>4
<1> QED BY <1>5 DEF t

\* Two sequences that begin alike have the same states as far as they do.
LEMMA StepsPrefix ==
    ASSUME NEW e, NEW a, NEW s, NEW n \in Nat, NEW h, IsSteps(h, e, a, s, n),
           NEW t, NEW m \in Nat, NEW g, IsSteps(g, e, a, t, m),
           NEW j \in Nat, j <= n, j <= m, \A i \in 1 .. j : s[i] = t[i]
    PROVE  h[1 .. j] = g[1 .. j]
<1> DEFINE S == {k \in Nat : k <= j => h[1 .. k] = g[1 .. k]}
<1>1. 0 \in S
  <2>1. h[1 .. 0] = a
    BY StepsZero, Zenon
  <2>2. g[1 .. 0] = a
    BY StepsZero, Zenon
  <2> QED BY <2>1, <2>2
<1>2. ASSUME NEW k \in Nat, k \in S
      PROVE  k + 1 \in S
  <2> SUFFICES ASSUME k + 1 <= j PROVE h[1 .. (k + 1)] = g[1 .. (k + 1)]
    OBVIOUS
  <2>1. k + 1 <= n /\ k + 1 <= m /\ k <= j
        /\ k + 1 \in 1 .. j
    OBVIOUS
  <2>2. h[1 .. k] = g[1 .. k] /\ s[k + 1] = t[k + 1]
    BY <1>2, <2>1
  <2>3. h[1 .. (k + 1)] = Op(e, h[1 .. k], s[k + 1])
    BY <2>1, StepsNext
  <2>4. g[1 .. (k + 1)] = Op(e, g[1 .. k], t[k + 1])
    BY <2>1, StepsNext
  <2> QED BY <2>1, <2>2, <2>3, <2>4
<1> HIDE DEF S
<1>3. \A k \in Nat : k \in S
  BY <1>1, <1>2, NatSet
<1>4. j \in S
  BY <1>3
<1> QED BY <1>4 DEF S

\* FoldLeft of a sequence, by a function that exists.
LEMMA FoldBySteps ==
    ASSUME NEW e, NEW a, NEW X, NEW s \in Seq(X)
    PROVE  \E h : /\ IsSteps(h, e, a, s, Len(s))
                  /\ Fold(e, a, s) = h[1 .. Len(s)]
<1>1. DOMAIN s = 1 .. Len(s) /\ Len(s) \in Nat
  OBVIOUS
<1>2. \E h : IsSteps(h, e, a, s, Len(s))
  BY <1>1, StepsExist
<1> DEFINE f == Steps(e, a, s, 1 .. Len(s))
<1>3. IsSteps(f, e, a, s, Len(s))
  BY <1>2, Zenon DEF IsSteps, Steps
<1>4. Fold(e, a, s) = f[1 .. Len(s)]
  BY <1>1, FoldIsSteps
<1> QED BY <1>3, <1>4

-----------------------------------------------------------------------------
\* The fold of the empty sequence.
THEOREM FoldEmpty == \A e, a : Fold(e, a, <<>>) = a
<1> TAKE e, a
<1>1. <<>> \in Seq({}) /\ Len(<<>>) = 0
  OBVIOUS
<1>2. PICK h : IsSteps(h, e, a, <<>>, Len(<<>>)) /\ Fold(e, a, <<>>) = h[1 .. Len(<<>>)]
  BY <1>1, FoldBySteps, Zenon
<1>3. Len(<<>>) \in Nat
  BY <1>1
<1>4. h[1 .. 0] = a
  BY <1>2, <1>3, StepsZero, Zenon
<1> QED BY <1>1, <1>2, <1>4

\* The fold of a sequence with one more element.
THEOREM FoldAppend ==
    \A X, e, a : \A s \in Seq(X), x \in X : Fold(e, a, Append(s, x)) = Op(e, Fold(e, a, s), x)
<1> TAKE X, e, a
<1> TAKE s \in Seq(X), x \in X
<1> DEFINE t == Append(s, x)
           n == Len(s)
<1>1. t \in Seq(X) /\ Len(t) = n + 1 /\ n \in Nat /\ t[n + 1] = x /\ \A i \in 1 .. n : s[i] = t[i]
  OBVIOUS
<1>2. PICK h : IsSteps(h, e, a, s, n) /\ Fold(e, a, s) = h[1 .. n]
  BY FoldBySteps, Zenon
<1>3. PICK g : IsSteps(g, e, a, t, Len(t)) /\ Fold(e, a, t) = g[1 .. Len(t)]
  <2> HIDE DEF t
  <2> QED BY <1>1, FoldBySteps, Zenon
<1> HIDE DEF t, n
<1>4. h[1 .. n] = g[1 .. n]
  <2>1. n <= n /\ n <= Len(t) /\ Len(t) \in Nat /\ n \in Nat
    BY <1>1
  <2>2. \A i \in 1 .. n : s[i] = t[i]
    BY <1>1
  <2> QED BY <1>2, <1>3, <2>1, <2>2, StepsPrefix
<1>5. g[1 .. (n + 1)] = Op(e, g[1 .. n], x)
  <2>1. n + 1 <= Len(t) /\ Len(t) \in Nat
    BY <1>1
  <2>2. g[1 .. (n + 1)] = Op(e, g[1 .. n], t[n + 1])
    BY <1>1, <1>3, <2>1, StepsNext
  <2> QED BY <1>1, <2>1, <2>2
<1> QED BY <1>1, <1>2, <1>3, <1>4, <1>5 DEF t

\* A property of states that every element keeps is one of the fold.
THEOREM FoldType ==
    \A X, A, e, a : \A s \in Seq(X) :
        a \in A /\ (\A b \in A, x \in X : Op(e, b, x) \in A) => Fold(e, a, s) \in A
<1> SUFFICES ASSUME NEW X, NEW A, NEW e, NEW a, NEW s \in Seq(X), a \in A,
                    \A b \in A, x \in X : Op(e, b, x) \in A
             PROVE  Fold(e, a, s) \in A
  OBVIOUS
<1> DEFINE n == Len(s)
<1>1. PICK h : IsSteps(h, e, a, s, n) /\ Fold(e, a, s) = h[1 .. n]
  BY FoldBySteps, Zenon
<1> DEFINE S == {k \in Nat : k <= n => h[1 .. k] \in A}
<1>2. 0 \in S
  <2>1. n \in Nat
    OBVIOUS
  <2>2. h[1 .. 0] = a
    BY <1>1, <2>1, StepsZero, Zenon
  <2> QED BY <2>2
<1>3. ASSUME NEW k \in Nat, k \in S
      PROVE  k + 1 \in S
  <2> SUFFICES ASSUME k + 1 <= n PROVE h[1 .. (k + 1)] \in A
    OBVIOUS
  <2>1. n \in Nat /\ k + 1 <= n /\ k <= n /\ s[k + 1] \in X
    OBVIOUS
  <2>2. h[1 .. k] \in A
    BY <1>3, <2>1
  <2>3. h[1 .. (k + 1)] = Op(e, h[1 .. k], s[k + 1])
    BY <1>1, <2>1, StepsNext
  <2> QED BY <2>1, <2>2, <2>3
<1> HIDE DEF S
<1>4. \A k \in Nat : k \in S
  BY <1>2, <1>3, NatSet
<1>5. n \in S
  BY <1>4
<1> QED BY <1>1, <1>5 DEF S

\* The fold of a concatenation goes on from the fold of its first part.
THEOREM FoldConcat ==
    \A X, e, a : \A s, t \in Seq(X) : Fold(e, a, s \o t) = Fold(e, Fold(e, a, s), t)
<1> SUFFICES ASSUME NEW X, NEW e, NEW a, NEW s \in Seq(X)
             PROVE  \A t \in Seq(X) : Fold(e, a, s \o t) = Fold(e, Fold(e, a, s), t)
  OBVIOUS
<1> DEFINE P(t) == Fold(e, a, s \o t) = Fold(e, Fold(e, a, s), t)
           S == {k \in Nat : \A t \in Seq(X) : Len(t) = k => P(t)}
<1>1. 0 \in S
  <2>1. \A t \in Seq(X) : Len(t) = 0 => t = <<>> /\ s \o t = s
    OBVIOUS
  <2> HIDE DEF P
  <2>2. P(<<>>)
    <3>1. s \o <<>> = s
      OBVIOUS
    <3> QED BY <3>1, FoldEmpty DEF P
  <2> QED BY <2>1, <2>2
<1>2. ASSUME NEW k \in Nat, k \in S
      PROVE  k + 1 \in S
  <2> SUFFICES ASSUME NEW t \in Seq(X), Len(t) = k + 1 PROVE P(t)
    OBVIOUS
  <2>1. PICK u \in Seq(X), x \in X : t = Append(u, x) /\ Len(u) = k
    <3> DEFINE u == [i \in 1 .. k |-> t[i]]
    <3>1. u \in Seq(X) /\ Len(u) = k /\ t[k + 1] \in X
      OBVIOUS
    <3>2. t = Append(u, t[k + 1])
      OBVIOUS
    <3> HIDE DEF u
    <3> QED BY <3>1, <3>2
  <2>a. s \o u \in Seq(X) /\ s \o t = Append(s \o u, x)
    BY <2>1
  <2>2. PICK v \in Seq(X) : v = s \o u /\ s \o t = Append(v, x)
    BY <2>a, Zenon
  <2>3. P(u)
    BY <1>2, <2>1
  <2>4. Fold(e, a, Append(v, x)) = Op(e, Fold(e, a, v), x)
    BY FoldAppend
  <2>5. Fold(e, Fold(e, a, s), Append(u, x)) = Op(e, Fold(e, Fold(e, a, s), u), x)
    BY <2>1, FoldAppend
  <2> QED BY <2>1, <2>2, <2>3, <2>4, <2>5
<1> HIDE DEF S
<1>3. \A k \in Nat : k \in S
  BY <1>1, <1>2, NatSet
<1>4. \A t \in Seq(X) : Len(t) \in S
  BY <1>3
<1> QED BY <1>4 DEF S

\* Two parameters that make no difference to an element make none to the fold.
THEOREM FoldSame ==
    \A X, e, d, a : \A s \in Seq(X) :
        (\A b : \A x \in X : Op(e, b, x) = Op(d, b, x)) => Fold(e, a, s) = Fold(d, a, s)
<1> SUFFICES ASSUME NEW X, NEW e, NEW d, NEW a, NEW s \in Seq(X),
                    \A b : \A x \in X : Op(e, b, x) = Op(d, b, x)
             PROVE  Fold(e, a, s) = Fold(d, a, s)
  OBVIOUS
<1> DEFINE n == Len(s)
<1>1. PICK h : IsSteps(h, e, a, s, n) /\ Fold(e, a, s) = h[1 .. n]
  BY FoldBySteps, Zenon
<1>2. PICK g : IsSteps(g, d, a, s, n) /\ Fold(d, a, s) = g[1 .. n]
  BY FoldBySteps, Zenon
<1> DEFINE S == {k \in Nat : k <= n => h[1 .. k] = g[1 .. k]}
<1>3. 0 \in S
  <2>1. n \in Nat
    OBVIOUS
  <2>2. h[1 .. 0] = a /\ g[1 .. 0] = a
    BY <1>1, <1>2, <2>1, StepsZero, Zenon
  <2> QED BY <2>2
<1>4. ASSUME NEW k \in Nat, k \in S
      PROVE  k + 1 \in S
  <2> SUFFICES ASSUME k + 1 <= n PROVE h[1 .. (k + 1)] = g[1 .. (k + 1)]
    OBVIOUS
  <2>1. n \in Nat /\ k + 1 <= n /\ k <= n /\ s[k + 1] \in X
    OBVIOUS
  <2>2. h[1 .. k] = g[1 .. k]
    BY <1>4, <2>1
  <2>3. h[1 .. (k + 1)] = Op(e, h[1 .. k], s[k + 1])
    BY <1>1, <2>1, StepsNext
  <2>4. g[1 .. (k + 1)] = Op(d, g[1 .. k], s[k + 1])
    BY <1>2, <2>1, StepsNext
  <2> QED BY <2>1, <2>2, <2>3, <2>4
<1> HIDE DEF S
<1>5. \A k \in Nat : k \in S
  BY <1>3, <1>4, NatSet
<1>6. n \in S
  BY <1>5
<1> QED BY <1>1, <1>2, <1>6 DEF S
=============================================================================

----------------------------- MODULE SequenceFacts -----------------------------
(***************************************************************************)
(* Facts about folds, flattened sequences and sorted sets that the proofs  *)
(* about texts, selections and tags rest on. A fold has a value because    *)
(* the recursion that defines it has a solution; the facts about that      *)
(* value come by induction along the sequence, which is the principle of   *)
(* the least counterexample for a set of numbers (UpTo).                   *)
(***************************************************************************)
EXTENDS Lists, FiniteSetTheorems, SequenceTheorems, WellFoundedInduction, TLAPS

-----------------------------------------------------------------------------
(* Induction.                                                              *)

\* A set of numbers has a least one.
LEMMA Least ==
    ASSUME NEW S, S \subseteq Nat, S # {}
    PROVE  \E k \in S : \A m \in S : k <= m
  <1> DEFINE R == {s \in Nat \X Nat : s[1] < s[2]}
  <1>1. IsWellFoundedOn(R, Nat)
    <2>1. R = OpToRel(<, Nat)
      BY DEF OpToRel
    <2> QED
      BY <2>1, NatLessThanWellFounded
  <1>2. PICK k \in S : \A m \in S : ~(<<m, k>> \in R)
    <2> HIDE DEF R
    <2> QED
      BY <1>1, WFMin
  <1>3. ASSUME NEW m \in S
        PROVE  k <= m
    <2>1. m \in Nat /\ k \in Nat /\ ~(<<m, k>> \in R)
      BY <1>2
    <2>2. ~(m < k)
      BY <2>1
    <2> QED
      BY <2>1, <2>2
  <1> QED
    BY <1>3

\* What holds of 0 and is passed on from each number to the next holds up to n.
LEMMA UpTo ==
    ASSUME NEW n \in Nat, NEW S, 0 \in S,
           \A k \in Nat : k < n /\ k \in S => k + 1 \in S
    PROVE  \A k \in 0 .. n : k \in S
  <1> DEFINE T == {k \in 0 .. n : k \notin S}
  <1>1. SUFFICES ASSUME T # {}
                 PROVE  FALSE
    OBVIOUS
  <1>2. PICK k \in T : \A m \in T : k <= m
    <2>1. T \subseteq Nat
      OBVIOUS
    <2> HIDE DEF T
    <2> QED
      BY <1>1, <2>1, Least
  <1>3. k # 0 /\ k - 1 \in Nat /\ k - 1 < n /\ k - 1 \notin T
    BY <1>2
  <1>4. k - 1 \in S
    BY <1>2, <1>3
  <1>5. k - 1 + 1 \in S
    BY <1>3, <1>4
  <1> QED
    BY <1>2, <1>5

\* A set of numbers below n has a greatest one, and it is the maximum.
LEMMA Greatest ==
    ASSUME NEW n \in Nat, NEW S, S \subseteq 0 .. n, S # {}
    PROVE  Max(S) \in S /\ \A m \in S : m <= Max(S)
  <1> DEFINE T == {k \in Nat : n - k \in S}
  <1>1. T # {} /\ T \subseteq Nat
    <2>1. PICK i \in S : TRUE
      OBVIOUS
    <2>2. n - i \in Nat /\ n - (n - i) = i
      BY <2>1
    <2> QED
      BY <2>1, <2>2
  <1>2. PICK k \in T : \A m \in T : k <= m
    <2> HIDE DEF T
    <2> QED
      BY <1>1, Least
  <1>3. ASSUME NEW j \in S
        PROVE  n - k >= j
    <2>1. n - j \in T /\ j \in Nat /\ k \in Nat
      <3>1. j \in Nat /\ n - j \in Nat /\ n - (n - j) = j
        OBVIOUS
      <3> QED
        BY <3>1
    <2>2. k <= n - j
      BY <1>2, <2>1
    <2> QED
      BY <2>1, <2>2
  <1>4. \E x \in S : \A y \in S : x >= y
    BY <1>3
  <1>5. Max(S) \in S /\ \A m \in S : Max(S) >= m
    BY <1>4 DEF Max
  <1> QED
    BY <1>5

\* So a set of numbers has a minimum.
LEMMA Smallest ==
    ASSUME NEW S, S \subseteq Nat, S # {}
    PROVE  Min(S) \in S /\ \A m \in S : Min(S) <= m
  <1>1. \E x \in S : \A y \in S : x =< y
    BY Least
  <1> QED
    BY <1>1 DEF Min

\* Different numbers for each of m numbers, all up to n, need m to be at most n.
LEMMA InjectionBounds ==
    ASSUME NEW m \in Nat, NEW n \in Nat, NEW f, f \in [1 .. m -> 1 .. n],
           \A i, j \in 1 .. m : i # j => f[i] # f[j]
    PROVE  m <= n
  <1>1. IsFiniteSet(1 .. m) /\ IsFiniteSet(1 .. n) /\ Cardinality(1 .. m) = m /\ Cardinality(1 .. n) = n
    <2>1. 1 \in Int /\ m \in Int /\ n \in Int
      OBVIOUS
    <2> QED
      BY <2>1, FS_Interval
  <1>2. Cardinality(1 .. m) <= Cardinality(1 .. n) \/ Cardinality(1 .. m) > Cardinality(1 .. n)
    BY <1>1
  <1>3. ASSUME Cardinality(1 .. m) > Cardinality(1 .. n)
        PROVE  FALSE
    <2>1. \E i, j \in 1 .. m : i # j /\ f[i] = f[j]
      BY <1>1, <1>3, FS_PigeonHole
    <2> QED
      BY <2>1
  <1> QED
    BY <1>1, <1>2, <1>3

-----------------------------------------------------------------------------
(* Recursion.                                                              *)

\* Steps from a value, one for each number.
Steps(g, A, base, n, step) ==
    /\ g \in [0 .. n -> A]
    /\ g[0] = base
    /\ \A k \in 1 .. n : g[k] = step[k][g[k - 1]]

LEMMA Chain ==
    ASSUME NEW A, NEW base \in A, NEW n \in Nat, NEW step \in [1 .. n -> [A -> A]]
    PROVE  \E g : Steps(g, A, base, n, step)
  <1> DEFINE Good(g, m) == /\ g \in [0 .. m -> A]
                           /\ g[0] = base
                           /\ \A k \in 1 .. m : g[k] = step[k][g[k - 1]]
             S == {m \in 0 .. n : \E g : Good(g, m)}
  <1>1. 0 \in S
    <2>1. Good([k \in 0 .. 0 |-> base], 0)
      OBVIOUS
    <2> HIDE DEF Good
    <2> QED
      BY <2>1
  <1>2. ASSUME NEW m \in Nat, m < n, m \in S
        PROVE  m + 1 \in S
    <2>1. PICK g : Good(g, m)
      BY <1>2
    <2> DEFINE h == [k \in 0 .. m + 1 |-> IF k = m + 1 THEN step[m + 1][g[m]] ELSE g[k]]
    <2>2. g[m] \in A /\ m + 1 \in 1 .. n
      BY <1>2, <2>1
    <2>3. step[m + 1][g[m]] \in A
      BY <2>2
    <2>4. h \in [0 .. m + 1 -> A]
      BY <2>1, <2>3
    <2>5. \A k \in 1 .. m + 1 : h[k] = step[k][h[k - 1]]
      <3> SUFFICES ASSUME NEW k \in 1 .. m + 1
                   PROVE  h[k] = step[k][h[k - 1]]
        OBVIOUS
      <3>1. h[k - 1] = g[k - 1]
        OBVIOUS
      <3>2. CASE k = m + 1
        BY <3>1, <3>2
      <3>3. CASE k # m + 1
        BY <2>1, <3>1, <3>3
      <3> QED
        BY <3>2, <3>3
    <2>6. Good(h, m + 1)
      BY <2>1, <2>4, <2>5
    <2> HIDE DEF Good, h
    <2> QED
      BY <1>2, <2>6
  <1>3. n \in S
    <2> HIDE DEF S
    <2>1. \A k \in 0 .. n : k \in S
      BY <1>1, <1>2, UpTo
    <2> QED
      BY <2>1
  <1> QED
    BY <1>3 DEF Steps

\* A solution of the recursion of a fold, given its steps as a function.
FoldOf(it, A, base, n, step) ==
    /\ it \in [SUBSET (1 .. n) -> A]
    /\ \A t \in SUBSET (1 .. n) :
          it[t] = IF t = {} THEN base ELSE step[Max(t)][it[t \ {Max(t)}]]

\* There is one.
LEMMA FoldSolution ==
    ASSUME NEW A, NEW base \in A, NEW n \in Nat, NEW step \in [1 .. n -> [A -> A]]
    PROVE  \E it : FoldOf(it, A, base, n, step)
  <1> DEFINE Good(it, m) ==
                /\ it \in [SUBSET (1 .. m) -> A]
                /\ \A t \in SUBSET (1 .. m) :
                      it[t] = IF t = {} THEN base ELSE step[Max(t)][it[t \ {Max(t)}]]
             S == {m \in 0 .. n : \E it : Good(it, m)}
  <1>1. 0 \in S
    <2>1. SUBSET (1 .. 0) = {{}}
      OBVIOUS
    <2>2. Good([t \in SUBSET (1 .. 0) |-> base], 0)
      BY <2>1
    <2> HIDE DEF Good
    <2> QED
      BY <2>2
  <1>2. ASSUME NEW m \in Nat, m < n, m \in S
        PROVE  m + 1 \in S
    <2>1. PICK it : Good(it, m)
      BY <1>2
    <2> DEFINE h == [t \in SUBSET (1 .. m + 1) |->
                        IF m + 1 \in t THEN step[m + 1][it[t \ {m + 1}]] ELSE it[t]]
    <2>2. \A t \in SUBSET (1 .. m + 1) : t \ {m + 1} \in SUBSET (1 .. m)
      OBVIOUS
    <2>3. h \in [SUBSET (1 .. m + 1) -> A]
      <3> SUFFICES ASSUME NEW t \in SUBSET (1 .. m + 1)
                   PROVE  h[t] \in A
        OBVIOUS
      <3>1. it[t \ {m + 1}] \in A /\ m + 1 \in 1 .. n
        BY <1>2, <2>1, <2>2
      <3>2. step[m + 1] \in [A -> A]
        BY <3>1
      <3>3. step[m + 1][it[t \ {m + 1}]] \in A
        BY <3>1, <3>2
      <3>4. m + 1 \notin t => it[t] \in A
        <4>1. m + 1 \notin t => t = t \ {m + 1}
          OBVIOUS
        <4> QED
          BY <3>1, <4>1
      <3> QED
        BY <3>3, <3>4
    <2>4. \A t \in SUBSET (1 .. m + 1) :
             h[t] = IF t = {} THEN base ELSE step[Max(t)][h[t \ {Max(t)}]]
      <3> SUFFICES ASSUME NEW t \in SUBSET (1 .. m + 1)
                   PROVE  h[t] = IF t = {} THEN base ELSE step[Max(t)][h[t \ {Max(t)}]]
        OBVIOUS
      <3>1. CASE t = {}
        BY <2>1, <3>1
      <3>2. CASE t # {} /\ m + 1 \in t
        <4>1. Max(t) \in t /\ \A j \in t : j <= Max(t)
          <5>1. m + 1 \in Nat /\ t \subseteq 0 .. m + 1
            BY <1>2
          <5> QED
            BY <3>2, <5>1, Greatest
        <4>2. Max(t) = m + 1
          <5>1. m + 1 <= Max(t) /\ Max(t) \in 1 .. m + 1
            BY <3>2, <4>1
          <5> QED
            BY <1>2, <5>1
        <4>3. h[t \ {m + 1}] = it[t \ {m + 1}]
          OBVIOUS
        <4> QED
          BY <3>2, <4>2, <4>3
      <3>3. CASE t # {} /\ m + 1 \notin t
        <4>1. t \in SUBSET (1 .. m)
          BY <3>3
        <4>2. h[t \ {Max(t)}] = it[t \ {Max(t)}]
          BY <3>3, <4>1
        <4> QED
          BY <2>1, <3>3, <4>1, <4>2
      <3> QED
        BY <3>1, <3>2, <3>3
    <2>5. Good(h, m + 1)
      BY <2>3, <2>4
    <2> HIDE DEF Good, h
    <2> QED
      BY <1>2, <2>5
  <1>3. n \in S
    <2> HIDE DEF S
    <2>1. \A k \in 0 .. n : k \in S
      BY <1>1, <1>2, UpTo
    <2> QED
      BY <2>1
  <1> QED
    BY <1>3 DEF FoldOf

\* What a fold takes off a sequence is its last element.
LEMMA LastOfPrefix ==
    ASSUME NEW n \in Nat
    PROVE  /\ 1 .. 0 = {}
           /\ \A k \in 0 .. n : 1 .. k \in SUBSET (1 .. n)
           /\ \A k \in 1 .. n : Max(1 .. k) = k /\ (1 .. k) \ {k} = 1 .. k - 1 /\ 1 .. k # {}
  <1>1. ASSUME NEW k \in 1 .. n
        PROVE  Max(1 .. k) = k
    <2>1. k \in 1 .. k /\ 1 .. k \subseteq 0 .. k /\ k \in Nat
      OBVIOUS
    <2>2. Max(1 .. k) \in 1 .. k /\ \A j \in 1 .. k : j <= Max(1 .. k)
      BY <2>1, Greatest
    <2> QED
      BY <2>1, <2>2
  <1> QED
    BY <1>1

\* The values of a fold along a sequence.
Along(g, c, A, base, n, step) == Steps(g, A, base, n, step) /\ g[n] = c[1 .. n]

Walks(c, A, base, n, step) ==
    /\ c[{}] = base
    /\ \A k \in 1 .. n : c[1 .. k - 1] \in A => c[1 .. k] = step[k][c[1 .. k - 1]]

LEMMA FoldAlong ==
    ASSUME NEW A, NEW base \in A, NEW n \in Nat, NEW step \in [1 .. n -> [A -> A]], NEW c,
           Walks(c, A, base, n, step)
    PROVE  \E g : Along(g, c, A, base, n, step)
  <1> DEFINE T == {m \in 0 .. n : c[1 .. m] \in A}
             g == [k \in 0 .. n |-> c[1 .. k]]
  <1>1. 1 .. 0 = {} /\ c[1 .. 0] = base
    <2>1. 1 .. 0 = {}
      OBVIOUS
    <2> QED
      BY <2>1 DEF Walks
  <1>2. 0 \in T
    BY <1>1
  <1>3. ASSUME NEW k \in Nat, k < n, k \in T
        PROVE  k + 1 \in T
    <2>1. k + 1 \in 1 .. n /\ (k + 1) - 1 = k /\ c[1 .. k] \in A
      BY <1>3
    <2>2. c[1 .. k + 1] = step[k + 1][c[1 .. k]]
      BY <2>1 DEF Walks
    <2>3. step[k + 1] \in [A -> A]
      BY <2>1
    <2> QED
      BY <2>1, <2>2, <2>3
  <1>4. \A k \in 0 .. n : k \in T
    <2> HIDE DEF T
    <2> QED
      BY <1>2, <1>3, UpTo
  <1>5. g \in [0 .. n -> A] /\ g[0] = base /\ g[n] = c[1 .. n]
    BY <1>1, <1>4
  <1>6. ASSUME NEW k \in 1 .. n
        PROVE  g[k] = step[k][g[k - 1]]
    <2>1. k - 1 \in 0 .. n /\ g[k - 1] = c[1 .. k - 1] /\ g[k] = c[1 .. k]
      OBVIOUS
    <2>2. c[1 .. k - 1] \in A
      BY <1>4, <2>1
    <2> QED
      BY <2>1, <2>2 DEF Walks
  <1>7. Along(g, c, A, base, n, step)
    <2> HIDE DEF g
    <2> QED
      BY <1>5, <1>6 DEF Along, Steps
  <1> HIDE DEF g
  <1> QED
    BY <1>7

-----------------------------------------------------------------------------
(* Among.                                                                  *)

\* The elements of a set are taken one after the other.
TakenWith(a, x, S) == IF x \in S THEN Append(a, x) ELSE a

AmongAlong(g, X, s, S) ==
    /\ g \in [0 .. Len(s) -> Seq(X)]
    /\ g[0] = <<>>
    /\ \A k \in 1 .. Len(s) :
          g[k] = TakenWith(g[k - 1], s[k], S)
    /\ Among(s, S) = g[Len(s)]

LEMMA AmongSteps ==
    ASSUME NEW X, NEW s \in Seq(X), NEW S
    PROVE  \E g : AmongAlong(g, X, s, S)
  <1> DEFINE n == Len(s)
             A == Seq(X)
             base == <<>>
             With(a, x) == TakenWith(a, x, S)
             step == [k \in 1 .. n |-> [a \in A |-> With(a, s[k])]]
             Solves(it) == it = [t \in SUBSET (1 .. n) |->
                                    IF t = {} THEN base ELSE With(it[t \ {Max(t)}], s[Max(t)])]
             c == CHOOSE it : Solves(it)
  <1>1. n \in Nat /\ DOMAIN s = 1 .. n /\ \A k \in 1 .. n : s[k] \in X
    OBVIOUS
  <1>2. base \in A /\ \A a \in A, x \in X : With(a, x) \in A
    BY DEF TakenWith
  <1>3. step \in [1 .. n -> [A -> A]]
    BY <1>1, <1>2
  <1>4. \E it : Solves(it)
    <2>1. PICK it : FoldOf(it, A, base, n, step)
      <3> HIDE DEF base, step, n, A, With
      <3> QED
        BY <1>1, <1>2, <1>3, FoldSolution
    <2>2. ASSUME NEW t \in SUBSET (1 .. n), t # {}
          PROVE  it[t] = With(it[t \ {Max(t)}], s[Max(t)])
      <3>1. Max(t) \in t
        <4>1. t \subseteq 0 .. n
          OBVIOUS
        <4> QED
          BY <1>1, <2>2, <4>1, Greatest
      <3>2. it[t \ {Max(t)}] \in A
        BY <2>1 DEF FoldOf
      <3> QED
        BY <2>1, <2>2, <3>1, <3>2 DEF FoldOf
    <2>3. Solves(it)
      BY <2>1, <2>2 DEF FoldOf
    <2> QED
      BY <2>3
  <1>5. Solves(c)
    <2> HIDE DEF Solves
    <2> QED
      BY <1>4
  <1>6. Among(s, S) = c[1 .. n]
    BY <1>1 DEF Among, TakenWith, FoldLeft, MapThenFoldSet
  <1>7. c[{}] = base /\ \A k \in 1 .. n : c[1 .. k] = With(c[1 .. k - 1], s[k])
    <2>1. c[{}] = base
      BY <1>5
    <2>2. ASSUME NEW k \in 1 .. n
          PROVE  c[1 .. k] = With(c[1 .. k - 1], s[k])
      <3>1. /\ 1 .. k \in SUBSET (1 .. n) /\ 1 .. k # {}
            /\ Max(1 .. k) = k /\ (1 .. k) \ {k} = 1 .. k - 1
        BY <1>1, LastOfPrefix
      <3> HIDE DEF c
      <3> QED
        BY <1>5, <3>1
    <2> HIDE DEF c
    <2> QED
      BY <2>1, <2>2
  <1>8. Walks(c, A, base, n, step)
    <2> HIDE DEF c
    <2> QED
      BY <1>1, <1>7 DEF Walks
  <1>9. PICK g : Along(g, c, A, base, n, step)
    <2> HIDE DEF c, base, step, n, A, With
    <2> QED
      BY <1>1, <1>2, <1>3, <1>8, FoldAlong
  <1>10. \A k \in 1 .. n : g[k] = With(g[k - 1], s[k])
    <2> SUFFICES ASSUME NEW k \in 1 .. n
                 PROVE  g[k] = With(g[k - 1], s[k])
      OBVIOUS
    <2>1. g[k] = step[k][g[k - 1]] /\ g[k - 1] \in A
      <3>1. k - 1 \in 0 .. n
        BY <1>1
      <3> HIDE DEF step, A, n, base
      <3> QED
        BY <1>9, <3>1 DEF Along, Steps
    <2> QED
      BY <2>1
  <1>11. g \in [0 .. n -> A] /\ g[0] = base /\ g[n] = c[1 .. n]
    <2> HIDE DEF step, A, n, base, c
    <2> QED
      BY <1>9 DEF Along, Steps
  <1> HIDE DEF c
  <1> QED
    BY <1>6, <1>10, <1>11 DEF AmongAlong

\* Which elements of a sequence have been taken: pos names the place of each, in order.
Takes(pos, t, s, k, S) ==
    /\ pos \in [1 .. Len(t) -> 1 .. k]
    /\ \A i, j \in 1 .. Len(t) : i < j => pos[i] < pos[j]
    /\ \A i \in 1 .. Len(t) : t[i] = s[pos[i]] /\ t[i] \in S
    /\ \A j \in 1 .. k : s[j] \in S => \E i \in 1 .. Len(t) : pos[i] = j

LEMMA TakesNothing ==
    ASSUME NEW s, NEW S
    PROVE  \E pos : Takes(pos, <<>>, s, 0, S)
  <1> DEFINE pos == [i \in 1 .. 0 |-> 1]
  <1>1. Takes(pos, <<>>, s, 0, S)
    BY DEF Takes
  <1> QED
    BY <1>1

LEMMA TakesNext ==
    ASSUME NEW X, NEW s \in Seq(X), NEW S, NEW t \in Seq(X), NEW k \in 1 .. Len(s),
           NEW h, h = k - 1, NEW pos, Takes(pos, t, s, h, S)
    PROVE  \E new : Takes(new, TakenWith(t, s[k], S), s, k, S)
  <1>1. CASE s[k] \notin S
    <2>1. Takes(pos, t, s, k, S)
      <3>1. pos \in [1 .. Len(t) -> 1 .. k]
        BY DEF Takes
      <3>2. \A j \in 1 .. k : s[j] \in S => \E i \in 1 .. Len(t) : pos[i] = j
        BY <1>1 DEF Takes
      <3> QED
        BY <3>1, <3>2 DEF Takes
    <2> QED
      BY <1>1, <2>1 DEF TakenWith
  <1>2. CASE s[k] \in S
    <2> DEFINE u == Append(t, s[k])
               n == Len(t)
               new == [i \in 1 .. n + 1 |-> IF i = n + 1 THEN k ELSE pos[i]]
    <2>1. /\ n \in Nat /\ Len(u) = n + 1 /\ u[n + 1] = s[k]
          /\ \A i \in 1 .. n : u[i] = t[i]
      OBVIOUS
    <2>2. new \in [1 .. n + 1 -> 1 .. k]
      BY <2>1 DEF Takes
    <2>3. \A i, j \in 1 .. n + 1 : i < j => new[i] < new[j]
      <3> SUFFICES ASSUME NEW i \in 1 .. n + 1, NEW j \in 1 .. n + 1, i < j
                   PROVE  new[i] < new[j]
        OBVIOUS
      <3>1. i \in 1 .. n /\ new[i] = pos[i] /\ pos[i] \in 1 .. k - 1
        BY <2>1 DEF Takes
      <3>2. CASE j = n + 1
        BY <2>1, <3>1, <3>2
      <3>3. CASE j # n + 1
        <4>1. j \in 1 .. n /\ new[j] = pos[j]
          BY <2>1, <3>3
        <4>2. pos[i] < pos[j]
          BY <3>1, <4>1 DEF Takes
        <4> QED
          BY <3>1, <4>1, <4>2
      <3> QED
        BY <3>2, <3>3
    <2>4. \A i \in 1 .. n + 1 : u[i] = s[new[i]] /\ u[i] \in S
      BY <1>2, <2>1 DEF Takes
    <2>5. \A j \in 1 .. k : s[j] \in S => \E i \in 1 .. n + 1 : new[i] = j
      <3> SUFFICES ASSUME NEW j \in 1 .. k, s[j] \in S
                   PROVE  \E i \in 1 .. n + 1 : new[i] = j
        OBVIOUS
      <3>1. CASE j = k
        BY <2>1, <3>1
      <3>2. CASE j # k
        <4>1. PICK i \in 1 .. n : pos[i] = j
          BY <3>2 DEF Takes
        <4> QED
          BY <2>1, <4>1
      <3> QED
        BY <3>1, <3>2
    <2>6. Takes(new, u, s, k, S)
      <3> HIDE DEF new, u, n
      <3> QED
        BY <2>1, <2>2, <2>3, <2>4, <2>5 DEF Takes
    <2> HIDE DEF new
    <2> QED
      BY <1>2, <2>6 DEF TakenWith
  <1> QED
    BY <1>1, <1>2

\* What is taken of a sequence stands in its order, and everything is.
LEMMA AmongTakes ==
    ASSUME NEW X, NEW s \in Seq(X), NEW S
    PROVE  Among(s, S) \in Seq(X) /\ \E pos : Takes(pos, Among(s, S), s, Len(s), S)
  <1>1. PICK g : AmongAlong(g, X, s, S)
    BY AmongSteps
  <1> DEFINE T == {k \in 0 .. Len(s) : \E pos : Takes(pos, g[k], s, k, S)}
  <1>2. 0 \in T
    <2>1. g[0] = <<>> /\ 0 \in 0 .. Len(s)
      BY <1>1 DEF AmongAlong
    <2> QED
      BY <2>1, TakesNothing
  <1>3. ASSUME NEW k \in Nat, k < Len(s), k \in T
        PROVE  k + 1 \in T
    <2>1. PICK pos : Takes(pos, g[k], s, k, S)
      BY <1>3
    <2>2. k + 1 \in 1 .. Len(s) /\ k + 1 - 1 = k /\ g[k] \in Seq(X)
      BY <1>1, <1>3 DEF AmongAlong
    <2>3. g[k + 1] = TakenWith(g[k + 1 - 1], s[k + 1], S)
      BY <1>1, <2>2 DEF AmongAlong
    <2>4. k = (k + 1) - 1
      BY <1>3
    <2>5. \E new : Takes(new, TakenWith(g[k], s[k + 1], S), s, k + 1, S)
      BY <2>1, <2>2, <2>4, TakesNext
    <2>6. \E new : Takes(new, g[k + 1], s, k + 1, S)
      BY <2>2, <2>3, <2>5
    <2> QED
      BY <2>2, <2>6
  <1>4. Len(s) \in T
    <2>1. Len(s) \in Nat /\ Len(s) \in 0 .. Len(s)
      OBVIOUS
    <2> HIDE DEF T
    <2>2. \A k \in 0 .. Len(s) : k \in T
      BY <1>2, <1>3, <2>1, UpTo
    <2> QED
      BY <2>1, <2>2
  <1>5. Among(s, S) = g[Len(s)] /\ g[Len(s)] \in Seq(X)
    BY <1>1 DEF AmongAlong
  <1> QED
    BY <1>4, <1>5

LEMMA AmongIs ==
    ASSUME NEW X, NEW s \in Seq(X), NEW S
    PROVE  /\ Among(s, S) \in Seq(X)
           /\ ToSet(Among(s, S)) = ToSet(s) \cap S
           /\ Len(Among(s, S)) <= Len(s)
           /\ \A x : Contains(Among(s, S), x) <=> Contains(s, x) /\ x \in S
  <1> DEFINE t == Among(s, S)
  <1>1. PICK pos : t \in Seq(X) /\ Takes(pos, t, s, Len(s), S)
    BY AmongTakes
  <1> HIDE DEF t
  <1>2. \A x : Contains(t, x) <=> Contains(s, x) /\ x \in S
    <2> SUFFICES ASSUME NEW x
                 PROVE  Contains(t, x) <=> Contains(s, x) /\ x \in S
      OBVIOUS
    <2>1. ASSUME Contains(t, x)
          PROVE  Contains(s, x) /\ x \in S
      BY <1>1, <2>1 DEF Takes, Contains
    <2>2. ASSUME Contains(s, x), x \in S
          PROVE  Contains(t, x)
      <3>1. PICK j \in 1 .. Len(s) : s[j] = x
        BY <2>2 DEF Contains
      <3>2. PICK i \in 1 .. Len(t) : pos[i] = j
        BY <1>1, <2>2, <3>1 DEF Takes
      <3> QED
        BY <1>1, <3>1, <3>2 DEF Takes, Contains
    <2> QED
      BY <2>1, <2>2
  <1>3. DOMAIN t = 1 .. Len(t) /\ DOMAIN s = 1 .. Len(s)
    BY <1>1
  <1>4. ToSet(t) = ToSet(s) \cap S
    BY <1>2, <1>3 DEF ToSet, Contains
  <1>5. Len(t) <= Len(s)
    <2>1. Len(t) \in Nat /\ Len(s) \in Nat
      BY <1>1
    <2>2. \A i, j \in 1 .. Len(t) : i # j => pos[i] # pos[j]
      <3> SUFFICES ASSUME NEW i \in 1 .. Len(t), NEW j \in 1 .. Len(t), i # j
                   PROVE  pos[i] # pos[j]
        OBVIOUS
      <3>1. pos[i] \in 1 .. Len(s) /\ pos[j] \in 1 .. Len(s)
        BY <1>1 DEF Takes
      <3>2. i < j \/ j < i
        BY <2>1
      <3> QED
        BY <1>1, <3>1, <3>2 DEF Takes
    <2>3. pos \in [1 .. Len(t) -> 1 .. Len(s)]
      BY <1>1 DEF Takes
    <2> QED
      BY <2>1, <2>2, <2>3, InjectionBounds
  <1> QED
    BY <1>1, <1>2, <1>4, <1>5 DEF t

-----------------------------------------------------------------------------
(* First occurrences.                                                      *)

FirstWith(a, x, limit) == IF Contains(a, x) \/ Len(a) >= limit THEN a ELSE Append(a, x)

FirstAlong(g, X, s, limit) ==
    /\ g \in [0 .. Len(s) -> Seq(X)]
    /\ g[0] = <<>>
    /\ \A k \in 1 .. Len(s) : g[k] = FirstWith(g[k - 1], s[k], limit)
    /\ FirstOnes(s, limit) = g[Len(s)]

LEMMA FirstSteps ==
    ASSUME NEW X, NEW s \in Seq(X), NEW limit \in Nat
    PROVE  \E g : FirstAlong(g, X, s, limit)
  <1> DEFINE n == Len(s)
             A == Seq(X)
             base == <<>>
             With(a, x) == FirstWith(a, x, limit)
             step == [k \in 1 .. n |-> [a \in A |-> With(a, s[k])]]
             Solves(it) == it = [t \in SUBSET (1 .. n) |->
                                    IF t = {} THEN base ELSE With(it[t \ {Max(t)}], s[Max(t)])]
             c == CHOOSE it : Solves(it)
  <1>1. n \in Nat /\ DOMAIN s = 1 .. n /\ \A k \in 1 .. n : s[k] \in X
    OBVIOUS
  <1>2. base \in A /\ \A a \in A, x \in X : With(a, x) \in A
    BY DEF FirstWith
  <1>3. step \in [1 .. n -> [A -> A]]
    BY <1>1, <1>2
  <1>4. \E it : Solves(it)
    <2>1. PICK it : FoldOf(it, A, base, n, step)
      <3> HIDE DEF base, step, n, A, With
      <3> QED
        BY <1>1, <1>2, <1>3, FoldSolution
    <2>2. ASSUME NEW t \in SUBSET (1 .. n), t # {}
          PROVE  it[t] = With(it[t \ {Max(t)}], s[Max(t)])
      <3>1. Max(t) \in t
        <4>1. t \subseteq 0 .. n
          OBVIOUS
        <4> QED
          BY <1>1, <2>2, <4>1, Greatest
      <3>2. it[t \ {Max(t)}] \in A
        BY <2>1 DEF FoldOf
      <3> QED
        BY <2>1, <2>2, <3>1, <3>2 DEF FoldOf
    <2>3. Solves(it)
      BY <2>1, <2>2 DEF FoldOf
    <2> QED
      BY <2>3
  <1>5. Solves(c)
    <2> HIDE DEF Solves
    <2> QED
      BY <1>4
  <1>6. FirstOnes(s, limit) = c[1 .. n]
    BY <1>1 DEF FirstOnes, FirstWith, FoldLeft, MapThenFoldSet
  <1>7. c[{}] = base /\ \A k \in 1 .. n : c[1 .. k] = With(c[1 .. k - 1], s[k])
    <2>1. c[{}] = base
      BY <1>5
    <2>2. ASSUME NEW k \in 1 .. n
          PROVE  c[1 .. k] = With(c[1 .. k - 1], s[k])
      <3>1. /\ 1 .. k \in SUBSET (1 .. n) /\ 1 .. k # {}
            /\ Max(1 .. k) = k /\ (1 .. k) \ {k} = 1 .. k - 1
        BY <1>1, LastOfPrefix
      <3> HIDE DEF c
      <3> QED
        BY <1>5, <3>1
    <2> HIDE DEF c
    <2> QED
      BY <2>1, <2>2
  <1>8. Walks(c, A, base, n, step)
    <2> HIDE DEF c
    <2> QED
      BY <1>1, <1>7 DEF Walks
  <1>9. PICK g : Along(g, c, A, base, n, step)
    <2> HIDE DEF c, base, step, n, A, With
    <2> QED
      BY <1>1, <1>2, <1>3, <1>8, FoldAlong
  <1>10. \A k \in 1 .. n : g[k] = With(g[k - 1], s[k])
    <2> SUFFICES ASSUME NEW k \in 1 .. n
                 PROVE  g[k] = With(g[k - 1], s[k])
      OBVIOUS
    <2>1. g[k] = step[k][g[k - 1]] /\ g[k - 1] \in A
      <3>1. k - 1 \in 0 .. n
        BY <1>1
      <3> HIDE DEF step, A, n, base
      <3> QED
        BY <1>9, <3>1 DEF Along, Steps
    <2> QED
      BY <2>1
  <1>11. g \in [0 .. n -> A] /\ g[0] = base /\ g[n] = c[1 .. n]
    <2> HIDE DEF step, A, n, base, c
    <2> QED
      BY <1>9 DEF Along, Steps
  <1> HIDE DEF c
  <1> QED
    BY <1>6, <1>10, <1>11 DEF FirstAlong

\* What has been kept of a sequence after k elements.
Keeps(t, s, k, limit) ==
    /\ \A i, j \in 1 .. Len(t) : t[i] = t[j] => i = j
    /\ Len(t) <= limit /\ Len(t) <= k
    /\ \A i \in 1 .. Len(t) : \E j \in 1 .. k : s[j] = t[i]
    /\ \A j \in 1 .. k : j <= limit => \E i \in 1 .. Len(t) : t[i] = s[j]

LEMMA KeepsNext ==
    ASSUME NEW X, NEW s \in Seq(X), NEW limit \in Nat, NEW t \in Seq(X), NEW k \in 1 .. Len(s),
           NEW h, h = k - 1, Keeps(t, s, h, limit)
    PROVE  Keeps(FirstWith(t, s[k], limit), s, k, limit)
  <1>1. Len(t) \in Nat /\ k \in Nat /\ h \in Nat /\ s[k] \in X
    OBVIOUS
  <1>2. CASE Contains(t, s[k]) \/ Len(t) >= limit
    <2>1. \A i \in 1 .. Len(t) : \E j \in 1 .. k : s[j] = t[i]
      BY <1>1 DEF Keeps
    <2>2. ASSUME NEW j \in 1 .. k, j <= limit
          PROVE  \E i \in 1 .. Len(t) : t[i] = s[j]
      <3>1. CASE j # k
        <4>1. j \in 1 .. h
          BY <1>1, <3>1
        <4> QED
          BY <2>2, <4>1 DEF Keeps
      <3>2. CASE j = k
        <4>1. Len(t) < limit
          BY <1>1, <2>2, <3>2 DEF Keeps
        <4> QED
          BY <1>1, <1>2, <3>2, <4>1 DEF Contains
      <3> QED
        BY <3>1, <3>2
    <2>3. Len(t) <= k /\ Len(t) <= limit
      BY <1>1 DEF Keeps
    <2>4. Keeps(t, s, k, limit)
      BY <2>1, <2>2, <2>3 DEF Keeps
    <2> QED
      BY <1>2, <2>4 DEF FirstWith
  <1>3. CASE ~Contains(t, s[k]) /\ ~(Len(t) >= limit)
    <2> DEFINE u == Append(t, s[k])
               n == Len(t)
    <2>1. /\ n \in Nat /\ Len(u) = n + 1 /\ u[n + 1] = s[k] /\ n < limit
          /\ \A i \in 1 .. n : u[i] = t[i]
      BY <1>1, <1>3
    <2>2. \A i \in 1 .. n : u[i] # s[k]
      BY <1>3, <2>1 DEF Contains
    <2>3. n + 1 <= k
      BY <1>1 DEF Keeps
    <2>4. \A i \in 1 .. n + 1 : i = n + 1 \/ i \in 1 .. n
      BY <2>1
    <2> HIDE DEF u
    <2>5. \A i, j \in 1 .. n + 1 : u[i] = u[j] => i = j
      BY <2>1, <2>2, <2>4 DEF Keeps
    <2>6. ASSUME NEW i \in 1 .. n + 1
          PROVE  \E j \in 1 .. k : s[j] = u[i]
      <3>1. CASE i = n + 1
        BY <1>1, <2>1, <3>1
      <3>2. CASE i \in 1 .. n
        <4>1. PICK j \in 1 .. h : s[j] = t[i]
          BY <3>2 DEF Keeps
        <4>2. j \in 1 .. k
          BY <1>1, <4>1
        <4> QED
          BY <2>1, <3>2, <4>1, <4>2
      <3> QED
        BY <2>4, <3>1, <3>2
    <2>7. ASSUME NEW j \in 1 .. k, j <= limit
          PROVE  \E i \in 1 .. n + 1 : u[i] = s[j]
      <3>1. CASE j = k
        BY <2>1, <3>1
      <3>2. CASE j # k
        <4>1. j \in 1 .. h
          BY <1>1, <3>2
        <4>2. PICK i \in 1 .. n : t[i] = s[j]
          BY <2>7, <4>1 DEF Keeps
        <4> QED
          BY <2>1, <4>2
      <3> QED
        BY <3>1, <3>2
    <2>8. Keeps(u, s, k, limit)
      BY <2>1, <2>3, <2>5, <2>6, <2>7 DEF Keeps
    <2> QED
      BY <1>3, <2>8 DEF FirstWith, u
  <1> QED
    BY <1>2, <1>3

\* What is kept occurs once and at all, and nothing of the first places is left out.
LEMMA FirstOnesKeep ==
    ASSUME NEW X, NEW s \in Seq(X), NEW limit \in Nat
    PROVE  FirstOnes(s, limit) \in Seq(X) /\ Keeps(FirstOnes(s, limit), s, Len(s), limit)
  <1>1. PICK g : FirstAlong(g, X, s, limit)
    BY FirstSteps
  <1> DEFINE T == {k \in 0 .. Len(s) : Keeps(g[k], s, k, limit)}
  <1>2. 0 \in T
    <2>1. g[0] = <<>> /\ 0 \in 0 .. Len(s)
      BY <1>1 DEF FirstAlong
    <2>2. Keeps(<<>>, s, 0, limit)
      BY DEF Keeps
    <2> QED
      BY <2>1, <2>2
  <1>3. ASSUME NEW k \in Nat, k < Len(s), k \in T
        PROVE  k + 1 \in T
    <2>1. /\ k + 1 \in 1 .. Len(s) /\ k + 1 \in 0 .. Len(s) /\ k = (k + 1) - 1
          /\ g[k] \in Seq(X) /\ Keeps(g[k], s, k, limit)
      BY <1>1, <1>3 DEF FirstAlong
    <2>2. g[k + 1] = FirstWith(g[k + 1 - 1], s[k + 1], limit)
      BY <1>1, <2>1 DEF FirstAlong
    <2>3. Keeps(FirstWith(g[k], s[k + 1], limit), s, k + 1, limit)
      BY <2>1, KeepsNext
    <2> QED
      BY <2>1, <2>2, <2>3
  <1>4. Len(s) \in T
    <2>1. Len(s) \in Nat /\ Len(s) \in 0 .. Len(s)
      OBVIOUS
    <2> HIDE DEF T
    <2>2. \A k \in 0 .. Len(s) : k \in T
      BY <1>2, <1>3, <2>1, UpTo
    <2> QED
      BY <2>1, <2>2
  <1>5. FirstOnes(s, limit) = g[Len(s)] /\ g[Len(s)] \in Seq(X)
    BY <1>1 DEF FirstAlong
  <1> QED
    BY <1>4, <1>5

\* Every element once.
LEMMA DistinctIs ==
    ASSUME NEW X, NEW s \in Seq(X)
    PROVE  /\ Distinct(s) \in Seq(X)
           /\ ToSet(Distinct(s)) = ToSet(s)
           /\ \A i, j \in 1 .. Len(Distinct(s)) : Distinct(s)[i] = Distinct(s)[j] => i = j
  <1> DEFINE t == Distinct(s)
  <1>1. Len(s) \in Nat
    OBVIOUS
  <1>2. t \in Seq(X) /\ Keeps(t, s, Len(s), Len(s))
    BY <1>1, FirstOnesKeep DEF Distinct
  <1> HIDE DEF t
  <1>3. DOMAIN t = 1 .. Len(t) /\ DOMAIN s = 1 .. Len(s) /\ Len(t) \in Nat
    BY <1>2
  <1>4. \A i \in 1 .. Len(t) : \E j \in 1 .. Len(s) : s[j] = t[i]
    BY <1>2 DEF Keeps
  <1>5. \A j \in 1 .. Len(s) : \E i \in 1 .. Len(t) : t[i] = s[j]
    BY <1>1, <1>2 DEF Keeps
  <1>6. ToSet(t) = ToSet(s)
    <2>1. ASSUME NEW x \in ToSet(t)
          PROVE  x \in ToSet(s)
      <3>1. PICK i \in 1 .. Len(t) : x = t[i]
        BY <1>3, <2>1 DEF ToSet
      <3> QED
        BY <1>3, <1>4, <3>1 DEF ToSet
    <2>2. ASSUME NEW x \in ToSet(s)
          PROVE  x \in ToSet(t)
      <3>1. PICK j \in 1 .. Len(s) : x = s[j]
        BY <1>3, <2>2 DEF ToSet
      <3>2. PICK i \in 1 .. Len(t) : t[i] = s[j]
        BY <1>5, <3>1
      <3> QED
        BY <1>3, <3>1, <3>2 DEF ToSet
    <2> QED
      BY <2>1, <2>2
  <1> QED
    BY <1>2, <1>6 DEF Keeps, t

-----------------------------------------------------------------------------
(* Flattened sequences.                                                    *)

FlatAlong(g, X, seqs) ==
    /\ g \in [0 .. Len(seqs) -> Seq(X)]
    /\ g[0] = <<>>
    /\ \A k \in 1 .. Len(seqs) : g[k] = g[k - 1] \o seqs[k]
    /\ FlattenSeq(seqs) = g[Len(seqs)]

LEMMA FlattenSteps ==
    ASSUME NEW X, NEW seqs \in Seq(Seq(X))
    PROVE  \E g : FlatAlong(g, X, seqs)
  <1> DEFINE n == Len(seqs)
             A == Seq(X)
             base == <<>>
             step == [k \in 1 .. n |-> [a \in A |-> a \o seqs[k]]]
             Solves(f) == f = [i \in 1 .. n |-> IF i = 1 THEN seqs[i] ELSE f[i - 1] \o seqs[i]]
             c == CHOOSE f : Solves(f)
  <1>1. n \in Nat /\ \A k \in 1 .. n : seqs[k] \in A
    OBVIOUS
  <1>2. base \in A /\ step \in [1 .. n -> [A -> A]]
    BY <1>1
  <1>3. PICK g : Steps(g, A, base, n, step)
    <2> HIDE DEF base, step, n, A
    <2> QED
      BY <1>1, <1>2, Chain
  <1>4. g \in [0 .. n -> A] /\ g[0] = <<>> /\ \A k \in 1 .. n : g[k] = g[k - 1] \o seqs[k]
    <2>1. g \in [0 .. n -> A] /\ g[0] = base
      BY <1>3 DEF Steps
    <2>2. ASSUME NEW k \in 1 .. n
          PROVE  g[k] = g[k - 1] \o seqs[k]
      <3>1. k - 1 \in 0 .. n
        BY <1>1
      <3>2. g[k - 1] \in A /\ g[k] = step[k][g[k - 1]]
        <4> HIDE DEF A, n, step
        <4> QED
          BY <1>3, <2>1, <3>1 DEF Steps
      <3> QED
        BY <3>2
    <2> QED
      BY <2>1, <2>2
  <1> HIDE DEF A
  <1>5. ASSUME n # 0
        PROVE  g[1] = seqs[1]
    <2>1. 1 \in 1 .. n /\ 1 - 1 = 0
      BY <1>1, <1>5
    <2>2. g[1] = <<>> \o seqs[1] /\ seqs[1] \in Seq(X)
      BY <1>1, <1>4, <2>1 DEF A
    <2> QED
      BY <2>2, ConcatEmptySeq
  <1>6. \E f : Solves(f)
    <2> DEFINE f == [i \in 1 .. n |-> g[i]]
    <2>1. ASSUME NEW i \in 1 .. n
          PROVE  f[i] = IF i = 1 THEN seqs[i] ELSE f[i - 1] \o seqs[i]
      <3>1. CASE i = 1
        BY <1>1, <1>5, <3>1
      <3>2. CASE i # 1
        <4>1. i - 1 \in 1 .. n
          BY <1>1, <3>2
        <4> QED
          BY <1>4, <3>2, <4>1
      <3> QED
        BY <3>1, <3>2
    <2>2. Solves(f)
      <3>1. f = [i \in 1 .. n |-> f[i]]
        OBVIOUS
      <3> HIDE DEF f
      <3> QED
        BY <2>1, <3>1
    <2> QED
      BY <2>2
  <1>7. Solves(c)
    <2> HIDE DEF Solves
    <2> QED
      BY <1>6
  <1>8. n # 0 => FlattenSeq(seqs) = c[n]
    BY DEF FlattenSeq
  <1>9. \A k \in 1 .. n : c[k] = IF k = 1 THEN seqs[k] ELSE c[k - 1] \o seqs[k]
    <2> HIDE DEF c
    <2> QED
      BY <1>7
  <1> HIDE DEF c, n
  <1>10. \A k \in 0 .. n : k # 0 => c[k] = g[k]
    <2> DEFINE T == {k \in 0 .. n : k # 0 => c[k] = g[k]}
    <2>1. 0 \in T
      BY <1>1
    <2>2. ASSUME NEW k \in Nat, k < n, k \in T
          PROVE  k + 1 \in T
      <3>1. k + 1 \in 1 .. n /\ (k + 1) - 1 = k /\ k + 1 \in 0 .. n
        BY <1>1, <2>2
      <3>2. CASE k = 0
        BY <1>5, <1>9, <3>1, <3>2
      <3>3. CASE k # 0
        <4>1. c[k + 1] = c[(k + 1) - 1] \o seqs[k + 1]
          <5>1. k + 1 # 1
            BY <3>3, <2>2
          <5> QED
            BY <1>9, <3>1, <5>1
        <4>2. g[k + 1] = g[(k + 1) - 1] \o seqs[k + 1]
          BY <1>4, <3>1
        <4>3. c[k] = g[k]
          BY <2>2, <3>3
        <4> QED
          BY <3>1, <4>1, <4>2, <4>3
      <3> QED
        BY <3>2, <3>3
    <2>3. \A k \in 0 .. n : k \in T
      <3> HIDE DEF T
      <3> QED
        BY <1>1, <2>1, <2>2, UpTo
    <2> QED
      BY <2>3
  <1>11. FlattenSeq(seqs) = g[n]
    <2>1. CASE n = 0
      <3>1. seqs = <<>>
        BY <2>1 DEF n
      <3>2. FlattenSeq(seqs) = seqs
        BY <2>1 DEF FlattenSeq, n
      <3> QED
        BY <1>4, <2>1, <3>1, <3>2
    <2>2. CASE n # 0
      <3>1. n \in 0 .. n
        BY <1>1
      <3> QED
        BY <1>8, <1>10, <2>2, <3>1
    <2> QED
      BY <2>1, <2>2
  <1> QED
    BY <1>4, <1>11 DEF FlatAlong, n, A

\* Where the elements of a flattened sequence come from, and that they all come.
Spreads(of, nth, t, seqs, k) ==
    /\ of \in [1 .. Len(t) -> 1 .. k]
    /\ nth \in [1 .. Len(t) -> Nat]
    /\ \A q \in 1 .. Len(t) : nth[q] \in 1 .. Len(seqs[of[q]]) /\ t[q] = seqs[of[q]][nth[q]]
    /\ \A q, r \in 1 .. Len(t) : q < r => of[q] < of[r] \/ (of[q] = of[r] /\ nth[q] < nth[r])
    /\ \A i \in 1 .. k : \A j \in 1 .. Len(seqs[i]) : \E q \in 1 .. Len(t) : of[q] = i /\ nth[q] = j

LEMMA SpreadsNext ==
    ASSUME NEW X, NEW seqs \in Seq(Seq(X)), NEW k \in 1 .. Len(seqs), NEW h, h = k - 1,
           NEW t \in Seq(X), NEW of, NEW nth, Spreads(of, nth, t, seqs, h)
    PROVE  \E of2, nth2 : Spreads(of2, nth2, t \o seqs[k], seqs, k)
  <1> DEFINE s == seqs[k]
             u == t \o s
             n == Len(t)
             m == Len(s)
             of2 == [q \in 1 .. n + m |-> IF q <= n THEN of[q] ELSE k]
             nth2 == [q \in 1 .. n + m |-> IF q <= n THEN nth[q] ELSE q - n]
  <1>1. s \in Seq(X) /\ n \in Nat /\ m \in Nat /\ k \in Nat /\ h \in Nat
    OBVIOUS
  <1>2. Len(u) = n + m /\ \A q \in 1 .. n + m : u[q] = IF q <= n THEN t[q] ELSE s[q - n]
    <2> HIDE DEF s
    <2> QED
      BY <1>1, ConcatProperties
  <1> HIDE DEF u, n, m
  <1>3. \A q \in 1 .. n + m : \/ q \in 1 .. n /\ q <= n
                              \/ q - n \in 1 .. m /\ ~(q <= n)
    BY <1>1
  <1>4. of2 \in [1 .. n + m -> 1 .. k] /\ nth2 \in [1 .. n + m -> Nat]
    BY <1>1, <1>3 DEF Spreads, n
  <1>5. \A q \in 1 .. n + m : nth2[q] \in 1 .. Len(seqs[of2[q]]) /\ u[q] = seqs[of2[q]][nth2[q]]
    <2> SUFFICES ASSUME NEW q \in 1 .. n + m
                 PROVE  nth2[q] \in 1 .. Len(seqs[of2[q]]) /\ u[q] = seqs[of2[q]][nth2[q]]
      OBVIOUS
    <2>1. CASE q \in 1 .. n /\ q <= n
      BY <1>2, <2>1 DEF Spreads, n
    <2>2. CASE q - n \in 1 .. m /\ ~(q <= n)
      BY <1>2, <2>2 DEF m
    <2> QED
      BY <1>3, <2>1, <2>2
  <1>6. \A q, r \in 1 .. n + m : q < r => of2[q] < of2[r] \/ (of2[q] = of2[r] /\ nth2[q] < nth2[r])
    <2> SUFFICES ASSUME NEW q \in 1 .. n + m, NEW r \in 1 .. n + m, q < r
                 PROVE  of2[q] < of2[r] \/ (of2[q] = of2[r] /\ nth2[q] < nth2[r])
      OBVIOUS
    <2>1. CASE r <= n
      <3>1. q \in 1 .. n /\ r \in 1 .. n /\ q <= n
        BY <1>1, <2>1
      <3> QED
        BY <2>1, <3>1 DEF Spreads, n
    <2>2. CASE q <= n /\ ~(r <= n)
      <3>1. q \in 1 .. n
        BY <1>1, <2>2
      <3>2. of[q] \in 1 .. h
        BY <3>1 DEF Spreads, n
      <3> QED
        BY <1>1, <2>2, <3>2
    <2>3. CASE ~(q <= n)
      <3>1. ~(r <= n)
        BY <1>1, <2>3
      <3> QED
        BY <1>1, <2>3, <3>1
    <2> QED
      BY <2>1, <2>2, <2>3
  <1>7. ASSUME NEW i \in 1 .. k, NEW j \in 1 .. Len(seqs[i])
        PROVE  \E q \in 1 .. n + m : of2[q] = i /\ nth2[q] = j
    <2>1. CASE i = k
      <3>1. n + j \in 1 .. n + m /\ ~(n + j <= n) /\ (n + j) - n = j
        BY <1>1, <2>1 DEF m
      <3> QED
        BY <2>1, <3>1
    <2>2. CASE i # k
      <3>1. i \in 1 .. h
        BY <1>1, <2>2
      <3>2. PICK q \in 1 .. n : of[q] = i /\ nth[q] = j
        BY <3>1 DEF Spreads, n
      <3>3. q \in 1 .. n + m /\ q <= n
        BY <1>1, <3>2
      <3> QED
        BY <3>2, <3>3
    <2> QED
      BY <2>1, <2>2
  <1>8. Spreads(of2, nth2, u, seqs, k)
    <2> HIDE DEF of2, nth2, s
    <2> QED
      BY <1>2, <1>4, <1>5, <1>6, <1>7 DEF Spreads
  <1> HIDE DEF of2, nth2
  <1> QED
    BY <1>8 DEF u

LEMMA FlattenSpreads ==
    ASSUME NEW X, NEW seqs \in Seq(Seq(X))
    PROVE  /\ FlattenSeq(seqs) \in Seq(X)
           /\ \E of, nth : Spreads(of, nth, FlattenSeq(seqs), seqs, Len(seqs))
  <1>1. PICK g : FlatAlong(g, X, seqs)
    BY FlattenSteps
  <1> DEFINE T == {k \in 0 .. Len(seqs) : \E of, nth : Spreads(of, nth, g[k], seqs, k)}
  <1>2. 0 \in T
    <2>1. g[0] = <<>> /\ 0 \in 0 .. Len(seqs)
      BY <1>1 DEF FlatAlong
    <2> DEFINE none == [q \in 1 .. 0 |-> 1]
    <2>2. Spreads(none, none, <<>>, seqs, 0)
      BY DEF Spreads
    <2> HIDE DEF none
    <2> QED
      BY <2>1, <2>2
  <1>3. ASSUME NEW k \in Nat, k < Len(seqs), k \in T
        PROVE  k + 1 \in T
    <2>1. PICK of, nth : Spreads(of, nth, g[k], seqs, k)
      BY <1>3
    <2>2. k + 1 \in 1 .. Len(seqs) /\ k + 1 \in 0 .. Len(seqs) /\ k = (k + 1) - 1 /\ g[k] \in Seq(X)
      <3>1. k + 1 \in 1 .. Len(seqs) /\ k + 1 \in 0 .. Len(seqs) /\ k = (k + 1) - 1 /\ k \in 0 .. Len(seqs)
        BY <1>3
      <3> QED
        BY <1>1, <3>1 DEF FlatAlong
    <2>3. g[k + 1] = g[k + 1 - 1] \o seqs[k + 1]
      BY <1>1, <2>2 DEF FlatAlong
    <2>4. \E of2, nth2 : Spreads(of2, nth2, g[k] \o seqs[k + 1], seqs, k + 1)
      BY <2>1, <2>2, SpreadsNext
    <2>5. \E of2, nth2 : Spreads(of2, nth2, g[k + 1], seqs, k + 1)
      BY <2>2, <2>3, <2>4
    <2> QED
      BY <2>2, <2>5
  <1>4. Len(seqs) \in T
    <2>1. Len(seqs) \in Nat /\ Len(seqs) \in 0 .. Len(seqs)
      OBVIOUS
    <2> HIDE DEF T
    <2>2. \A k \in 0 .. Len(seqs) : k \in T
      BY <1>2, <1>3, <2>1, UpTo
    <2> QED
      BY <2>1, <2>2
  <1>5. FlattenSeq(seqs) = g[Len(seqs)] /\ g[Len(seqs)] \in Seq(X)
    BY <1>1 DEF FlatAlong
  <1> QED
    BY <1>4, <1>5

\* It has what its parts have, and nothing else.
LEMMA FlattenIs ==
    ASSUME NEW X, NEW seqs \in Seq(Seq(X))
    PROVE  /\ FlattenSeq(seqs) \in Seq(X)
           /\ \A x : x \in ToSet(FlattenSeq(seqs)) <=> \E i \in 1 .. Len(seqs) : x \in ToSet(seqs[i])
  <1> DEFINE t == FlattenSeq(seqs)
  <1>1. t \in Seq(X) /\ \E of, nth : Spreads(of, nth, t, seqs, Len(seqs))
    BY FlattenSpreads
  <1>2. PICK of, nth : Spreads(of, nth, t, seqs, Len(seqs))
    BY <1>1
  <1> HIDE DEF t
  <1>3. DOMAIN t = 1 .. Len(t) /\ \A i \in 1 .. Len(seqs) : DOMAIN seqs[i] = 1 .. Len(seqs[i])
    BY <1>1
  <1>4. ASSUME NEW x, x \in ToSet(t)
        PROVE  \E i \in 1 .. Len(seqs) : x \in ToSet(seqs[i])
    <2>1. PICK q \in 1 .. Len(t) : t[q] = x
      BY <1>3, <1>4 DEF ToSet
    <2>2. of[q] \in 1 .. Len(seqs) /\ nth[q] \in 1 .. Len(seqs[of[q]]) /\ x = seqs[of[q]][nth[q]]
      BY <1>2, <2>1 DEF Spreads
    <2> QED
      BY <1>3, <2>2 DEF ToSet
  <1>5. ASSUME NEW x, NEW i \in 1 .. Len(seqs), x \in ToSet(seqs[i])
        PROVE  x \in ToSet(t)
    <2>1. PICK j \in 1 .. Len(seqs[i]) : seqs[i][j] = x
      BY <1>3, <1>5 DEF ToSet
    <2>2. PICK q \in 1 .. Len(t) : of[q] = i /\ nth[q] = j
      BY <1>2, <2>1 DEF Spreads
    <2>3. t[q] = x
      BY <1>2, <2>1, <2>2 DEF Spreads
    <2> QED
      BY <1>3, <2>3 DEF ToSet
  <1> QED
    BY <1>1, <1>4, <1>5 DEF t

\* Among parts of two elements at most, what is in a part is not far behind.
LEMMA FlattenPairs ==
    ASSUME NEW X, NEW seqs \in Seq(Seq(X)), \A i \in 1 .. Len(seqs) : Len(seqs[i]) <= 2
    PROVE  \A i \in 1 .. Len(seqs) : \A j \in 1 .. Len(seqs[i]) :
              \E q \in 1 .. Len(FlattenSeq(seqs)) : q <= 2 * i /\ FlattenSeq(seqs)[q] = seqs[i][j]
  <1>1. PICK g : FlatAlong(g, X, seqs)
    BY FlattenSteps
  <1> DEFINE Near(t, k) ==
                /\ Len(t) <= 2 * k
                /\ \A i \in 1 .. k : \A j \in 1 .. Len(seqs[i]) :
                      \E q \in 1 .. Len(t) : q <= 2 * i /\ t[q] = seqs[i][j]
             T == {k \in 0 .. Len(seqs) : Near(g[k], k)}
  <1>2. 0 \in T
    <2>1. g[0] = <<>> /\ 0 \in 0 .. Len(seqs)
      BY <1>1 DEF FlatAlong
    <2>2. Near(<<>>, 0)
      OBVIOUS
    <2> HIDE DEF Near
    <2> QED
      BY <2>1, <2>2
  <1>3. ASSUME NEW k \in Nat, k < Len(seqs), k \in T
        PROVE  k + 1 \in T
    <2> DEFINE t == g[k]
               s == seqs[k + 1]
               u == t \o s
    <2>1. k + 1 \in 1 .. Len(seqs) /\ k + 1 \in 0 .. Len(seqs) /\ k = (k + 1) - 1 /\ k \in 0 .. Len(seqs)
      BY <1>3
    <2>2. t \in Seq(X) /\ s \in Seq(X) /\ Len(t) \in Nat /\ Len(s) \in Nat /\ Len(s) <= 2
      BY <1>1, <2>1 DEF FlatAlong
    <2>3. g[k + 1] = u
      <3>1. g[k + 1] = g[(k + 1) - 1] \o seqs[k + 1]
        BY <1>1, <2>1 DEF FlatAlong
      <3> QED
        BY <2>1, <3>1
    <2> HIDE DEF t, s
    <2>4. Len(u) = Len(t) + Len(s) /\ \A q \in 1 .. Len(t) + Len(s) : u[q] = IF q <= Len(t) THEN t[q] ELSE s[q - Len(t)]
      BY <2>2, ConcatProperties
    <2>5. Near(t, k)
      BY <1>3 DEF t
    <2>6. Len(u) <= 2 * (k + 1)
      BY <2>2, <2>4, <2>5
    <2> HIDE DEF u
    <2>7. ASSUME NEW i \in 1 .. k + 1, NEW j \in 1 .. Len(seqs[i])
          PROVE  \E q \in 1 .. Len(u) : q <= 2 * i /\ u[q] = seqs[i][j]
      <3>1. CASE i = k + 1
        <4>1. j \in 1 .. Len(s)
          BY <2>7, <3>1 DEF s
        <4>2. /\ Len(t) + j \in 1 .. Len(t) + Len(s) /\ ~(Len(t) + j <= Len(t))
              /\ (Len(t) + j) - Len(t) = j /\ Len(t) + j <= 2 * i
          BY <2>2, <2>5, <3>1, <4>1
        <4>3. u[Len(t) + j] = s[j]
          BY <2>4, <4>2
        <4> QED
          BY <2>4, <3>1, <4>2, <4>3 DEF s
      <3>2. CASE i # k + 1
        <4>1. i \in 1 .. k
          BY <3>2
        <4>2. PICK q \in 1 .. Len(t) : q <= 2 * i /\ t[q] = seqs[i][j]
          BY <2>5, <4>1
        <4>3. q \in 1 .. Len(t) + Len(s) /\ q <= Len(t)
          BY <2>2, <4>2
        <4> QED
          BY <2>4, <4>2, <4>3
      <3> QED
        BY <3>1, <3>2
    <2>8. Near(u, k + 1)
      BY <2>6, <2>7
    <2> HIDE DEF Near
    <2> QED
      BY <2>1, <2>3, <2>8
  <1>4. Len(seqs) \in T
    <2>1. Len(seqs) \in Nat /\ Len(seqs) \in 0 .. Len(seqs)
      OBVIOUS
    <2> HIDE DEF T
    <2>2. \A k \in 0 .. Len(seqs) : k \in T
      BY <1>2, <1>3, <2>1, UpTo
    <2> QED
      BY <2>1, <2>2
  <1>5. FlattenSeq(seqs) = g[Len(seqs)]
    BY <1>1 DEF FlatAlong
  <1> QED
    BY <1>4, <1>5

-----------------------------------------------------------------------------
(* Sorted sets.                                                            *)

\* A strict order of all elements of a set.
Sorts(R, S) ==
    /\ \A x \in S : <<x, x>> \notin R
    /\ \A x, y \in S : x # y => <<x, y>> \in R \/ <<y, x>> \in R
    /\ \A x, y, z \in S : <<x, y>> \in R /\ <<y, z>> \in R => <<x, z>> \in R

Below(x, R, S) == {y \in S : <<y, x>> \in R}

LEMMA BelowLess ==
    ASSUME NEW S, IsFiniteSet(S), NEW R, Sorts(R, S), NEW x \in S
    PROVE  /\ IsFiniteSet(Below(x, R, S))
           /\ Cardinality(Below(x, R, S)) \in 0 .. Cardinality(S) - 1
           /\ \A z \in S : <<x, z>> \in R => Cardinality(Below(x, R, S)) < Cardinality(Below(z, R, S))
  <1>1. Cardinality(S) \in Nat
    BY FS_CardinalityType
  <1>2. \A z \in S : IsFiniteSet(Below(z, R, S)) /\ Cardinality(Below(z, R, S)) \in Nat
    <2> SUFFICES ASSUME NEW z \in S
                 PROVE  IsFiniteSet(Below(z, R, S)) /\ Cardinality(Below(z, R, S)) \in Nat
      OBVIOUS
    <2>1. Below(z, R, S) \in SUBSET S
      BY DEF Below
    <2> QED
      BY <2>1, FS_Subset, FS_CardinalityType
  <1>3. Cardinality(Below(x, R, S)) < Cardinality(S)
    <2>1. Below(x, R, S) \in SUBSET S /\ Below(x, R, S) # S
      BY DEF Below, Sorts
    <2>2. Cardinality(Below(x, R, S)) <= Cardinality(S) /\ Cardinality(Below(x, R, S)) # Cardinality(S)
      BY <2>1, FS_Subset
    <2> QED
      BY <1>1, <1>2, <2>2
  <1>4. ASSUME NEW z \in S, <<x, z>> \in R
        PROVE  Cardinality(Below(x, R, S)) < Cardinality(Below(z, R, S))
    <2>1. Below(x, R, S) \in SUBSET Below(z, R, S)
      BY <1>4 DEF Below, Sorts
    <2>2. x \in Below(z, R, S) /\ x \notin Below(x, R, S)
      BY <1>4 DEF Below, Sorts
    <2>3. /\ Cardinality(Below(x, R, S)) <= Cardinality(Below(z, R, S))
          /\ Cardinality(Below(x, R, S)) # Cardinality(Below(z, R, S))
      BY <1>2, <2>1, <2>2, FS_Subset
    <2> QED
      BY <1>2, <2>3
  <1> QED
    BY <1>1, <1>2, <1>3, <1>4

\* Every place is taken by one element.
LEMMA RankTaken ==
    ASSUME NEW S, IsFiniteSet(S), NEW R, Sorts(R, S), NEW i \in 1 .. Cardinality(S)
    PROVE  \E x \in S : Cardinality(Below(x, R, S)) = i - 1
  <1> DEFINE n == Cardinality(S)
             r == [x \in S |-> Cardinality(Below(x, R, S))]
  <1>1. n \in Nat
    BY FS_CardinalityType
  <1>2. \A x \in S : Cardinality(Below(x, R, S)) \in 0 .. n - 1
    BY BelowLess
  <1>3. ASSUME NEW x \in S, NEW z \in S, x # z
        PROVE  r[x] # r[z]
    <2>1. Cardinality(Below(x, R, S)) < Cardinality(Below(z, R, S)) \/ Cardinality(Below(z, R, S)) < Cardinality(Below(x, R, S))
      BY <1>3, BelowLess DEF Sorts
    <2>2. Cardinality(Below(x, R, S)) \in Nat /\ Cardinality(Below(z, R, S)) \in Nat
      BY <1>1, <1>2
    <2> QED
      BY <2>1, <2>2
  <1>4. r \in Injection(S, 0 .. n - 1)
    <2>1. r \in [S -> 0 .. n - 1]
      BY <1>2
    <2> HIDE DEF r
    <2> QED
      BY <1>3, <2>1 DEF Injection, IsInjective
  <1>5. IsFiniteSet(0 .. n - 1) /\ Cardinality(0 .. n - 1) = n
    <2>1. 0 \in Int /\ n - 1 \in Int
      BY <1>1
    <2>2. IsFiniteSet(0 .. n - 1) /\ Cardinality(0 .. n - 1) = IF 0 > n - 1 THEN 0 ELSE (n - 1) - 0 + 1
      BY <2>1, FS_Interval
    <2> QED
      BY <1>1, <2>2
  <1>6. r \in Surjection(S, 0 .. n - 1)
    <2> HIDE DEF r
    <2> QED
      BY <1>4, <1>5, FS_Injection DEF n
  <1>7. i - 1 \in 0 .. n - 1
    BY <1>1
  <1>8. \E x \in S : r[x] = i - 1
    <2> HIDE DEF r
    <2> QED
      BY <1>6, <1>7 DEF Surjection
  <1> QED
    BY <1>8

LEMMA RankOrders ==
    ASSUME NEW S, IsFiniteSet(S), NEW R, Sorts(R, S), NEW x \in S, NEW z \in S,
           Cardinality(Below(x, R, S)) < Cardinality(Below(z, R, S))
    PROVE  <<x, z>> \in R
  <1>1. Cardinality(Below(x, R, S)) \in Int /\ Cardinality(Below(z, R, S)) \in Int
    <2>1. Cardinality(S) \in Nat
      BY FS_CardinalityType
    <2>2. Cardinality(Below(x, R, S)) \in 0 .. Cardinality(S) - 1 /\ Cardinality(Below(z, R, S)) \in 0 .. Cardinality(S) - 1
      BY BelowLess
    <2> QED
      BY <2>1, <2>2
  <1>2. x # z
    BY <1>1
  <1>3. ~(<<z, x>> \in R)
    <2>1. <<z, x>> \in R => Cardinality(Below(z, R, S)) < Cardinality(Below(x, R, S))
      BY BelowLess
    <2> QED
      BY <1>1, <2>1
  <1> QED
    BY <1>2, <1>3 DEF Sorts

-----------------------------------------------------------------------------
(* Folds of sets.                                                          *)

\* The element that FoldSet takes off a set.
Some(t) == CHOOSE x \in t : TRUE

SetFoldOf(it, A, base, S, step) ==
    /\ it \in [SUBSET S -> A]
    /\ \A t \in SUBSET S : it[t] = IF t = {} THEN base ELSE step[Some(t)][it[t \ {Some(t)}]]

LEMMA SomeLess ==
    ASSUME NEW S, IsFiniteSet(S), NEW t \in SUBSET S, t # {}
    PROVE  /\ Some(t) \in t /\ t \ {Some(t)} \in SUBSET S
           /\ IsFiniteSet(t) /\ Cardinality(t) \in Nat \ {0} /\ Cardinality(t) <= Cardinality(S)
           /\ Cardinality(t \ {Some(t)}) = Cardinality(t) - 1
  <1>1. Some(t) \in t
    BY DEF Some
  <1>2. IsFiniteSet(t) /\ Cardinality(t) <= Cardinality(S) /\ Cardinality(t) \in Nat
    BY FS_Subset, FS_CardinalityType
  <1>3. Cardinality(t) # 0
    BY <1>2, FS_EmptySet
  <1>4. Cardinality(t \ {Some(t)}) = Cardinality(t) - 1
    BY <1>1, <1>2, FS_RemoveElement
  <1> QED
    BY <1>1, <1>2, <1>3, <1>4

LEMMA SetFoldSolution ==
    ASSUME NEW A, NEW base \in A, NEW S, IsFiniteSet(S), NEW step \in [S -> [A -> A]]
    PROVE  \E it : SetFoldOf(it, A, base, S, step)
  <1> DEFINE n == Cardinality(S)
             Small(m) == {t \in SUBSET S : Cardinality(t) <= m}
             Good(it, m) ==
                /\ it \in [Small(m) -> A]
                /\ \A t \in Small(m) :
                      it[t] = IF t = {} THEN base ELSE step[Some(t)][it[t \ {Some(t)}]]
             T == {m \in 0 .. n : \E it : Good(it, m)}
  <1>1. n \in Nat
    BY FS_CardinalityType
  <1>2. 0 \in T
    <2>1. \A t \in Small(0) : t = {}
      <3> SUFFICES ASSUME NEW t \in SUBSET S, Cardinality(t) <= 0, t # {}
                   PROVE  FALSE
        OBVIOUS
      <3>1. Cardinality(t) \in Nat \ {0}
        BY SomeLess
      <3> QED
        BY <3>1
    <2>2. Good([t \in Small(0) |-> base], 0)
      BY <2>1
    <2> HIDE DEF Good
    <2> QED
      BY <1>1, <2>2
  <1>3. ASSUME NEW m \in Nat, m < n, m \in T
        PROVE  m + 1 \in T
    <2>1. PICK it : Good(it, m)
      BY <1>3
    <2> DEFINE h == [t \in Small(m + 1) |-> IF t = {} THEN base ELSE step[Some(t)][it[t \ {Some(t)}]]]
    <2>2. ASSUME NEW t \in Small(m + 1), t # {}
          PROVE  t \ {Some(t)} \in Small(m) /\ Some(t) \in S
      <3>1. /\ Some(t) \in t /\ t \ {Some(t)} \in SUBSET S /\ Cardinality(t) \in Nat
            /\ Cardinality(t \ {Some(t)}) = Cardinality(t) - 1
        BY <2>2, SomeLess
      <3> QED
        BY <1>3, <3>1
    <2>3. h \in [Small(m + 1) -> A]
      <3> SUFFICES ASSUME NEW t \in Small(m + 1), t # {}
                   PROVE  step[Some(t)][it[t \ {Some(t)}]] \in A
        OBVIOUS
      <3>1. it[t \ {Some(t)}] \in A /\ step[Some(t)] \in [A -> A]
        <4> HIDE DEF Small
        <4> QED
          BY <2>1, <2>2
      <3> QED
        BY <3>1
    <2>4. \A t \in Small(m) : t \in Small(m + 1) /\ h[t] = it[t]
      <3>1. \A t \in Small(m) : t \in Small(m + 1)
        <4> SUFFICES ASSUME NEW t \in Small(m)
                     PROVE  Cardinality(t) <= m + 1
          OBVIOUS
        <4>1. Cardinality(t) \in Nat
          BY FS_Subset, FS_CardinalityType
        <4> QED
          BY <1>3, <4>1
      <3> HIDE DEF Small
      <3> QED
        BY <2>1, <3>1
    <2>5. \A t \in Small(m + 1) :
             h[t] = IF t = {} THEN base ELSE step[Some(t)][h[t \ {Some(t)}]]
      <3> HIDE DEF Small
      <3> QED
        BY <2>2, <2>4
    <2>6. Good(h, m + 1)
      BY <2>3, <2>5
    <2> HIDE DEF Good, h
    <2> QED
      BY <1>1, <1>3, <2>6
  <1>4. n \in T
    <2> HIDE DEF T, n
    <2>1. \A k \in 0 .. n : k \in T
      BY <1>1, <1>2, <1>3, UpTo
    <2> QED
      BY <1>1, <2>1
  <1>5. PICK it : Good(it, n)
    BY <1>4
  <1>6. Small(n) = SUBSET S
    <2> SUFFICES ASSUME NEW t \in SUBSET S
                 PROVE  Cardinality(t) <= n
      OBVIOUS
    <2> QED
      BY FS_Subset
  <1>7. SetFoldOf(it, A, base, S, step)
    <2> HIDE DEF Small
    <2> QED
      BY <1>5, <1>6 DEF SetFoldOf
  <1> QED
    BY <1>7

\* A product of positive numbers is a positive multiple of each of them.
Multiple(p, x) == \E q \in Nat \ {0} : p = x * q

LEMMA MultipleTimes ==
    ASSUME NEW p \in Nat \ {0}, NEW x \in Nat \ {0}, NEW y \in Nat \ {0}, Multiple(p, x)
    PROVE  y * p \in Nat \ {0} /\ Multiple(y * p, x) /\ Multiple(y * p, y)
  <1>1. PICK q \in Nat \ {0} : p = x * q
    BY DEF Multiple
  <1>2. \A a, b \in Nat \ {0} : a * b \in Nat \ {0}
    OBVIOUS
  <1>3. y * q \in Nat \ {0} /\ y * p \in Nat \ {0}
    BY <1>2
  <1>4. y * (x * q) = x * (y * q)
    OBVIOUS
  <1> QED
    BY <1>1, <1>3, <1>4 DEF Multiple

LEMMA ProductDivides ==
    ASSUME NEW S, IsFiniteSet(S), S \subseteq Nat \ {0}
    PROVE  ProductSet(S) \in Nat \ {0} /\ \A x \in S : Multiple(ProductSet(S), x)
  <1> DEFINE n == Cardinality(S)
             A == Nat \ {0}
             With(x, a) == x * a
             step == [x \in S |-> [a \in A |-> With(x, a)]]
             Solves(it) == it = [t \in SUBSET S |-> IF t = {} THEN 1 ELSE With(Some(t), it[t \ {Some(t)}])]
             c == CHOOSE it : Solves(it)
  <1>1. n \in Nat
    BY FS_CardinalityType
  <1>2. 1 \in A /\ step \in [S -> [A -> A]]
    OBVIOUS
  <1>3. \E it : Solves(it)
    <2>1. PICK it : SetFoldOf(it, A, 1, S, step)
      <3> HIDE DEF step, A
      <3> QED
        BY <1>2, SetFoldSolution
    <2>2. ASSUME NEW t \in SUBSET S, t # {}
          PROVE  it[t] = With(Some(t), it[t \ {Some(t)}])
      <3>1. Some(t) \in S /\ t \ {Some(t)} \in SUBSET S
        BY <2>2, SomeLess
      <3>2. it[t \ {Some(t)}] \in A /\ it[t] = step[Some(t)][it[t \ {Some(t)}]]
        <4> HIDE DEF step, A
        <4> QED
          BY <2>1, <2>2, <3>1 DEF SetFoldOf
      <3> QED
        BY <3>1, <3>2
    <2>3. Solves(it)
      BY <2>1, <2>2 DEF SetFoldOf
    <2> QED
      BY <2>3
  <1>4. Solves(c)
    <2> HIDE DEF Solves
    <2> QED
      BY <1>3
  <1>5. ProductSet(S) = c[S]
    BY DEF ProductSet, FoldSet, MapThenFoldSet, Some
  <1> DEFINE Holds(t) == c[t] \in A /\ \A x \in t : Multiple(c[t], x)
             T == {m \in 0 .. n : \A t \in SUBSET S : Cardinality(t) = m => Holds(t)}
  <1>6. Holds({})
    <2> HIDE DEF c
    <2> QED
      BY <1>4
  <1>7. ASSUME NEW t \in SUBSET S, t # {}
        PROVE  c[t] = Some(t) * c[t \ {Some(t)}]
    <2> HIDE DEF c
    <2> QED
      BY <1>4, <1>7
  <1> HIDE DEF c
  <1>8. 0 \in T
    <2>1. \A t \in SUBSET S : Cardinality(t) = 0 => t = {}
      <3> SUFFICES ASSUME NEW t \in SUBSET S, Cardinality(t) = 0, t # {}
                   PROVE  FALSE
        OBVIOUS
      <3>1. Cardinality(t) \in Nat \ {0}
        BY SomeLess
      <3> QED
        BY <3>1
    <2>2. 0 \in 0 .. n
      BY <1>1
    <2> HIDE DEF Holds, n
    <2> QED
      BY <1>6, <2>1, <2>2
  <1>9. ASSUME NEW m \in Nat, m < n, m \in T
        PROVE  m + 1 \in T
    <2>1. ASSUME NEW t \in SUBSET S, Cardinality(t) = m + 1
          PROVE  Holds(t)
      <3> DEFINE y == Some(t)
                 u == t \ {y}
      <3>1. t # {}
        <4>1. Cardinality({}) = 0
          BY FS_EmptySet
        <4> HIDE DEF T
        <4> QED
          BY <1>9, <2>1, <4>1
      <3>2. y \in t /\ u \in SUBSET S /\ Cardinality(u) = m /\ y \in A
        <4>1. y \in t /\ u \in SUBSET S /\ Cardinality(u) = Cardinality(t) - 1
          BY <3>1, SomeLess
        <4> HIDE DEF T, y, u
        <4>2. y \in S /\ S \subseteq A /\ m + 1 - 1 = m
          BY <1>9, <4>1
        <4> QED
          BY <2>1, <4>1, <4>2
      <3>3. c[u] \in A /\ \A x \in u : Multiple(c[u], x)
        <4> HIDE DEF u
        <4> QED
          BY <1>9, <3>2
      <3>4. c[t] = y * c[u]
        BY <1>7, <3>1
      <3> HIDE DEF u, y
      <3>5. c[t] \in A /\ Multiple(c[t], y)
        <4>1. y * c[u] \in A
          BY <3>2, <3>3
        <4> QED
          BY <3>3, <3>4, <4>1 DEF Multiple
      <3>6. ASSUME NEW x \in u
            PROVE  Multiple(c[t], x)
        <4>1. x \in Nat \ {0} /\ Multiple(c[u], x)
          BY <3>2, <3>3, <3>6
        <4> QED
          BY <3>2, <3>3, <3>4, <4>1, MultipleTimes
      <3> QED
        BY <3>5, <3>6 DEF u
    <2> HIDE DEF Holds
    <2> QED
      BY <1>1, <1>9, <2>1
  <1>10. n \in T
    <2> HIDE DEF T, n
    <2>1. \A k \in 0 .. n : k \in T
      BY <1>1, <1>8, <1>9, UpTo
    <2> QED
      BY <1>1, <2>1
  <1> QED
    BY <1>5, <1>10

-----------------------------------------------------------------------------
(* Sequences put together.                                                 *)

\* UpTo, looking back.
LEMMA Climb ==
    ASSUME NEW n \in Nat, NEW S, 0 \in S,
           \A k \in 1 .. n : k - 1 \in S => k \in S
    PROVE  \A k \in 0 .. n : k \in S
  <1>1. ASSUME NEW k \in Nat, k < n, k \in S
        PROVE  k + 1 \in S
    <2>1. k + 1 \in 1 .. n /\ (k + 1) - 1 = k
      BY <1>1
    <2> QED
      BY <1>1, <2>1
  <1> QED
    BY <1>1, UpTo

\* An element behind.
LEMMA AppendBehind ==
    ASSUME NEW X, NEW s \in Seq(X), NEW t \in Seq(X), NEW x \in X
    PROVE  /\ Append(s, x) = s \o <<x>>
           /\ s \o Append(t, x) = Append(s \o t, x)
  <1>1. <<x>> \in Seq(X) /\ s \o t \in Seq(X)
    OBVIOUS
  <1>2. \A r \in Seq(X) : Append(r, x) = r \o <<x>>
    <2> SUFFICES ASSUME NEW r \in Seq(X)
                 PROVE  Append(r, x) = r \o <<x>>
      OBVIOUS
    <2>1. /\ Append(r, x) \in Seq(X) /\ r \o <<x>> \in Seq(X)
          /\ Len(Append(r, x)) = Len(r) + 1 /\ Len(r \o <<x>>) = Len(r) + 1
      BY <1>1
    <2>2. \A i \in 1 .. Len(r) + 1 : Append(r, x)[i] = (r \o <<x>>)[i]
      BY <1>1
    <2> QED
      BY <2>1, <2>2, SeqEqual
  <1>3. s \o (t \o <<x>>) = (s \o t) \o <<x>>
    BY <1>1, ConcatAssociative
  <1> QED
    BY <1>1, <1>2, <1>3

\* A sequence is its first elements and the others.
LEMMA PutTogether ==
    ASSUME NEW X, NEW s \in Seq(X), NEW t \in Seq(X)
    PROVE  /\ s \o t \in Seq(X) /\ Len(s) \in Nat /\ Len(t) \in Nat
           /\ Len(s \o t) = Len(s) + Len(t)
           /\ \A k \in 1 .. Len(s) : (s \o t)[k] = s[k]
           /\ \A k \in 1 .. Len(t) : (s \o t)[Len(s) + k] = t[k]
  OBVIOUS

\* Three in a row.
LEMMA Associates == \A X : \A a, b, c \in Seq(X) : (a \o b) \o c = a \o (b \o c)
  BY ConcatAssociative

\* What is taken of an element goes behind what was taken.
LEMMA TakenBehind ==
    ASSUME NEW X, NEW s \in Seq(X), NEW t \in Seq(X), NEW x \in X, NEW S
    PROVE  TakenWith(s \o t, x, S) = s \o TakenWith(t, x, S)
  BY AppendBehind DEF TakenWith

\* Of nothing ...
LEMMA AmongNone == \A S : Among(<<>>, S) = <<>>
  <1> TAKE S
  <1>1. PICK g : AmongAlong(g, {}, <<>>, S)
    <2>1. <<>> \in Seq({})
      OBVIOUS
    <2> QED
      BY <2>1, AmongSteps
  <1> QED
    BY <1>1 DEF AmongAlong

\* ... of two sequences ...
LEMMA AmongJoins ==
    ASSUME NEW X, NEW s \in Seq(X), NEW t \in Seq(X), NEW S
    PROVE  Among(s \o t, S) = Among(s, S) \o Among(t, S)
  <1> DEFINE u == s \o t
             n == Len(s)
             m == Len(t)
  <1>1. /\ u \in Seq(X) /\ n \in Nat /\ m \in Nat /\ Len(u) = n + m
        /\ \A k \in 1 .. n : u[k] = s[k]
        /\ \A k \in 1 .. m : u[n + k] = t[k]
    BY PutTogether
  <1> HIDE DEF u, n, m
  <1>2. PICK f : AmongAlong(f, X, s, S)
    BY AmongSteps
  <1>3. PICK g : AmongAlong(g, X, t, S)
    BY AmongSteps
  <1>4. PICK h : AmongAlong(h, X, u, S)
    BY <1>1, AmongSteps
  <1>5. \A k \in 0 .. n : k \in {i \in 0 .. n : h[i] = f[i]}
    <2> DEFINE T == {i \in 0 .. n : h[i] = f[i]}
    <2>1. 0 \in T
      BY <1>1, <1>2, <1>4 DEF AmongAlong, n
    <2>2. ASSUME NEW k \in 1 .. n, k - 1 \in T
          PROVE  k \in T
      <3>1. f[k] = TakenWith(f[k - 1], s[k], S)
        BY <1>2 DEF AmongAlong, n
      <3>2. h[k] = TakenWith(h[k - 1], u[k], S)
        <4>1. k \in 1 .. Len(u)
          BY <1>1
        <4> QED
          BY <1>4, <4>1 DEF AmongAlong
      <3>3. k \in 0 .. n /\ h[k - 1] = f[k - 1] /\ u[k] = s[k]
        BY <1>1, <2>2
      <3> QED
        BY <3>1, <3>2, <3>3
    <2> HIDE DEF T
    <2>3. \A k \in 0 .. n : k \in T
      BY <1>1, <2>1, <2>2, Climb
    <2> QED
      BY <2>3 DEF T
  <1>6. f[n] \in Seq(X) /\ h[n] = f[n]
    BY <1>1, <1>2, <1>5 DEF AmongAlong, n
  <1>7. \A k \in 0 .. m : k \in {i \in 0 .. m : h[n + i] = f[n] \o g[i]}
    <2> DEFINE T == {i \in 0 .. m : h[n + i] = f[n] \o g[i]}
    <2>1. 0 \in T
      <3>1. f[n] \o <<>> = f[n]
        BY <1>6, ConcatEmptySeq
      <3>2. g[0] = <<>> /\ n + 0 = n /\ 0 \in 0 .. m
        BY <1>1, <1>3 DEF AmongAlong
      <3>3. h[n + 0] = f[n] \o g[0]
        BY <1>6, <3>1, <3>2
      <3> QED
        BY <3>2, <3>3
    <2>2. ASSUME NEW k \in 1 .. m, k - 1 \in T
          PROVE  k \in T
      <3>1. g[k] = TakenWith(g[k - 1], t[k], S) /\ g[k - 1] \in Seq(X) /\ t[k] \in X
        <4>1. k - 1 \in 0 .. m
          BY <1>1
        <4>2. g \in [0 .. m -> Seq(X)] /\ g[k] = TakenWith(g[k - 1], t[k], S)
          BY <1>3 DEF AmongAlong, m
        <4>3. t[k] \in X
          BY DEF m
        <4> QED
          BY <4>1, <4>2, <4>3
      <3>2. h[n + k] = TakenWith(h[n + (k - 1)], t[k], S)
        <4>1. n + k \in 1 .. Len(u) /\ (n + k) - 1 = n + (k - 1)
          BY <1>1
        <4>2. h[n + k] = TakenWith(h[(n + k) - 1], u[n + k], S)
          BY <1>4, <4>1 DEF AmongAlong
        <4> QED
          BY <1>1, <4>1, <4>2
      <3>3. h[n + (k - 1)] = f[n] \o g[k - 1]
        BY <2>2
      <3>4. TakenWith(f[n] \o g[k - 1], t[k], S) = f[n] \o TakenWith(g[k - 1], t[k], S)
        <4>1. \A a, b \in Seq(X) : \A x \in X : TakenWith(a \o b, x, S) = a \o TakenWith(b, x, S)
          BY TakenBehind
        <4> QED
          BY <1>6, <3>1, <4>1
      <3>5. h[n + k] = f[n] \o g[k]
        BY <3>1, <3>2, <3>3, <3>4
      <3>6. k \in 0 .. m
        BY <1>1
      <3> QED
        BY <3>5, <3>6
    <2> HIDE DEF T
    <2>3. \A k \in 0 .. m : k \in T
      BY <1>1, <2>1, <2>2, Climb
    <2> QED
      BY <2>3 DEF T
  <1>8. h[n + m] = f[n] \o g[m]
    <2>1. m \in 0 .. m
      BY <1>1
    <2> QED
      BY <1>7, <2>1
  <1> QED
    BY <1>1, <1>2, <1>3, <1>4, <1>8 DEF AmongAlong, u, n, m

\* The sequences of two sequences.
LEMMA FlattenJoins ==
    ASSUME NEW X, NEW s \in Seq(Seq(X)), NEW t \in Seq(Seq(X))
    PROVE  FlattenSeq(s \o t) = FlattenSeq(s) \o FlattenSeq(t)
  <1>9. \A a, b, c \in Seq(X) : (a \o b) \o c = a \o (b \o c)
    BY Associates
  <1> DEFINE all == s \o t
             n == Len(s)
             m == Len(t)
  <1>1. /\ all \in Seq(Seq(X)) /\ n \in Nat /\ m \in Nat /\ Len(all) = n + m
        /\ \A k \in 1 .. n : all[k] = s[k]
        /\ \A k \in 1 .. m : all[n + k] = t[k]
    <2> DEFINE Y == Seq(X)
    <2> HIDE DEF Y
    <2>1. s \in Seq(Y) /\ t \in Seq(Y)
      BY DEF Y
    <2>2. /\ all \in Seq(Y) /\ n \in Nat /\ m \in Nat /\ Len(all) = n + m
          /\ \A k \in 1 .. n : all[k] = s[k]
          /\ \A k \in 1 .. m : all[n + k] = t[k]
      BY <2>1, PutTogether
    <2> QED
      BY <2>2 DEF Y
  <1> HIDE DEF all, n, m
  <1>2. PICK f : FlatAlong(f, X, s)
    BY FlattenSteps
  <1>3. PICK g : FlatAlong(g, X, t)
    BY FlattenSteps
  <1>4. PICK h : FlatAlong(h, X, all)
    BY <1>1, FlattenSteps
  <1>5. \A k \in 0 .. n : k \in {i \in 0 .. n : h[i] = f[i]}
    <2> DEFINE T == {i \in 0 .. n : h[i] = f[i]}
    <2>1. 0 \in T
      BY <1>1, <1>2, <1>4 DEF FlatAlong, n
    <2>2. ASSUME NEW k \in 1 .. n, k - 1 \in T
          PROVE  k \in T
      <3>1. f[k] = f[k - 1] \o s[k]
        BY <1>2 DEF FlatAlong, n
      <3>2. h[k] = h[k - 1] \o all[k]
        <4>1. k \in 1 .. Len(all)
          BY <1>1
        <4> QED
          BY <1>4, <4>1 DEF FlatAlong
      <3>3. k \in 0 .. n /\ h[k - 1] = f[k - 1] /\ all[k] = s[k]
        BY <1>1, <2>2
      <3> QED
        BY <3>1, <3>2, <3>3
    <2> HIDE DEF T
    <2>3. \A k \in 0 .. n : k \in T
      BY <1>1, <2>1, <2>2, Climb
    <2> QED
      BY <2>3 DEF T
  <1>6. f[n] \in Seq(X) /\ h[n] = f[n]
    BY <1>1, <1>2, <1>5 DEF FlatAlong, n
  <1>7. \A k \in 0 .. m : k \in {i \in 0 .. m : h[n + i] = f[n] \o g[i]}
    <2> DEFINE T == {i \in 0 .. m : h[n + i] = f[n] \o g[i]}
    <2>1. 0 \in T
      <3>1. f[n] \o <<>> = f[n]
        BY <1>6, ConcatEmptySeq
      <3>2. g[0] = <<>> /\ n + 0 = n /\ 0 \in 0 .. m
        BY <1>1, <1>3 DEF FlatAlong
      <3>3. h[n + 0] = f[n] \o g[0]
        BY <1>6, <3>1, <3>2
      <3> QED
        BY <3>2, <3>3
    <2>2. ASSUME NEW k \in 1 .. m, k - 1 \in T
          PROVE  k \in T
      <3>1. g[k] = g[k - 1] \o t[k] /\ g[k - 1] \in Seq(X) /\ t[k] \in Seq(X)
        <4>1. k - 1 \in 0 .. m
          BY <1>1
        <4>2. g \in [0 .. m -> Seq(X)] /\ g[k] = g[k - 1] \o t[k]
          BY <1>3 DEF FlatAlong, m
        <4>3. t[k] \in Seq(X)
          BY DEF m
        <4> QED
          BY <4>1, <4>2, <4>3
      <3>2. h[n + k] = h[n + (k - 1)] \o t[k]
        <4>1. n + k \in 1 .. Len(all) /\ (n + k) - 1 = n + (k - 1)
          BY <1>1
        <4>2. h[n + k] = h[(n + k) - 1] \o all[n + k]
          BY <1>4, <4>1 DEF FlatAlong
        <4> QED
          BY <1>1, <4>1, <4>2
      <3>3. h[n + (k - 1)] = f[n] \o g[k - 1]
        BY <2>2
      <3>4. (f[n] \o g[k - 1]) \o t[k] = f[n] \o (g[k - 1] \o t[k])
        BY <1>6, <1>9, <3>1
      <3>5. h[n + k] = f[n] \o g[k]
        BY <3>1, <3>2, <3>3, <3>4
      <3>6. k \in 0 .. m
        BY <1>1
      <3> QED
        BY <3>5, <3>6
    <2> HIDE DEF T
    <2>3. \A k \in 0 .. m : k \in T
      BY <1>1, <2>1, <2>2, Climb
    <2> QED
      BY <2>3 DEF T
  <1>8. h[n + m] = f[n] \o g[m]
    <2>1. m \in 0 .. m
      BY <1>1
    <2> QED
      BY <1>7, <2>1
  <1> QED
    BY <1>1, <1>2, <1>3, <1>4, <1>8 DEF FlatAlong, all, n, m

\* Taking from what is flattened, and flattening what is taken from.
LEMMA AmongFlattened ==
    ASSUME NEW X, NEW seqs \in Seq(Seq(X)), NEW S
    PROVE  /\ [k \in DOMAIN seqs |-> Among(seqs[k], S)] \in Seq(Seq(X))
           /\ Among(FlattenSeq(seqs), S) = FlattenSeq([k \in DOMAIN seqs |-> Among(seqs[k], S)])
  <1> DEFINE n == Len(seqs)
             taken == [k \in DOMAIN seqs |-> Among(seqs[k], S)]
  <1>1. n \in Nat /\ DOMAIN seqs = 1 .. n /\ \A k \in 1 .. n : seqs[k] \in Seq(X)
    OBVIOUS
  <1>2. \A k \in 1 .. n : Among(seqs[k], S) \in Seq(X)
    BY <1>1, AmongIs
  <1>3. taken \in Seq(Seq(X)) /\ Len(taken) = n /\ \A k \in 1 .. n : taken[k] = Among(seqs[k], S)
    BY <1>1, <1>2
  <1> HIDE DEF taken
  <1>4. PICK f : FlatAlong(f, X, seqs)
    BY FlattenSteps
  <1>5. PICK g : FlatAlong(g, X, taken)
    BY <1>3, FlattenSteps
  <1> DEFINE T == {k \in 0 .. n : Among(f[k], S) = g[k]}
  <1>6. 0 \in T
    BY <1>1, <1>4, <1>5, AmongNone DEF FlatAlong
  <1>7. ASSUME NEW k \in 1 .. n, k - 1 \in T
        PROVE  k \in T
    <2>1. f[k] = f[k - 1] \o seqs[k] /\ f[k - 1] \in Seq(X) /\ k \in 0 .. n
      <3>1. k - 1 \in 0 .. n
        BY <1>1
      <3> QED
        <4>1. f \in [0 .. n -> Seq(X)] /\ f[k] = f[k - 1] \o seqs[k]
          BY <1>4 DEF FlatAlong
        <4>2. k \in 0 .. n
          BY <1>1
        <4> QED
          BY <3>1, <4>1, <4>2
    <2>2. g[k] = g[k - 1] \o taken[k]
      BY <1>3, <1>5 DEF FlatAlong
    <2>3. Among(f[k - 1] \o seqs[k], S) = Among(f[k - 1], S) \o Among(seqs[k], S)
      <3>1. \A a, b \in Seq(X) : Among(a \o b, S) = Among(a, S) \o Among(b, S)
        BY AmongJoins
      <3> QED
        BY <1>1, <2>1, <3>1
    <2> QED
      BY <1>3, <1>7, <2>1, <2>2, <2>3
  <1> HIDE DEF T
  <1>8. n \in T
    <2>1. \A k \in 0 .. n : k \in T
      BY <1>1, <1>6, <1>7, Climb
    <2> QED
      BY <1>1, <2>1
  <1> QED
    BY <1>3, <1>4, <1>5, <1>8 DEF FlatAlong, T, taken

\* Flattening the empty sequence, one sequence, and one more.
LEMMA FlattenFew ==
    ASSUME NEW X
    PROVE  /\ FlattenSeq(<<>>) = <<>>
           /\ \A s \in Seq(X) : FlattenSeq(<<s>>) = s
           /\ \A ss \in Seq(Seq(X)), s \in Seq(X) :
                 /\ Append(ss, s) \in Seq(Seq(X)) /\ Append(ss, s) = ss \o <<s>>
                 /\ FlattenSeq(Append(ss, s)) = FlattenSeq(ss) \o s
  <1>1. FlattenSeq(<<>>) = <<>>
    <2>1. <<>> \in Seq(Seq(X)) /\ Len(<<>>) = 0
      OBVIOUS
    <2>2. PICK g : FlatAlong(g, X, <<>>)
      BY <2>1, FlattenSteps
    <2> QED
      BY <2>1, <2>2 DEF FlatAlong
  <1>2. ASSUME NEW s \in Seq(X)
        PROVE  <<s>> \in Seq(Seq(X)) /\ FlattenSeq(<<s>>) = s
    <2>1. <<s>> \in Seq(Seq(X)) /\ Len(<<s>>) = 1 /\ <<s>>[1] = s
      OBVIOUS
    <2>2. PICK g : FlatAlong(g, X, <<s>>)
      BY <2>1, FlattenSteps
    <2>3. g[0] = <<>> /\ FlattenSeq(<<s>>) = g[1] /\ \A k \in 1 .. 1 : g[k] = g[k - 1] \o <<s>>[k]
      BY <2>1, <2>2 DEF FlatAlong
    <2>4. g[1] = g[1 - 1] \o <<s>>[1] /\ 1 - 1 = 0
      <3>1. 1 \in 1 .. 1
        OBVIOUS
      <3> QED
        BY <2>3, <3>1
    <2>5. <<>> \o s = s
      BY ConcatEmptySeq
    <2> QED
      BY <2>1, <2>3, <2>4, <2>5
  <1>3. ASSUME NEW ss \in Seq(Seq(X)), NEW s \in Seq(X)
        PROVE  /\ Append(ss, s) \in Seq(Seq(X)) /\ Append(ss, s) = ss \o <<s>>
               /\ FlattenSeq(Append(ss, s)) = FlattenSeq(ss) \o s
    <2>1. Append(ss, s) = ss \o <<s>>
      <3> DEFINE Y == Seq(X)
      <3> HIDE DEF Y
      <3>1. ss \in Seq(Y) /\ s \in Y
        BY DEF Y
      <3> QED
        BY <3>1, AppendBehind
    <2>2. FlattenSeq(ss \o <<s>>) = FlattenSeq(ss) \o FlattenSeq(<<s>>)
      BY <1>2, FlattenJoins
    <2>3. Append(ss, s) \in Seq(Seq(X))
      OBVIOUS
    <2> QED
      BY <1>2, <2>1, <2>2, <2>3
  <1> QED
    BY <1>1, <1>2, <1>3

\* ... and of one element.
LEMMA AmongOne ==
    ASSUME NEW X, NEW x \in X, NEW S
    PROVE  Among(<<x>>, S) = IF x \in S THEN <<x>> ELSE <<>>
  <1>1. <<x>> \in Seq(X) /\ Len(<<x>>) = 1 /\ <<x>>[1] = x
    OBVIOUS
  <1>2. PICK g : AmongAlong(g, X, <<x>>, S)
    BY <1>1, AmongSteps
  <1>3. g[0] = <<>> /\ Among(<<x>>, S) = g[1] /\ \A k \in 1 .. 1 : g[k] = TakenWith(g[k - 1], <<x>>[k], S)
    BY <1>1, <1>2 DEF AmongAlong
  <1>4. g[1] = TakenWith(g[1 - 1], <<x>>[1], S) /\ 1 - 1 = 0
    <2>1. 1 \in 1 .. 1
      OBVIOUS
    <2> QED
      BY <1>3, <2>1
  <1>5. Append(<<>>, x) = <<x>>
    OBVIOUS
  <1> QED
    BY <1>1, <1>3, <1>4, <1>5 DEF TakenWith

\* What is taken depends on the elements of the sequence only.
LEMMA AmongSame ==
    ASSUME NEW X, NEW s \in Seq(X), NEW S, NEW R,
           \A i \in 1 .. Len(s) : s[i] \in S <=> s[i] \in R
    PROVE  Among(s, S) = Among(s, R)
  <1> DEFINE n == Len(s)
  <1>1. n \in Nat
    OBVIOUS
  <1>2. PICK f : AmongAlong(f, X, s, S)
    BY AmongSteps
  <1>3. PICK g : AmongAlong(g, X, s, R)
    BY AmongSteps
  <1> DEFINE T == {k \in 0 .. n : f[k] = g[k]}
  <1>4. 0 \in T
    BY <1>1, <1>2, <1>3 DEF AmongAlong
  <1>5. ASSUME NEW k \in 1 .. n, k - 1 \in T
        PROVE  k \in T
    <2>1. f[k] = TakenWith(f[k - 1], s[k], S) /\ g[k] = TakenWith(g[k - 1], s[k], R)
      BY <1>2, <1>3 DEF AmongAlong
    <2>2. f[k - 1] = g[k - 1] /\ k \in 0 .. n
      BY <1>1, <1>5
    <2>3. f[k] = g[k]
      BY <2>1, <2>2 DEF TakenWith
    <2> QED
      BY <2>2, <2>3
  <1> HIDE DEF T
  <1>6. n \in T
    <2>1. \A k \in 0 .. n : k \in T
      BY <1>1, <1>4, <1>5, Climb
    <2> QED
      BY <1>1, <2>1
  <1> QED
    BY <1>2, <1>3, <1>6 DEF AmongAlong, T

\* What is taken of a sequence that lies in a set, or outside.
LEMMA AmongAll ==
    ASSUME NEW X, NEW s \in Seq(X), NEW S, \A i \in 1 .. Len(s) : s[i] \in S
    PROVE  Among(s, S) = s
  <1> DEFINE n == Len(s)
             Upto(k) == SubSeq(s, 1, k)
  <1>1. n \in Nat
    OBVIOUS
  <1>2. PICK g : AmongAlong(g, X, s, S)
    BY AmongSteps
  <1> DEFINE T == {k \in 0 .. n : g[k] = Upto(k)}
  <1>3. 0 \in T
    BY <1>1, <1>2, SubSeqEmpty DEF AmongAlong
  <1>4. ASSUME NEW k \in 1 .. n, k - 1 \in T
        PROVE  k \in T
    <2>1. g[k] = TakenWith(g[k - 1], s[k], S)
      BY <1>2 DEF AmongAlong
    <2>2. g[k - 1] = Upto(k - 1) /\ k \in 0 .. n
      BY <1>1, <1>4
    <2>3. g[k] = Append(Upto(k - 1), s[k])
      BY <2>1, <2>2 DEF TakenWith
    <2>4. Upto(k) = Upto(k - 1) \o <<s[k]>>
      <3>1. 1 \in 1 .. Len(s) /\ k \in 1 .. Len(s)
        BY <1>1
      <3> QED
        BY <3>1, SubSeqRecursiveSecond
    <2>5. Append(Upto(k - 1), s[k]) = Upto(k - 1) \o <<s[k]>>
      <3>1. Upto(k - 1) \in Seq(X) /\ s[k] \in X
        BY <1>1
      <3> HIDE DEF Upto
      <3> QED
        BY <3>1, AppendBehind
    <2> QED
      BY <2>2, <2>3, <2>4, <2>5
  <1> HIDE DEF T
  <1>5. n \in T
    <2>1. \A k \in 0 .. n : k \in T
      BY <1>1, <1>3, <1>4, Climb
    <2> QED
      BY <1>1, <2>1
  <1> QED
    BY <1>2, <1>5, SubSeqFull DEF AmongAlong, T

\* A set that has none of its elements takes nothing.
LEMMA AmongOthers ==
    ASSUME NEW X, NEW s \in Seq(X), NEW S, \A i \in 1 .. Len(s) : s[i] \notin S
    PROVE  Among(s, S) = <<>>
  <1>1. Among(s, S) = Among(s, {})
    BY AmongSame
  <1>2. Among(s, {}) \in Seq(X) /\ ToSet(Among(s, {})) = {}
    BY AmongIs
  <1> DEFINE r == Among(s, {})
  <1> HIDE DEF r
  <1>3. r \in Seq(X) /\ ToSet(r) = {}
    BY <1>2 DEF r
  <1>4. r = <<>>
    <2>1. DOMAIN r = 1 .. Len(r)
      BY <1>3
    <2>2. Len(r) = 0
      <3> SUFFICES ASSUME Len(r) # 0
                   PROVE  FALSE
        OBVIOUS
      <3>1. 1 \in 1 .. Len(r)
        BY <1>3
      <3>2. r[1] \in ToSet(r)
        BY <2>1, <3>1 DEF ToSet
      <3> QED
        BY <1>3, <3>2
    <2> QED
      BY <1>3, <2>2
  <1> QED
    BY <1>1, <1>4 DEF r

-----------------------------------------------------------------------------
(* Sequences cut, and in increasing order.                                 *)

\* A sequence is what two places cut it into.
LEMMA CutTwice ==
    ASSUME NEW X, NEW t \in Seq(X), NEW lo \in 1 .. Len(t), NEW hi \in lo .. Len(t)
    PROVE  t = (SubSeq(t, 1, lo - 1) \o SubSeq(t, lo, hi)) \o SubSeq(t, hi + 1, Len(t))
  <1>1. /\ Len(t) \in Nat /\ 1 \in 1 .. Len(t) + 1 /\ lo - 1 \in 1 - 1 .. Len(t) /\ hi \in lo - 1 .. Len(t)
        /\ (lo - 1) + 1 = lo /\ hi \in 1 - 1 .. Len(t) /\ Len(t) \in hi .. Len(t)
    OBVIOUS
  <1>2. SubSeq(t, 1, lo - 1) \o SubSeq(t, lo - 1 + 1, hi) = SubSeq(t, 1, hi)
    BY <1>1, ConcatAdjacentSubSeq
  <1>3. SubSeq(t, 1, hi) \o SubSeq(t, hi + 1, Len(t)) = SubSeq(t, 1, Len(t))
    BY <1>1, ConcatAdjacentSubSeq
  <1>4. SubSeq(t, 1, Len(t)) = t
    BY SubSeqFull
  <1> QED
    BY <1>1, <1>2, <1>3, <1>4

\* What is cut out.
LEMMA CutIs ==
    ASSUME NEW X, NEW t \in Seq(X), NEW lo \in 1 .. Len(t) + 1, NEW hi \in lo - 1 .. Len(t)
    PROVE  /\ SubSeq(t, lo, hi) \in Seq(X) /\ Len(SubSeq(t, lo, hi)) = hi - lo + 1
           /\ \A i \in 1 .. hi - lo + 1 : SubSeq(t, lo, hi)[i] = t[lo + i - 1]
  <1>1. lo \in Int /\ hi \in Int /\ \A i \in lo .. hi : t[i] \in X
    OBVIOUS
  <1>2. /\ SubSeq(t, lo, hi) \in Seq(X) /\ Len(SubSeq(t, lo, hi)) = IF lo <= hi THEN hi - lo + 1 ELSE 0
        /\ \A i \in 1 .. hi - lo + 1 : SubSeq(t, lo, hi)[i] = t[lo + i - 1]
    BY <1>1, SubSeqProperties
  <1>3. Len(SubSeq(t, lo, hi)) = hi - lo + 1
    BY <1>1, <1>2
  <1> QED
    BY <1>2, <1>3

\* As many slices as it takes, and not one more.
LEMMA SlicesCover ==
    ASSUME NEW size \in Nat, NEW budget \in Nat \ {0}, NEW slices, slices = (size + budget - 1) \div budget
    PROVE  /\ slices \in Nat /\ size <= slices * budget
           /\ \A n \in 1 .. slices : /\ (n - 1) * budget \in 0 .. size /\ n * budget \in Nat
                                     /\ n * budget = (n - 1) * budget + budget
  <1>1. /\ size + budget - 1 \in Nat
        /\ slices \in Int
        /\ size + budget - 1 = budget * slices + ((size + budget - 1) % budget)
        /\ (size + budget - 1) % budget \in 0 .. budget - 1
    OBVIOUS
  <1> DEFINE rest == (size + budget - 1) % budget
             all == budget * slices
  <1>2. rest \in 0 .. budget - 1 /\ all \in Int /\ size + budget - 1 = all + rest
    BY <1>1
  <1>3. size <= all /\ all <= size + budget - 1
    <2> HIDE DEF rest, all
    <2> QED
      BY <1>2
  <1>4. slices \in Nat
    <2> SUFFICES ASSUME slices < 0
                 PROVE  FALSE
      BY <1>1
    <2>1. budget * slices <= 0 - budget
      BY <1>1
    <2> QED
      BY <1>3, <2>1
  <1>5. all = slices * budget
    BY <1>1
  <1>6. ASSUME NEW n \in 1 .. slices
        PROVE  /\ (n - 1) * budget \in 0 .. size /\ n * budget \in Nat
               /\ n * budget = (n - 1) * budget + budget
    <2>1. n * budget = (n - 1) * budget + budget /\ n * budget \in Nat /\ (n - 1) * budget \in Nat
      BY <1>4
    <2>2. n * budget <= slices * budget
      BY <1>4
    <2> QED
      BY <1>3, <1>5, <2>1, <2>2
  <1> QED
    BY <1>3, <1>4, <1>5, <1>6

\* What the provers do not see of sequences over intervals.
LEMMA ElementsOf ==
    \A X : \A s \in Seq(X) : Len(s) \in Nat /\ DOMAIN s = 1 .. Len(s) /\ \A k \in 1 .. Len(s) : s[k] \in X
  OBVIOUS

\* The shortest sequences.
LEMMA FewOf == \A X : <<>> \in Seq(X) /\ \A x \in X : <<x>> \in Seq(X)
  OBVIOUS

Increasing(s) == \A i, j \in 1 .. Len(s) : i < j => s[i] < s[j]

\* The first of an increasing sequence are all different.
LEMMA CountFirst ==
    ASSUME NEW s \in Seq(Int), Increasing(s), NEW k \in 0 .. Len(s)
    PROVE  IsFiniteSet({s[j] : j \in 1 .. k}) /\ Cardinality({s[j] : j \in 1 .. k}) = k
  <1> DEFINE S == {s[j] : j \in 1 .. k}
             f == [j \in 1 .. k |-> s[j]]
  <1>1. k \in Nat /\ \A j \in 1 .. k : j \in 1 .. Len(s)
    OBVIOUS
  <1>2. f \in [1 .. k -> S]
    OBVIOUS
  <1>3. \A i, j \in 1 .. k : f[i] = f[j] => i = j
    <2> SUFFICES ASSUME NEW i \in 1 .. k, NEW j \in 1 .. k, i # j
                 PROVE  s[i] # s[j]
      OBVIOUS
    <2>1. s[i] \in Int /\ s[j] \in Int /\ (i < j \/ j < i)
      BY <1>1
    <2>2. s[i] < s[j] \/ s[j] < s[i]
      BY <1>1, <2>1 DEF Increasing
    <2> QED
      BY <2>1, <2>2
  <1>4. \A y \in S : \E j \in 1 .. k : f[j] = y
    OBVIOUS
  <1> HIDE DEF f, S
  <1>5. f \in Bijection(1 .. k, S)
    BY <1>2, <1>3, <1>4 DEF Bijection, Injection, Surjection, IsInjective
  <1>6. ExistsBijection(1 .. k, S)
    BY <1>5 DEF ExistsBijection
  <1>7. IsFiniteSet(1 .. k) /\ Cardinality(1 .. k) = k
    <2>1. 1 \in Int /\ k \in Int
      BY <1>1
    <2>2. IsFiniteSet(1 .. k) /\ Cardinality(1 .. k) = IF 1 > k THEN 0 ELSE k - 1 + 1
      BY <2>1, FS_Interval
    <2> QED
      BY <1>1, <2>2
  <1>8. IsFiniteSet(S) /\ Cardinality(S) = k
    BY <1>6, <1>7, FS_Bijection
  <1> QED
    BY <1>8 DEF S

\* A part of an increasing sequence is increasing ...
LEMMA AmongIncreasing ==
    ASSUME NEW s \in Seq(Int), Increasing(s), NEW S
    PROVE  Among(s, S) \in Seq(Int) /\ Increasing(Among(s, S))
  <1> DEFINE t == Among(s, S)
  <1>1. t \in Seq(Int) /\ \E pos : Takes(pos, t, s, Len(s), S)
    BY AmongTakes
  <1>2. PICK pos : Takes(pos, t, s, Len(s), S)
    BY <1>1
  <1> HIDE DEF t
  <1>3. \A i \in 1 .. Len(t) : pos[i] \in 1 .. Len(s) /\ t[i] = s[pos[i]]
    BY <1>2 DEF Takes
  <1>4. \A i, j \in 1 .. Len(t) : i < j => pos[i] < pos[j]
    BY <1>2 DEF Takes
  <1>5. Increasing(t)
    BY <1>3, <1>4 DEF Increasing
  <1> QED
    BY <1>1, <1>5 DEF t

\* ... and so are two, the one behind the other.
LEMMA IncreasingMore ==
    ASSUME NEW s \in Seq(Int), Increasing(s), NEW x \in Int, \A y \in ToSet(s) : y < x
    PROVE  Append(s, x) \in Seq(Int) /\ Increasing(Append(s, x)) /\ ToSet(Append(s, x)) = ToSet(s) \cup {x}
  <1> DEFINE t == Append(s, x)
             n == Len(s)
  <1>1. /\ n \in Nat /\ t \in Seq(Int) /\ Len(t) = n + 1 /\ t[n + 1] = x
        /\ \A i \in 1 .. n : t[i] = s[i]
    OBVIOUS
  <1>2. ToSet(s) = {s[i] : i \in 1 .. n}
    BY DEF ToSet
  <1>3. DOMAIN t = 1 .. n + 1
    BY <1>1
  <1> HIDE DEF t
  <1>4. ToSet(t) = {t[i] : i \in 1 .. n + 1}
    BY <1>3 DEF ToSet
  <1>5. \A i \in 1 .. n + 1 : i = n + 1 \/ i \in 1 .. n
    BY <1>1
  <1>6. \A i \in 1 .. n : i \in 1 .. n + 1
    BY <1>1
  <1>7. n + 1 \in 1 .. n + 1
    BY <1>1
  <1>8. Increasing(t)
    <2> SUFFICES ASSUME NEW i \in 1 .. Len(t), NEW j \in 1 .. Len(t), i < j
                 PROVE  t[i] < t[j]
      BY DEF Increasing
    <2>1. i \in 1 .. n
      BY <1>1
    <2>2. CASE j \in 1 .. n
      BY <1>1, <2>1, <2>2 DEF Increasing
    <2>3. CASE j = n + 1
      BY <1>1, <1>2, <2>1, <2>3
    <2> QED
      BY <1>1, <1>5, <2>2, <2>3
  <1>9. ToSet(t) = ToSet(s) \cup {x}
    <2> HIDE DEF n
    <2> QED
      BY <1>1, <1>2, <1>4, <1>5, <1>6, <1>7
  <1> QED
    BY <1>1, <1>8, <1>9 DEF t

\* Sequences over more.
LEMMA Wider == \A X, Y : X \subseteq Y => \A s \in Seq(X) : s \in Seq(Y)
  <1> SUFFICES ASSUME NEW X, NEW Y, X \subseteq Y, NEW s \in Seq(X)
               PROVE  s \in Seq(Y)
    OBVIOUS
  <1>1. Len(s) \in Nat /\ s \in [1 .. Len(s) -> X]
    OBVIOUS
  <1>2. s \in [1 .. Len(s) -> Y]
    BY <1>1
  <1> QED
    BY <1>1, <1>2

-----------------------------------------------------------------------------
(* Sequences of sequences.                                                 *)

\* The values of a function along a sequence.
Through(F, s) == [n \in DOMAIN s |-> F[s[n]]]

Follows(F, s, t) == Through(F, s \o t) = Through(F, s) \o Through(F, t)

\* The values along two sequences.
LEMMA ThroughIs ==
    ASSUME NEW X, NEW Y, NEW F \in [X -> Y], NEW s \in Seq(X), NEW t \in Seq(X)
    PROVE  /\ Through(F, s) \in Seq(Y) /\ Len(Through(F, s)) = Len(s) /\ Through(F, <<>>) = <<>>
           /\ Follows(F, s, t)
  <1>1. \A r \in Seq(X) : /\ Through(F, r) \in Seq(Y) /\ Len(Through(F, r)) = Len(r)
                          /\ \A n \in 1 .. Len(r) : Through(F, r)[n] = F[r[n]]
    <2> SUFFICES ASSUME NEW r \in Seq(X)
                 PROVE  /\ Through(F, r) \in Seq(Y) /\ Len(Through(F, r)) = Len(r)
                        /\ \A n \in 1 .. Len(r) : Through(F, r)[n] = F[r[n]]
      OBVIOUS
    <2>1. Len(r) \in Nat /\ DOMAIN r = 1 .. Len(r) /\ \A n \in 1 .. Len(r) : r[n] \in X
      BY ElementsOf
    <2>2. Through(F, r) = [n \in 1 .. Len(r) |-> F[r[n]]]
      BY <2>1 DEF Through
    <2>3. \A Z : \A m \in Nat : \A f \in [1 .. m -> Z] : f \in Seq(Z) /\ Len(f) = m
      OBVIOUS
    <2>4. Through(F, r) \in [1 .. Len(r) -> Y]
      BY <2>1, <2>2
    <2> QED
      BY <2>1, <2>2, <2>3, <2>4
  <1>2. Through(F, <<>>) = <<>>
    <2>1. <<>> \in Seq(X) /\ Len(<<>>) = 0
      OBVIOUS
    <2>2. Through(F, <<>>) \in Seq(Y) /\ Len(Through(F, <<>>)) = 0
      BY <1>1, <2>1
    <2> QED
      BY <2>2
  <1> DEFINE a == Through(F, s)
             b == Through(F, t)
             r == s \o t
  <1>3. /\ r \in Seq(X) /\ Len(s) \in Nat /\ Len(t) \in Nat /\ Len(r) = Len(s) + Len(t)
        /\ \A k \in 1 .. Len(s) : r[k] = s[k]
        /\ \A k \in 1 .. Len(t) : r[Len(s) + k] = t[k]
    BY PutTogether
  <1>4. /\ a \in Seq(Y) /\ Len(a) = Len(s) /\ \A k \in 1 .. Len(s) : a[k] = F[s[k]]
        /\ b \in Seq(Y) /\ Len(b) = Len(t) /\ \A k \in 1 .. Len(t) : b[k] = F[t[k]]
    BY <1>1
  <1> HIDE DEF a, b, r
  <1>5. Through(F, r) \in Seq(Y) /\ Len(Through(F, r)) = Len(r) /\ \A n \in 1 .. Len(r) : Through(F, r)[n] = F[r[n]]
    BY <1>1, <1>3
  <1> DEFINE c == Through(F, r)
             d == a \o b
  <1>6. /\ d \in Seq(Y) /\ Len(d) = Len(a) + Len(b)
        /\ \A k \in 1 .. Len(a) : d[k] = a[k]
        /\ \A k \in 1 .. Len(b) : d[Len(a) + k] = b[k]
    <2>1. \A u, v \in Seq(Y) : /\ u \o v \in Seq(Y) /\ Len(u \o v) = Len(u) + Len(v)
                               /\ \A k \in 1 .. Len(u) : (u \o v)[k] = u[k]
                               /\ \A k \in 1 .. Len(v) : (u \o v)[Len(u) + k] = v[k]
      BY PutTogether
    <2>2. a \in Seq(Y) /\ b \in Seq(Y)
      BY <1>4
    <2> QED
      BY <2>1, <2>2
  <1>7. c \in Seq(Y) /\ Len(c) = Len(r) /\ \A n \in 1 .. Len(r) : c[n] = F[r[n]]
    BY <1>5
  <1> HIDE DEF c, d
  <1>8. Len(c) = Len(d)
    BY <1>3, <1>4, <1>6, <1>7
  <1>9. \A n \in 1 .. Len(c) : c[n] = d[n]
    <2> SUFFICES ASSUME NEW n \in 1 .. Len(c)
                 PROVE  c[n] = d[n]
      OBVIOUS
    <2>1. CASE n <= Len(s)
      <3>1. n \in 1 .. Len(s)
        BY <1>3, <2>1
      <3> QED
        BY <1>3, <1>4, <1>6, <1>7, <3>1
    <2>2. CASE ~(n <= Len(s))
      <3>1. n - Len(s) \in 1 .. Len(t) /\ Len(s) + (n - Len(s)) = n
        BY <1>3, <1>7, <2>2
      <3>2. r[n] = t[n - Len(s)] /\ d[n] = b[n - Len(s)]
        <4>1. r[Len(s) + (n - Len(s))] = t[n - Len(s)]
          BY <1>3, <3>1
        <4>2. Len(a) = Len(s) /\ Len(b) = Len(t)
          BY <1>4
        <4>3. d[Len(a) + (n - Len(s))] = b[n - Len(s)]
          BY <1>6, <3>1, <4>2
        <4> QED
          BY <3>1, <4>1, <4>2, <4>3
      <3> QED
        BY <1>4, <1>7, <3>1, <3>2
    <2> QED
      BY <2>1, <2>2
  <1>10. c = d
    BY <1>6, <1>7, <1>8, <1>9, SeqEqual
  <1> QED
    BY <1>1, <1>2, <1>10 DEF a, b, c, d, r, Follows

\* What a function makes of each of several sequences.
Mapped(F, seqs) == [c \in DOMAIN seqs |-> FlattenSeq(Through(F, seqs[c]))]

\* The values along sequences that are put together are put together.
LEMMA FlattenMapped ==
    ASSUME NEW X, NEW Y, NEW seqs \in Seq(Seq(X)), NEW F \in [X -> Seq(Y)]
    PROVE  FlattenSeq(Through(F, FlattenSeq(seqs))) = FlattenSeq(Mapped(F, seqs))
  <1> DEFINE n == Len(seqs)
             each == [c \in DOMAIN seqs |-> FlattenSeq(Through(F, seqs[c]))]
             Z == Seq(Y)
  <1>1. n \in Nat /\ DOMAIN seqs = 1 .. n /\ \A c \in 1 .. n : seqs[c] \in Seq(X)
    BY ElementsOf
  <1>2. \A s, t \in Seq(X) : /\ Through(F, s) \in Seq(Z) /\ Through(F, <<>>) = <<>>
                             /\ Follows(F, s, t)
    <2>1. F \in [X -> Z]
      OBVIOUS
    <2> HIDE DEF Z
    <2> SUFFICES ASSUME NEW s \in Seq(X), NEW t \in Seq(X)
                 PROVE  /\ Through(F, s) \in Seq(Z) /\ Through(F, <<>>) = <<>>
                        /\ Follows(F, s, t)
      OBVIOUS
    <2> QED
      BY <2>1, ThroughIs
  <1>3. \A c \in 1 .. n : FlattenSeq(Through(F, seqs[c])) \in Z
    BY <1>1, <1>2, FlattenIs
  <1>4. each \in Seq(Z) /\ Len(each) = n /\ \A c \in 1 .. n : each[c] = FlattenSeq(Through(F, seqs[c]))
    <2>1. each = [c \in 1 .. n |-> FlattenSeq(Through(F, seqs[c]))]
      BY <1>1
    <2>2. \A W : \A m \in Nat : \A f \in [1 .. m -> W] : f \in Seq(W) /\ Len(f) = m
      OBVIOUS
    <2> HIDE DEF Z, n
    <2>3. each \in [1 .. n -> Z]
      BY <1>3, <2>1
    <2> HIDE DEF each
    <2> QED
      BY <1>1, <2>1, <2>2, <2>3
  <1> HIDE DEF each
  <1>5. PICK f : FlatAlong(f, X, seqs)
    BY FlattenSteps
  <1>6. PICK g : FlatAlong(g, Y, each)
    BY <1>4, FlattenSteps
  <1>7. /\ f \in [0 .. n -> Seq(X)] /\ f[0] = <<>> /\ FlattenSeq(seqs) = f[n]
        /\ \A k \in 1 .. n : f[k] = f[k - 1] \o seqs[k]
    BY <1>5 DEF FlatAlong
  <1>8. /\ g[0] = <<>> /\ FlattenSeq(each) = g[n]
        /\ \A k \in 1 .. n : g[k] = g[k - 1] \o each[k]
    BY <1>4, <1>6 DEF FlatAlong
  <1> HIDE DEF n
  <1> DEFINE T == {k \in 0 .. n : FlattenSeq(Through(F, f[k])) = g[k]}
  <1>9. 0 \in T
    <2>1. 0 \in 0 .. n
      BY <1>1
    <2>2. Through(F, <<>>) = <<>>
      <3>1. <<>> \in Seq(X)
        OBVIOUS
      <3> QED
        BY <1>2, <3>1
    <2>3. FlattenSeq(<<>>) = <<>>
      BY FlattenFew
    <2> QED
      BY <1>7, <1>8, <2>1, <2>2, <2>3
  <1>10. ASSUME NEW k \in 1 .. n, k - 1 \in T
         PROVE  k \in T
    <2>1. k \in 0 .. n /\ k - 1 \in 0 .. n
      BY <1>1
    <2>2. f[k - 1] \in Seq(X) /\ seqs[k] \in Seq(X) /\ f[k] = f[k - 1] \o seqs[k]
      BY <1>1, <1>7, <2>1
    <2>3. Through(F, f[k]) = Through(F, f[k - 1]) \o Through(F, seqs[k])
          /\ Through(F, f[k - 1]) \in Seq(Seq(Y)) /\ Through(F, seqs[k]) \in Seq(Seq(Y))
      <3>1. Follows(F, f[k - 1], seqs[k])
        BY <1>2, <2>2
      <3>2. Through(F, f[k - 1]) \in Seq(Seq(Y)) /\ Through(F, seqs[k]) \in Seq(Seq(Y))
        BY <1>2, <2>2
      <3> QED
        BY <2>2, <3>1, <3>2 DEF Follows
    <2>4. FlattenSeq(Through(F, f[k])) = FlattenSeq(Through(F, f[k - 1])) \o FlattenSeq(Through(F, seqs[k]))
      BY <2>3, FlattenJoins
    <2>5. FlattenSeq(Through(F, f[k - 1])) = g[k - 1]
      BY <1>10
    <2> QED
      BY <1>4, <1>8, <2>1, <2>4, <2>5
  <1> HIDE DEF T
  <1>11. \A k \in 0 .. n : k \in T
    BY <1>1, <1>9, <1>10, Climb
  <1>12. n \in T
    <2>1. n \in 0 .. n
      BY <1>1
    <2> QED
      BY <1>11, <2>1
  <1> QED
    BY <1>4, <1>7, <1>8, <1>12 DEF T, each, Mapped

\* Increasing sequences, the one behind the other.
LEMMA FlattenIncreasing ==
    ASSUME NEW seqs \in Seq(Seq(Int)), \A i \in 1 .. Len(seqs) : Increasing(seqs[i]),
           \A i, j \in 1 .. Len(seqs) : i < j => \A x \in ToSet(seqs[i]), y \in ToSet(seqs[j]) : x < y
    PROVE  FlattenSeq(seqs) \in Seq(Int) /\ Increasing(FlattenSeq(seqs))
  <1> DEFINE t == FlattenSeq(seqs)
  <1>1. t \in Seq(Int) /\ \E of, nth : Spreads(of, nth, t, seqs, Len(seqs))
    BY FlattenSpreads
  <1>2. PICK of, nth : Spreads(of, nth, t, seqs, Len(seqs))
    BY <1>1
  <1> HIDE DEF t
  <1>3. ASSUME NEW q \in 1 .. Len(t), NEW r \in 1 .. Len(t), q < r
        PROVE  t[q] < t[r]
    <2>1. /\ of[q] \in 1 .. Len(seqs) /\ of[r] \in 1 .. Len(seqs)
          /\ nth[q] \in 1 .. Len(seqs[of[q]]) /\ t[q] = seqs[of[q]][nth[q]]
          /\ nth[r] \in 1 .. Len(seqs[of[r]]) /\ t[r] = seqs[of[r]][nth[r]]
          /\ of[q] < of[r] \/ (of[q] = of[r] /\ nth[q] < nth[r])
      BY <1>2, <1>3 DEF Spreads
    <2>2. CASE of[q] < of[r]
      <3>1. t[q] \in ToSet(seqs[of[q]]) /\ t[r] \in ToSet(seqs[of[r]])
        <4>1. seqs[of[q]] \in Seq(Int) /\ seqs[of[r]] \in Seq(Int)
          BY <2>1, ElementsOf
        <4>2. DOMAIN seqs[of[q]] = 1 .. Len(seqs[of[q]]) /\ DOMAIN seqs[of[r]] = 1 .. Len(seqs[of[r]])
          BY <4>1
        <4> QED
          BY <2>1, <4>2 DEF ToSet
      <3> QED
        BY <2>1, <2>2, <3>1
    <2>3. CASE of[q] = of[r] /\ nth[q] < nth[r]
      BY <2>1, <2>3 DEF Increasing
    <2> QED
      BY <2>1, <2>2, <2>3
  <1>4. Increasing(t)
    BY <1>3 DEF Increasing
  <1> QED
    BY <1>1, <1>4 DEF t

\* Sequences without repetitions, and apart.
LEMMA FlattenInjective ==
    ASSUME NEW X, NEW seqs \in Seq(Seq(X)), \A i \in 1 .. Len(seqs) : IsInjective(seqs[i]),
           \A i, j \in 1 .. Len(seqs) : i # j => ToSet(seqs[i]) \cap ToSet(seqs[j]) = {}
    PROVE  IsInjective(FlattenSeq(seqs))
  <1> DEFINE t == FlattenSeq(seqs)
  <1>1. t \in Seq(X) /\ \E of, nth : Spreads(of, nth, t, seqs, Len(seqs))
    BY FlattenSpreads
  <1>2. PICK of, nth : Spreads(of, nth, t, seqs, Len(seqs))
    BY <1>1
  <1> HIDE DEF t
  <1>3. ASSUME NEW q \in 1 .. Len(t), NEW r \in 1 .. Len(t), t[q] = t[r]
        PROVE  ~(q < r)
    <2>1. /\ of[q] \in 1 .. Len(seqs) /\ of[r] \in 1 .. Len(seqs)
          /\ nth[q] \in 1 .. Len(seqs[of[q]]) /\ t[q] = seqs[of[q]][nth[q]]
          /\ nth[r] \in 1 .. Len(seqs[of[r]]) /\ t[r] = seqs[of[r]][nth[r]]
          /\ q < r => of[q] < of[r] \/ (of[q] = of[r] /\ nth[q] < nth[r])
      BY <1>2 DEF Spreads
    <2>2. /\ DOMAIN seqs[of[q]] = 1 .. Len(seqs[of[q]]) /\ DOMAIN seqs[of[r]] = 1 .. Len(seqs[of[r]])
      <3>1. seqs[of[q]] \in Seq(X) /\ seqs[of[r]] \in Seq(X)
        BY <2>1, ElementsOf
      <3> QED
        BY <3>1
    <2>3. t[q] \in ToSet(seqs[of[q]]) /\ t[r] \in ToSet(seqs[of[r]])
      BY <2>1, <2>2 DEF ToSet
    <2>4. of[q] = of[r]
      BY <1>3, <2>1, <2>3
    <2>5. nth[q] = nth[r]
      BY <1>3, <2>1, <2>2, <2>4 DEF IsInjective
    <2> QED
      BY <2>1, <2>4, <2>5
  <1>4. DOMAIN t = 1 .. Len(t) /\ Len(t) \in Nat
    BY <1>1, ElementsOf
  <1>5. \A q, r \in 1 .. Len(t) : t[q] = t[r] => q = r
    BY <1>3, <1>4
  <1>6. IsInjective(t)
    BY <1>4, <1>5 DEF IsInjective
  <1> QED
    BY <1>6 DEF t

\* Of sequences that are all empty but one.
LEMMA FlattenOnly ==
    ASSUME NEW X, NEW seqs \in Seq(Seq(X)), NEW c \in 1 .. Len(seqs),
           \A i \in 1 .. Len(seqs) : i # c => seqs[i] = <<>>
    PROVE  FlattenSeq(seqs) = seqs[c]
  <1> DEFINE n == Len(seqs)
  <1>1. n \in Nat /\ \A k \in 1 .. n : seqs[k] \in Seq(X)
    BY ElementsOf
  <1>2. PICK g : FlatAlong(g, X, seqs)
    BY FlattenSteps
  <1>3. /\ g \in [0 .. n -> Seq(X)] /\ g[0] = <<>> /\ FlattenSeq(seqs) = g[n]
        /\ \A k \in 1 .. n : g[k] = g[k - 1] \o seqs[k]
    BY <1>2 DEF FlatAlong
  <1>9. c \in 1 .. n
    OBVIOUS
  <1>10. \A i \in 1 .. n : i # c => seqs[i] = <<>>
    OBVIOUS
  <1> HIDE DEF n
  <1> DEFINE T == {k \in 0 .. n : g[k] = IF k < c THEN <<>> ELSE seqs[c]}
  <1>4. 0 \in T
    <2>1. 0 \in 0 .. n /\ 0 < c
      BY <1>1, <1>9
    <2> QED
      BY <1>3, <2>1
  <1>5. ASSUME NEW k \in 1 .. n, k - 1 \in T
        PROVE  k \in T
    <2>1. k \in 0 .. n /\ k - 1 \in 0 .. n /\ g[k] = g[k - 1] \o seqs[k]
      <3>1. k \in 0 .. n /\ k - 1 \in 0 .. n
        BY <1>1
      <3>2. g[k] = g[k - 1] \o seqs[k]
        BY <1>3
      <3> QED
        BY <3>1, <3>2
    <2>2. g[k - 1] \in Seq(X) /\ g[k - 1] = IF k - 1 < c THEN <<>> ELSE seqs[c]
      BY <1>3, <1>5, <2>1
    <2>3. \A s \in Seq(X) : s \o <<>> = s /\ <<>> \o s = s
      BY ConcatEmptySeq
    <2>4. CASE k = c
      <3>1. g[k - 1] = <<>> /\ ~(k < c) /\ seqs[c] \in Seq(X)
        BY <1>1, <1>9, <2>2, <2>4
      <3> QED
        BY <2>1, <2>3, <2>4, <3>1
    <2>5. CASE k # c
      <3>1. seqs[k] = <<>> /\ (k < c <=> k - 1 < c)
        BY <1>9, <1>10, <2>5
      <3>2. g[k] = g[k - 1]
        BY <2>1, <2>2, <2>3, <3>1
      <3> QED
        BY <2>1, <2>2, <3>1, <3>2
    <2> QED
      BY <2>4, <2>5
  <1> HIDE DEF T
  <1>6. \A k \in 0 .. n : k \in T
    BY <1>1, <1>4, <1>5, Climb
  <1>7. n \in T /\ ~(n < c)
    <2>1. n \in 0 .. n /\ ~(n < c)
      BY <1>1, <1>9
    <2> QED
      BY <1>6, <2>1
  <1> QED
    BY <1>3, <1>7 DEF T

\* The elements of two sequences.
LEMMA SetsJoin ==
    ASSUME NEW X, NEW s \in Seq(X), NEW t \in Seq(X)
    PROVE  ToSet(s \o t) = ToSet(s) \cup ToSet(t)
  <1> DEFINE r == s \o t
  <1>1. /\ r \in Seq(X) /\ Len(s) \in Nat /\ Len(t) \in Nat /\ Len(r) = Len(s) + Len(t)
        /\ \A k \in 1 .. Len(s) : r[k] = s[k]
        /\ \A k \in 1 .. Len(t) : r[Len(s) + k] = t[k]
    BY PutTogether
  <1>2. DOMAIN s = 1 .. Len(s) /\ DOMAIN t = 1 .. Len(t)
    BY ElementsOf
  <1> HIDE DEF r
  <1>3. DOMAIN r = 1 .. Len(r)
    BY <1>1, ElementsOf
  <1>4. \A k \in 1 .. Len(s) : k \in 1 .. Len(r)
    BY <1>1
  <1>5. \A k \in 1 .. Len(t) : Len(s) + k \in 1 .. Len(r)
    BY <1>1
  <1>6. \A n \in 1 .. Len(r) : n \in 1 .. Len(s) \/ (n - Len(s) \in 1 .. Len(t) /\ Len(s) + (n - Len(s)) = n)
    BY <1>1
  <1>7. \A x \in ToSet(r) : x \in ToSet(s) \cup ToSet(t)
    <2> SUFFICES ASSUME NEW n \in 1 .. Len(r)
                 PROVE  r[n] \in ToSet(s) \cup ToSet(t)
      BY <1>3 DEF ToSet
    <2>1. CASE n \in 1 .. Len(s)
      BY <1>1, <1>2, <2>1 DEF ToSet
    <2>2. CASE n - Len(s) \in 1 .. Len(t) /\ Len(s) + (n - Len(s)) = n
      <3>1. r[n] = t[n - Len(s)]
        BY <1>1, <2>2
      <3> QED
        BY <1>2, <2>2, <3>1 DEF ToSet
    <2> QED
      BY <1>6, <2>1, <2>2
  <1>8. \A x \in ToSet(s) : x \in ToSet(r)
    BY <1>1, <1>2, <1>3, <1>4 DEF ToSet
  <1>9. \A x \in ToSet(t) : x \in ToSet(r)
    <2> SUFFICES ASSUME NEW k \in 1 .. Len(t)
                 PROVE  t[k] \in ToSet(r)
      BY <1>2 DEF ToSet
    <2>1. r[Len(s) + k] = t[k] /\ Len(s) + k \in DOMAIN r
      BY <1>1, <1>3, <1>5
    <2> HIDE DEF r
    <2> QED
      BY <2>1 DEF ToSet
  <1> QED
    BY <1>7, <1>8, <1>9 DEF r

\* Two sequences without repetitions, and apart.
LEMMA InjectiveJoins ==
    ASSUME NEW X, NEW s \in Seq(X), NEW t \in Seq(X), IsInjective(s), IsInjective(t), ToSet(s) \cap ToSet(t) = {}
    PROVE  IsInjective(s \o t)
  <1> DEFINE r == s \o t
  <1>1. /\ r \in Seq(X) /\ Len(s) \in Nat /\ Len(t) \in Nat /\ Len(r) = Len(s) + Len(t)
        /\ \A k \in 1 .. Len(s) : r[k] = s[k]
        /\ \A k \in 1 .. Len(t) : r[Len(s) + k] = t[k]
    BY PutTogether
  <1>2. DOMAIN s = 1 .. Len(s) /\ DOMAIN t = 1 .. Len(t)
    BY ElementsOf
  <1> HIDE DEF r
  <1>3. DOMAIN r = 1 .. Len(r)
    BY <1>1, ElementsOf
  <1>4. \A n \in 1 .. Len(r) : \/ n \in 1 .. Len(s) /\ r[n] = s[n] /\ r[n] \in ToSet(s)
                               \/ /\ n - Len(s) \in 1 .. Len(t) /\ r[n] = t[n - Len(s)] /\ r[n] \in ToSet(t)
    <2> SUFFICES ASSUME NEW n \in 1 .. Len(r)
                 PROVE  \/ n \in 1 .. Len(s) /\ r[n] = s[n] /\ r[n] \in ToSet(s)
                        \/ n - Len(s) \in 1 .. Len(t) /\ r[n] = t[n - Len(s)] /\ r[n] \in ToSet(t)
      OBVIOUS
    <2>1. CASE n <= Len(s)
      <3>1. n \in 1 .. Len(s)
        BY <1>1, <2>1
      <3> QED
        BY <1>1, <1>2, <3>1 DEF ToSet
    <2>2. CASE ~(n <= Len(s))
      <3>1. n - Len(s) \in 1 .. Len(t) /\ Len(s) + (n - Len(s)) = n
        BY <1>1, <2>2
      <3>2. r[n] = t[n - Len(s)]
        BY <1>1, <3>1
      <3> QED
        BY <1>2, <3>1, <3>2 DEF ToSet
    <2> QED
      BY <2>1, <2>2
  <1>5. \A m, n \in 1 .. Len(r) : r[m] = r[n] => m = n
    <2> SUFFICES ASSUME NEW m \in 1 .. Len(r), NEW n \in 1 .. Len(r), r[m] = r[n]
                 PROVE  m = n
      OBVIOUS
    <2>1. CASE m \in 1 .. Len(s) /\ r[m] = s[m] /\ n \in 1 .. Len(s) /\ r[n] = s[n]
      BY <1>2, <2>1 DEF IsInjective
    <2>2. CASE /\ m - Len(s) \in 1 .. Len(t) /\ r[m] = t[m - Len(s)]
               /\ n - Len(s) \in 1 .. Len(t) /\ r[n] = t[n - Len(s)]
      <3>1. m - Len(s) = n - Len(s)
        BY <1>2, <2>2 DEF IsInjective
      <3> QED
        BY <1>1, <3>1
    <2> QED
      BY <1>4, <2>1, <2>2
  <1>6. IsInjective(r)
    BY <1>3, <1>5 DEF IsInjective
  <1> QED
    BY <1>6 DEF r

-----------------------------------------------------------------------------
(* One element more.                                                       *)

\* A sequence with an element more.
LEMMA Extend ==
    ASSUME NEW X, NEW s \in Seq(X), NEW x \in X
    PROVE  /\ Append(s, x) \in Seq(X) /\ Len(s) \in Nat /\ Len(Append(s, x)) = Len(s) + 1 /\ Append(s, x) # <<>>
           /\ Append(s, x)[Len(s) + 1] = x /\ \A k \in 1 .. Len(s) : Append(s, x)[k] = s[k]
  <1>1. /\ Append(s, x) \in Seq(X) /\ Len(s) \in Nat /\ Len(Append(s, x)) = Len(s) + 1
        /\ Append(s, x)[Len(s) + 1] = x /\ \A k \in 1 .. Len(s) : Append(s, x)[k] = s[k]
    OBVIOUS
  <1>2. Len(Append(s, x)) # 0 /\ Len(<<>>) = 0
    BY <1>1
  <1> QED
    BY <1>1, <1>2

\* A sequence is its last element behind the others.
LEMMA LastApart ==
    ASSUME NEW X, NEW s \in Seq(X), s # <<>>
    PROVE  \E front \in Seq(X), x \in X : s = Append(front, x)
  <1> DEFINE n == Len(s)
             front == SubSeq(s, 1, n - 1)
  <1>1. n \in Nat /\ n # 0 /\ \A k \in 1 .. n : s[k] \in X
    OBVIOUS
  <1>2. n \in 1 .. n /\ s[n] \in X
    BY <1>1
  <1>3. /\ front \in Seq(X) /\ Len(front) = n - 1 /\ \A k \in 1 .. n - 1 : front[k] = s[k]
    <2>1. 1 \in 1 .. Len(s) + 1 /\ n - 1 \in 1 - 1 .. Len(s)
      BY <1>1
    <2>2. front \in Seq(X) /\ Len(front) = n - 1 - 1 + 1 /\ \A k \in 1 .. n - 1 - 1 + 1 : front[k] = s[1 + k - 1]
      BY <2>1, CutIs
    <2>3. n - 1 - 1 + 1 = n - 1 /\ \A k \in 1 .. n - 1 : 1 + k - 1 = k
      BY <1>1
    <2> QED
      BY <2>2, <2>3
  <1> HIDE DEF front, n
  <1> DEFINE r == Append(front, s[n])
  <1>4. /\ r \in Seq(X) /\ Len(r) = Len(front) + 1 /\ r[Len(front) + 1] = s[n] /\ \A k \in 1 .. Len(front) : r[k] = front[k]
    BY <1>2, <1>3, Extend
  <1> HIDE DEF r
  <1>5. Len(r) = n /\ r[n] = s[n]
    BY <1>1, <1>3, <1>4
  <1>6. \A k \in 1 .. n : r[k] = s[k]
    <2> SUFFICES ASSUME NEW k \in 1 .. n
                 PROVE  r[k] = s[k]
      OBVIOUS
    <2>1. CASE k = n
      BY <1>5, <2>1
    <2>2. CASE k # n
      <3>1. k \in 1 .. n - 1 /\ Len(front) = n - 1
        BY <1>1, <1>3, <2>2
      <3> QED
        BY <1>3, <1>4, <3>1
    <2> QED
      BY <2>1, <2>2
  <1>7. s = r
    BY <1>4, <1>5, <1>6, SeqEqual DEF n
  <1> QED
    BY <1>2, <1>3, <1>7 DEF r

Continues(r, a, X) == \E rest \in Seq(X) : r = a \o rest

\* What has been taken is the beginning of what is taken in the end.
LEMMA AmongBegins ==
    ASSUME NEW X, NEW s \in Seq(X), NEW S, NEW g, AmongAlong(g, X, s, S)
    PROVE  \A k \in 0 .. Len(s) : Continues(Among(s, S), g[k], X)
  <1> DEFINE n == Len(s)
             Onto(a) == \E rest \in Seq(X) : Among(s, S) = a \o rest
             T == {j \in 0 .. n : Onto(g[n - j])}
  <1>1. n \in Nat /\ \A k \in 1 .. n : s[k] \in X
    BY ElementsOf
  <1>2. /\ g \in [0 .. n -> Seq(X)] /\ Among(s, S) = g[n]
        /\ \A k \in 1 .. n : g[k] = TakenWith(g[k - 1], s[k], S)
    BY DEF AmongAlong
  <1> HIDE DEF n
  <1>3. 0 \in T
    <2>1. n - 0 = n /\ n \in 0 .. n /\ 0 \in 0 .. n
      BY <1>1
    <2>2. g[n] \o <<>> = g[n] /\ <<>> \in Seq(X)
      BY <1>2, <2>1, ConcatEmptySeq
    <2>3. Onto(g[n])
      BY <1>2, <2>2
    <2> QED
      BY <2>1, <2>3
  <1>4. ASSUME NEW j \in 1 .. n, j - 1 \in T
        PROVE  j \in T
    <2>1. /\ n - (j - 1) \in 1 .. n /\ n - j \in 0 .. n /\ (n - (j - 1)) - 1 = n - j /\ j \in 0 .. n
      BY <1>1
    <2> DEFINE a == g[n - j]
               x == s[n - (j - 1)]
    <2>2. a \in Seq(X) /\ x \in X /\ g[n - (j - 1)] = TakenWith(a, x, S)
      BY <1>1, <1>2, <2>1
    <2>3. PICK rest \in Seq(X) : Among(s, S) = g[n - (j - 1)] \o rest
      BY <1>4
    <2> HIDE DEF a, x
    <2>4. Onto(a)
      <3>1. CASE x \notin S
        BY <2>2, <2>3, <3>1 DEF TakenWith
      <3>2. CASE x \in S
        <4>1. Append(a, x) = a \o <<x>> /\ <<x>> \in Seq(X)
          BY <2>2, AppendBehind, FewOf
        <4>2. (a \o <<x>>) \o rest = a \o (<<x>> \o rest)
          BY <2>2, <4>1, ConcatAssociative
        <4>3. <<x>> \o rest \in Seq(X)
          BY <4>1, PutTogether
        <4>4. Among(s, S) = a \o (<<x>> \o rest)
          BY <2>2, <2>3, <3>2, <4>1, <4>2 DEF TakenWith
        <4> QED
          BY <4>3, <4>4
      <3> QED
        BY <3>1, <3>2
    <2> QED
      BY <2>1, <2>4 DEF a
  <1> HIDE DEF T
  <1>5. \A j \in 0 .. n : j \in T
    BY <1>1, <1>3, <1>4, Climb
  <1>6. ASSUME NEW k \in 0 .. n
        PROVE  Onto(g[k])
    <2>1. n - k \in 0 .. n /\ n - (n - k) = k
      BY <1>1
    <2> QED
      BY <1>5, <2>1 DEF T
  <1> QED
    BY <1>6 DEF n, Continues

\* A set that a function on 1 .. n runs through, no element twice, has n elements.
LEMMA CountNames ==
    ASSUME NEW n \in Nat, NEW S, NEW f \in [1 .. n -> S],
           \A i, j \in 1 .. n : f[i] = f[j] => i = j, \A y \in S : \E j \in 1 .. n : f[j] = y
    PROVE  Cardinality(S) = n
  <1>1. f \in Bijection(1 .. n, S)
    BY DEF Bijection, Injection, Surjection, IsInjective
  <1>2. ExistsBijection(1 .. n, S)
    BY <1>1 DEF ExistsBijection
  <1>3. IsFiniteSet(1 .. n) /\ Cardinality(1 .. n) = n
    <2>1. 1 \in Int /\ n \in Int
      OBVIOUS
    <2>2. IsFiniteSet(1 .. n) /\ Cardinality(1 .. n) = IF 1 > n THEN 0 ELSE n - 1 + 1
      BY <2>1, FS_Interval
    <2> QED
      BY <2>2
  <1> QED
    BY <1>2, <1>3, FS_Bijection

================================================================================

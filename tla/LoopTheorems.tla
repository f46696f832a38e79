---------------------------- MODULE LoopTheorems ----------------------------
(***************************************************************************)
(* What the other proofs share: induction in a form the provers can use    *)
(* (the least-number principle, and what it says of loops, where a loop is *)
(* a function from the number of rounds done to the state it has reached), *)
(* and remainders.                                                         *)
(***************************************************************************)
EXTENDS FiniteSetsExt, WellFoundedInduction, TLAPS

\* A set of natural numbers has a least element.
LEMMA LeastNumber ==
    ASSUME NEW S \in SUBSET Nat, S # {}
    PROVE  \E x \in S : \A y \in S : x <= y
  <1>1. PICK x \in S : \A y \in S : ~(<<y, x>> \in OpToRel(<, Nat))
    BY WFMin, NatLessThanWellFounded, Zenon
  <1>2. \A y \in S : ~(y < x)
    BY <1>1 DEF OpToRel
  <1> QED
    BY <1>2

\* Min of a set of natural numbers is its least element.
LEMMA MinIsLeast ==
    ASSUME NEW S \in SUBSET Nat, S # {}
    PROVE  Min(S) \in S /\ \A y \in S : Min(S) <= y
  BY LeastNumber DEF Min

\* A bounded set of natural numbers has a greatest one, which is its Max.
LEMMA MaxIsGreatest ==
    ASSUME NEW S \in SUBSET Nat, S # {}, NEW bound \in Nat, \A x \in S : x <= bound
    PROVE  Max(S) \in S /\ \A x \in S : x <= Max(S)
  <1> DEFINE above == {u \in Nat : \A x \in S : x <= u}
  <1>1. PICK u \in above : \A v \in above : u <= v
    <2>1. above \in SUBSET Nat /\ bound \in above
      OBVIOUS
    <2> HIDE DEF above
    <2> QED
      BY <2>1, LeastNumber
  <1>2. u \in S
    <2> SUFFICES ASSUME u \notin S PROVE FALSE
      OBVIOUS
    <2>1. PICK z \in S : TRUE
      OBVIOUS
    <2>2. \A x \in S : x <= u - 1
      BY <1>1
    <2>3. u - 1 \in above
      BY <1>1, <2>1, <2>2
    <2> QED
      BY <1>1, <2>3
  <1>3. \E x \in S : \A y \in S : y <= x
    BY <1>1, <1>2
  <1> QED
    BY <1>3 DEF Max

\* A property that each round of a loop keeps holds after the last round.
LEMMA LoopKeeps ==
    ASSUME NEW k \in Nat, NEW S, NEW f, f[0] \in S,
           \A i \in 1 .. k : f[i - 1] \in S => f[i] \in S
    PROVE  f[k] \in S
  <1> DEFINE bad == {i \in 0 .. k : f[i] \notin S}
  <1> SUFFICES ASSUME bad # {} PROVE FALSE
    OBVIOUS
  <1>1. PICK i \in bad : \A j \in bad : i <= j
    <2>1. bad \in SUBSET Nat
      OBVIOUS
    <2> HIDE DEF bad
    <2> QED
      BY <2>1, LeastNumber
  <1>2. i \in 1 .. k /\ i - 1 \in 0 .. k
    BY <1>1
  <1>3. i - 1 \notin bad
    BY <1>1, <1>2
  <1> QED
    BY <1>1, <1>2, <1>3

\* The bodies of k rounds, as functions on S.
Rounds(k, S) == [1 .. k -> [S -> S]]

\* What the loop that starts at a and has these bodies has reached, round by round.
IsRun(f, k, S, a, step) ==
    f \in [0 .. k -> S] /\ f[0] = a /\ \A i \in 1 .. k : f[i] = step[i][f[i - 1]]

\* A loop that stays in a set has a result after every number of rounds.
LEMMA LoopExists ==
    ASSUME NEW k \in Nat, NEW S, NEW a \in S, NEW step \in Rounds(k, S)
    PROVE  \E f : IsRun(f, k, S, a, step)
  <1> DEFINE Runs(j, f) == f[0] = a /\ \A i \in 1 .. j : f[i] = step[i][f[i - 1]]
             Has(j) == \E f \in [0 .. j -> S] : Runs(j, f)
             bad == {j \in 0 .. k : ~Has(j)}
  <1>0. Has(k) => \E f : IsRun(f, k, S, a, step)
    BY DEF IsRun
  <1> SUFFICES ASSUME bad # {} PROVE FALSE
    <2>1. bad = {} => Has(k)
      <3> HIDE DEF Has
      <3> QED
        OBVIOUS
    <2> HIDE DEF bad, Has
    <2> QED
      BY <1>0, <2>1
  <1>1. PICK j \in bad : \A i \in bad : j <= i
    <2>1. bad \in SUBSET Nat
      OBVIOUS
    <2> HIDE DEF bad
    <2> QED
      BY <2>1, LeastNumber
  <1>2. CASE j = 0
    <2>1. [i \in 0 .. 0 |-> a] \in [0 .. 0 -> S] /\ Runs(0, [i \in 0 .. 0 |-> a])
      OBVIOUS
    <2> QED
      BY <1>1, <1>2, <2>1
  <1>3. CASE j > 0
    <2>1. j \in 1 .. k /\ j - 1 \in 0 .. k /\ j - 1 \in Nat
      <3> HIDE DEF Has
      <3> QED
        BY <1>1, <1>3
    <2>2. Has(j - 1)
      <3> HIDE DEF Has
      <3> QED
        BY <1>1, <2>1
    <2>3. PICK g \in [0 .. j - 1 -> S] : Runs(j - 1, g)
      BY <2>2
    <2> DEFINE f == [i \in 0 .. j |-> IF i = j THEN step[j][g[j - 1]] ELSE g[i]]
    <2>4. f \in [0 .. j -> S]
      <3>1. step[j][g[j - 1]] \in S
        BY <2>1, <2>3 DEF Rounds
      <3>2. \A i \in 0 .. j : i # j => g[i] \in S
        BY <2>1, <2>3
      <3> QED
        BY <3>1, <3>2
    <2>5. f[0] = a
      BY <2>1, <2>3
    <2>6. ASSUME NEW i \in 1 .. j PROVE f[i] = step[i][f[i - 1]]
      <3>1. f[i - 1] = g[i - 1]
        BY <2>1
      <3>2. CASE i = j
        BY <2>1, <3>1, <3>2
      <3>3. CASE i # j
        <4>1. i \in 1 .. j - 1
          BY <2>1, <3>3
        <4>2. g[i] = step[i][g[i - 1]]
          BY <2>3, <4>1
        <4> QED
          BY <3>1, <3>3, <4>2
      <3> QED
        BY <3>2, <3>3
    <2> HIDE DEF f
    <2>7. Runs(j, f)
      BY <2>5, <2>6
    <2> QED
      BY <1>1, <2>4, <2>7
  <1> QED
    BY <1>1, <1>2, <1>3

-----------------------------------------------------------------------------
(* Remainders                                                              *)

\* A number below the modulus is its own remainder.
LEMMA ModSmall == ASSUME NEW m \in Nat \ {0}, NEW x \in Int, 0 <= x, x < m PROVE x % m = x
  OBVIOUS

\* One wrap upwards.
LEMMA ModAbove ==
    ASSUME NEW m \in Nat \ {0}, NEW x \in Int, m <= x, x < 2 * m PROVE x % m = x - m
  OBVIOUS

\* Division with remainder.
LEMMA DivMod ==
    ASSUME NEW m \in Nat \ {0}, NEW x \in Int
    PROVE  \E q \in Int, r \in 0 .. m - 1 : q = x \div m /\ r = x % m /\ x = m * q + r
  OBVIOUS
=============================================================================

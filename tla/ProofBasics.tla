---------------------------- MODULE ProofBasics ----------------------------
(***************************************************************************)
(* What the proofs of several components rest on: induction over the       *)
(* natural numbers, stated for a set of them so that it can be cited for   *)
(* any property, and the ends of a sequence.                               *)
(***************************************************************************)
EXTENDS Integers, Sequences, FiniteSetTheorems, SequenceTheorems, TLAPS

-----------------------------------------------------------------------------
(* Natural numbers.                                                        *)

\* A nonempty set of natural numbers has a least element.
LEMMA Least ==
  ASSUME NEW S \in SUBSET Nat, S # {}
  PROVE  \E least \in S : \A other \in S : least <= other
  <1>. DEFINE Upto == {0..n : n \in S}
  <1>1. Upto \subseteq FiniteSubsetsOf(Nat) /\ Upto # {}
    <2>1. \A n \in S : 0..n \in FiniteSubsetsOf(Nat)
      BY FS_Interval DEF FiniteSubsetsOf
    <2>. QED BY <2>1
  <1>2. IsWellFoundedOn(StrictSubsetOrdering(Nat), FiniteSubsetsOf(Nat))
    BY FS_StrictSubsetOrderingWellFounded
  <1>3. PICK x \in Upto : \A y \in Upto : <<y, x>> \notin StrictSubsetOrdering(Nat)
    <2>. HIDE DEF Upto
    <2>. QED BY <1>1, <1>2, WFMin
  <1>4. PICK least \in S : x = 0..least
    BY <1>3
  <1>5. ASSUME NEW other \in S, other < least
        PROVE  FALSE
    <2>1. 0..other \in SUBSET Nat /\ 0..least \in SUBSET Nat
      OBVIOUS
    <2>2. 0..other \subseteq 0..least /\ least \in 0..least /\ least \notin 0..other
      BY <1>5
    <2>3. <<0..other, 0..least>> \in StrictSubsetOrdering(Nat)
      BY <2>1, <2>2 DEF StrictSubsetOrdering
    <2>. QED BY <1>3, <1>4, <2>3
  <1>. QED BY <1>5

\* A set with 0, and with the successor of each of its numbers, has them all.
LEMMA Induction ==
  ASSUME NEW S \in SUBSET Nat, 0 \in S, \A n \in S : n + 1 \in S
  PROVE  S = Nat
  <1>1. SUFFICES ASSUME Nat \ S # {} PROVE FALSE
    OBVIOUS
  <1>2. PICK n \in Nat \ S : \A m \in Nat \ S : n <= m
    BY <1>1, Least
  <1>3. n # 0 /\ n - 1 \in Nat
    BY <1>2
  <1>4. n - 1 \in S
    BY <1>2, <1>3
  <1>. QED BY <1>2, <1>4

\* The same for the numbers up to n.
LEMMA InductionUpTo ==
  ASSUME NEW n \in Nat, NEW S \in SUBSET Nat, 0 \in S,
         \A k \in S : k < n => k + 1 \in S
  PROVE  0..n \subseteq S
  <1>. DEFINE reached == {k \in Nat : k <= n => k \in S}
  <1>1. 0 \in reached
    OBVIOUS
  <1>2. ASSUME NEW k \in reached
        PROVE  k + 1 \in reached
    <2>1. ASSUME k + 1 <= n
          PROVE  k + 1 \in S
      <3>1. k \in Nat /\ k <= n /\ k < n
        BY <2>1
      <3>. QED BY <3>1
    <2>. QED BY <2>1
  <1>3. reached = Nat
    <2>1. reached \in SUBSET Nat
      OBVIOUS
    <2>. HIDE DEF reached
    <2>. QED BY <1>1, <1>2, <2>1, Induction
  <1>. QED BY <1>3

\* What a recursion over 1..n does at each number with the value before it.
Steps(n, T) == [1..n -> [T -> T]]

\* A function defined by recursion on its argument exists, and has the values
\* it is meant to have.
LEMMA Recursion ==
  ASSUME NEW T, NEW n \in Nat, NEW base \in T, NEW step \in Steps(n, T)
  PROVE  \E f \in [0..n -> T] :
            /\ f[0] = base
            /\ \A k \in 1..n : f[k] = step[k][f[k - 1]]
  <1>. DEFINE Upto(f, m) == f = [k \in 0..m |-> IF k = 0 THEN base ELSE step[k][f[k - 1]]]
              have == {m \in Nat : \E f \in [0..m -> T] : Upto(f, m)}
  <1>1. 0 \in have
    <2>1. [k \in 0..0 |-> base] \in [0..0 -> T] /\ Upto([k \in 0..0 |-> base], 0)
      OBVIOUS
    <2>. QED BY <2>1
  <1>2. ASSUME NEW m \in have, m < n
        PROVE  m + 1 \in have
    <2>1. PICK f \in [0..m -> T] : Upto(f, m)
      OBVIOUS
    <2>2. m \in Nat /\ m + 1 \in 1..n /\ f[m] \in T
      BY <1>2
    <2>3. step[m + 1][f[m]] \in T
      BY <2>2 DEF Steps
    <2>. DEFINE g == [k \in 0..m + 1 |-> IF k = m + 1 THEN step[m + 1][f[m]] ELSE f[k]]
    <2>4. g \in [0..m + 1 -> T]
      BY <2>2, <2>3
    <2>5. ASSUME NEW k \in 0..m + 1
          PROVE  g[k] = IF k = 0 THEN base ELSE step[k][g[k - 1]]
      <3>1. CASE k = m + 1
        <4>1. k # 0 /\ k - 1 = m /\ m \in 0..m + 1 /\ m # m + 1
          BY <2>2, <3>1
        <4>2. g[k - 1] = f[m] /\ g[k] = step[m + 1][f[m]]
          BY <3>1, <4>1
        <4>. QED BY <3>1, <4>1, <4>2
      <3>2. CASE k # m + 1
        <4>1. k \in 0..m /\ (k # 0 => k - 1 \in 0..m /\ k - 1 # m + 1 /\ k - 1 \in 0..m + 1)
          BY <2>2, <3>2
        <4>2. f[k] = IF k = 0 THEN base ELSE step[k][f[k - 1]]
          BY <2>1, <4>1
        <4>3. g[k] = f[k] /\ (k # 0 => g[k - 1] = f[k - 1])
          BY <3>2, <4>1
        <4>. QED BY <4>2, <4>3
      <3>. QED BY <3>1, <3>2
    <2>6. Upto(g, m + 1)
      BY <2>5
    <2>. HIDE DEF g, Upto
    <2>. QED BY <2>2, <2>4, <2>6
  <1>3. 0..n \subseteq have
    <2>1. have \in SUBSET Nat
      OBVIOUS
    <2>. HIDE DEF have
    <2>. QED BY <1>1, <1>2, <2>1, InductionUpTo
  <1>4. PICK f \in [0..n -> T] : Upto(f, n)
    BY <1>3
  <1>5. f[0] = base /\ \A k \in 1..n : f[k] = step[k][f[k - 1]]
    BY <1>4
  <1>. QED BY <1>5

-----------------------------------------------------------------------------
(* Sequences.                                                              *)

\* What a message is posted behind.
LEMMA Appended ==
  ASSUME NEW S, NEW s \in Seq(S), NEW e \in S
  PROVE  /\ Append(s, e) \in Seq(S)
         /\ Len(Append(s, e)) = Len(s) + 1
         /\ DOMAIN Append(s, e) = 1..Len(s) + 1
         /\ \A k \in DOMAIN s : Append(s, e)[k] = s[k]
         /\ Append(s, e)[Len(s) + 1] = e
  BY AppendProperties

\* What is left when the first message is taken.
LEMMA HeadRemoved ==
  ASSUME NEW S, NEW s \in Seq(S), s # <<>>
  PROVE  /\ Tail(s) \in Seq(S)
         /\ Len(Tail(s)) = Len(s) - 1
         /\ DOMAIN Tail(s) = 1..Len(s) - 1
         /\ \A k \in DOMAIN Tail(s) : k + 1 \in DOMAIN s /\ Tail(s)[k] = s[k + 1]
         /\ Head(s) = s[1] /\ 1 \in DOMAIN s /\ Len(s) \in Nat \ {0}
  BY HeadTailProperties

=============================================================================

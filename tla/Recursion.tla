----------------------------- MODULE Recursion -----------------------------
(***************************************************************************)
(* Induction over the natural numbers, and functions defined by recursion  *)
(* over an interval 0 .. n, stated of sets and functions.                  *)
(***************************************************************************)
EXTENDS WellFoundedInduction, TLAPS

\* A set that holds 0 and with each number the next one holds all numbers.
LEMMA SetInduction ==
  ASSUME NEW P, 0 \in P, \A n \in Nat : n \in P => n + 1 \in P
  PROVE  Nat \subseteq P
  <1> DEFINE T == Nat \ P
             R == OpToRel(<, Nat)
  <1> SUFFICES ASSUME T # {} PROVE FALSE
    OBVIOUS
  <1>1. IsWellFoundedOn(R, Nat) /\ T \subseteq Nat
    BY NatLessThanWellFounded
  <1>2. PICK x \in T : \A y \in T : <<y, x>> \notin R
    <2> HIDE DEF R
    <2> QED
      BY <1>1, WFMin
  <1>3. x \in Nat /\ x \notin P /\ x # 0
    OBVIOUS
  <1>4. x - 1 \in Nat
    BY <1>3
  <1>5. x - 1 \notin T
    <2>1. x - 1 < x
      BY <1>3
    <2>2. <<x - 1, x>> \in R
      BY <1>3, <1>4, <2>1 DEF OpToRel
    <2> QED
      BY <1>2, <2>2
  <1>6. (x - 1) + 1 \in P
    BY <1>4, <1>5
  <1> QED
    BY <1>3, <1>6

\* The same up to a bound.
LEMMA IntervalInduction ==
  ASSUME NEW n \in Nat, NEW P, 0 \in P,
         \A j \in 1 .. n : j - 1 \in P => j \in P
  PROVE  0 .. n \subseteq P
  <1> DEFINE Q == P \cup {j \in Nat : j > n}
  <1>1. \A j \in Nat : j \in Q => j + 1 \in Q
    <2> SUFFICES ASSUME NEW j \in Nat, j \in Q PROVE j + 1 \in Q
      OBVIOUS
    <2>1. CASE j > n
      BY <2>1
    <2>2. CASE j = n
      BY <2>2
    <2>3. CASE j < n
      <3>1. j + 1 \in 1 .. n /\ (j + 1) - 1 = j /\ j \in P
        BY <2>3
      <3> QED
        BY <3>1
    <2> QED
      BY <2>1, <2>2, <2>3
  <1>2. 0 \in Q
    OBVIOUS
  <1>3. Nat \subseteq Q
    <2> HIDE DEF Q
    <2> QED
      BY <1>1, <1>2, SetInduction
  <1> QED
    BY <1>3

\* The functions that take the value at j - 1 to the value at j, and the
\* function on 0 .. n that begins with c and goes on so.  (The provers use the
\* lemma as long as these are not expanded.)
Steps(n, S) == [1 .. n -> [S -> S]]
Iterates(f, n, S, c, step) ==
  f \in [0 .. n -> S] /\ f[0] = c /\ \A j \in 1 .. n : f[j] = step[j][f[j - 1]]

LEMMA Recursive ==
  ASSUME NEW n \in Nat, NEW S, NEW c \in S, NEW step \in Steps(n, S)
  PROVE  \E f : Iterates(f, n, S, c, step)
  <1> DEFINE Good(k, f) == f[0] = c /\ \A j \in 1 .. k : f[j] = step[j][f[j - 1]]
             P == {k \in Nat : k <= n => \E f \in [0 .. k -> S] : Good(k, f)}
  <1> step \in [1 .. n -> [S -> S]]
    BY DEF Steps
  <1>1. 0 \in P
    <2>1. [j \in 0 .. 0 |-> c] \in [0 .. 0 -> S]
      OBVIOUS
    <2>2. Good(0, [j \in 0 .. 0 |-> c])
      OBVIOUS
    <2> QED
      BY <2>1, <2>2
  <1>2. \A k \in Nat : k \in P => k + 1 \in P
    <2> SUFFICES ASSUME NEW k \in Nat, k \in P, k + 1 <= n
                 PROVE  \E f \in [0 .. k + 1 -> S] : Good(k + 1, f)
      <3> HIDE DEF Good
      <3> QED
        OBVIOUS
    <2>1. PICK f \in [0 .. k -> S] : Good(k, f)
      OBVIOUS
    <2>2. step[k + 1] \in [S -> S] /\ f[k] \in S
      OBVIOUS
    <2> DEFINE g == [j \in 0 .. k + 1 |-> IF j <= k THEN f[j]
                                          ELSE step[k + 1][f[k]]]
    <2>3. g \in [0 .. k + 1 -> S]
      BY <2>2
    <2>4. g[0] = c
      BY <2>1
    <2>5. ASSUME NEW j \in 1 .. k + 1 PROVE g[j] = step[j][g[j - 1]]
      <3>1. CASE j <= k
        BY <2>1, <3>1
      <3>2. CASE j = k + 1
        BY <3>2
      <3> QED
        BY <3>1, <3>2
    <2> QED
      BY <2>3, <2>4, <2>5
  <1>3. Nat \subseteq P
    <2> HIDE DEF P
    <2> QED
      BY <1>1, <1>2, SetInduction
  <1>4. PICK f \in [0 .. n -> S] : Good(n, f)
    BY <1>3
  <1> QED
    BY <1>4 DEF Iterates
=============================================================================

------------------------------ MODULE Extremes ------------------------------
(* Row ids and numbers are handed out above the largest in use, which is   *)
(* there only if the set is bounded; fallbacks are the smallest there is.  *)
EXTENDS Naturals, FiniteSetsExt, WellFoundedInduction, TLAPS

Bounded(S) == \E k \in Nat : \A n \in S : n <= k

(* Every set of natural numbers has a smallest element.                    *)
LEMMA Smallest ==
    ASSUME NEW T \in SUBSET Nat, T # {}
    PROVE  \E x \in T : \A y \in T : x <= y
  <1> DEFINE R == OpToRel(<, Nat)
  <1>1. IsWellFoundedOn(R, Nat)
    BY NatLessThanWellFounded
  <1>2. \A a, b \in Nat : a < b => <<a, b>> \in R
    BY DEF OpToRel
  <1> HIDE DEF R
  <1>3. PICK x \in T : \A y \in T : ~ (<<y, x>> \in R)
    BY <1>1, WFMin
  <1>4. ASSUME NEW y \in T PROVE x <= y
    <2>1. ~ (y < x)
      BY <1>2, <1>3
    <2> QED
      BY <2>1
  <1> QED
    BY <1>4

(* A bounded set of natural numbers has a largest one: its smallest bound. *)
LEMMA Largest ==
    ASSUME NEW S \in SUBSET Nat, S # {}, Bounded(S)
    PROVE  \E n \in S : \A m \in S : m <= n
  <1> DEFINE T == {k \in Nat : \A m \in S : m <= k}
  <1>1. PICK x \in T : \A y \in T : x <= y
    BY Smallest DEF Bounded
  <1>2. ASSUME x \notin S PROVE FALSE
    <2>1. PICK s \in S : s <= x
      OBVIOUS
    <2>2. x # 0 /\ \A m \in S : m <= x - 1
      BY <1>2, <2>1
    <2>3. x - 1 \in T
      BY <2>2
    <2> QED
      BY <1>1, <2>3
  <1> QED
    BY <1>2

(* Min picks a member, of any naturals there are.                          *)
LEMMA LeastOf == ASSUME NEW S \in SUBSET Nat, S # {} PROVE Min(S) \in S
  <1>1. \E x \in S : \A y \in S : x <= y
    BY Smallest
  <1> QED
    BY <1>1 DEF Min

(* Max picks one that no member exceeds, if they are bounded.              *)
LEMMA GreatestOf ==
    ASSUME NEW n \in Nat, NEW S \in SUBSET (0 .. n), S # {}
    PROVE  Max(S) \in S /\ \A x \in S : x <= Max(S)
  <1>1. S \in SUBSET Nat /\ Bounded(S)
    BY DEF Bounded
  <1>2. \E x \in S : \A y \in S : y <= x
    BY <1>1, Largest, Zenon
  <1>3. \E x \in S : \A y \in S : x >= y
    BY <1>1, <1>2
  <1> QED
    BY <1>1, <1>3 DEF Max

(* So a row id can be handed out above those in use.                       *)
LEMMA NextOf == ASSUME NEW n \in Nat, NEW S \in SUBSET (1 .. n) PROVE Max(S \cup {0}) \in 0 .. n
  <1>1. S \cup {0} \in SUBSET (0 .. n)
    OBVIOUS
  <1>2. Max(S \cup {0}) \in S \cup {0}
    BY <1>1, GreatestOf, Zenon
  <1> QED
    BY <1>1, <1>2

(* What holds at 0 and carries over to the next number holds of them all.  *)
LEMMA UpTo ==
    ASSUME NEW n \in Nat, NEW S, 0 \in S, \A k \in 1 .. n : k - 1 \in S => k \in S
    PROVE  \A k \in 0 .. n : k \in S
  <1> DEFINE Bad == {k \in 0 .. n : k \notin S}
  <1> SUFFICES ASSUME Bad # {} PROVE FALSE
    OBVIOUS
  <1>1. Bad \in SUBSET Nat
    OBVIOUS
  <1>2. PICK k \in Bad : \A m \in Bad : k <= m
    BY <1>1, Smallest
  <1>3. k # 0 /\ k \in 1 .. n /\ k - 1 \in 0 .. n /\ k - 1 < k
    OBVIOUS
  <1> QED
    BY <1>2, <1>3

(* The largest of the first n indices is n.                                *)
LEMMA LastIsMax == ASSUME NEW n \in Nat, NEW s \in SUBSET (1 .. n), n \in s PROVE Max(s) = n
  <1>1. s \in SUBSET (0 .. n) /\ s # {}
    OBVIOUS
  <1>2. Max(s) \in s /\ \A x \in s : x <= Max(s)
    BY <1>1, GreatestOf, Zenon
  <1>3. PICK m : m = Max(s)
    OBVIOUS
  <1>4. m \in 1 .. n /\ n <= m
    BY <1>2, <1>3
  <1> QED
    BY <1>3, <1>4
=============================================================================

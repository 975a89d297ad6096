----------------------------- MODULE ByteLemmas ----------------------------
(***************************************************************************)
(* Arithmetic that several proofs need.  In a bitset of n bytes of w bits, *)
(* bit j of byte k is bit k * w + j (generic/dynamic_bitset.hpp).          *)
(***************************************************************************)
EXTENDS Integers, WellFoundedInduction, TLAPS

\* Bit j of byte k of n bytes is a bit of the bitset.
LEMMA BitOfByte ==
  ASSUME NEW n \in Nat, NEW w \in Nat \ {0}, NEW k \in 0..(n - 1), NEW j \in 0..(w - 1)
  PROVE  k * w + j \in 0..(n * w - 1)
<1>1. k * w \in Nat /\ n * w \in Nat
  OBVIOUS
<1>2. n * w = k * w + (n - k) * w
  OBVIOUS
<1>3. n - k \in Nat \ {0}
  OBVIOUS
<1>4. (n - k) * w >= w
  <2> DEFINE d == n - k - 1
  <2>1. d \in Nat /\ (n - k) * w = d * w + w
    BY <1>3
  <2>2. d * w \in Nat
    BY <2>1
  <2>3. QED
    BY <2>1, <2>2
<1>5. QED
  BY <1>1, <1>2, <1>4

\* The byte of a bit is a byte of the bitset: bit_set writes inside it.
LEMMA ByteOfBit ==
  ASSUME NEW n \in Nat, NEW w \in Nat \ {0}, NEW bit \in 0..(n * w - 1)
  PROVE  bit \div w \in 0..(n - 1) /\ bit % w \in 0..(w - 1)
<1> DEFINE q == bit \div w
<1>1. bit = w * q + (bit % w) /\ q \in Nat /\ bit % w \in 0..(w - 1)
  OBVIOUS
<1>2. ASSUME q >= n PROVE FALSE
  <2> HIDE DEF q
  <2>1. w * q = w * n + w * (q - n) /\ w * (q - n) \in Nat
    BY <1>1, <1>2
  <2>2. w * n = n * w /\ n * w \in Nat
    OBVIOUS
  <2>3. QED
    BY <1>1, <2>1, <2>2
<1> HIDE DEF q
<1>3. q \in 0..(n - 1)
  BY <1>1, <1>2
<1>4. QED
  BY <1>1, <1>3 DEF q

\* A set of numbers up to n has a greatest one.
LEMMA Greatest ==
  ASSUME NEW n \in Nat, NEW S \in SUBSET (1..n), S # {}
  PROVE  \E k \in S : \A j \in S : j <= k
<1> DEFINE T == {n - k : k \in S}
<1>1. T \subseteq Nat /\ T # {}
  <2>1. \A k \in S : k \in 1..n /\ n - k \in Nat
    OBVIOUS
  <2>2. QED
    BY <2>1
<1>2. PICK x \in T : \A y \in T : ~ (<<y, x>> \in OpToRel(<, Nat))
  BY <1>1, WFMin, NatLessThanWellFounded
<1>3. \A y \in T : ~ (y < x)
  BY <1>1, <1>2 DEF OpToRel
<1>4. PICK k \in S : x = n - k
  OBVIOUS
<1>5. ASSUME NEW j \in S PROVE j <= k
  <2>1. n - j \in T
    OBVIOUS
  <2>2. ~ (n - j < n - k)
    BY <1>3, <1>4, <2>1
  <2>3. QED
    BY <2>2
<1>6. QED
  BY <1>5
=============================================================================

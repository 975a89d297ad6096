--------------------------- MODULE BitsetProofs ----------------------------
(***************************************************************************)
(* Proofs that the search of DynamicBitset answers soundly, and misses     *)
(* nothing of a peer that has all we have, for bitfields of every two      *)
(* sizes and bytes of every width.                                         *)
(***************************************************************************)
EXTENDS DynamicBitset, ByteLemmas

USE BitsetAssumption DEF BitsetAssumption

-----------------------------------------------------------------------------
(* The inductive invariant.                                                *)

\* While the search runs it has no answer yet, and the byte it tests bit by bit
\* lies in both bitsets.
Searching ==
  /\ pc = "bits" => mismatched_byte_position \in 0..(bitfield_size - 1)
  /\ pc \in {"scan", "bits"} => found = NotFound

BitsetInv == TypeOK /\ Searching /\ FoundIsComplement

\* The byte of the shared bitfield bit_set has read and changed.
Registers == [at : 0..(ThisBytes - 1), bits : SUBSET (0..(Width - 1))]

\* The search stays in the shorter of the two bitsets.
LEMMA SizeBounds == /\ bitfield_size \in Nat
                    /\ bitfield_size <= ThisBytes /\ bitfield_size <= FriendBytes
BY DEF bitfield_size

\* Before the first call nothing is found.
LEMMA BitsetInvInit == Init => BitsetInv
<1> SUFFICES ASSUME Init PROVE BitsetInv
  OBVIOUS
<1>1. /\ this \in SUBSET ThisBits /\ marked \in SUBSET FriendBits
      /\ friend \in SUBSET FriendBits
  BY DEF Init
<1>2. i \in Nat /\ skips \in Nat /\ mismatched_byte_position \in -1..(bitfield_size - 1)
  BY SizeBounds DEF Init
<1>3. /\ pc \in {"idle", "scan", "bits", "done"} /\ found \in Nat \cup {NotFound}
      /\ register \in Registers \cup {NotFound}
  BY DEF Init
<1>4. disturbed \in BOOLEAN
  BY Zenon DEF Init
<1>5. Searching /\ FoundIsComplement
  BY DEF Init, Searching, FoundIsComplement
<1>6. QED
  BY <1>1, <1>2, <1>3, <1>4, <1>5, Zenon DEF BitsetInv, TypeOK, Registers

\* The call and the scan: the byte chosen lies in both bitsets.
LEMMA BitsetInvScan ==
  ASSUME BitsetInv, Call \/ Scan \/ ScanEnds \/ BitsEnd
  PROVE  BitsetInv'
<1> USE DEF BitsetInv, TypeOK, locals, history
<1>1. CASE Call
  <2>1. skips' \in Nat
    BY <1>1, SizeBounds DEF Call
  <2>2. i' \in Nat /\ mismatched_byte_position' \in -1..(bitfield_size - 1)
    BY <1>1, SizeBounds DEF Call, FirstByte
  <2>3. disturbed' \in BOOLEAN
    BY <1>1, Zenon DEF Call
  <2>4. /\ this' \in SUBSET ThisBits /\ friend' \in SUBSET FriendBits
        /\ pc' \in {"idle", "scan", "bits", "done"}
        /\ found' \in Nat \cup {NotFound}
        /\ marked' \in SUBSET FriendBits
    BY <1>1 DEF Call
  <2>5. register' = register
    BY <1>1 DEF Call
  <2>6. TypeOK'
    BY <2>1, <2>2, <2>3, <2>4, <2>5, Zenon
  <2>7. (Searching /\ FoundIsComplement)'
    BY <1>1 DEF Call, Searching, FoundIsComplement
  <2>8. QED
    BY <2>6, <2>7
<1>2. CASE Scan
  <2>1. i' \in Nat /\ skips' \in Nat /\ pc' \in {"scan", "bits"}
    BY <1>2 DEF Scan
  <2>2. /\ mismatched_byte_position' \in -1..(bitfield_size - 1)
        /\ pc' = "bits" => mismatched_byte_position' \in 0..(bitfield_size - 1)
    BY <1>2, SizeBounds DEF Scan
  <2>3. TypeOK'
    BY <1>2, <2>1, <2>2 DEF Scan
  <2>4. (Searching /\ FoundIsComplement)'
    BY <1>2, <2>1, <2>2 DEF Scan, Searching, FoundIsComplement
  <2>5. QED
    BY <2>3, <2>4
<1>3. CASE ScanEnds
  <2>1. TypeOK'
    BY <1>3 DEF ScanEnds
  <2>2. (Searching /\ FoundIsComplement)'
    BY <1>3, SizeBounds DEF ScanEnds, Searching, FoundIsComplement
  <2>3. QED
    BY <2>1, <2>2
<1>4. CASE BitsEnd
  BY <1>4 DEF BitsEnd, Searching, FoundIsComplement
<1>5. QED
  BY <1>1, <1>2, <1>3, <1>4

\* The test of one bit: what is found is inside both bitsets.
LEMMA BitsetInvTestBit ==
  ASSUME BitsetInv, TestBit
  PROVE  BitsetInv'
<1> DEFINE bit == mismatched_byte_position * Width + i
<1>1. mismatched_byte_position \in 0..(ThisBytes - 1) /\ i \in 0..(Width - 1)
  BY SizeBounds DEF BitsetInv, TypeOK, Searching, TestBit
<1>2. bit \in ThisBits
  BY <1>1, BitOfByte DEF ThisBits
<1>3. bit \in Nat
  BY <1>2 DEF ThisBits
<1>4. /\ UNCHANGED <<this, friend, skips, mismatched_byte_position, register, history>>
      /\ pc = "bits"
      /\ \/ Complement(bit) /\ found' = bit /\ pc' = "done" /\ i' = i
         \/ i' = i + 1 /\ found' = found /\ pc' = pc
  BY DEF TestBit
<1> HIDE DEF bit
<1>5. TypeOK'
  <2>1. i' \in Nat /\ found' \in Nat \cup {NotFound}
    BY <1>1, <1>3, <1>4 DEF BitsetInv, TypeOK
  <2>2. pc' \in {"idle", "scan", "bits", "done"}
    BY <1>4
  <2>3. QED
    BY <1>4, <2>1, <2>2, Zenon DEF BitsetInv, TypeOK, history
<1>6. CASE Complement(bit) /\ found' = bit /\ pc' = "done" /\ i' = i
  BY <1>2, <1>4, <1>5, <1>6
  DEF BitsetInv, Searching, FoundIsComplement, Complement, BitGet, history
<1>7. CASE i' = i + 1 /\ found' = found /\ pc' = pc
  BY <1>4, <1>5, <1>7 DEF BitsetInv, Searching, FoundIsComplement, history
<1>8. QED
  BY <1>4, <1>6, <1>7

\* What other processes do to the shared bitfield, and the peer's announcements.
\* bit_set puts back the whole byte it read: all it sets counts as marked.
LEMMA BitsetInvOthers ==
  ASSUME BitsetInv,
         \/ Memset \/ BitSetWrites
         \/ \E bit \in ThisBits : BitSetReads(bit)
         \/ \E bit \in FriendBits : FriendHas(bit)
  PROVE  BitsetInv'
<1> USE DEF BitsetInv, locals, history
<1>1. CASE Memset
  <2>1. this' \in SUBSET ThisBits
    BY <1>1 DEF Memset
  <2>2. disturbed' \in BOOLEAN
    BY <1>1, Zenon DEF Memset
  <2>3. TypeOK'
    BY <1>1, <2>1, <2>2, Zenon DEF Memset, TypeOK
  <2>4. (Searching /\ FoundIsComplement)'
    BY <1>1 DEF Memset, Searching, FoundIsComplement
  <2>5. QED
    BY <2>3, <2>4
<1>2. CASE BitSetWrites
  <2> DEFINE bits == {register.at * Width + j : j \in register.bits}
  <2>1. register \in Registers
    BY <1>2 DEF BitSetWrites, TypeOK, Registers
  <2>2. register.at \in 0..(ThisBytes - 1) /\ register.bits \in SUBSET (0..(Width - 1))
    BY <2>1 DEF Registers
  <2>3. bits \in SUBSET ThisBits
    BY <2>2, BitOfByte DEF ThisBits
  <2>4. /\ this' = {bit \in this : bit \div Width # register.at} \cup bits
        /\ marked' = marked \cup (bits \cap FriendBits)
        /\ register' = NotFound /\ disturbed' = TRUE
        /\ UNCHANGED <<friend, pc, locals>>
    BY <1>2 DEF BitSetWrites
  <2> HIDE DEF bits
  <2>5. this' \in SUBSET ThisBits /\ marked' \in SUBSET FriendBits
    BY <2>3, <2>4 DEF TypeOK
  <2>6. disturbed' \in BOOLEAN
    BY <2>4, Zenon
  <2>7. TypeOK'
    BY <2>4, <2>5, <2>6, Zenon DEF TypeOK
  <2>8. Searching'
    BY <2>4 DEF Searching
  <2>9. FoundIsComplement'
    BY <2>4 DEF FoundIsComplement, TypeOK
  <2>10. QED
    BY <2>7, <2>8, <2>9
<1>3. ASSUME NEW bit \in ThisBits, BitSetReads(bit) PROVE BitsetInv'
  <2> DEFINE k == bit \div Width
  <2>1. k \in 0..(ThisBytes - 1) /\ bit % Width \in 0..(Width - 1)
    BY ByteOfBit DEF ThisBits
  <2>2. /\ register' = [at |-> k, bits |-> ByteAt(this, k) \cup {bit % Width}]
        /\ UNCHANGED <<this, friend, pc, locals, history>>
    BY <1>3 DEF BitSetReads
  <2> HIDE DEF k
  <2>3. register' \in Registers
    BY <2>1, <2>2 DEF Registers, ByteAt
  <2>4. TypeOK'
    BY <2>2, <2>3, Zenon DEF TypeOK, Registers
  <2>5. (Searching /\ FoundIsComplement)'
    BY <2>2 DEF Searching, FoundIsComplement
  <2>6. QED
    BY <2>4, <2>5
<1>4. ASSUME NEW bit \in FriendBits, FriendHas(bit) PROVE BitsetInv'
  BY <1>4 DEF FriendHas, TypeOK, Searching, FoundIsComplement
<1>5. QED
  BY <1>1, <1>2, <1>3, <1>4

\* The invariant holds of every reachable state.
THEOREM BitsetInvariant == Spec => []BitsetInv
<1>1. BitsetInv /\ [Next]_vars => BitsetInv'
  <2> SUFFICES ASSUME BitsetInv, [Next]_vars PROVE BitsetInv'
    OBVIOUS
  <2>1. CASE Next
    BY <2>1, BitsetInvScan, BitsetInvTestBit, BitsetInvOthers DEF Next, Search
  <2>2. CASE UNCHANGED vars
    BY <2>2 DEF BitsetInv, TypeOK, Searching, FoundIsComplement, vars, locals, history
  <2>3. QED
    BY <2>1, <2>2
<1>2. QED
  BY <1>1, BitsetInvInit, PTL DEF Spec

\* A piece find_positive_bit_compliment returns is one the peer has, and was not
\* marked unless bit_set stored it during the search, whatever the sizes of the
\* bitfields and whatever other processes write in between.
THEOREM SearchSound == Spec => []FoundIsComplement
<1>1. BitsetInv => FoundIsComplement
  BY DEF BitsetInv
<1>2. QED
  BY <1>1, BitsetInvariant, PTL

\* Every variable of the search, the shared bitfield and the byte bit_set holds
\* keep their types, for bitfields of every two sizes and bytes of every width:
\* the byte the search settles on lies inside both bitfields.
THEOREM BitsetTypes == Spec => []TypeOK
<1>1. BitsetInv => TypeOK
  BY DEF BitsetInv
<1>2. QED
  BY <1>1, BitsetInvariant, PTL

-----------------------------------------------------------------------------
(* Completeness of the search against a peer that has all we have.         *)

\* Byte k of the two bitsets differs; the peer has a bit that we lack.
Differs(ours, peers, k) == ByteAt(peers, k) # ByteAt(ours, k)
Lacks(ours, peers, bit) == BitGet(peers, FriendBits, bit) /\ ~BitGet(ours, ThisBits, bit)

\* What the scan has passed without a mismatch is equal; the byte it remembers
\* differs; the bits it has tested are no answer.
Scanned(ours, peers) ==
  /\ i <= bitfield_size
  /\ mismatched_byte_position = -1 => \A k \in 0..(i - 1) : ~Differs(ours, peers, k)
  /\ mismatched_byte_position # -1 => Differs(ours, peers, mismatched_byte_position)
Tested(ours, peers) ==
  /\ i <= Width /\ Differs(ours, peers, mismatched_byte_position)
  /\ \A j \in 0..(i - 1) : ~Lacks(ours, peers, mismatched_byte_position * Width + j)

\* A search that found nothing has seen no byte that differs, or one in which
\* the peer has no bit that we lack.
Exhausted(ours, peers) ==
  \/ \A k \in 0..(bitfield_size - 1) : ~Differs(ours, peers, k)
  \/ \E k \in 0..(bitfield_size - 1) :
       Differs(ours, peers, k) /\ \A j \in 0..(Width - 1) : ~Lacks(ours, peers, k * Width + j)

CompleteInv ==
  ~disturbed => /\ pc = "scan" => Scanned(this, friend)
                /\ pc = "bits" => Tested(this, friend)
                /\ pc = "done" /\ found = NotFound => Exhausted(this, friend)

LEMMA CompleteSearch ==
  ASSUME BitsetInv, CompleteInv, Search
  PROVE  CompleteInv'
<1>1. UNCHANGED <<this, friend, disturbed>>
  BY DEF Search, Scan, ScanEnds, TestBit, BitsEnd, history
<1>2. /\ i \in Nat /\ mismatched_byte_position \in -1..(bitfield_size - 1) /\ bitfield_size \in Nat
      /\ pc = "bits" => mismatched_byte_position \in 0..(bitfield_size - 1)
      /\ pc \in {"scan", "bits"} => found = NotFound
  BY SizeBounds DEF BitsetInv, TypeOK, Searching
<1>3. CASE disturbed
  BY <1>1, <1>3 DEF CompleteInv
<1>4. CASE ~disturbed /\ Scan
  <2> DEFINE m == mismatched_byte_position
             D(k) == Differs(this, friend, k)
  <2>1. /\ pc = "scan" /\ i < bitfield_size /\ m' = IF D(i) THEN i ELSE m
        /\ IF D(i) /\ skips = 0 THEN pc' = "bits" /\ i' = 0 ELSE pc' = "scan" /\ i' = i + 1
    BY <1>4 DEF Scan, Mismatch, Differs
  <2>2. (m = -1 => \A k \in 0..(i - 1) : ~D(k)) /\ (m # -1 => D(m))
    BY <1>4, <2>1 DEF CompleteInv, Scanned
  <2> HIDE DEF D
  <2>3. CASE D(i) /\ skips = 0
    <3>1. pc' = "bits" /\ i' = 0 /\ m' = i /\ 0 <= Width /\ 0..(0 - 1) = {}
      BY <2>1, <2>3
    <3>2. Tested(this, friend)'
      BY <1>1, <2>3, <3>1 DEF Tested, D
    <3>3. QED
      BY <3>1, <3>2 DEF CompleteInv
  <2>4. CASE ~(D(i) /\ skips = 0)
    <3>1. pc' = "scan" /\ i' = i + 1 /\ i' <= bitfield_size
      BY <1>2, <2>1, <2>4
    <3>2. m' # -1 => D(m')
      BY <1>2, <2>1, <2>2
    <3>3. ASSUME m' = -1, NEW k \in 0..(i' - 1) PROVE ~D(k)
      <4>1. ~D(i) /\ m = -1
        BY <1>2, <2>1, <3>3
      <4>2. k = i \/ k \in 0..(i - 1)
        BY <1>2, <3>1
      <4>3. QED
        BY <2>2, <4>1, <4>2
    <3>4. Scanned(this, friend)'
      BY <1>1, <3>1, <3>2, <3>3 DEF Scanned, D
    <3>5. QED
      BY <3>1, <3>4 DEF CompleteInv
  <2>5. QED
    BY <2>3, <2>4
<1>5. CASE ~disturbed /\ ScanEnds
  <2>1. /\ pc = "scan" /\ i >= bitfield_size /\ i' = 0 /\ Scanned(this, friend)
        /\ UNCHANGED <<mismatched_byte_position, found>>
    BY <1>5 DEF ScanEnds, CompleteInv
  <2>2. CASE mismatched_byte_position = -1
    <3>1. i = bitfield_size
      BY <1>2, <2>1 DEF Scanned
    <3>2. Exhausted(this, friend)
      BY <2>1, <2>2, <3>1 DEF Scanned, Exhausted
    <3>3. pc' = "done"
      BY <1>5, <2>2 DEF ScanEnds
    <3>4. QED
      BY <1>1, <3>2, <3>3 DEF CompleteInv
  <2>3. CASE mismatched_byte_position # -1
    <3>1. Differs(this, friend, mismatched_byte_position) /\ pc' = "bits"
      BY <1>5, <2>1, <2>3 DEF Scanned, ScanEnds
    <3>2. 0 <= Width /\ 0..(0 - 1) = {}
      OBVIOUS
    <3>3. Tested(this, friend)'
      BY <1>1, <2>1, <3>1, <3>2 DEF Tested
    <3>4. QED
      BY <3>1, <3>3 DEF CompleteInv
  <2>4. QED
    BY <2>2, <2>3
<1>6. CASE ~disturbed /\ TestBit
  <2> DEFINE bit == mismatched_byte_position * Width + i
  <2>1. /\ pc = "bits" /\ i < Width /\ Tested(this, friend)
        /\ \/ Lacks(this, friend, bit) /\ found' = bit /\ pc' = "done"
           \/ ~Lacks(this, friend, bit) /\ i' = i + 1 /\ UNCHANGED <<found, pc>>
        /\ UNCHANGED mismatched_byte_position
    BY <1>6 DEF TestBit, CompleteInv, Complement, Lacks
  <2>2. CASE found' = bit /\ pc' = "done"
    <3>1. bit \in Nat
      BY <1>2, <2>1
    <3>2. QED
      BY <2>2, <3>1 DEF CompleteInv
  <2>3. CASE ~Lacks(this, friend, bit) /\ i' = i + 1 /\ UNCHANGED <<found, pc>>
    <3>1. i' <= Width
      BY <1>2, <2>1, <2>3
    <3>2. ASSUME NEW j \in 0..(i' - 1) PROVE ~Lacks(this, friend, mismatched_byte_position * Width + j)
      <4>1. j = i \/ j \in 0..(i - 1)
        BY <1>2, <2>3
      <4>2. QED
        BY <2>1, <2>3, <4>1 DEF Tested
    <3>3. Tested(this, friend)'
      BY <1>1, <2>1, <3>1, <3>2 DEF Tested
    <3>4. QED
      BY <2>1, <2>3, <3>3 DEF CompleteInv
  <2>4. QED
    BY <2>1, <2>2, <2>3
<1>7. CASE ~disturbed /\ BitsEnd
  <2>1. pc = "bits" /\ i >= Width /\ pc' = "done" /\ Tested(this, friend)
    BY <1>7 DEF BitsEnd, CompleteInv
  <2>2. i = Width /\ mismatched_byte_position \in 0..(bitfield_size - 1)
    BY <1>2, <2>1 DEF Tested
  <2>3. Exhausted(this, friend)
    BY <2>1, <2>2 DEF Tested, Exhausted
  <2>4. QED
    BY <1>1, <2>1, <2>3 DEF CompleteInv
<1>8. QED
  BY <1>3, <1>4, <1>5, <1>6, <1>7 DEF Search

\* A search that ended empty-handed against a peer with all we have: the peer
\* has nothing that we lack.
LEMMA ExhaustedMissing ==
  ASSUME BitsetInv, Exhausted(this, friend),
         \A bit \in this : bit < bitfield_size * Width => bit \in friend
  PROVE  Missing = {}
<1>1. bitfield_size \in Nat /\ friend \in SUBSET FriendBits /\ this \in SUBSET ThisBits
  BY SizeBounds DEF BitsetInv, TypeOK
<1>2. ASSUME NEW k \in 0..(bitfield_size - 1), NEW j \in 0..(Width - 1)
      PROVE  k * Width + j \in 0..(bitfield_size * Width - 1)
  BY <1>1, BitOfByte
<1>3. ASSUME NEW k \in 0..(bitfield_size - 1),
             \A j \in 0..(Width - 1) : ~Lacks(this, friend, k * Width + j)
      PROVE  ~Differs(this, friend, k)
  <2> SUFFICES ASSUME NEW j \in 0..(Width - 1)
               PROVE  k * Width + j \in friend <=> k * Width + j \in this
    BY DEF Differs, ByteAt
  <2> DEFINE bit == k * Width + j
  <2>1. bit \in 0..(bitfield_size * Width - 1) /\ ~Lacks(this, friend, bit)
    BY <1>2, <1>3
  <2> HIDE DEF bit
  <2>2. bitfield_size * Width \in Nat
    BY <1>1
  <2>3. bit < bitfield_size * Width
    BY <2>1, <2>2
  <2>4. bit \in friend <=> bit \in this
    BY <1>1, <2>1, <2>3 DEF Lacks, BitGet
  <2>5. QED
    BY <2>4 DEF bit
<1>4. \A k \in 0..(bitfield_size - 1) : ~Differs(this, friend, k)
  BY <1>3 DEF Exhausted
<1>5. ASSUME NEW bit \in Missing PROVE FALSE
  <2> DEFINE k == bit \div Width
             j == bit % Width
  <2>1. bit \in friend /\ bit \notin this /\ bit < bitfield_size * Width /\ bit \in Nat
    BY <1>1 DEF Missing, FriendBits
  <2>2. bit \in 0..(bitfield_size * Width - 1)
    <3>1. bitfield_size * Width \in Nat
      BY <1>1
    <3>2. QED
      BY <2>1, <3>1
  <2>3. k \in 0..(bitfield_size - 1) /\ j \in 0..(Width - 1)
    BY <1>1, <2>2, ByteOfBit
  <2>4. bit = k * Width + j
    <3>1. bit = Width * k + j /\ k \in Int /\ Width * k = k * Width
      BY <2>1
    <3>2. QED
      BY <3>1
  <2> HIDE DEF k, j
  <2>5. j \in ByteAt(friend, k) /\ j \notin ByteAt(this, k)
    BY <2>1, <2>3, <2>4 DEF ByteAt
  <2>6. QED
    BY <1>4, <2>3, <2>5 DEF Differs
<1>6. QED
  BY <1>5

\* While nobody writes the shared bitfield, a search against a peer that has
\* every piece we have comes back empty only if the peer has nothing we lack,
\* whatever the sizes of the bitfields and the number of mismatches skipped.
THEOREM SeederSearchAlwaysComplete == Spec => []SeederSearchComplete
<1>1. Init => CompleteInv
  BY DEF Init, CompleteInv
<1>2. BitsetInv /\ CompleteInv /\ [Next]_vars => CompleteInv'
  <2> SUFFICES ASSUME BitsetInv, CompleteInv, [Next]_vars PROVE CompleteInv'
    OBVIOUS
  <2>1. CASE Call
    <3>1. i' = 0 /\ mismatched_byte_position' = -1 /\ pc' = "scan"
      BY <2>1 DEF Call, FirstByte
    <3>2. 0 <= bitfield_size /\ 0..(0 - 1) = {}
      BY SizeBounds
    <3>3. Scanned(this, friend)'
      BY <3>1, <3>2 DEF Scanned
    <3>4. QED
      BY <3>1, <3>3 DEF CompleteInv
  <2>2. CASE Memset \/ BitSetWrites
    BY <2>2 DEF Memset, BitSetWrites, CompleteInv
  <2>3. CASE \E bit \in FriendBits : FriendHas(bit)
    BY <2>3 DEF FriendHas, CompleteInv
  <2>4. CASE (\E bit \in ThisBits : BitSetReads(bit)) \/ UNCHANGED vars
    <3>1. UNCHANGED <<this, friend, pc, i, mismatched_byte_position, found, disturbed>>
      BY <2>4 DEF BitSetReads, vars, locals, history
    <3>2. QED
      BY <3>1 DEF CompleteInv, Scanned, Tested
  <2>5. QED
    BY <2>1, <2>2, <2>3, <2>4, CompleteSearch DEF Next
<1>3. BitsetInv /\ CompleteInv => SeederSearchComplete
  BY ExhaustedMissing DEF CompleteInv, SeederSearchComplete
<1>4. QED
  BY <1>1, <1>2, <1>3, BitsetInvariant, PTL DEF Spec
=============================================================================

--------------------------- MODULE DynamicBitset ---------------------------
(***************************************************************************)
(* find_positive_bit_compliment (generic/dynamic_bitset.hpp), the search   *)
(* by which a download process picks its next piece: a bit that is clear   *)
(* in the shared bitfield (this) and set in the peer's (friend).  The      *)
(* shared bitfield lives in memory other processes write while the search  *)
(* reads it one byte or bit at a time: the main process sets bits          *)
(* (piece_download_complete), and every new download process zeroes it     *)
(* (ipc_shared_memory's constructor).                                      *)
(*                                                                         *)
(* A bitset is the set of the indices of its set bits.                     *)
(***************************************************************************)
EXTENDS Integers

CONSTANTS
  Width,         \* bits in a byte (8 in the code)
  ThisBytes,     \* bytes_size() of the shared bitfield
  FriendBytes,   \* bytes_size() of the peer's bitfield
  NotFound       \* std::nullopt

ASSUME BitsetAssumption == /\ Width \in Nat \ {0}
                           /\ ThisBytes \in Nat /\ FriendBytes \in Nat
                           /\ NotFound \notin Nat

VARIABLES
  this,      \* the shared bitfield
  friend,    \* the peer's bitfield, private to the searching process
  pc,        \* "idle", "scan" (bytes), "bits" (of one byte), "done"
  i, skips, mismatched_byte_position, found,   \* the function's locals
  register,  \* in the main process: the byte bit_set has read and changed
  marked,    \* history: bits the peer may have that bit_set stored since the call
  disturbed  \* history: has anybody written the shared bitfield since the call?

locals == <<i, skips, mismatched_byte_position, found>>
history == <<marked, disturbed>>
vars == <<this, friend, pc, locals, register, history>>

ThisBits   == 0..(ThisBytes * Width - 1)
FriendBits == 0..(FriendBytes * Width - 1)
bitfield_size == IF ThisBytes < FriendBytes THEN ThisBytes ELSE FriendBytes

\* Byte k of a bitset, as the positions of its set bits.
ByteAt(bits, k) == {j \in 0..(Width - 1) : k * Width + j \in bits}

Init ==
  /\ this = {} /\ friend \in SUBSET FriendBits
  /\ pc = "idle" /\ i = 0 /\ skips = 0
  /\ mismatched_byte_position = -1 /\ found = NotFound
  /\ register = NotFound /\ marked = {} /\ disturbed = FALSE

-----------------------------------------------------------------------------
\* Mutant: the scan starts at byte 1.
FirstByteSkipped == 1
FirstByte == 0

\* The call, with randomize = true: skips is drawn from 0..bitfield_size - 1
\* (from all of uint32 when bitfield_size is 0, where it is never used).
Call ==
  /\ pc \in {"idle", "done"}
  /\ pc' = "scan"
  /\ i' = FirstByte /\ mismatched_byte_position' = -1 /\ found' = NotFound
  /\ skips' \in IF bitfield_size = 0 THEN {0} ELSE 0..(bitfield_size - 1)
  /\ marked' = {} /\ disturbed' = FALSE
  /\ UNCHANGED <<this, friend, register>>

\* One byte is compared; the skips-th mismatch ends the scan.
Mismatch(k) == ByteAt(friend, k) # ByteAt(this, k)

\* Mutants: the scan reads one byte too far; a skipped mismatch does not move
\* it on.
ScanPastEnd ==
  /\ pc = "scan" /\ i <= bitfield_size
  /\ mismatched_byte_position' = IF Mismatch(i) THEN i ELSE mismatched_byte_position
  /\ IF Mismatch(i) /\ skips = 0
     THEN pc' = "bits" /\ i' = 0 /\ UNCHANGED skips
     ELSE /\ pc' = "scan" /\ i' = i + 1
          /\ skips' = IF Mismatch(i) THEN skips - 1 ELSE skips
  /\ UNCHANGED <<this, friend, found, register, history>>
ScanStuck ==
  /\ pc = "scan" /\ i < bitfield_size
  /\ mismatched_byte_position' = IF Mismatch(i) THEN i ELSE mismatched_byte_position
  /\ IF Mismatch(i) /\ skips = 0
     THEN pc' = "bits" /\ i' = 0 /\ UNCHANGED skips
     ELSE pc' = "scan" /\ i' = (IF Mismatch(i) THEN i ELSE i + 1) /\ UNCHANGED skips
  /\ UNCHANGED <<this, friend, found, register, history>>

Scan ==
  /\ pc = "scan" /\ i < bitfield_size
  /\ mismatched_byte_position' = IF Mismatch(i) THEN i ELSE mismatched_byte_position
  /\ IF Mismatch(i) /\ skips = 0
     THEN pc' = "bits" /\ i' = 0 /\ UNCHANGED skips
     ELSE /\ pc' = "scan" /\ i' = i + 1
          /\ skips' = IF Mismatch(i) THEN skips - 1 ELSE skips
  /\ UNCHANGED <<this, friend, found, register, history>>

\* The scan ran out of bytes: search the last mismatch, if there was one.
ScanEnds ==
  /\ pc = "scan" /\ i >= bitfield_size
  /\ pc' = IF mismatched_byte_position = -1 THEN "done" ELSE "bits"
  /\ i' = 0
  /\ UNCHANGED <<this, friend, skips, mismatched_byte_position, found, register, history>>

\* bit_get(bit), false outside the bitset.
BitGet(bits, domain, bit) == bit \in domain /\ bit \in bits

\* Mutant: the roles of the two bitsets are exchanged.
ComplementSwapped(bit) == BitGet(this, ThisBits, bit) /\ ~BitGet(friend, FriendBits, bit)
Complement(bit) == BitGet(friend, FriendBits, bit) /\ ~BitGet(this, ThisBits, bit)

\* One bit of the chosen byte is tested, from the lowest.
TestBit ==
  /\ pc = "bits" /\ i < Width
  /\ LET bit == mismatched_byte_position * Width + i IN
     IF Complement(bit) THEN found' = bit /\ pc' = "done" /\ UNCHANGED i
     ELSE i' = i + 1 /\ UNCHANGED <<found, pc>>
  /\ UNCHANGED <<this, friend, skips, mismatched_byte_position, register, history>>

BitsEnd ==
  /\ pc = "bits" /\ i >= Width
  /\ pc' = "done"
  /\ UNCHANGED <<this, friend, locals, register, history>>

Search == Scan \/ ScanEnds \/ TestBit \/ BitsEnd

-----------------------------------------------------------------------------
(* Other processes, and this one between two searches.                     *)

\* piece_download_complete in the main process: bit_set, ignored outside, is
\* |= on a byte of memory, a read and a write that are not one step for others.
BitSetReads(bit) ==
  /\ register = NotFound /\ bit \in ThisBits
  /\ LET k == bit \div Width
     IN register' = [at |-> k, bits |-> ByteAt(this, k) \cup {bit % Width}]
  /\ UNCHANGED <<this, friend, pc, locals, history>>

BitSetWrites ==
  /\ register # NotFound
  /\ LET bits == {register.at * Width + j : j \in register.bits}
     IN /\ this' = {bit \in this : bit \div Width # register.at} \cup bits
        /\ marked' = marked \cup (bits \cap FriendBits)
  /\ register' = NotFound /\ disturbed' = TRUE
  /\ UNCHANGED <<friend, pc, locals>>

\* The constructor of ipc_shared_memory in a new download process.
Memset ==
  /\ this' = {} /\ disturbed' = TRUE
  /\ UNCHANGED <<friend, pc, locals, register, marked>>

\* The peer announces another piece (receive_message_have), between searches.
FriendHas(bit) ==
  /\ pc \in {"idle", "done"}
  /\ friend' = friend \cup {bit}
  /\ pc' = "idle"
  /\ UNCHANGED <<this, locals, register, history>>

Next ==
  \/ Call \/ Search \/ Memset \/ BitSetWrites
  \/ \E bit \in ThisBits : BitSetReads(bit)
  \/ \E bit \in FriendBits : FriendHas(bit)

Spec == Init /\ [][Next]_vars

\* The searching process runs; nobody else has to.
FairSpec == Spec /\ WF_vars(Search)

-----------------------------------------------------------------------------
(* Properties.                                                             *)

\* Every variable keeps its type.
TypeOK ==
  /\ this \in SUBSET ThisBits /\ friend \in SUBSET FriendBits
  /\ pc \in {"idle", "scan", "bits", "done"}
  /\ i \in Nat /\ skips \in Nat
  /\ mismatched_byte_position \in -1..(bitfield_size - 1)
  /\ found \in Nat \cup {NotFound}
  /\ register \in [at : 0..(ThisBytes - 1), bits : SUBSET (0..(Width - 1))] \cup {NotFound}
  /\ marked \in SUBSET FriendBits /\ disturbed \in BOOLEAN

\* A piece find_positive_bit_compliment settles on is one the peer has, and if
\* it is marked by the time it is used, bit_set stored it during this very
\* search: concurrent writes never make the search answer wrongly.
FoundIsComplement ==
  pc = "done" /\ found # NotFound =>
    /\ found \in friend /\ found \in ThisBits
    /\ found \in this => found \in marked

\* The bits a search can see are those both bitsets have bytes for.
Missing == {bit \in friend \ this : bit < bitfield_size * Width}

\* While nobody writes the shared bitfield, a search against a peer that has
\* every piece we have fails only if the peer has nothing we lack.
SeederSearchComplete ==
  pc = "done" /\ found = NotFound /\ ~disturbed
    /\ (\A bit \in this : bit < bitfield_size * Width => bit \in friend)
  => Missing = {}

\* The search finds an occurrence whenever there is one and nobody interferes.
FindsOccurrence == pc = "done" /\ found = NotFound /\ ~disturbed => Missing = {}

\* Every search returns, whatever others do to the bitfield meanwhile.
SearchReturns == pc = "scan" ~> pc = "done"
=============================================================================

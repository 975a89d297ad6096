----------------------------- MODULE PeerProofs ----------------------------
(***************************************************************************)
(* Proofs about a download process and its remote peer, for every number   *)
(* of pieces and blocks, every width of a byte and every length of the     *)
(* queues.                                                                 *)
(***************************************************************************)
EXTENDS TorrentPeer, SequenceTheorems, ByteLemmas

-----------------------------------------------------------------------------
(* The types.                                                              *)

InMsgs == [type : {"handshake"}, hash : RemoteHashes, reserved : BOOLEAN]
          \cup [type : {"bitfield"}, pieces : {RemoteHas}]
          \cup [type : {"have"}, piece : Pieces] \cup BlockType
          \cup [type : {"peer_id", "choke", "unchoke", "interested", "keep_alive", "other"}]
OutMsgs == [type : {"request"}, piece : BitfieldBits, offset : Nat]
           \cup [type : {"handshake", "interested", "have", "keep_alive", "stray"}]
Downloads == [piece_index : BitfieldBits, exists : BOOLEAN, downloaded : Nat, size : Nat,
              data : Seq(BlockType \cup {Zeros})]
Remotes == [hash : RemoteHashes, reserved : BOOLEAN, shaken : BOOLEAN, announced : BOOLEAN,
            choking : BOOLEAN, interested : BOOLEAN, chokes : Nat]

\* The storage of a piece holds as many blocks as are counted, and clear() only
\* makes its size smaller.
DownloadOK(dp) == /\ dp \in Downloads
                  /\ Len(dp.data) = dp.downloaded /\ dp.size <= dp.downloaded

StateOK ==
  /\ pc \in {"receive", "notify", "exited", "spin", "desync"} \cup Handshaking
  /\ m_bitfield \subseteq BitfieldBits /\ m_bitfield_pieces \subseteq BitfieldBits
  /\ notified \subseteq BitfieldBits
  /\ m_am_choking \in BOOLEAN /\ m_socket_healthy \in BOOLEAN /\ keptAlive \in BOOLEAN

\* TypeOK with the types of the messages under way and of the remote.
TypeInv ==
  /\ StateOK /\ DownloadOK(m_download_piece)
  /\ connection \in {"open", "closed", "reset"}
  /\ inbox \in Seq(InMsgs) /\ outbox \in Seq(OutMsgs) /\ remote \in Remotes

LEMMA TypeInvTypes == TypeInv => TypeOK
<1> SUFFICES ASSUME TypeInv PROVE TypeOK
  OBVIOUS
<1>1. m_download_piece \in Downloads
  BY DEF TypeInv, DownloadOK
<1>2. /\ m_download_piece.piece_index \in BitfieldBits
      /\ m_download_piece.downloaded \in Nat /\ m_download_piece.size \in Nat
      /\ m_download_piece.data \in Seq(BlockType \cup {Zeros})
  BY <1>1 DEF Downloads
<1>3. \A k \in DOMAIN m_download_piece.data : m_download_piece.data[k] \in BlockType \cup {Zeros}
  BY <1>2, LenProperties, ElementOfSeq
<1>4. QED
  BY <1>2, <1>3 DEF TypeInv, StateOK, TypeOK

LEMMA Bits ==
  /\ BitfieldBytes \in Nat /\ Pieces \subseteq BitfieldBits /\ 0 \in BitfieldBits
  /\ AsRead(RemoteHas) \subseteq BitfieldBits
<1> USE PeerAssumption DEF PeerAssumption
<1> DEFINE n == NumPieces + Width - 1
           q == n \div Width
<1>1. n \in Nat /\ Width \in Nat \ {0} /\ q \in Nat /\ n = Width * q + (n % Width) /\ n % Width \in 0..(Width - 1)
  OBVIOUS
<1>2. q = BitfieldBytes
  BY DEF BitfieldBytes
<1> HIDE DEF q
<1>3. NumPieces <= q * Width
  <2>1. Width * q = q * Width /\ q * Width \in Nat
    BY <1>1
  <2>2. QED
    BY <1>1, <2>1
<1>4. Pieces \subseteq 0..(q * Width - 1) /\ 0 \in Pieces
  <2>1. q * Width \in Nat
    BY <1>1
  <2>2. QED
    BY <1>3, <2>1 DEF Pieces
<1>5. BitfieldBits = 0..(q * Width - 1)
  BY <1>2 DEF BitfieldBits
<1>6. ASSUME NEW p \in RemoteHas
      PROVE  (p \div Width) * Width + (Width - 1) - (p % Width) \in 0..(q * Width - 1)
  <2> DEFINE k == p \div Width
             r == p % Width
             j == (Width - 1) - r
  <2>1. p \in 0..(q * Width - 1)
    BY <1>4
  <2>2. k \in 0..(q - 1) /\ r \in 0..(Width - 1)
    BY <1>1, <2>1, ByteOfBit
  <2> HIDE DEF k, r
  <2>3. j \in 0..(Width - 1) /\ k * Width \in Int
    BY <1>1, <2>2
  <2>4. k * Width + j \in 0..(q * Width - 1)
    BY <1>1, <2>2, <2>3, BitOfByte
  <2>5. k * Width + j = k * Width + (Width - 1) - r
    BY <2>2, <2>3
  <2>6. QED
    BY <2>4, <2>5 DEF k, r
<1>7. QED
  BY <1>1, <1>2, <1>4, <1>5, <1>6 DEF AsRead

-----------------------------------------------------------------------------
(* The record of the piece and what is asked for.                          *)

LEMMA FreshFields ==
  ASSUME NEW p \in BitfieldBits
  PROVE  /\ DownloadOK(Fresh(p)) /\ Fresh(p).piece_index = p /\ Fresh(p).exists
         /\ Fresh(p).downloaded = 0 /\ Fresh(p).size = 0 /\ ~Complete(Fresh(p))
<1>1. << >> \in Seq(BlockType \cup {Zeros}) /\ Len(<< >>) = 0
  BY EmptySeq
<1>2. /\ Fresh(p).piece_index = p /\ Fresh(p).exists = TRUE /\ Fresh(p).downloaded = 0
      /\ Fresh(p).size = 0 /\ Fresh(p).data = << >>
  BY DEF Fresh
<1>3. Fresh(p) \in Downloads
  BY <1>1 DEF Fresh, Downloads
<1>4. QED
  BY <1>1, <1>2, <1>3 DEF DownloadOK, Complete

LEMMA NoDownloadFields ==
  /\ DownloadOK(NoDownload) /\ ~NoDownload.exists /\ NoDownload.downloaded = 0
  /\ NoDownload.size = 0
<1>1. << >> \in Seq(BlockType \cup {Zeros}) /\ Len(<< >>) = 0
  BY EmptySeq
<1> DEFINE f == Fresh(0)
<1>2. f \in Downloads /\ f.downloaded = 0 /\ f.size = 0 /\ f.data = << >>
  BY FreshFields, Bits DEF DownloadOK, Fresh
<1> HIDE DEF f
<1>3. /\ [f EXCEPT !.exists = FALSE] \in Downloads
      /\ ~[f EXCEPT !.exists = FALSE].exists /\ [f EXCEPT !.exists = FALSE].downloaded = 0
      /\ [f EXCEPT !.exists = FALSE].size = 0 /\ [f EXCEPT !.exists = FALSE].data = << >>
  BY <1>2 DEF Downloads
<1>4. QED
  BY <1>1, <1>3 DEF DownloadOK, NoDownload, f

\* resize() and the recv loop: what was downloaded stays, as far as clear() has
\* not emptied it, and the block comes behind it.
LEMMA StoredFields ==
  ASSUME NEW dp, DownloadOK(dp), NEW block \in BlockType
  PROVE  /\ DownloadOK(Stored(dp, block))
         /\ Stored(dp, block).piece_index = dp.piece_index /\ Stored(dp, block).exists = dp.exists
         /\ Stored(dp, block).downloaded = dp.downloaded + 1
         /\ Stored(dp, block).size = dp.downloaded + 1
         /\ Stored(dp, block).data[dp.downloaded + 1] = block
         /\ \A k \in 1..dp.size : Stored(dp, block).data[k] = dp.data[k]
<1> DEFINE d == dp.downloaded
           data == [k \in 1..(d + 1) |-> IF k > d THEN block
                                         ELSE IF k <= dp.size THEN dp.data[k] ELSE Zeros]
           S == Stored(dp, block)
<1>1. /\ dp \in Downloads /\ d \in Nat /\ dp.size \in Nat /\ dp.size <= d
      /\ dp.data \in Seq(BlockType \cup {Zeros}) /\ Len(dp.data) = d
  BY DEF DownloadOK, Downloads
<1>2. /\ S.piece_index = dp.piece_index /\ S.exists = dp.exists /\ S.downloaded = d + 1
      /\ S.size = d + 1 /\ S.data = data
  BY <1>1 DEF Stored, StoredUncounted, Downloads
<1>4. \A k \in 1..(d + 1) : data[k] \in BlockType \cup {Zeros}
  <2>1. \A k \in 1..d : dp.data[k] \in BlockType \cup {Zeros}
    BY <1>1, ElementOfSeq
  <2>2. QED
    BY <1>1, <2>1
<1>5. data \in Seq(BlockType \cup {Zeros}) /\ Len(data) = d + 1
  BY <1>1, <1>4
<1>6. data[d + 1] = block /\ \A k \in 1..dp.size : data[k] = dp.data[k]
  BY <1>1
<1>7. S \in Downloads
  <2> DEFINE A == [dp EXCEPT !.size = d + 1]
             B == [A EXCEPT !.data = data]
  <2>1. S = [B EXCEPT !.downloaded = d + 1]
    BY Zenon DEF Stored, StoredUncounted
  <2>2. A \in Downloads /\ d + 1 \in Nat
    BY <1>1 DEF Downloads
  <2> HIDE DEF A, data, S
  <2>3. B \in Downloads
    BY <1>5, <2>2 DEF Downloads
  <2> HIDE DEF B
  <2>4. QED
    BY <2>1, <2>2, <2>3 DEF Downloads
<1> HIDE DEF S, data
<1>8. DownloadOK(S)
  BY <1>1, <1>2, <1>5, <1>7 DEF DownloadOK
<1>9. QED
  BY <1>2, <1>6, <1>8 DEF S

Emptied(dp) == [dp EXCEPT !.exists = FALSE, !.size = 0]

LEMMA EmptiedFields ==
  ASSUME NEW dp, DownloadOK(dp)
  PROVE  /\ DownloadOK(Emptied(dp)) /\ ~Emptied(dp).exists /\ Emptied(dp).size = 0
         /\ Emptied(dp).piece_index = dp.piece_index
         /\ Emptied(dp).downloaded = dp.downloaded /\ Emptied(dp).data = dp.data
<1>1. dp \in Downloads /\ dp.downloaded \in Nat
  BY DEF DownloadOK, Downloads
<1> DEFINE A == [dp EXCEPT !.exists = FALSE]
<1>2. Emptied(dp) = [A EXCEPT !.size = 0]
  BY Zenon DEF Emptied
<1>3. /\ A \in Downloads /\ A.piece_index = dp.piece_index /\ A.exists = FALSE
      /\ A.downloaded = dp.downloaded /\ A.data = dp.data
  BY <1>1 DEF Downloads
<1> HIDE DEF A
<1>4. /\ Emptied(dp) \in Downloads /\ Emptied(dp).piece_index = dp.piece_index
      /\ ~Emptied(dp).exists /\ Emptied(dp).downloaded = dp.downloaded
      /\ Emptied(dp).data = dp.data /\ Emptied(dp).size = 0
  BY <1>2, <1>3 DEF Downloads
<1>5. QED
  BY <1>1, <1>4 DEF DownloadOK

LEMMA RequestsFields ==
  ASSUME NEW dp, DownloadOK(dp)
  PROVE  /\ Requests(dp) \in Seq(OutMsgs) /\ Len(Requests(dp)) = PieceBlocks
         /\ \A k \in 1..PieceBlocks : /\ Requests(dp)[k].type = "request"
                                      /\ Requests(dp)[k].piece = dp.piece_index
                                      /\ Requests(dp)[k].offset = dp.downloaded + k - 1
<1>1. dp.piece_index \in BitfieldBits /\ dp.downloaded \in Nat /\ PieceBlocks \in Nat
  BY PeerAssumption DEF DownloadOK, Downloads, PeerAssumption
<1>2. ASSUME NEW k \in 1..PieceBlocks
      PROVE  Request(dp.piece_index, dp.downloaded + k - 1) \in OutMsgs
  <2>1. dp.downloaded + k - 1 \in Nat
    BY <1>1
  <2>2. QED
    BY <1>1, <2>1 DEF Request, OutMsgs
<1>3. Requests(dp) \in [1..PieceBlocks -> OutMsgs]
  BY <1>2 DEF Requests
<1>4. Requests(dp) \in Seq(OutMsgs) /\ Len(Requests(dp)) = PieceBlocks
  BY <1>1, <1>3
<1>5. QED
  BY <1>4 DEF Requests, Request

\* download_next_piece leaves the record, or starts a new one when there is none
\* and asks for all of it; a peer that is choked asks for nothing.
LEMMA NextDownload ==
  ASSUME TypeInv, NEW choking \in BOOLEAN, NEW dp, DownloadOK(dp),
         NEW next \in DownloadNext(choking, dp)
  PROVE  /\ DownloadOK(next[1])
         /\ \/ next[1] = dp /\ (next[2] = << >> \/ next[2] = Requests(dp))
            \/ ~dp.exists /\ next[2] = Requests(next[1]) /\ \E p \in m_bitfield : next[1] = Fresh(p)
         /\ choking => next = <<dp, << >>>>
         /\ next[1] = dp /\ ~dp.exists => next[2] = << >>
<1>1. CASE choking
  BY <1>1 DEF DownloadNext
<1>2. CASE ~choking
  <2>1. PICK n \in IF dp.exists THEN {dp} ELSE Determined(dp) :
             next = <<n, IF ~n.exists \/ Complete(n) THEN << >> ELSE Requests(n)>>
    BY <1>2 DEF DownloadNext, DownloadNextUnchecked
  <2>2. n = dp \/ (~dp.exists /\ \E p \in m_bitfield : n = Fresh(p))
    BY <2>1 DEF Determined
  <2>3. next[1] = n /\ next[2] = IF ~n.exists \/ Complete(n) THEN << >> ELSE Requests(n)
    BY <2>1
  <2>4. CASE n = dp
    <3>1. ~dp.exists => next[2] = << >>
      BY <2>3, <2>4
    <3>2. QED
      BY <1>2, <2>3, <2>4, <3>1
  <2>5. CASE ~dp.exists /\ \E p \in m_bitfield : n = Fresh(p)
    <3>1. DownloadOK(n) /\ n.exists /\ ~Complete(n)
      BY <2>5, FreshFields DEF TypeInv, StateOK
    <3>2. n # dp
      BY <2>5, <3>1
    <3>3. next[2] = Requests(n)
      BY <2>3, <3>1
    <3>4. QED
      BY <1>2, <2>3, <2>5, <3>1, <3>2, <3>3
  <2>6. QED
    BY <2>2, <2>4, <2>5
<1>3. QED
  BY <1>1, <1>2

-----------------------------------------------------------------------------
(* The types are kept.                                                     *)

LEMMA SentMessages ==
  /\ << >> \in Seq(OutMsgs) /\ <<Msg("handshake")>> \in Seq(OutMsgs)
  /\ <<Msg("interested")>> \in Seq(OutMsgs)
  /\ <<Msg("have"), Msg("interested")>> \in Seq(OutMsgs)
  /\ <<Msg("keep_alive"), Msg("stray")>> \in Seq(OutMsgs)
<1>1. \A x \in {"handshake", "interested", "have", "keep_alive", "stray"} : Msg(x) \in OutMsgs
  BY DEF Msg, OutMsgs
<1> HIDE DEF OutMsgs, Msg
<1>2. QED
  BY <1>1

LEMMA SendTypes ==
  ASSUME TypeInv, NEW msgs \in Seq(OutMsgs), Send(msgs)
  PROVE  outbox' \in Seq(OutMsgs) /\ connection' \in {"open", "closed", "reset"}
<1>1. outbox' \in {outbox, outbox \o msgs}
  BY DEF Send, Sent
<1>2. outbox \o msgs \in Seq(OutMsgs)
  BY ConcatProperties DEF TypeInv
<1>3. QED
  BY <1>1, <1>2 DEF TypeInv, Send

LEMMA ReceivesTypes ==
  ASSUME TypeInv, NEW type, Receives(type)
  PROVE  /\ inbox' \in Seq(InMsgs) /\ Head(inbox) \in InMsgs /\ Head(inbox).type = type
         /\ pc = "receive" /\ inbox # << >> /\ inbox' = Tail(inbox)
  BY HeadTailProperties DEF TypeInv, Receives

LEMMA AfterReceiveTypes ==
  ASSUME TypeInv, NEW dp, DownloadOK(dp), NEW healthy \in BOOLEAN, AfterReceive(dp, healthy)
  PROVE  /\ pc' \in {"notify", "receive", "exited"} /\ m_socket_healthy' \in BOOLEAN
         /\ DownloadOK(m_download_piece') /\ UNCHANGED <<shared, remote>>
<1>1. m_download_piece' = dp /\ m_socket_healthy' = healthy /\ UNCHANGED <<shared, remote>>
  BY DEF AfterReceive
<1>2. pc' \in {"notify", "receive", "exited"}
  BY DEF AfterReceive
<1>3. m_socket_healthy' \in BOOLEAN
  BY <1>1, Zenon
<1>4. QED
  BY <1>1, <1>2, <1>3

\* The types, when each part is shown to keep its own.
LEMMA TypesKept ==
  ASSUME TypeInv,
         inbox' \in Seq(InMsgs), outbox' \in Seq(OutMsgs), connection' \in {"open", "closed", "reset"},
         pc' \in {"receive", "notify", "exited", "spin", "desync"} \cup Handshaking,
         m_bitfield' \subseteq BitfieldBits, m_am_choking' \in BOOLEAN,
         DownloadOK(m_download_piece'), m_socket_healthy' \in BOOLEAN, keptAlive' \in BOOLEAN,
         UNCHANGED <<shared, remote>>
  PROVE  TypeInv'
<1>1. m_bitfield_pieces' \subseteq BitfieldBits /\ notified' \subseteq BitfieldBits
  BY DEF TypeInv, StateOK, shared
<1>2. StateOK'
  BY <1>1 DEF StateOK
<1>3. remote' \in Remotes
  BY DEF TypeInv
<1>4. DownloadOK(m_download_piece)'
  BY DEF DownloadOK
<1>5. QED
  BY <1>2, <1>3, <1>4 DEF TypeInv

LEMMA HandshakeTypes == TypeInv /\ (Handshake \/ HandshakeFails) => TypeInv'
<1> SUFFICES ASSUME TypeInv, Handshake \/ HandshakeFails PROVE TypeInv'
  OBVIOUS
<1>1. /\ UNCHANGED <<m_bitfield, download, health, shared, remote>>
      /\ pc' \in {"receive"} \cup Handshaking
  BY DEF Handshake, HandshakeSends, HandshakeReceives, HandshakeEof, HandshakeFails, Handshaking
<1>2. inbox' \in Seq(InMsgs)
  <2>1. inbox # << >> => Tail(inbox) \in Seq(InMsgs)
    BY HeadTailProperties DEF TypeInv
  <2>2. SubSeq(inbox, 3, Len(inbox)) \in Seq(InMsgs)
    <3>1. Len(inbox) \in Int /\ \A i \in 3..Len(inbox) : inbox[i] \in InMsgs
      BY LenProperties, ElementOfSeq DEF TypeInv
    <3>2. QED
      BY <3>1, SubSeqProperties
  <2>3. QED
    BY <2>1, <2>2 DEF TypeInv, Handshake, HandshakeSends, HandshakeReceives, HandshakeEof, HandshakeFails
<1>3. outbox' \in Seq(OutMsgs) /\ connection' \in {"open", "closed", "reset"}
  <2>1. CASE HandshakeSends
    BY <2>1, SentMessages, SendTypes DEF HandshakeSends
  <2>2. CASE HandshakeReceives \/ HandshakeEof \/ HandshakeFails
    BY <2>2 DEF TypeInv, HandshakeReceives, HandshakeEof, HandshakeFails
  <2>3. QED
    BY <2>1, <2>2 DEF Handshake
<1>4. QED
  BY <1>1, <1>2, <1>3, TypesKept DEF TypeInv, StateOK, download, health

\* The messages that leave the piece alone.
LEMMA ReceiveOtherTypes ==
  ASSUME TypeInv,
         ReceiveChoke \/ ReceiveBitfield \/ ReceiveHave \/ ReceiveInterested
           \/ ReceiveKeepAlive \/ ReceiveEof
  PROVE  TypeInv'
<1>1. /\ DownloadOK(m_download_piece) /\ m_socket_healthy \in BOOLEAN /\ keptAlive \in BOOLEAN
      /\ m_am_choking \in BOOLEAN /\ m_bitfield \subseteq BitfieldBits /\ outbox \in Seq(OutMsgs)
      /\ connection \in {"open", "closed", "reset"}
  BY DEF TypeInv, StateOK
<1>2. CASE ReceiveChoke
  <2>1. m_am_choking' \in BOOLEAN
    BY <1>2, Zenon DEF ReceiveChoke
  <2>2. QED
    BY <1>1, <1>2, <2>1, ReceivesTypes, AfterReceiveTypes, TypesKept DEF ReceiveChoke
<1>3. CASE ReceiveBitfield
  <2>1. m_bitfield' \subseteq BitfieldBits
    <3>1. Head(inbox) \in InMsgs /\ Head(inbox).type = "bitfield"
      BY <1>3, ReceivesTypes DEF ReceiveBitfield
    <3>2. Head(inbox).pieces = RemoteHas
      BY <3>1 DEF InMsgs, BlockType
    <3>3. QED
      BY <1>3, <3>2, Bits DEF ReceiveBitfield
  <2>2. outbox' \in Seq(OutMsgs) /\ connection' \in {"open", "closed", "reset"}
    BY <1>3, SendTypes, SentMessages DEF ReceiveBitfield
  <2>3. QED
    BY <1>1, <1>3, <2>1, <2>2, ReceivesTypes, AfterReceiveTypes, TypesKept DEF ReceiveBitfield
<1>4. CASE ReceiveHave
  <2>1. m_bitfield' \subseteq BitfieldBits
    BY <1>1, <1>4 DEF ReceiveHave, HaveBit
  <2>2. QED
    BY <1>1, <1>4, <2>1, ReceivesTypes, AfterReceiveTypes, TypesKept DEF ReceiveHave
<1>5. CASE ReceiveInterested
  BY <1>1, <1>5, ReceivesTypes, AfterReceiveTypes, TypesKept DEF ReceiveInterested
<1>6. ASSUME KeepAlive, inbox' \in Seq(InMsgs) PROVE TypeInv'
  <2>1. outbox' \in Seq(OutMsgs) /\ connection' \in {"open", "closed", "reset"}
    <3>1. CASE UNCHANGED <<outbox, connection>>
      BY <1>1, <3>1
    <3>2. CASE Send(<<Msg("keep_alive"), Msg("stray")>>)
      BY <3>2, SendTypes, SentMessages
    <3>3. QED
      BY <1>6, <3>1, <3>2 DEF KeepAlive
  <2>2. keptAlive' \in BOOLEAN /\ (~keptAlive /\ connection # "reset") \in BOOLEAN
    BY <1>6, Zenon DEF KeepAlive
  <2>3. QED
    BY <1>1, <1>6, <2>1, <2>2, AfterReceiveTypes, TypesKept DEF KeepAlive
<1>7. CASE ReceiveKeepAlive \/ ReceiveEof
  <2>1. inbox' \in Seq(InMsgs)
    BY <1>7, ReceivesTypes DEF ReceiveKeepAlive, ReceiveEof, TypeInv
  <2>2. QED
    BY <1>6, <1>7, <2>1 DEF ReceiveKeepAlive, ReceiveEof
<1>8. QED
  BY <1>2, <1>3, <1>4, <1>5, <1>7

LEMMA ReceivePieceTypes ==
  ASSUME TypeInv,
         ReceiveUnchoke \/ ReceiveBlock \/ ReceiveTornBlock \/ ReceiveUnread \/ ReceiveKeepAliveAndByte
  PROVE  TypeInv'
<1>1. /\ DownloadOK(m_download_piece) /\ m_socket_healthy \in BOOLEAN /\ keptAlive \in BOOLEAN
      /\ m_am_choking \in BOOLEAN /\ m_bitfield \subseteq BitfieldBits /\ outbox \in Seq(OutMsgs)
      /\ connection \in {"open", "closed", "reset"}
  BY DEF TypeInv, StateOK
<1>2. CASE ReceiveUnchoke
  <2>1. m_am_choking' \in BOOLEAN
    BY <1>2, Zenon DEF ReceiveUnchoke
  <2>2. PICK next \in DownloadNext(FALSE, m_download_piece) :
             AfterReceive(next[1], m_socket_healthy) /\ Send(next[2])
    BY <1>2 DEF ReceiveUnchoke
  <2>3. DownloadOK(next[1]) /\ (next[2] = << >> \/ next[2] = Requests(next[1]))
    BY <1>1, NextDownload
  <2>4. next[2] \in Seq(OutMsgs)
    BY <2>3, SentMessages, RequestsFields
  <2>5. outbox' \in Seq(OutMsgs) /\ connection' \in {"open", "closed", "reset"}
    BY <2>2, <2>4, SendTypes
  <2>6. QED
    BY <1>1, <1>2, <2>1, <2>2, <2>3, <2>5, ReceivesTypes, AfterReceiveTypes, TypesKept DEF ReceiveUnchoke
<1>3. CASE ReceiveBlock
  <2> DEFINE dp == Stored(m_download_piece, Head(inbox))
  <2>1. Head(inbox) \in BlockType
    <3>1. Head(inbox) \in InMsgs /\ Head(inbox).type = "block"
      BY <1>3, ReceivesTypes DEF ReceiveBlock
    <3>2. QED
      BY <3>1 DEF InMsgs
  <2>2. DownloadOK(dp)
    BY <1>1, <2>1, StoredFields
  <2> HIDE DEF dp
  <2>3. /\ AfterReceive(dp, m_socket_healthy)
        /\ Send(IF Complete(dp) THEN <<Msg("have"), Msg("interested")>> ELSE << >>)
    BY <1>3 DEF ReceiveBlock, dp
  <2>4. outbox' \in Seq(OutMsgs) /\ connection' \in {"open", "closed", "reset"}
    BY <2>3, SendTypes, SentMessages
  <2>5. QED
    BY <1>1, <1>3, <2>2, <2>3, <2>4, ReceivesTypes, AfterReceiveTypes, TypesKept DEF ReceiveBlock
<1>4. CASE ReceiveTornBlock \/ ReceiveUnread \/ ReceiveKeepAliveAndByte
  <2>1. /\ inbox' \in Seq(InMsgs) /\ pc' \in {"spin", "desync"}
        /\ UNCHANGED <<outbox, connection, m_bitfield, download, health, shared, remote>>
    BY <1>4, ReceivesTypes DEF ReceiveTornBlock, ReceiveUnread, ReceiveKeepAliveAndByte
  <2>2. QED
    BY <1>1, <2>1, TypesKept DEF download, health
<1>5. QED
  BY <1>2, <1>3, <1>4

LEMMA NotifyTypes == TypeInv /\ NotifyDownloadedPiece => TypeInv'
<1> SUFFICES ASSUME TypeInv, NotifyDownloadedPiece PROVE TypeInv'
  OBVIOUS
<1>1. DownloadOK(m_download_piece) /\ m_am_choking \in BOOLEAN
  BY DEF TypeInv, StateOK
<1>2. PICK next \in DownloadNext(m_am_choking, Emptied(m_download_piece)) :
           m_download_piece' = next[1] /\ Send(next[2])
  BY DEF NotifyDownloadedPiece, Emptied
<1>3. DownloadOK(next[1]) /\ (next[2] = << >> \/ next[2] = Requests(next[1]))
  BY <1>1, EmptiedFields, NextDownload
<1>4. next[2] \in Seq(OutMsgs)
  BY <1>3, SentMessages, RequestsFields
<1>5. outbox' \in Seq(OutMsgs) /\ connection' \in {"open", "closed", "reset"}
  BY <1>2, <1>4, SendTypes
<1>6. notified' \subseteq BitfieldBits
  BY <1>1 DEF NotifyDownloadedPiece, TypeInv, StateOK, DownloadOK, Downloads
<1>7. pc' \in {"receive", "exited"}
  BY DEF NotifyDownloadedPiece
<1>8. UNCHANGED <<inbox, m_bitfield, m_am_choking, health, m_bitfield_pieces, remote>>
  BY DEF NotifyDownloadedPiece
<1>9. StateOK'
  BY <1>6, <1>7, <1>8 DEF TypeInv, StateOK, health
<1>10. DownloadOK(m_download_piece)'
  BY <1>2, <1>3 DEF DownloadOK
<1>11. QED
  BY <1>5, <1>8, <1>9, <1>10 DEF TypeInv

LEMMA OthersTypes ==
  TypeInv /\ ((\E p \in BitfieldBits : MainMarks(p)) \/ SharedMemset \/ Tick) => TypeInv'
<1> SUFFICES ASSUME TypeInv, (\E p \in BitfieldBits : MainMarks(p)) \/ SharedMemset \/ Tick
             PROVE  TypeInv'
  OBVIOUS
<1>1. UNCHANGED <<inbox, outbox, connection, pc, m_bitfield, download, m_socket_healthy, remote>>
  BY DEF MainMarks, SharedMemset, Tick, health
<1>2. m_bitfield_pieces' \subseteq BitfieldBits /\ notified' \subseteq BitfieldBits
  BY DEF MainMarks, SharedMemset, Tick, shared, TypeInv, StateOK
<1>3. keptAlive' \in BOOLEAN
  BY Zenon DEF MainMarks, SharedMemset, Tick, health, TypeInv, StateOK
<1>4. QED
  BY <1>1, <1>2, <1>3 DEF TypeInv, StateOK, DownloadOK, download

-----------------------------------------------------------------------------
(* The remote's steps.                                                     *)

\* What the remote can put into the inbox, apart from its handshake.
RemoteMsgs == [type : {"bitfield"}, pieces : {RemoteHas}] \cup [type : {"have"}, piece : Pieces]
              \cup [type : {"choke", "unchoke", "interested", "keep_alive", "other"}]

\* A message that is no block, with the change of state that goes with it.
LEMMA RemoteTalks ==
  ASSUME TypeInv, RemoteAnnounces \/ RemoteUnchokes \/ RemoteChokes \/ RemoteChats
  PROVE  \E msg \in RemoteMsgs :
           /\ inbox' = Append(inbox, msg) /\ connection = "open"
           /\ UNCHANGED <<pc, m_bitfield, download, health, shared, outbox, connection>>
           /\ remote' \in Remotes
           /\ remote'.hash = remote.hash /\ remote'.reserved = remote.reserved
           /\ remote'.shaken = remote.shaken /\ remote'.interested = remote.interested
           /\ remote'.announced => remote.announced \/ remote.shaken
           /\ \/ msg.type \notin {"choke", "unchoke"} /\ remote'.choking = remote.choking
                 /\ remote'.chokes = remote.chokes
                 /\ (Quiet => msg.type = "bitfield")
                 /\ (remote.shaken \/ remote.announced)
              \/ msg.type = "unchoke" /\ remote.choking /\ ~remote'.choking
                 /\ remote'.chokes = remote.chokes /\ remote.interested
              \/ msg.type = "choke" /\ remote'.chokes = remote.chokes + 1 /\ ~Quiet /\ ~remote.choking
<1>0. remote \in Remotes
  BY DEF TypeInv
<1>1. CASE RemoteAnnounces
  <2>1. [type |-> "bitfield", pieces |-> RemoteHas] \in RemoteMsgs
    BY DEF RemoteMsgs
  <2>2. remote' \in Remotes /\ remote'.hash = remote.hash /\ remote'.reserved = remote.reserved
        /\ remote'.shaken = remote.shaken /\ remote'.interested = remote.interested
        /\ remote'.choking = remote.choking /\ remote'.chokes = remote.chokes /\ remote.shaken
    BY <1>0, <1>1 DEF RemoteAnnounces, Remotes
  <2>3. QED
    BY <1>1, <2>1, <2>2 DEF RemoteAnnounces, RemoteSends, RemoteOnly
<1>2. CASE RemoteUnchokes
  <2>1. Msg("unchoke") \in RemoteMsgs /\ Msg("unchoke").type = "unchoke"
    BY DEF RemoteMsgs, Msg
  <2>2. remote' \in Remotes /\ remote'.hash = remote.hash /\ remote'.reserved = remote.reserved
        /\ remote'.shaken = remote.shaken /\ remote'.interested = remote.interested
        /\ ~remote'.choking /\ remote'.chokes = remote.chokes /\ remote'.announced = remote.announced
    BY <1>0, <1>2 DEF RemoteUnchokes, Remotes
  <2>3. QED
    BY <1>2, <2>1, <2>2 DEF RemoteUnchokes, RemoteSends, RemoteOnly
<1>3. CASE RemoteChokes
  <2>1. Msg("choke") \in RemoteMsgs /\ Msg("choke").type = "choke"
    BY DEF RemoteMsgs, Msg
  <2>2. remote' \in Remotes /\ remote'.hash = remote.hash /\ remote'.reserved = remote.reserved
        /\ remote'.shaken = remote.shaken /\ remote'.interested = remote.interested
        /\ remote'.chokes = remote.chokes + 1 /\ remote'.announced = remote.announced
    <3> DEFINE r == [remote EXCEPT !.choking = TRUE]
    <3>1. remote' = [r EXCEPT !.chokes = remote.chokes + 1]
      BY <1>3 DEF RemoteChokes
    <3>2. r \in Remotes /\ r.hash = remote.hash /\ r.reserved = remote.reserved
          /\ r.shaken = remote.shaken /\ r.interested = remote.interested /\ remote.chokes \in Nat
          /\ r.announced = remote.announced
      BY <1>0 DEF Remotes
    <3> HIDE DEF r
    <3>3. QED
      BY <3>1, <3>2 DEF Remotes
  <2>3. QED
    BY <1>3, <2>1, <2>2 DEF RemoteChokes, RemoteSends, RemoteOnly
<1>4. CASE RemoteChats
  <2>1. PICK msg \in RemoteMsgs : /\ msg.type \notin {"choke", "unchoke"} /\ RemoteSends(msg)
    <3>1. \A p \in Pieces : /\ [type |-> "have", piece |-> p] \in RemoteMsgs
                            /\ [type |-> "have", piece |-> p].type = "have"
      BY DEF RemoteMsgs
    <3>2. \A type \in {"interested", "keep_alive", "other"} : Msg(type) \in RemoteMsgs /\ Msg(type).type = type
      BY DEF RemoteMsgs, Msg
    <3>3. QED
      BY <1>4, <3>1, <3>2 DEF RemoteChats
  <2>2. QED
    BY <1>0, <1>4, <2>1 DEF RemoteChats, RemoteSends, RemoteOnly
<1>5. QED
  BY <1>1, <1>2, <1>3, <1>4

\* The remote reads one message: a request it can serve becomes a block, the
\* handshake is answered, anything else vanishes.
LEMMA RemoteReadsShape ==
  ASSUME TypeInv, RemoteReads
  PROVE  LET msg == Head(outbox) IN
         /\ connection = "open" /\ outbox # << >> /\ outbox' = Tail(outbox) /\ msg \in OutMsgs
         /\ UNCHANGED <<pc, m_bitfield, download, health, shared>>
         /\ remote' \in Remotes
         /\ remote'.hash = remote.hash /\ remote'.reserved = remote.reserved
         /\ remote'.choking = remote.choking /\ remote'.chokes = remote.chokes
         /\ remote'.announced = remote.announced
         /\ remote'.shaken <=> remote.shaken \/ msg.type = "handshake"
         /\ remote'.interested <=> remote.interested \/ msg.type = "interested"
         /\ connection' = IF msg.type = "stray" THEN "closed" ELSE "open"
         /\ \/ /\ msg.type = "request" /\ ~remote.choking /\ msg.piece \in RemoteHas
               /\ inbox' = Append(inbox, Block(msg.piece, msg.offset))
            \/ msg.type = "handshake" /\ inbox' = inbox \o <<Hello, Msg("peer_id")>>
            \/ /\ msg.type # "handshake" /\ inbox' = inbox
               /\ msg.type = "request" =>
                    remote.choking \/ msg.piece \notin RemoteHas \/ ~(msg.offset < PieceBlocks)
<1> DEFINE msg == Head(outbox)
           serves == /\ msg.type = "request" /\ ~remote.choking
                     /\ msg.piece \in RemoteHas /\ msg.offset < PieceBlocks
           r == [remote EXCEPT !.interested = remote.interested \/ msg.type = "interested"]
<1>1. remote \in Remotes /\ outbox # << >> /\ outbox \in Seq(OutMsgs)
  BY DEF TypeInv, RemoteReads
<1>2. msg \in OutMsgs
  BY <1>1, HeadTailProperties
<1>3. /\ inbox' = CASE serves -> Append(inbox, Block(msg.piece, msg.offset))
                    [] msg.type = "handshake" -> inbox \o <<Hello, Msg("peer_id")>>
                    [] OTHER -> inbox
      /\ connection' = IF msg.type = "stray" THEN "closed" ELSE "open"
      /\ connection = "open" /\ outbox' = Tail(outbox)
      /\ UNCHANGED <<pc, m_bitfield, download, health, shared>>
  BY DEF RemoteReads, RemoteOnly
<1>4. remote' = [r EXCEPT !.shaken = remote.shaken \/ msg.type = "handshake"]
  BY DEF RemoteReads
<1> HIDE DEF msg
<1>5. /\ r \in Remotes /\ r.hash = remote.hash /\ r.reserved = remote.reserved
      /\ r.choking = remote.choking /\ r.chokes = remote.chokes
      /\ r.announced = remote.announced /\ r.shaken = remote.shaken
      /\ r.interested <=> remote.interested \/ msg.type = "interested"
  <2>1. (remote.interested \/ msg.type = "interested") \in BOOLEAN
    OBVIOUS
  <2>2. QED
    BY <1>1, <2>1 DEF Remotes
<1> HIDE DEF r
<1>6. /\ remote' \in Remotes /\ remote'.hash = remote.hash /\ remote'.reserved = remote.reserved
      /\ remote'.choking = remote.choking /\ remote'.chokes = remote.chokes
      /\ remote'.announced = remote.announced
      /\ remote'.shaken <=> remote.shaken \/ msg.type = "handshake"
      /\ remote'.interested <=> remote.interested \/ msg.type = "interested"
  <2>1. (remote.shaken \/ msg.type = "handshake") \in BOOLEAN
    OBVIOUS
  <2>2. QED
    BY <1>4, <1>5, <2>1 DEF Remotes
<1>7. \/ /\ msg.type = "request" /\ ~remote.choking /\ msg.piece \in RemoteHas
         /\ inbox' = Append(inbox, Block(msg.piece, msg.offset))
      \/ msg.type = "handshake" /\ inbox' = inbox \o <<Hello, Msg("peer_id")>>
      \/ /\ msg.type # "handshake" /\ inbox' = inbox
         /\ msg.type = "request" =>
              remote.choking \/ msg.piece \notin RemoteHas \/ ~(msg.offset < PieceBlocks)
  BY <1>3
<1>8. QED
  BY <1>1, <1>2, <1>3, <1>6, <1>7 DEF msg

LEMMA RemoteClosesShape ==
  ASSUME TypeInv, RemoteCloses
  PROVE  /\ connection = "open" /\ connection' = "closed" /\ ~Quiet
         /\ UNCHANGED <<pc, m_bitfield, download, health, shared, outbox, remote>>
         /\ \/ UNCHANGED inbox
            \/ /\ Len(inbox) \in Nat \ {0} /\ inbox[Len(inbox)].type = "block"
               /\ inbox' \in Seq(InMsgs) /\ Len(inbox') = Len(inbox)
               /\ \A k \in 1..(Len(inbox) - 1) : inbox'[k] = inbox[k]
               /\ inbox'[Len(inbox)].type = "torn"
<1>1. /\ connection = "open" /\ connection' = "closed" /\ ~Quiet
      /\ UNCHANGED <<pc, m_bitfield, download, health, shared, outbox, remote>>
  BY DEF RemoteCloses, RemoteOnly
<1>2. inbox \in Seq(InMsgs)
  BY DEF TypeInv
<1>3. ASSUME inbox # << >>, Last(inbox).type = "block",
             inbox' = [inbox EXCEPT ![Len(inbox)] = [Last(inbox) EXCEPT !.type = "torn"]]
      PROVE  /\ Len(inbox) \in Nat \ {0} /\ inbox[Len(inbox)].type = "block"
             /\ inbox' \in Seq(InMsgs) /\ Len(inbox') = Len(inbox)
             /\ \A k \in 1..(Len(inbox) - 1) : inbox'[k] = inbox[k]
             /\ inbox'[Len(inbox)].type = "torn"
  <2> DEFINE n == Len(inbox)
             m == [Last(inbox) EXCEPT !.type = "torn"]
  <2>1. n \in Nat \ {0}
    BY <1>2, <1>3, EmptySeq
  <2>2. Last(inbox) = inbox[n] /\ inbox[n] \in InMsgs
    BY <1>2, <2>1, ElementOfSeq DEF Last
  <2>3. inbox[n] \in BlockType
    BY <1>3, <2>2 DEF InMsgs
  <2>4. m \in BlockType /\ m.type = "torn"
    BY <2>2, <2>3 DEF BlockType
  <2>5. m \in InMsgs
    BY <2>4 DEF InMsgs
  <2> HIDE DEF m
  <2>6. inbox' = [inbox EXCEPT ![n] = m]
    BY <1>3 DEF m
  <2>7. /\ inbox' \in Seq(InMsgs) /\ Len(inbox') = n
        /\ \A j \in 1..n : inbox'[j] = IF j = n THEN m ELSE inbox[j]
    BY <1>2, <2>1, <2>5, <2>6, ExceptSeq
  <2> HIDE DEF n
  <2>8. (\A k \in 1..(n - 1) : inbox'[k] = inbox[k]) /\ inbox'[n] = m
    BY <2>1, <2>7
  <2>9. QED
    BY <1>3, <2>1, <2>2, <2>4, <2>7, <2>8 DEF n
<1>4. QED
  BY <1>1, <1>3 DEF RemoteCloses

LEMMA RemoteTypes == TypeInv /\ RemoteStep => TypeInv'
<1> SUFFICES ASSUME TypeInv, RemoteStep PROVE TypeInv'
  OBVIOUS
<1>0. inbox \in Seq(InMsgs) /\ outbox \in Seq(OutMsgs) /\ remote \in Remotes
  BY DEF TypeInv
<1>1. ASSUME inbox' \in Seq(InMsgs), outbox' \in Seq(OutMsgs), connection' \in {"open", "closed"},
             remote' \in Remotes, UNCHANGED <<pc, m_bitfield, download, health, shared>>
      PROVE  TypeInv'
  BY <1>1 DEF TypeInv, StateOK, DownloadOK, download, health, shared
<1>2. CASE RemoteAnnounces \/ RemoteUnchokes \/ RemoteChokes \/ RemoteChats
  <2>1. PICK msg \in RemoteMsgs :
          /\ inbox' = Append(inbox, msg) /\ connection = "open" /\ remote' \in Remotes
          /\ UNCHANGED <<pc, m_bitfield, download, health, shared, outbox, connection>>
    BY <1>2, RemoteTalks
  <2>2. msg \in InMsgs
    BY DEF RemoteMsgs, InMsgs
  <2>3. inbox' \in Seq(InMsgs)
    BY <1>0, <2>1, <2>2, AppendProperties
  <2>4. QED
    BY <1>0, <1>1, <2>1, <2>3
<1>3. CASE RemoteReads
  <2> DEFINE msg == Head(outbox)
  <2>1. /\ connection = "open" /\ outbox # << >> /\ outbox' = Tail(outbox) /\ msg \in OutMsgs
        /\ UNCHANGED <<pc, m_bitfield, download, health, shared>> /\ remote' \in Remotes
        /\ connection' = IF msg.type = "stray" THEN "closed" ELSE "open"
    BY <1>3, RemoteReadsShape
  <2>2. \/ msg.type = "request" /\ inbox' = Append(inbox, Block(msg.piece, msg.offset))
        \/ inbox' = inbox \o <<Hello, Msg("peer_id")>>
        \/ inbox' = inbox
    BY <1>3, RemoteReadsShape
  <2> HIDE DEF msg
  <2>3. inbox' \in Seq(InMsgs)
    <3>1. ASSUME msg.type = "request" PROVE Append(inbox, Block(msg.piece, msg.offset)) \in Seq(InMsgs)
      <4>1. msg.piece \in BitfieldBits /\ msg.offset \in Nat
        BY <2>1, <3>1 DEF OutMsgs
      <4>2. msg.piece \in Nat
        BY <4>1, Bits, PeerAssumption DEF BitfieldBits, PeerAssumption
      <4>3. Block(msg.piece, msg.offset) \in InMsgs
        BY <4>1, <4>2 DEF Block, InMsgs, BlockType
      <4>4. QED
        BY <1>0, <4>3, AppendProperties
    <3>2. inbox \o <<Hello, Msg("peer_id")>> \in Seq(InMsgs)
      <4>1. Hello \in InMsgs /\ Msg("peer_id") \in InMsgs
        BY <1>0 DEF Hello, Msg, InMsgs, Remotes
      <4>2. <<Hello, Msg("peer_id")>> \in Seq(InMsgs)
        BY <4>1
      <4>3. QED
        BY <1>0, <4>2, ConcatProperties
    <3>3. QED
      BY <1>0, <2>2, <3>1, <3>2
  <2>4. outbox' \in Seq(OutMsgs)
    BY <1>0, <2>1, HeadTailProperties
  <2>5. QED
    BY <1>1, <2>1, <2>3, <2>4
<1>4. CASE RemoteCloses
  <2>1. /\ connection' = "closed"
        /\ UNCHANGED <<pc, m_bitfield, download, health, shared, outbox, remote>>
        /\ UNCHANGED inbox \/ inbox' \in Seq(InMsgs)
    BY <1>4, RemoteClosesShape
  <2>2. QED
    BY <1>0, <1>1, <2>1
<1>5. QED
  BY <1>2, <1>3, <1>4 DEF RemoteStep

LEMMA InitTypes == Init => TypeInv
<1> SUFFICES ASSUME Init PROVE TypeInv
  OBVIOUS
<1>1. << >> \in Seq(InMsgs) /\ << >> \in Seq(OutMsgs)
  BY EmptySeq
<1>2. remote \in Remotes
  <2> DEFINE F == {FALSE}
             T == {TRUE}
  <2>1. remote \in [hash : RemoteHashes, reserved : BOOLEAN, shaken : F, announced : F,
                    choking : T, interested : F, chokes : {0}]
    BY Zenon DEF Init
  <2>2. F \subseteq BOOLEAN /\ T \subseteq BOOLEAN
    BY Zenon
  <2> HIDE DEF F, T
  <2>3. QED
    BY <2>1, <2>2 DEF Remotes
<1>3. m_am_choking \in BOOLEAN /\ m_socket_healthy \in BOOLEAN /\ keptAlive \in BOOLEAN
  BY Zenon DEF Init
<1>4. DownloadOK(m_download_piece)
  BY NoDownloadFields DEF Init
<1>5. QED
  BY <1>1, <1>2, <1>3, <1>4 DEF Init, TypeInv, StateOK, Handshaking

LEMMA TypesInvariant == Spec => []TypeInv
<1>1. TypeInv /\ UNCHANGED vars => TypeInv'
  BY DEF vars, download, health, shared, TypeInv, StateOK, DownloadOK
<1>2. TypeInv /\ [Next]_vars => TypeInv'
  BY <1>1, HandshakeTypes, ReceiveOtherTypes, ReceivePieceTypes, NotifyTypes, OthersTypes, RemoteTypes
     DEF Next, Work
<1>3. QED
  BY <1>2, InitTypes, PTL DEF Spec

\* Every variable of a download process keeps its type, for every number of
\* pieces and every width of a byte: the bits of a bitfield read in the wrong
\* order still lie inside it, and so does what is asked for.
THEOREM PeerTypes == Spec => []TypeOK
  BY TypeInvTypes, TypesInvariant, PTL

-----------------------------------------------------------------------------
(* What is sent.                                                           *)

\* Messages that ask for nothing.
Plain(msgs) ==
  /\ msgs \in Seq(OutMsgs)
  /\ \A k \in 1..Len(msgs) : msgs[k].type \in {"interested", "have", "keep_alive", "stray"}

LEMMA PlainMessages ==
  /\ Plain(<< >>) /\ Plain(<<Msg("interested")>>) /\ Plain(<<Msg("have"), Msg("interested")>>)
  /\ Plain(<<Msg("keep_alive"), Msg("stray")>>)
<1>1. Plain(<< >>)
  BY SentMessages, EmptySeq DEF Plain
<1>2. \A x \in {"interested", "have", "keep_alive", "stray"} : Msg(x).type = x
  BY DEF Msg
<1> HIDE DEF Msg
<1>3. QED
  BY <1>1, <1>2, SentMessages DEF Plain

LEMMA SendShape ==
  ASSUME TypeInv, NEW msgs \in Seq(OutMsgs), Send(msgs)
  PROVE  /\ outbox' = outbox \/ (connection = "open" /\ outbox' = outbox \o msgs)
         /\ connection = "open" => outbox' = outbox \o msgs
         /\ connection' = "open" <=> connection = "open"
  BY DEF Send, Sent, TypeInv

LEMMA SendNothing ==
  ASSUME TypeInv, UNCHANGED <<outbox, connection>>
  PROVE  Send(<< >>)
<1>1. outbox \o << >> = outbox
  BY ConcatEmptySeq DEF TypeInv
<1>2. QED
  BY <1>1 DEF Send, Sent

\* All that work() does, but for an unchoke and a notification, sends messages
\* that ask for nothing.  A stray byte goes out with a keep-alive only.
PlainWork ==
  \/ ReceiveChoke \/ ReceiveBitfield \/ ReceiveHave \/ ReceiveInterested \/ ReceiveBlock
  \/ ReceiveTornBlock \/ ReceiveUnread \/ ReceiveKeepAlive \/ ReceiveKeepAliveAndByte
  \/ ReceiveEof

LEMMA PlainWorkSends ==
  ASSUME TypeInv, PlainWork
  PROVE  \E msgs : /\ Plain(msgs) /\ Send(msgs)
                   /\ (\E k \in 1..Len(msgs) : msgs[k].type = "stray") => ReceiveKeepAlive \/ ReceiveEof
<1>1. CASE \/ ReceiveChoke \/ ReceiveHave \/ ReceiveInterested \/ ReceiveTornBlock
           \/ ReceiveUnread \/ ReceiveKeepAliveAndByte
  <2>1. UNCHANGED <<outbox, connection>>
    BY <1>1 DEF ReceiveChoke, ReceiveHave, ReceiveInterested, ReceiveTornBlock, ReceiveUnread,
                ReceiveKeepAliveAndByte
  <2>2. Send(<< >>) /\ ~\E k \in 1..Len(<< >>) : << >>[k].type = "stray"
    BY <2>1, SendNothing, EmptySeq
  <2>3. QED
    BY <2>2, PlainMessages
<1>2. CASE ReceiveBitfield
  <2>1. Msg("interested").type = "interested"
    BY DEF Msg
  <2>2. ~\E k \in 1..Len(<<Msg("interested")>>) : <<Msg("interested")>>[k].type = "stray"
    BY <2>1
  <2>3. QED
    BY <1>2, <2>2, PlainMessages DEF ReceiveBitfield
<1>3. CASE ReceiveBlock
  <2> DEFINE ms == <<Msg("have"), Msg("interested")>>
  <2>1. Msg("interested").type = "interested" /\ Msg("have").type = "have"
    BY DEF Msg
  <2>2. ~\E k \in 1..Len(ms) : ms[k].type = "stray"
    BY <2>1
  <2>3. ~\E k \in 1..Len(<< >>) : << >>[k].type = "stray"
    BY EmptySeq
  <2> HIDE DEF ms
  <2>4. Send(ms) \/ Send(<< >>)
    BY <1>3 DEF ReceiveBlock, ms
  <2>5. Plain(ms) /\ Plain(<< >>)
    BY PlainMessages DEF ms
  <2>6. QED
    BY <2>2, <2>3, <2>4, <2>5
<1>4. CASE ReceiveKeepAlive \/ ReceiveEof
  <2>1. UNCHANGED <<outbox, connection>> \/ Send(<<Msg("keep_alive"), Msg("stray")>>)
    BY <1>4 DEF ReceiveKeepAlive, ReceiveEof, KeepAlive
  <2>2. QED
    BY <1>4, <2>1, SendNothing, PlainMessages
<1>5. QED
  BY <1>1, <1>2, <1>3, <1>4 DEF PlainWork

\* An unchoke, or a notification: the piece that is left and what is asked for.
LEMMA AskingWork ==
  ASSUME TypeInv, ReceiveUnchoke \/ NotifyDownloadedPiece
  PROVE  \E dp, next :
           /\ dp = IF ReceiveUnchoke THEN m_download_piece ELSE Emptied(m_download_piece)
           /\ m_download_piece' = next[1] /\ Send(next[2]) /\ next[2] \in Seq(OutMsgs)
           /\ DownloadOK(dp) /\ DownloadOK(next[1])
           /\ \/ next[1] = dp /\ (next[2] = << >> \/ next[2] = Requests(dp))
              \/ ~dp.exists /\ next[2] = Requests(next[1]) /\ \E p \in m_bitfield : next[1] = Fresh(p)
           /\ m_am_choking' => next[2] = << >>
           /\ next[1] = dp /\ ~dp.exists => next[2] = << >>
<1>0. DownloadOK(m_download_piece) /\ m_am_choking \in BOOLEAN
  BY DEF TypeInv, StateOK
<1>1. CASE ReceiveUnchoke
  <2>1. PICK next \in DownloadNext(FALSE, m_download_piece) :
             AfterReceive(next[1], m_socket_healthy) /\ Send(next[2])
    BY <1>1 DEF ReceiveUnchoke
  <2> DEFINE dp == m_download_piece
  <2>2. /\ DownloadOK(next[1])
        /\ \/ next[1] = dp /\ (next[2] = << >> \/ next[2] = Requests(dp))
           \/ ~dp.exists /\ next[2] = Requests(next[1]) /\ \E p \in m_bitfield : next[1] = Fresh(p)
        /\ next[1] = dp /\ ~dp.exists => next[2] = << >>
    BY <1>0, NextDownload
  <2>3. next[2] \in Seq(OutMsgs)
    BY <1>0, <2>2, SentMessages, RequestsFields
  <2>4. m_download_piece' = next[1] /\ ~m_am_choking'
    BY <1>1, <2>1 DEF AfterReceive, ReceiveUnchoke
  <2>5. QED
    BY <1>0, <1>1, <2>1, <2>2, <2>3, <2>4
<1>2. CASE ~ReceiveUnchoke /\ NotifyDownloadedPiece
  <2> DEFINE dp == Emptied(m_download_piece)
  <2>1. PICK next \in DownloadNext(m_am_choking, dp) : m_download_piece' = next[1] /\ Send(next[2])
    BY <1>2 DEF NotifyDownloadedPiece, Emptied
  <2>2. DownloadOK(dp)
    BY <1>0, EmptiedFields
  <2> HIDE DEF dp
  <2>3. /\ DownloadOK(next[1])
        /\ \/ next[1] = dp /\ (next[2] = << >> \/ next[2] = Requests(dp))
           \/ ~dp.exists /\ next[2] = Requests(next[1]) /\ \E p \in m_bitfield : next[1] = Fresh(p)
        /\ next[1] = dp /\ ~dp.exists => next[2] = << >>
        /\ m_am_choking => next = <<dp, << >>>>
    BY <1>0, <2>1, <2>2, NextDownload
  <2>4. next[2] \in Seq(OutMsgs)
    BY <2>2, <2>3, SentMessages, RequestsFields
  <2>5. m_am_choking' => next[2] = << >>
    BY <1>2, <2>3 DEF NotifyDownloadedPiece
  <2>6. dp = IF ReceiveUnchoke THEN m_download_piece ELSE Emptied(m_download_piece)
    BY <1>2 DEF dp
  <2>7. QED
    BY <2>1, <2>2, <2>3, <2>4, <2>5, <2>6
<1>3. QED
  BY <1>1, <1>2

\* No step asks for a block while the remote's last word, as far as it is read,
\* is a choke: only an unchoke and a notification ask, and download_next_piece
\* looks at m_am_choking first.
THEOREM NeverRequestsWhileChoked == Spec => NoRequestWhileChoked
<1> DEFINE Asks == \E k \in DOMAIN outbox' \ DOMAIN outbox : outbox'[k].type = "request"
<1>1. ASSUME TypeInv, NEW msgs \in Seq(OutMsgs), Send(msgs),
             \A k \in 1..Len(msgs) : msgs[k].type # "request"
      PROVE  ~Asks
  <2>1. outbox' = outbox \/ outbox' = outbox \o msgs
    BY <1>1, SendShape
  <2>2. ASSUME outbox' = outbox \o msgs PROVE ~Asks
    <3> DEFINE n == Len(outbox)
               m == Len(msgs)
    <3>1. /\ n \in Nat /\ m \in Nat /\ DOMAIN outbox = 1..n /\ DOMAIN outbox' = 1..(n + m)
          /\ \A k \in 1..(n + m) : outbox'[k] = IF k <= n THEN outbox[k] ELSE msgs[k - n]
      BY <1>1, <2>2, LenProperties, ConcatProperties DEF TypeInv
    <3>2. \A k \in 1..m : msgs[k].type # "request"
      BY <1>1
    <3> HIDE DEF n, m
    <3>3. ASSUME NEW k \in DOMAIN outbox' \ DOMAIN outbox PROVE outbox'[k].type # "request"
      <4>1. k \in 1..(n + m) /\ ~(k <= n) /\ k - n \in 1..m
        BY <3>1
      <4>2. QED
        BY <3>1, <3>2, <4>1
    <3>4. QED
      BY <3>3
  <2>3. QED
    BY <2>1, <2>2
<1>2. ASSUME TypeInv, [Next]_vars, m_am_choking' PROVE ~Asks
  <2>1. CASE UNCHANGED outbox
    BY <2>1
  <2>2. CASE HandshakeSends
    <3>1. Msg("handshake").type = "handshake"
      BY DEF Msg
    <3>2. \A k \in 1..Len(<<Msg("handshake")>>) : <<Msg("handshake")>>[k].type # "request"
      BY <3>1
    <3>3. QED
      BY <1>1, <1>2, <2>2, <3>2, SentMessages DEF HandshakeSends
  <2>3. CASE PlainWork
    <3>1. PICK msgs : Plain(msgs) /\ Send(msgs)
      BY <1>2, <2>3, PlainWorkSends
    <3>2. QED
      BY <1>1, <1>2, <3>1 DEF Plain
  <2>4. CASE ReceiveUnchoke \/ NotifyDownloadedPiece
    <3>1. Send(<< >>)
      BY <1>2, <2>4, AskingWork
    <3>2. << >> \in Seq(OutMsgs) /\ \A k \in 1..Len(<< >>) : << >>[k].type # "request"
      BY EmptySeq
    <3>3. QED
      BY <1>1, <1>2, <3>1, <3>2
  <2>5. CASE RemoteReads
    <3>1. outbox # << >> /\ outbox' = Tail(outbox) /\ outbox \in Seq(OutMsgs)
      BY <1>2, <2>5 DEF RemoteReads, TypeInv
    <3>2. Len(outbox) \in Nat /\ DOMAIN outbox = 1..Len(outbox) /\ DOMAIN outbox' = 1..(Len(outbox) - 1)
      BY <3>1, HeadTailProperties, LenProperties, EmptySeq
    <3>3. QED
      BY <3>2
  <2>6. CASE \/ HandshakeReceives \/ HandshakeEof \/ HandshakeFails \/ (\E p \in BitfieldBits : MainMarks(p))
             \/ SharedMemset \/ Tick \/ RemoteAnnounces \/ RemoteUnchokes \/ RemoteChokes \/ RemoteChats
             \/ RemoteCloses \/ UNCHANGED vars
    BY <2>1, <2>6 DEF HandshakeReceives, HandshakeEof, HandshakeFails, MainMarks, SharedMemset, Tick,
       RemoteAnnounces, RemoteUnchokes, RemoteChokes, RemoteChats, RemoteCloses, vars
  <2>7. QED
    BY <1>2, <2>2, <2>3, <2>4, <2>5, <2>6 DEF Next, Work, Handshake, RemoteStep, PlainWork
<1>3. TypeInv /\ [Next]_vars =>
        [m_am_choking' => \A k \in DOMAIN outbox' \ DOMAIN outbox : outbox'[k].type # "request"]_vars
  BY <1>2
<1>4. QED
  BY <1>3, TypesInvariant, PTL DEF Spec, NoRequestWhileChoked

-----------------------------------------------------------------------------
(* Requests and blocks in a queue.                                         *)

Has(s, type) == \E k \in 1..Len(s) : s[k].type = type

\* The messages of this type in s ask for, or carry, the blocks lo to hi - 1 of
\* the piece, each once and in order.
Ordered(s, type, p, lo, hi) ==
  /\ \A k \in 1..Len(s) : s[k].type = type => s[k].piece = p /\ s[k].offset \in lo..(hi - 1)
  /\ \A j, k \in 1..Len(s) : s[j].type = type /\ s[k].type = type /\ j < k =>
                               s[j].offset < s[k].offset
  /\ \A o \in lo..(hi - 1) : \E k \in 1..Len(s) : s[k].type = type /\ s[k].offset = o

Once(s, type) == \A j, k \in 1..Len(s) : s[j].type = type /\ s[k].type = type => j = k

LEMMA OrderedNone ==
  ASSUME NEW s, NEW type, NEW p, NEW lo \in Int
  PROVE  Ordered(s, type, p, lo, lo) <=> ~Has(s, type)
  BY DEF Ordered, Has

\* In a tail every message moves up by one.
LEMMA TailShift ==
  ASSUME NEW S, NEW s \in Seq(S), s # << >>
  PROVE  /\ Len(s) \in Nat \ {0} /\ Len(Tail(s)) = Len(s) - 1 /\ Head(s) = s[1]
         /\ \A k \in 1..(Len(s) - 1) : Tail(s)[k] = s[k + 1]
  BY HeadTailProperties, EmptySeq

LEMMA TailHas ==
  ASSUME NEW S, NEW s \in Seq(S), s # << >>, NEW type
  PROVE  /\ Has(Tail(s), type) => Has(s, type)
         /\ Once(s, type) => Once(Tail(s), type)
         /\ Once(s, type) /\ Head(s).type = type => ~Has(Tail(s), type)
         /\ Head(s).type = type => Has(s, type)
<1> DEFINE n == Len(s)
           t == Tail(s)
<1>1. /\ n \in Nat \ {0} /\ Len(t) = n - 1 /\ Head(s) = s[1]
      /\ \A k \in 1..(n - 1) : t[k] = s[k + 1]
  BY TailShift
<1> HIDE DEF n, t
<1>2. \A k \in 1..Len(t) : t[k] = s[k + 1] /\ k + 1 \in 1..n /\ k + 1 # 1 /\ k \in Int
  BY <1>1
<1>3. 1 \in 1..n
  BY <1>1
<1>4. Has(t, type) => Has(s, type)
  BY <1>2 DEF Has, n
<1>5. Once(s, type) => Once(t, type)
  <2> SUFFICES ASSUME Once(s, type), NEW j \in 1..Len(t), NEW k \in 1..Len(t),
                      t[j].type = type, t[k].type = type
               PROVE  j = k
    BY DEF Once
  <2>1. j + 1 = k + 1 /\ j \in Int /\ k \in Int
    BY <1>2 DEF Once, n
  <2>2. QED
    BY <2>1
<1>6. Once(s, type) /\ Head(s).type = type => ~Has(t, type)
  BY <1>1, <1>2, <1>3 DEF Once, Has, n
<1>7. QED
  BY <1>1, <1>3, <1>4, <1>5, <1>6 DEF Has, n, t

LEMMA TailOrdered ==
  ASSUME NEW S, NEW s \in Seq(S), s # << >>, NEW type, NEW p, NEW lo \in Int, NEW hi \in Int,
         Ordered(s, type, p, lo, hi)
  PROVE  /\ Head(s).type # type => Ordered(Tail(s), type, p, lo, hi)
         /\ Head(s).type = type => /\ Head(s).piece = p /\ Head(s).offset = lo /\ lo < hi
                                   /\ Ordered(Tail(s), type, p, lo + 1, hi)
<1> DEFINE n == Len(s)
           t == Tail(s)
<1>1. /\ n \in Nat \ {0} /\ Len(t) = n - 1 /\ Head(s) = s[1]
      /\ \A k \in 1..(n - 1) : t[k] = s[k + 1]
  BY TailShift
<1>2. /\ \A k \in 1..n : s[k].type = type => s[k].piece = p /\ s[k].offset \in lo..(hi - 1)
      /\ \A j, k \in 1..n : s[j].type = type /\ s[k].type = type /\ j < k => s[j].offset < s[k].offset
      /\ \A o \in lo..(hi - 1) : \E k \in 1..n : s[k].type = type /\ s[k].offset = o
  BY DEF Ordered
<1> HIDE DEF n, t
<1>3. \A k \in 1..Len(t) : t[k] = s[k + 1] /\ k + 1 \in 1..n /\ 1 < k + 1 /\ k \in Int
  BY <1>1
<1>4. \A k \in 1..n : k # 1 => k - 1 \in 1..Len(t) /\ t[k - 1] = s[k]
  BY <1>1
<1>5. 1 \in 1..n
  BY <1>1
<1>6. ASSUME NEW j \in 1..Len(t), NEW k \in 1..Len(t), t[j].type = type, t[k].type = type, j < k
      PROVE  t[j].offset < t[k].offset
  <2>1. t[j] = s[j + 1] /\ j + 1 \in 1..n /\ t[k] = s[k + 1] /\ k + 1 \in 1..n /\ j + 1 < k + 1
    BY <1>3, <1>6
  <2>2. QED
    BY <1>2, <1>6, <2>1
<1>7. ASSUME s[1].type # type PROVE Ordered(t, type, p, lo, hi)
  <2>1. \A k \in 1..Len(t) : t[k].type = type => t[k].piece = p /\ t[k].offset \in lo..(hi - 1)
    BY <1>2, <1>3
  <2>2. \A o \in lo..(hi - 1) : \E k \in 1..Len(t) : t[k].type = type /\ t[k].offset = o
    BY <1>2, <1>4, <1>7
  <2>3. QED
    BY <1>6, <2>1, <2>2 DEF Ordered
<1>8. ASSUME s[1].type = type
      PROVE  s[1].piece = p /\ s[1].offset = lo /\ lo < hi /\ Ordered(t, type, p, lo + 1, hi)
  <2>1. s[1].piece = p /\ s[1].offset \in lo..(hi - 1)
    BY <1>2, <1>5, <1>8
  <2>2. lo < hi /\ lo \in lo..(hi - 1)
    BY <2>1
  <2>3. PICK k \in 1..n : s[k].type = type /\ s[k].offset = lo
    BY <1>2, <2>2
  <2>4. s[1].offset = lo
    <3>1. CASE k = 1
      BY <2>3, <3>1
    <3>2. CASE k # 1
      <4>1. 1 < k
        BY <3>2
      <4>2. s[1].offset < lo
        BY <1>2, <1>5, <1>8, <2>3, <4>1
      <4>3. QED
        BY <2>1, <4>2
    <3>3. QED
      BY <3>1, <3>2
  <2>5. ASSUME NEW i \in 1..Len(t), t[i].type = type
        PROVE  t[i].piece = p /\ t[i].offset \in (lo + 1)..(hi - 1)
    <3>1. t[i].piece = p /\ t[i].offset \in lo..(hi - 1)
      BY <1>2, <1>3, <2>5
    <3>2. lo < t[i].offset
      BY <1>2, <1>3, <1>5, <1>8, <2>4, <2>5
    <3>3. QED
      BY <3>1, <3>2
  <2>6. ASSUME NEW o \in (lo + 1)..(hi - 1)
        PROVE  \E i \in 1..Len(t) : t[i].type = type /\ t[i].offset = o
    <3>1. o \in lo..(hi - 1) /\ o # lo
      OBVIOUS
    <3>2. PICK i \in 1..n : s[i].type = type /\ s[i].offset = o
      BY <1>2, <3>1
    <3>3. i # 1
      BY <2>4, <3>1, <3>2
    <3>4. QED
      BY <1>4, <3>2, <3>3
  <2>7. QED
    BY <1>6, <2>1, <2>2, <2>4, <2>5, <2>6 DEF Ordered
<1>9. QED
  BY <1>1, <1>7, <1>8 DEF t

\* Behind a concatenation come the messages of the second sequence.
LEMMA ConcatShift ==
  ASSUME NEW S, NEW s \in Seq(S), NEW T, NEW m \in Seq(T)
  PROVE  /\ Len(s) \in Nat /\ Len(m) \in Nat /\ Len(s \o m) = Len(s) + Len(m)
         /\ \A k \in 1..Len(s) : (s \o m)[k] = s[k]
         /\ \A k \in 1..(Len(s) + Len(m)) : k > Len(s) => k - Len(s) \in 1..Len(m) /\ (s \o m)[k] = m[k - Len(s)]
         /\ \A k \in 1..Len(m) : Len(s) + k \in 1..(Len(s) + Len(m)) /\ (s \o m)[Len(s) + k] = m[k]
<1> DEFINE a == Len(s)
           b == Len(m)
           t == s \o m
<1>1. /\ a \in Nat /\ b \in Nat /\ Len(t) = a + b
      /\ \A k \in 1..(a + b) : t[k] = IF k <= a THEN s[k] ELSE m[k - a]
  OBVIOUS
<1> HIDE DEF a, b, t
<1>2. \A k \in 1..a : t[k] = s[k]
  BY <1>1
<1>3. \A k \in 1..(a + b) : k > a => k - a \in 1..b /\ t[k] = m[k - a]
  BY <1>1
<1>4. ASSUME NEW k \in 1..b PROVE a + k \in 1..(a + b) /\ t[a + k] = m[k]
  <2>1. a + k \in 1..(a + b) /\ ~(a + k <= a) /\ (a + k) - a = k
    BY <1>1
  <2> DEFINE q == a + k
  <2> HIDE DEF q
  <2>2. t[q] = m[q - a]
    BY <1>1, <2>1 DEF q
  <2>3. QED
    BY <2>1, <2>2 DEF q
<1>5. QED
  BY <1>1, <1>2, <1>3, <1>4 DEF a, b, t

\* Messages of other types behind a sequence.
LEMMA ConcatOthers ==
  ASSUME NEW S, NEW s \in Seq(S), NEW T, NEW m \in Seq(T), NEW type, ~Has(m, type)
  PROVE  /\ Has(s \o m, type) <=> Has(s, type)
         /\ Once(s, type) => Once(s \o m, type)
         /\ \A p : \A lo, hi \in Int : Ordered(s, type, p, lo, hi) => Ordered(s \o m, type, p, lo, hi)
<1> DEFINE a == Len(s)
           b == Len(m)
           t == s \o m
<1>1. /\ a \in Nat /\ b \in Nat /\ Len(t) = a + b
      /\ \A k \in 1..a : t[k] = s[k]
      /\ \A k \in 1..(a + b) : k > a => k - a \in 1..b /\ t[k] = m[k - a]
  BY ConcatShift
<1>2. \A k \in 1..b : m[k].type # type
  BY DEF Has
<1> HIDE DEF a, b, t
<1>3. \A k \in 1..Len(t) : t[k].type = type => k \in 1..a /\ t[k] = s[k]
  <2> SUFFICES ASSUME NEW k \in 1..Len(t), t[k].type = type PROVE k \in 1..a /\ t[k] = s[k]
    OBVIOUS
  <2>1. k \in 1..(a + b) /\ ~(k > a)
    BY <1>1, <1>2
  <2>2. QED
    BY <1>1, <2>1
<1>4. \A k \in 1..a : k \in 1..Len(t) /\ t[k] = s[k]
  BY <1>1
<1>5. Has(t, type) <=> Has(s, type)
  BY <1>3, <1>4 DEF Has, a
<1>6. Once(s, type) => Once(t, type)
  BY <1>3 DEF Once, a
<1>7. ASSUME NEW p, NEW lo \in Int, NEW hi \in Int, Ordered(s, type, p, lo, hi)
      PROVE  Ordered(t, type, p, lo, hi)
  BY <1>3, <1>4, <1>7 DEF Ordered, a
<1>8. QED
  BY <1>5, <1>6, <1>7 DEF t

LEMMA AppendOthers ==
  ASSUME NEW S, NEW s \in Seq(S), NEW m \in S, NEW type, m.type # type
  PROVE  /\ Has(Append(s, m), type) <=> Has(s, type)
         /\ Once(s, type) => Once(Append(s, m), type)
         /\ \A p : \A lo, hi \in Int : Ordered(s, type, p, lo, hi) => Ordered(Append(s, m), type, p, lo, hi)
<1> DEFINE ms == <<m>>
<1>1. Append(s, m) = s \o ms
  BY AppendIsConcat
<1>2. ms \in Seq(S) /\ ~Has(ms, type)
  BY DEF Has
<1> HIDE DEF ms
<1>3. /\ Has(s \o ms, type) <=> Has(s, type)
      /\ Once(s, type) => Once(s \o ms, type)
      /\ \A p : \A lo, hi \in Int : Ordered(s, type, p, lo, hi) => Ordered(s \o ms, type, p, lo, hi)
  BY <1>2, ConcatOthers
<1>4. QED
  BY <1>1, <1>3

\* The next block in order.
LEMMA AppendOrdered ==
  ASSUME NEW S, NEW s \in Seq(S), NEW m \in S, NEW type, NEW p, NEW lo \in Int, NEW hi \in Int,
         Ordered(s, type, p, lo, hi), lo <= hi, m.type = type, m.piece = p, m.offset = hi
  PROVE  Ordered(Append(s, m), type, p, lo, hi + 1)
<1> DEFINE n == Len(s)
           t == Append(s, m)
<1>1. /\ n \in Nat /\ Len(t) = n + 1 /\ t[n + 1] = m /\ \A k \in 1..n : t[k] = s[k]
  BY AppendProperties
<1>2. /\ \A k \in 1..n : s[k].type = type => s[k].piece = p /\ s[k].offset \in lo..(hi - 1)
      /\ \A j, k \in 1..n : s[j].type = type /\ s[k].type = type /\ j < k => s[j].offset < s[k].offset
      /\ \A o \in lo..(hi - 1) : \E k \in 1..n : s[k].type = type /\ s[k].offset = o
  BY DEF Ordered
<1> HIDE DEF n, t
<1>3. ASSUME NEW k \in 1..Len(t) PROVE k = n + 1 \/ k \in 1..n
  BY <1>1
<1>4. \A k \in 1..Len(t) : t[k].type = type => t[k].piece = p /\ t[k].offset \in lo..(hi + 1 - 1)
  <2>1. hi \in lo..(hi + 1 - 1) /\ \A o \in lo..(hi - 1) : o \in lo..(hi + 1 - 1)
    OBVIOUS
  <2>2. QED
    BY <1>1, <1>2, <1>3, <2>1
<1>5. ASSUME NEW j \in 1..Len(t), NEW k \in 1..Len(t), t[j].type = type, t[k].type = type, j < k
      PROVE  t[j].offset < t[k].offset
  <2>1. j \in 1..n
    BY <1>1, <1>5
  <2>2. CASE k = n + 1
    <3>1. t[j].offset \in lo..(hi - 1) /\ t[k].offset = hi
      BY <1>1, <1>2, <1>5, <2>1, <2>2
    <3>2. QED
      BY <3>1
  <2>3. CASE k \in 1..n
    BY <1>1, <1>2, <1>5, <2>1, <2>3
  <2>4. QED
    BY <1>3, <2>2, <2>3
<1>6. ASSUME NEW o \in lo..(hi + 1 - 1)
      PROVE  \E k \in 1..Len(t) : t[k].type = type /\ t[k].offset = o
  <2>1. n + 1 \in 1..Len(t) /\ \A k \in 1..n : k \in 1..Len(t)
    BY <1>1
  <2>2. o = hi \/ o \in lo..(hi - 1)
    OBVIOUS
  <2>3. QED
    BY <1>1, <1>2, <2>1, <2>2
<1>7. QED
  BY <1>4, <1>5, <1>6 DEF Ordered, t

\* Fresh requests where none is left: the whole piece.
LEMMA RequestsOrdered ==
  ASSUME NEW s \in Seq(OutMsgs), ~Has(s, "request"), NEW dp, DownloadOK(dp), dp.downloaded = 0
  PROVE  Ordered(s \o Requests(dp), "request", dp.piece_index, 0, PieceBlocks)
<1> DEFINE a == Len(s)
           m == Requests(dp)
           t == s \o m
           B == PieceBlocks
<1>1. B \in Nat
  BY PeerAssumption DEF PeerAssumption
<1>2. /\ m \in Seq(OutMsgs) /\ Len(m) = B
      /\ \A k \in 1..B : m[k].type = "request" /\ m[k].piece = dp.piece_index /\ m[k].offset = dp.downloaded + k - 1
  BY RequestsFields
<1> HIDE DEF m
<1>3. /\ a \in Nat /\ Len(t) = a + B
      /\ \A k \in 1..a : t[k] = s[k]
      /\ \A k \in 1..(a + B) : k > a => k - a \in 1..B /\ t[k] = m[k - a]
      /\ \A k \in 1..B : a + k \in 1..(a + B) /\ t[a + k] = m[k]
  <2> DEFINE b == Len(m)
  <2>1. /\ a \in Nat /\ Len(t) = a + b
        /\ \A k \in 1..a : t[k] = s[k]
        /\ \A k \in 1..(a + b) : k > a => k - a \in 1..b /\ t[k] = m[k - a]
        /\ \A k \in 1..b : a + k \in 1..(a + b) /\ t[a + k] = m[k]
    <3>1. m \in Seq(OutMsgs) /\ s \in Seq(OutMsgs)
      BY <1>2
    <3>2. QED
      BY <3>1, ConcatShift
  <2>2. b = B
    BY <1>2
  <2> HIDE DEF a, b, t, B
  <2>3. QED
    BY <2>1, <2>2
<1>4. \A k \in 1..a : s[k].type # "request"
  BY DEF Has
<1>5. \A k \in 1..B : m[k].offset = k - 1
  BY <1>2
<1> HIDE DEF a, t, B
<1>6. \A k \in 1..Len(t) : t[k].type = "request" =>
         k - a \in 1..B /\ t[k] = m[k - a] /\ t[k].piece = dp.piece_index /\ t[k].offset = k - a - 1
  <2> SUFFICES ASSUME NEW k \in 1..Len(t), t[k].type = "request"
               PROVE  k - a \in 1..B /\ t[k] = m[k - a] /\ t[k].piece = dp.piece_index /\ t[k].offset = k - a - 1
    OBVIOUS
  <2>1. k \in 1..(a + B) /\ k > a
    BY <1>3, <1>4
  <2>2. k - a \in 1..B /\ t[k] = m[k - a]
    BY <1>3, <2>1
  <2> DEFINE q == k - a
  <2> HIDE DEF q
  <2>3. m[q].piece = dp.piece_index /\ m[q].offset = q - 1
    BY <1>2, <1>5, <2>2 DEF q
  <2>4. QED
    BY <2>2, <2>3 DEF q
<1>7. \A k \in 1..Len(t) : t[k].type = "request" => t[k].piece = dp.piece_index /\ t[k].offset \in 0..(B - 1)
  BY <1>1, <1>3, <1>6
<1>8. \A j, k \in 1..Len(t) : t[j].type = "request" /\ t[k].type = "request" /\ j < k => t[j].offset < t[k].offset
  BY <1>3, <1>6
<1>9. ASSUME NEW o \in 0..(B - 1) PROVE \E k \in 1..Len(t) : t[k].type = "request" /\ t[k].offset = o
  <2> DEFINE q == o + 1
  <2>1. q \in 1..B /\ q - 1 = o
    BY <1>1
  <2> HIDE DEF q
  <2>2. m[q].type = "request" /\ m[q].offset = o /\ a + q \in 1..Len(t) /\ t[a + q] = m[q]
    BY <1>2, <1>3, <1>5, <2>1
  <2>3. QED
    BY <2>2
<1>10. QED
  BY <1>7, <1>8, <1>9 DEF Ordered, t, B, m

\* A torn last block is no block any more.
LEMMA TornOrdered ==
  ASSUME NEW S, NEW s \in Seq(S), NEW t \in Seq(S), NEW p, NEW lo \in Int, NEW hi \in Int,
         Len(s) \in Nat \ {0}, Len(t) = Len(s), \A k \in 1..(Len(s) - 1) : t[k] = s[k],
         s[Len(s)].type = "block", t[Len(s)].type = "torn",
         Ordered(s, "block", p, lo, hi)
  PROVE  /\ lo < hi /\ Ordered(t, "block", p, lo, hi - 1)
         /\ Has(t, "unchoke") <=> Has(s, "unchoke")
         /\ Once(s, "unchoke") => Once(t, "unchoke")
<1> DEFINE n == Len(s)
<1>0. Len(t) = n /\ n \in Nat \ {0}
  OBVIOUS
<1>1. /\ \A k \in 1..n : s[k].type = "block" => s[k].piece = p /\ s[k].offset \in lo..(hi - 1)
      /\ \A j, k \in 1..n : s[j].type = "block" /\ s[k].type = "block" /\ j < k => s[j].offset < s[k].offset
      /\ \A o \in lo..(hi - 1) : \E k \in 1..n : s[k].type = "block" /\ s[k].offset = o
  BY DEF Ordered
<1>2. /\ \A k \in 1..(n - 1) : t[k] = s[k]
      /\ s[n].type = "block" /\ t[n].type = "torn"
  OBVIOUS
<1> HIDE DEF n
<1>3. n \in 1..n /\ \A k \in 1..n : k # n => k \in 1..(n - 1) /\ t[k] = s[k] /\ k < n
  BY <1>0, <1>2
<1>4. s[n].offset \in lo..(hi - 1) /\ lo < hi
  BY <1>1, <1>2, <1>3
<1>5. hi - 1 \in lo..(hi - 1)
  BY <1>4
<1>6. PICK l \in 1..n : s[l].type = "block" /\ s[l].offset = hi - 1
  BY <1>1, <1>5
<1>7. l = n
  <2> SUFFICES ASSUME l # n PROVE FALSE
    OBVIOUS
  <2>1. s[l].offset < s[n].offset
    BY <1>1, <1>2, <1>3, <1>6
  <2>2. QED
    BY <1>4, <1>6, <2>1
<1>8. ASSUME NEW k \in 1..n, t[k].type = "block"
      PROVE  t[k] = s[k] /\ k # n /\ t[k].piece = p /\ t[k].offset \in lo..(hi - 1 - 1)
  <2>1. k # n /\ t[k] = s[k] /\ k < n
    BY <1>2, <1>3, <1>8
  <2>2. s[k].piece = p /\ s[k].offset \in lo..(hi - 1) /\ s[k].offset < hi - 1
    BY <1>1, <1>2, <1>3, <1>6, <1>7, <1>8, <2>1
  <2>3. QED
    BY <2>1, <2>2
<1>9. ASSUME NEW j \in 1..n, NEW k \in 1..n, t[j].type = "block", t[k].type = "block", j < k
      PROVE  t[j].offset < t[k].offset
  <2>1. t[j] = s[j] /\ t[k] = s[k]
    BY <1>8, <1>9
  <2>2. s[j].type = "block" /\ s[k].type = "block"
    BY <1>9, <2>1
  <2>3. \A a, b \in 1..n : s[a].type = "block" /\ s[b].type = "block" /\ a < b => s[a].offset < s[b].offset
    BY <1>1
  <2>4. s[j].offset < s[k].offset
    BY <1>9, <2>2, <2>3
  <2>5. QED
    BY <2>1, <2>4
<1>10. ASSUME NEW o \in lo..(hi - 1 - 1) PROVE \E k \in 1..n : t[k].type = "block" /\ t[k].offset = o
  <2>1. o \in lo..(hi - 1) /\ o # hi - 1
    OBVIOUS
  <2>2. PICK k \in 1..n : s[k].type = "block" /\ s[k].offset = o
    BY <1>1, <2>1
  <2>3. k # n
    BY <1>6, <1>7, <2>1, <2>2
  <2>4. QED
    BY <1>3, <2>2, <2>3
<1>11. \A k \in 1..n : t[k].type = "unchoke" <=> s[k].type = "unchoke"
  BY <1>2, <1>3
<1>12. Has(t, "unchoke") <=> Has(s, "unchoke")
  BY <1>0, <1>11 DEF Has, n
<1>13. Once(s, "unchoke") => Once(t, "unchoke")
  BY <1>0, <1>11 DEF Once, n
<1>14. QED
  BY <1>0, <1>4, <1>8, <1>9, <1>10, <1>12, <1>13 DEF Ordered

-----------------------------------------------------------------------------
(* The handshake.                                                          *)

\* Until the handshake is over the connection carries nothing but it, and the
\* bitfield that may follow the remote's answer.
ShakeInv ==
  /\ remote.announced => remote.shaken
  /\ pc \in Handshaking => /\ remote.choking /\ ~remote.interested
                           /\ outbox \in {<< >>, <<Msg("handshake")>>}
  /\ pc = "handshake" => inbox = << >> /\ outbox = << >> /\ ~remote.shaken
  /\ pc = "handshake_wait" =>
       \/ inbox = << >> /\ ~remote.shaken
       \/ /\ remote.shaken /\ outbox = << >> /\ Len(inbox) >= 2 /\ inbox[1] = Hello
          /\ \A k \in 3..Len(inbox) : inbox[k].type \notin {"handshake", "peer_id"}
  /\ pc \notin Handshaking => /\ strncmpEqual(OurHash, remote.hash)
                              /\ ~Has(outbox, "handshake")

LEMMA WorkShape ==
  ASSUME TypeInv, Work
  PROVE  /\ pc \in {"receive", "notify"} /\ pc' \in {"receive", "notify", "exited", "spin", "desync"}
         /\ remote' = remote
         /\ \E msgs \in Seq(OutMsgs) : Send(msgs) /\ ~Has(msgs, "handshake")
<1>1. pc \in {"receive", "notify"} /\ remote' = remote
  BY DEF Work, ReceiveChoke, ReceiveUnchoke, ReceiveBitfield, ReceiveHave, ReceiveInterested, ReceiveBlock,
         ReceiveTornBlock, ReceiveUnread, ReceiveKeepAlive, ReceiveKeepAliveAndByte, ReceiveEof,
         NotifyDownloadedPiece, Receives, AfterReceive, KeepAlive
<1>2. pc' \in {"receive", "notify", "exited", "spin", "desync"}
  BY DEF Work, ReceiveChoke, ReceiveUnchoke, ReceiveBitfield, ReceiveHave, ReceiveInterested, ReceiveBlock,
         ReceiveTornBlock, ReceiveUnread, ReceiveKeepAlive, ReceiveKeepAliveAndByte, ReceiveEof,
         NotifyDownloadedPiece, AfterReceive, KeepAlive
<1>3. CASE PlainWork
  <2>1. PICK msgs : Plain(msgs) /\ Send(msgs)
    BY <1>3, PlainWorkSends
  <2>2. msgs \in Seq(OutMsgs) /\ ~Has(msgs, "handshake")
    BY <2>1 DEF Plain, Has
  <2>3. QED
    BY <1>1, <1>2, <2>1, <2>2
<1>4. CASE ReceiveUnchoke \/ NotifyDownloadedPiece
  <2>1. PICK dp, next : /\ Send(next[2]) /\ next[2] \in Seq(OutMsgs) /\ DownloadOK(dp) /\ DownloadOK(next[1])
                        /\ next[2] = << >> \/ next[2] = Requests(dp) \/ next[2] = Requests(next[1])
    BY <1>4, AskingWork
  <2>2. ~Has(<< >>, "handshake")
    BY EmptySeq DEF Has
  <2>3. ASSUME NEW d, DownloadOK(d) PROVE ~Has(Requests(d), "handshake")
    <3>1. Len(Requests(d)) = PieceBlocks /\ \A k \in 1..PieceBlocks : Requests(d)[k].type = "request"
      BY <2>3, RequestsFields
    <3>2. QED
      BY <3>1 DEF Has
  <2>4. QED
    BY <1>1, <1>2, <2>1, <2>2, <2>3
<1>5. QED
  BY <1>3, <1>4 DEF Work, PlainWork

LEMMA ShakeHandshake ==
  ASSUME TypeInv, ShakeInv, Handshake \/ HandshakeFails
  PROVE  ShakeInv'
<1>0. remote' = remote /\ Hello' = Hello
  BY DEF Handshake, HandshakeSends, HandshakeReceives, HandshakeEof, HandshakeFails, Hello
<1>1. CASE HandshakeSends
  <2>1. inbox = << >> /\ outbox = << >> /\ ~remote.shaken /\ remote.choking /\ ~remote.interested
    BY <1>1 DEF ShakeInv, HandshakeSends, Handshaking
  <2>2. outbox' \in {<< >>, <<Msg("handshake")>>}
    <3>1. << >> \o <<Msg("handshake")>> = <<Msg("handshake")>>
      OBVIOUS
    <3>2. QED
      BY <1>1, <2>1, <3>1 DEF HandshakeSends, Send, Sent
  <2>3. pc' = "handshake_wait" /\ inbox' = << >>
    BY <1>1, <2>1 DEF HandshakeSends
  <2>4. QED
    BY <1>0, <2>1, <2>2, <2>3 DEF ShakeInv, Handshaking
<1>2. CASE HandshakeReceives
  <2>1. /\ remote.shaken /\ outbox = << >> /\ outbox' = << >> /\ inbox[1] = Hello
        /\ remote.choking /\ ~remote.interested
    BY <1>2 DEF ShakeInv, HandshakeReceives, Handshaking
  <2>2. pc' = "rejected" \/ (pc' = "receive" /\ Accepted(Head(inbox)))
    BY <1>2 DEF HandshakeReceives
  <2>3. Head(inbox) = Hello
    BY <1>2, <2>1, TailShift DEF HandshakeReceives, TypeInv
  <2>4. Accepted(Hello) => strncmpEqual(OurHash, remote.hash)
    BY DEF Accepted, Hello
  <2>5. ~Has(<< >>, "handshake")
    BY EmptySeq DEF Has
  <2>6. QED
    BY <1>0, <2>1, <2>2, <2>3, <2>4, <2>5 DEF ShakeInv, Handshaking
<1>3. CASE HandshakeEof \/ HandshakeFails
  <2>1. pc \in Handshaking /\ pc' = "rejected" /\ UNCHANGED outbox
    BY <1>3 DEF HandshakeEof, HandshakeFails, Handshaking
  <2>2. QED
    BY <1>0, <2>1 DEF ShakeInv, Handshaking
<1>4. QED
  BY <1>1, <1>2, <1>3 DEF Handshake

LEMMA ShakeWork ==
  ASSUME TypeInv, ShakeInv, Work
  PROVE  ShakeInv'
<1>1. PICK msgs \in Seq(OutMsgs) : Send(msgs) /\ ~Has(msgs, "handshake")
  BY WorkShape
<1>2. pc \notin Handshaking /\ pc' \notin Handshaking /\ remote' = remote
  BY WorkShape DEF Handshaking
<1>3. ~Has(outbox, "handshake") /\ outbox \in Seq(OutMsgs)
  BY <1>2 DEF ShakeInv, TypeInv
<1>4. ~Has(outbox \o msgs, "handshake")
  BY <1>1, <1>3, ConcatOthers
<1>5. ~Has(outbox', "handshake")
  BY <1>1, <1>3, <1>4, SendShape
<1>6. pc' # "handshake" /\ pc' # "handshake_wait"
  BY <1>2 DEF Handshaking
<1>7. QED
  BY <1>2, <1>5, <1>6 DEF ShakeInv

LEMMA ShakeRemote ==
  ASSUME TypeInv, ShakeInv, RemoteStep
  PROVE  ShakeInv'
<1>0. inbox \in Seq(InMsgs) /\ outbox \in Seq(OutMsgs)
  BY DEF TypeInv
<1>1. CASE RemoteAnnounces \/ RemoteUnchokes \/ RemoteChokes \/ RemoteChats
  <2>1. PICK msg \in RemoteMsgs :
           /\ inbox' = Append(inbox, msg) /\ UNCHANGED <<pc, outbox>>
           /\ remote'.hash = remote.hash /\ remote'.reserved = remote.reserved
           /\ remote'.shaken = remote.shaken /\ remote'.interested = remote.interested
           /\ remote'.announced => remote.announced \/ remote.shaken
           /\ \/ remote'.choking = remote.choking /\ (remote.shaken \/ remote.announced)
              \/ remote.interested
              \/ ~remote.choking
    BY <1>1, RemoteTalks
  <2>2. pc \in Handshaking => remote'.choking = remote.choking /\ remote.shaken
    BY <2>1 DEF ShakeInv
  <2>3. ASSUME pc = "handshake_wait"
        PROVE  /\ remote'.shaken /\ outbox' = << >> /\ Len(inbox') >= 2 /\ inbox'[1] = Hello'
               /\ \A k \in 3..Len(inbox') : inbox'[k].type \notin {"handshake", "peer_id"}
    <3> DEFINE n == Len(inbox)
    <3>1. /\ remote.shaken /\ outbox = << >> /\ n >= 2 /\ inbox[1] = Hello
          /\ \A k \in 3..n : inbox[k].type \notin {"handshake", "peer_id"}
      BY <2>2, <2>3 DEF ShakeInv, Handshaking
    <3>2. n \in Nat /\ Len(inbox') = n + 1 /\ inbox'[n + 1] = msg /\ \A k \in 1..n : inbox'[k] = inbox[k]
      BY <1>0, <2>1, AppendProperties
    <3>3. msg.type \notin {"handshake", "peer_id"}
      BY DEF RemoteMsgs
    <3>4. Hello' = Hello
      BY <2>1 DEF Hello
    <3> HIDE DEF n
    <3>5. ASSUME NEW k \in 3..(n + 1) PROVE inbox'[k].type \notin {"handshake", "peer_id"}
      <4>1. k = n + 1 \/ (k \in 3..n /\ k \in 1..n)
        BY <3>2
      <4>2. QED
        BY <3>1, <3>2, <3>3, <4>1
    <3>6. inbox'[1] = inbox[1] /\ n + 1 >= 2
      BY <3>1, <3>2
    <3>7. QED
      BY <2>1, <3>1, <3>2, <3>4, <3>5, <3>6
  <2>4. pc # "handshake"
    BY <2>2 DEF ShakeInv, Handshaking
  <2>5. QED
    BY <2>1, <2>2, <2>3, <2>4 DEF ShakeInv
<1>2. CASE RemoteReads
  <2> DEFINE msg == Head(outbox)
  <2>1. /\ outbox # << >> /\ outbox' = Tail(outbox) /\ pc' = pc
        /\ remote'.hash = remote.hash /\ remote'.reserved = remote.reserved
        /\ remote'.choking = remote.choking /\ remote'.announced = remote.announced
        /\ remote'.shaken <=> remote.shaken \/ msg.type = "handshake"
        /\ remote'.interested <=> remote.interested \/ msg.type = "interested"
        /\ msg.type = "handshake" => inbox' = inbox \o <<Hello, Msg("peer_id")>>
    <3>1. /\ outbox # << >> /\ outbox' = Tail(outbox) /\ pc' = pc
          /\ remote'.hash = remote.hash /\ remote'.reserved = remote.reserved
          /\ remote'.choking = remote.choking /\ remote'.announced = remote.announced
          /\ remote'.shaken <=> remote.shaken \/ msg.type = "handshake"
          /\ remote'.interested <=> remote.interested \/ msg.type = "interested"
      BY <1>2, RemoteReadsShape
    <3>2. ASSUME msg.type = "handshake" PROVE inbox' = inbox \o <<Hello, Msg("peer_id")>>
      <4> HIDE DEF msg
      <4>1. \/ msg.type = "request"
            \/ msg.type = "handshake" /\ inbox' = inbox \o <<Hello, Msg("peer_id")>>
            \/ msg.type # "handshake"
        BY <1>2, RemoteReadsShape DEF msg
      <4>2. QED
        BY <3>2, <4>1
    <3>3. QED
      BY <3>1, <3>2
  <2>2. ASSUME pc \in Handshaking
        PROVE  /\ msg.type = "handshake" /\ outbox' = << >> /\ outbox = <<Msg("handshake")>>
    <3>1. outbox = <<Msg("handshake")>>
      BY <2>1, <2>2 DEF ShakeInv
    <3>2. Head(<<Msg("handshake")>>) = Msg("handshake") /\ Tail(<<Msg("handshake")>>) = << >>
      OBVIOUS
    <3>3. Msg("handshake").type = "handshake"
      BY DEF Msg
    <3>4. QED
      BY <2>1, <3>1, <3>2, <3>3
  <2>3. ASSUME pc = "handshake_wait"
        PROVE  /\ remote'.shaken /\ outbox' = << >> /\ Len(inbox') >= 2 /\ inbox'[1] = Hello'
               /\ \A k \in 3..Len(inbox') : inbox'[k].type \notin {"handshake", "peer_id"}
    <3>1. msg.type = "handshake" /\ outbox' = << >> /\ outbox # << >>
      BY <2>1, <2>2, <2>3 DEF Handshaking
    <3>2. inbox = << >>
      BY <2>3, <3>1 DEF ShakeInv
    <3>3. inbox' = << >> \o <<Hello, Msg("peer_id")>>
      BY <2>1, <3>1, <3>2
    <3>4. inbox' = <<Hello, Msg("peer_id")>>
      BY <3>3
    <3>5. Len(inbox') = 2 /\ inbox'[1] = Hello
      BY <3>4
    <3>6. Hello' = Hello
      BY <2>1 DEF Hello
    <3>7. QED
      BY <2>1, <3>1, <3>5, <3>6
  <2>4. ASSUME pc \notin Handshaking PROVE ~Has(outbox', "handshake")
    <3>1. ~Has(outbox, "handshake")
      BY <2>4 DEF ShakeInv
    <3>2. QED
      BY <1>0, <2>1, <3>1, TailHas
  <2>5. pc # "handshake"
    BY <2>1 DEF ShakeInv
  <2>6. pc \in Handshaking => ~remote'.interested /\ remote'.choking
    BY <2>1, <2>2 DEF ShakeInv
  <2>7. remote'.announced => remote'.shaken
    BY <2>1 DEF ShakeInv
  <2>8. QED
    BY <2>1, <2>2, <2>3, <2>4, <2>5, <2>6, <2>7 DEF ShakeInv
<1>3. CASE RemoteCloses
  <2>1. /\ UNCHANGED <<pc, outbox, remote>>
        /\ \/ UNCHANGED inbox
           \/ /\ Len(inbox) \in Nat \ {0} /\ Len(inbox') = Len(inbox)
              /\ \A k \in 1..(Len(inbox) - 1) : inbox'[k] = inbox[k]
              /\ inbox'[Len(inbox)].type = "torn"
    BY <1>3, RemoteClosesShape
  <2>2. Hello' = Hello
    BY <2>1 DEF Hello
  <2>3. CASE UNCHANGED inbox
    BY <2>1, <2>2, <2>3 DEF ShakeInv
  <2>4. CASE inbox' # inbox
    <3> DEFINE n == Len(inbox)
    <3>1. /\ n \in Nat \ {0} /\ Len(inbox') = n
          /\ \A k \in 1..(n - 1) : inbox'[k] = inbox[k]
          /\ inbox'[n].type = "torn"
      BY <2>1, <2>4
    <3>2. inbox # << >>
      BY <3>1, EmptySeq
    <3>3. pc # "handshake"
      BY <3>2 DEF ShakeInv
    <3>4. ASSUME pc = "handshake_wait"
          PROVE  /\ remote.shaken /\ outbox = << >> /\ n >= 2 /\ inbox'[1] = Hello
                 /\ \A k \in 3..n : inbox'[k].type \notin {"handshake", "peer_id"}
      <4>1. /\ remote.shaken /\ outbox = << >> /\ n >= 2 /\ inbox[1] = Hello
            /\ \A k \in 3..n : inbox[k].type \notin {"handshake", "peer_id"}
        BY <3>2, <3>4 DEF ShakeInv
      <4> HIDE DEF n
      <4>2. inbox'[1] = inbox[1]
        BY <3>1, <4>1
      <4>3. ASSUME NEW k \in 3..n PROVE inbox'[k].type \notin {"handshake", "peer_id"}
        <5>1. k = n \/ k \in 1..(n - 1)
          BY <3>1
        <5>2. QED
          BY <3>1, <4>1, <5>1
      <4>4. QED
        BY <4>1, <4>2, <4>3
    <3>5. QED
      BY <2>1, <2>2, <3>1, <3>3, <3>4 DEF ShakeInv
  <2>5. QED
    BY <2>3, <2>4
<1>4. QED
  BY <1>1, <1>2, <1>3 DEF RemoteStep

LEMMA ShakeNext == TypeInv /\ ShakeInv /\ [Next]_vars => ShakeInv'
<1> SUFFICES ASSUME TypeInv, ShakeInv, [Next]_vars PROVE ShakeInv'
  OBVIOUS
<1>1. CASE UNCHANGED <<inbox, outbox, pc, remote>>
  <2>1. Hello' = Hello
    BY <1>1 DEF Hello
  <2>2. QED
    BY <1>1, <2>1 DEF ShakeInv
<1>2. (\E p \in BitfieldBits : MainMarks(p)) \/ SharedMemset \/ Tick \/ UNCHANGED vars
        => UNCHANGED <<inbox, outbox, pc, remote>>
  BY DEF MainMarks, SharedMemset, Tick, vars
<1>3. QED
  BY <1>1, <1>2, ShakeHandshake, ShakeWork, ShakeRemote DEF Next

-----------------------------------------------------------------------------
(* Requests and blocks.                                                    *)

\* Behind the blocks that are downloaded come those under way, then those asked
\* for.  A block is lost only when the connection is, or when the remote does
\* not have the piece.
Flow(in, out, conn, dp, b, c, e) ==
  /\ dp.downloaded <= b /\ b <= c /\ c <= e
  /\ Ordered(in, "block", dp.piece_index, dp.downloaded, b)
  /\ Ordered(out, "request", dp.piece_index, c, e)
  /\ conn = "open" /\ dp.piece_index \in RemoteHas => b = c
  /\ dp.piece_index \notin RemoteHas => b = dp.downloaded
  /\ ~dp.exists => e = dp.downloaded

\* What is downloaded is right.
DataRight(dp) ==
  /\ dp.exists => dp.size = dp.downloaded
  /\ \A k \in 1..dp.downloaded : dp.data[k] = Block(dp.piece_index, k - 1)

\* The first unchoke is the only one, and nothing is downloaded before it.
Unchoking(in, choking, dp) ==
  /\ choking \/ Has(in, "unchoke") => ~dp.exists /\ dp.downloaded = 0
  /\ choking => ~Has(in, "unchoke")
  /\ Once(in, "unchoke")

InFlow(in, out, conn, dp, choking) ==
  /\ \E b, c, e \in 0..PieceBlocks : Flow(in, out, conn, dp, b, c, e)
  /\ DataRight(dp) /\ Unchoking(in, choking, dp)

\* All of this until the remote chokes again.
FlowInv ==
  /\ pc = "notify" => Complete(m_download_piece)
  /\ remote.chokes = 0 =>
       InFlow(inbox, outbox, connection, m_download_piece, remote.choking)

\* The messages of the type in t are those in s, as far as order goes.
Kept(s, t, type) ==
  \A p : \A lo, hi \in Int : Ordered(s, type, p, lo, hi) => Ordered(t, type, p, lo, hi)

LEMMA FlowKept ==
  ASSUME NEW in, NEW out, NEW conn, NEW dp, NEW choking, DownloadOK(dp),
         InFlow(in, out, conn, dp, choking),
         NEW in2, NEW out2, NEW conn2, conn2 = "open" => conn = "open",
         Kept(in, in2, "block"), Kept(out, out2, "request"),
         Has(in2, "unchoke") => Has(in, "unchoke"), Once(in, "unchoke") => Once(in2, "unchoke")
  PROVE  InFlow(in2, out2, conn2, dp, choking)
<1>1. dp.downloaded \in Nat
  BY DEF DownloadOK, Downloads
<1>2. PICK b, c, e \in 0..PieceBlocks : Flow(in, out, conn, dp, b, c, e)
  BY DEF InFlow
<1>3. b \in Int /\ c \in Int /\ e \in Int
  OBVIOUS
<1>4. /\ Ordered(in2, "block", dp.piece_index, dp.downloaded, b)
      /\ Ordered(out2, "request", dp.piece_index, c, e)
  BY <1>1, <1>2, <1>3 DEF Flow, Kept
<1>5. Flow(in2, out2, conn2, dp, b, c, e)
  BY <1>2, <1>4 DEF Flow
<1>6. Unchoking(in2, choking, dp)
  BY DEF InFlow, Unchoking
<1>7. QED
  BY <1>5, <1>6 DEF InFlow

\* With no piece to download, or a complete one, nothing is under way.
LEMMA FlowIdle ==
  ASSUME NEW in, NEW out, NEW conn, NEW dp, NEW choking, DownloadOK(dp),
         InFlow(in, out, conn, dp, choking), ~dp.exists \/ Complete(dp)
  PROVE  /\ ~Has(in, "block") /\ ~Has(out, "request")
         /\ Complete(dp) => dp.downloaded = PieceBlocks
<1>1. dp.downloaded \in Nat /\ PieceBlocks \in Nat
  BY PeerAssumption DEF DownloadOK, Downloads, PeerAssumption
<1>2. PICK b, c, e \in 0..PieceBlocks : Flow(in, out, conn, dp, b, c, e)
  BY DEF InFlow
<1>3. b = dp.downloaded /\ c = b /\ e = c
  BY <1>1, <1>2 DEF Flow, Complete
<1>4. Ordered(in, "block", dp.piece_index, b, b) /\ Ordered(out, "request", dp.piece_index, c, c) /\ b \in Int
  BY <1>2, <1>3 DEF Flow
<1>5. QED
  BY <1>1, <1>3, <1>4, OrderedNone DEF Complete

\* A new piece, asked for where nothing is under way.
LEMMA FlowRestarts ==
  ASSUME NEW in, NEW out \in Seq(OutMsgs), NEW conn, NEW p \in BitfieldBits, NEW out2,
         ~Has(in, "block"), ~Has(in, "unchoke"), ~Has(out, "request"),
         out2 = out \o Requests(Fresh(p)) \/ out2 = out
  PROVE  InFlow(in, out2, conn, Fresh(p), FALSE)
<1> DEFINE dp == Fresh(p)
<1>1. /\ DownloadOK(dp) /\ dp.piece_index = p /\ dp.exists /\ dp.downloaded = 0 /\ dp.size = 0
  BY FreshFields
<1> HIDE DEF dp
<1>2. PieceBlocks \in Nat /\ 0 \in 0..PieceBlocks /\ PieceBlocks \in 0..PieceBlocks /\ 0 \in Int
  BY PeerAssumption DEF PeerAssumption
<1>3. Ordered(in, "block", p, 0, 0)
  BY <1>2, OrderedNone
<1>4. \E e \in 0..PieceBlocks : Ordered(out2, "request", p, 0, e)
  <2>1. CASE out2 = out
    BY <1>2, <2>1, OrderedNone
  <2>2. CASE out2 = out \o Requests(dp)
    BY <1>1, <1>2, <2>2, RequestsOrdered
  <2>3. QED
    BY <2>1, <2>2 DEF dp
<1>5. PICK e \in 0..PieceBlocks : Ordered(out2, "request", p, 0, e)
  BY <1>4
<1>6. Flow(in, out2, conn, dp, 0, 0, e)
  BY <1>1, <1>2, <1>3, <1>5 DEF Flow
<1>7. DataRight(dp)
  BY <1>1 DEF DataRight
<1>8. Once(in, "unchoke")
  BY DEF Once, Has
<1>9. Unchoking(in, FALSE, dp)
  BY <1>8 DEF Unchoking
<1>10. QED
  BY <1>2, <1>6, <1>7, <1>9 DEF InFlow, dp

\* The next block arrives: it is the one that belongs behind what is downloaded.
LEMMA FlowStores ==
  ASSUME NEW in \in Seq(InMsgs), in # << >>, NEW out, NEW conn, NEW dp, NEW choking, DownloadOK(dp),
         InFlow(in, out, conn, dp, choking), Head(in).type = "block"
  PROVE  InFlow(Tail(in), out, conn, Stored(dp, Head(in)), choking)
<1> DEFINE m == Head(in)
           d == dp.downloaded
           S == Stored(dp, m)
<1>1. d \in Nat /\ PieceBlocks \in Nat /\ dp.piece_index \in BitfieldBits
  BY PeerAssumption DEF DownloadOK, Downloads, PeerAssumption
<1>2. m \in InMsgs
  BY HeadTailProperties
<1>3. m \in BlockType
  BY <1>2 DEF InMsgs
<1>4. PICK b, c, e \in 0..PieceBlocks : Flow(in, out, conn, dp, b, c, e)
  BY DEF InFlow
<1>5. b \in Int /\ Ordered(in, "block", dp.piece_index, d, b)
  BY <1>4 DEF Flow
<1>6. m.piece = dp.piece_index /\ m.offset = d /\ d < b /\ Ordered(Tail(in), "block", dp.piece_index, d + 1, b)
  BY <1>1, <1>5, TailOrdered
<1>7. dp.exists /\ dp.piece_index \in RemoteHas
  BY <1>1, <1>4, <1>6 DEF Flow
<1>8. /\ DownloadOK(S) /\ S.piece_index = dp.piece_index /\ S.exists = dp.exists
      /\ S.downloaded = d + 1 /\ S.size = d + 1 /\ S.data[d + 1] = m
      /\ \A k \in 1..dp.size : S.data[k] = dp.data[k]
  BY <1>3, StoredFields
<1> HIDE DEF m, S
<1>9. m = Block(dp.piece_index, d)
  BY <1>3, <1>6 DEF BlockType, Block, m
<1>10. DataRight(S)
  <2>1. dp.size = d /\ \A k \in 1..d : dp.data[k] = Block(dp.piece_index, k - 1)
    BY <1>7 DEF InFlow, DataRight
  <2> HIDE DEF d
  <2>2. ASSUME NEW k \in 1..(d + 1) PROVE S.data[k] = Block(dp.piece_index, k - 1)
    <3>1. CASE k = d + 1
      <4>1. k - 1 = d
        BY <1>1, <3>1
      <4>2. QED
        BY <1>8, <1>9, <3>1, <4>1
    <3>2. CASE k # d + 1
      <4>1. k \in 1..d
        BY <1>1, <3>2
      <4>2. QED
        BY <1>8, <2>1, <4>1
    <3>3. QED
      BY <3>1, <3>2
  <2>3. QED
    BY <1>8, <2>2 DEF DataRight
<1>11. Flow(Tail(in), out, conn, S, b, c, e)
  BY <1>1, <1>4, <1>6, <1>7, <1>8 DEF Flow
<1>12. ~choking /\ ~Has(in, "unchoke") /\ Once(in, "unchoke")
  BY <1>7 DEF InFlow, Unchoking
<1>13. ~Has(Tail(in), "unchoke") /\ Once(Tail(in), "unchoke")
  BY <1>12, TailHas
<1>14. Unchoking(Tail(in), choking, S)
  BY <1>12, <1>13 DEF Unchoking
<1>15. QED
  BY <1>10, <1>11, <1>14 DEF InFlow, S, m

\* The remote reads a request: it serves the block that comes next, or drops the
\* request because it does not have the piece.
LEMMA FlowServes ==
  ASSUME NEW in \in Seq(InMsgs), NEW out \in Seq(OutMsgs), out # << >>, NEW dp, NEW choking, DownloadOK(dp),
         InFlow(in, out, "open", dp, choking), Head(out).type = "request"
  PROVE  LET m == Head(out) IN
         /\ m.piece \in RemoteHas =>
              InFlow(Append(in, Block(m.piece, m.offset)), Tail(out), "open", dp, choking)
         /\ choking \/ m.piece \notin RemoteHas \/ ~(m.offset < PieceBlocks) =>
              InFlow(in, Tail(out), "open", dp, choking)
<1> DEFINE m == Head(out)
           d == dp.downloaded
           new == Block(m.piece, m.offset)
<1>1. d \in Nat /\ PieceBlocks \in Nat /\ dp.piece_index \in BitfieldBits /\ dp.piece_index \in Nat
  BY PeerAssumption, Bits DEF DownloadOK, Downloads, PeerAssumption, BitfieldBits
<1>2. PICK b, c, e \in 0..PieceBlocks : Flow(in, out, "open", dp, b, c, e)
  BY DEF InFlow
<1>3. c \in Int /\ e \in Int /\ b \in Int /\ Ordered(out, "request", dp.piece_index, c, e)
  BY <1>2 DEF Flow
<1>4. /\ m.piece = dp.piece_index /\ m.offset = c /\ c < e
      /\ Ordered(Tail(out), "request", dp.piece_index, c + 1, e)
  BY <1>3, TailOrdered
<1> HIDE DEF m
<1>5. dp.exists /\ ~choking /\ c + 1 \in 0..PieceBlocks /\ c < PieceBlocks
  <2>1. c < e /\ d <= b /\ b <= c /\ e <= PieceBlocks
    BY <1>2, <1>4 DEF Flow
  <2>2. dp.exists
    BY <1>1, <1>2, <2>1 DEF Flow
  <2>3. c + 1 \in 0..PieceBlocks /\ c < PieceBlocks
    BY <1>1, <2>1
  <2>4. QED
    BY <2>2, <2>3 DEF InFlow, Unchoking
<1>6. ASSUME m.piece \in RemoteHas PROVE InFlow(Append(in, new), Tail(out), "open", dp, choking)
  <2>1. b = c /\ d <= b
    BY <1>2, <1>4, <1>6 DEF Flow
  <2>2. new \in InMsgs /\ new.type = "block" /\ new.piece = dp.piece_index /\ new.offset = b
    BY <1>1, <1>2, <1>4, <2>1 DEF Block, InMsgs, BlockType
  <2> HIDE DEF new
  <2>3. Ordered(in, "block", dp.piece_index, d, b)
    BY <1>2 DEF Flow
  <2>4. Ordered(Append(in, new), "block", dp.piece_index, d, b + 1)
    BY <1>1, <1>3, <2>1, <2>2, <2>3, AppendOrdered
  <2>5. Flow(Append(in, new), Tail(out), "open", dp, b + 1, c + 1, e)
    BY <1>1, <1>2, <1>3, <1>4, <1>5, <1>6, <2>1, <2>4 DEF Flow
  <2>6. /\ Has(Append(in, new), "unchoke") <=> Has(in, "unchoke")
        /\ Once(in, "unchoke") => Once(Append(in, new), "unchoke")
    BY <2>2, AppendOthers
  <2>7. Unchoking(Append(in, new), choking, dp)
    BY <2>6 DEF InFlow, Unchoking
  <2>8. b + 1 \in 0..PieceBlocks /\ c + 1 \in 0..PieceBlocks
    BY <1>5, <2>1
  <2>9. QED
    BY <2>5, <2>7, <2>8 DEF InFlow
<1>7. ASSUME choking \/ m.piece \notin RemoteHas \/ ~(m.offset < PieceBlocks)
      PROVE  InFlow(in, Tail(out), "open", dp, choking)
  <2>1. dp.piece_index \notin RemoteHas
    BY <1>4, <1>5, <1>7
  <2>2. Flow(in, Tail(out), "open", dp, b, c + 1, e)
    BY <1>2, <1>3, <1>4, <1>5, <2>1 DEF Flow
  <2>3. QED
    BY <1>5, <2>2 DEF InFlow
<1>8. QED
  BY <1>6, <1>7 DEF m

\* The connection breaks inside the last block.
LEMMA FlowTears ==
  ASSUME NEW in \in Seq(InMsgs), NEW in2 \in Seq(InMsgs), NEW out, NEW conn, NEW dp, NEW choking, DownloadOK(dp),
         InFlow(in, out, conn, dp, choking),
         Len(in) \in Nat \ {0}, Len(in2) = Len(in), \A k \in 1..(Len(in) - 1) : in2[k] = in[k],
         in[Len(in)].type = "block", in2[Len(in)].type = "torn"
  PROVE  InFlow(in2, out, "closed", dp, choking)
<1> DEFINE d == dp.downloaded
<1>1. d \in Nat /\ PieceBlocks \in Nat
  BY PeerAssumption DEF DownloadOK, Downloads, PeerAssumption
<1>2. PICK b, c, e \in 0..PieceBlocks : Flow(in, out, conn, dp, b, c, e)
  BY DEF InFlow
<1>3. b \in Int /\ Ordered(in, "block", dp.piece_index, d, b)
  BY <1>2 DEF Flow
<1>4. /\ d < b /\ Ordered(in2, "block", dp.piece_index, d, b - 1)
      /\ Has(in2, "unchoke") <=> Has(in, "unchoke")
      /\ Once(in, "unchoke") => Once(in2, "unchoke")
  <2> DEFINE p == dp.piece_index
  <2>1. d \in Int /\ b \in Int /\ Ordered(in, "block", p, d, b)
    BY <1>1, <1>3
  <2> HIDE DEF d, p
  <2>2. /\ d < b /\ Ordered(in2, "block", p, d, b - 1)
        /\ Has(in2, "unchoke") <=> Has(in, "unchoke")
        /\ Once(in, "unchoke") => Once(in2, "unchoke")
    BY <2>1, TornOrdered
  <2>3. QED
    BY <2>2 DEF p
<1>5. b - 1 \in 0..PieceBlocks
  <2>1. d < b
    BY <1>4
  <2>2. QED
    BY <1>1, <2>1
<1>6. dp.piece_index \in RemoteHas
  BY <1>1, <1>2, <1>4 DEF Flow
<1>7. Flow(in2, out, "closed", dp, b - 1, c, e)
  BY <1>1, <1>2, <1>3, <1>4, <1>6 DEF Flow
<1>8. Unchoking(in2, choking, dp)
  BY <1>4 DEF InFlow, Unchoking
<1>9. QED
  BY <1>5, <1>7, <1>8 DEF InFlow

LEMMA PlainKeeps ==
  ASSUME TypeInv, NEW msgs, Plain(msgs), Send(msgs)
  PROVE  Kept(outbox, outbox', "request") /\ (connection' = "open" => connection = "open")
<1>1. msgs \in Seq(OutMsgs) /\ ~Has(msgs, "request") /\ outbox \in Seq(OutMsgs)
  BY DEF Plain, Has, TypeInv
<1>2. Kept(outbox, outbox \o msgs, "request")
  BY <1>1, ConcatOthers DEF Kept
<1>3. Kept(outbox, outbox, "request")
  BY DEF Kept
<1>4. QED
  BY <1>1, <1>2, <1>3, SendShape

LEMMA TailKeeps ==
  ASSUME NEW S, NEW s \in Seq(S), s # << >>, NEW type, Head(s).type # type
  PROVE  Kept(s, Tail(s), type)
  BY TailOrdered DEF Kept

\* A block under way is always one of the piece being downloaded.
LEMMA BlockIsExpected ==
  ASSUME TypeInv, FlowInv, remote.chokes = 0, inbox # << >>, Head(inbox).type = "block"
  PROVE  Head(inbox).piece = m_download_piece.piece_index
<1>1. m_download_piece.downloaded \in Nat /\ inbox \in Seq(InMsgs)
  BY DEF TypeInv, DownloadOK, Downloads
<1>2. PICK b, c, e \in 0..PieceBlocks : Flow(inbox, outbox, connection, m_download_piece, b, c, e)
  BY DEF FlowInv, InFlow
<1>3. b \in Int /\ Ordered(inbox, "block", m_download_piece.piece_index, m_download_piece.downloaded, b)
  BY <1>2 DEF Flow
<1>4. QED
  BY <1>1, <1>3, TailOrdered

LEMMA FlowPlainWork ==
  ASSUME TypeInv, FlowInv, PlainWork
  PROVE  FlowInv'
<1> DEFINE dp == m_download_piece
<1>0. inbox \in Seq(InMsgs) /\ outbox \in Seq(OutMsgs) /\ DownloadOK(dp) /\ remote' = remote
  BY WorkShape DEF TypeInv, Work, PlainWork
<1>1. PICK msgs : Plain(msgs) /\ Send(msgs)
  BY PlainWorkSends
<1>2. Kept(outbox, outbox', "request") /\ (connection' = "open" => connection = "open")
  BY <1>1, PlainKeeps
<1>3. CASE ReceiveBlock
  <2> DEFINE m == Head(inbox)
  <2>1. inbox # << >> /\ m.type = "block" /\ inbox' = Tail(inbox)
    BY <1>3 DEF ReceiveBlock, Receives
  <2>2. m_download_piece' = Stored(dp, m) /\ (pc' = "notify" => Complete(Stored(dp, m)))
    BY <1>3 DEF ReceiveBlock, AfterReceive
  <2>3. ASSUME remote.chokes = 0
        PROVE  InFlow(inbox', outbox', connection', Stored(dp, m), remote.choking)
    <3>1. InFlow(inbox, outbox, connection, dp, remote.choking)
      BY <2>3 DEF FlowInv
    <3>2. InFlow(Tail(inbox), outbox, connection, Stored(dp, m), remote.choking)
      BY <1>0, <2>1, <3>1, FlowStores
    <3>3. DownloadOK(Stored(dp, m))
      <4>1. m \in BlockType
        <5>1. m \in InMsgs
          BY <1>0, <2>1, HeadTailProperties
        <5>2. QED
          BY <2>1, <5>1 DEF InMsgs
      <4>2. QED
        BY <1>0, <4>1, StoredFields
    <3>4. Kept(Tail(inbox), Tail(inbox), "block")
      BY DEF Kept
    <3>5. InFlow(Tail(inbox), outbox', connection', Stored(dp, m), remote.choking)
      <4> DEFINE t == Tail(inbox)
                 S == Stored(dp, m)
      <4> HIDE DEF t, S
      <4>1. InFlow(t, outbox, connection, S, remote.choking) /\ DownloadOK(S) /\ Kept(t, t, "block")
        BY <3>2, <3>3, <3>4 DEF t, S
      <4>2. InFlow(t, outbox', connection', S, remote.choking)
        BY <1>2, <4>1, FlowKept
      <4>3. QED
        BY <4>2 DEF t, S
    <3>6. QED
      BY <2>1, <3>5
  <2> HIDE DEF m
  <2>4. QED
    BY <1>0, <2>2, <2>3 DEF FlowInv
<1>4. CASE ~ReceiveBlock
  <2>1. m_download_piece' = dp
    BY <1>4 DEF PlainWork, ReceiveChoke, ReceiveBitfield, ReceiveHave, ReceiveInterested, ReceiveTornBlock,
       ReceiveUnread, ReceiveKeepAlive, ReceiveKeepAliveAndByte, ReceiveEof, AfterReceive, KeepAlive, download
  <2>2. pc' = "notify" => Complete(dp)
    BY <1>4 DEF PlainWork, ReceiveChoke, ReceiveBitfield, ReceiveHave, ReceiveInterested, ReceiveTornBlock,
       ReceiveUnread, ReceiveKeepAlive, ReceiveKeepAliveAndByte, ReceiveEof, AfterReceive, KeepAlive
  <2>3. \/ inbox' = inbox
        \/ /\ inbox # << >> /\ inbox' = Tail(inbox) /\ Head(inbox).type # "unchoke"
           /\ Head(inbox).type = "block" => Head(inbox).piece # dp.piece_index
    BY <1>4 DEF PlainWork, ReceiveChoke, ReceiveBitfield, ReceiveHave, ReceiveInterested, ReceiveTornBlock,
       ReceiveUnread, ReceiveKeepAlive, ReceiveKeepAliveAndByte, ReceiveEof, Receives
  <2>4. ASSUME remote.chokes = 0
        PROVE  InFlow(inbox', outbox', connection', dp, remote.choking)
    <3>1. InFlow(inbox, outbox, connection, dp, remote.choking)
      BY <2>4 DEF FlowInv
    <3>2. /\ Kept(inbox, inbox', "block") /\ (Has(inbox', "unchoke") => Has(inbox, "unchoke"))
          /\ Once(inbox, "unchoke") => Once(inbox', "unchoke")
      <4>1. CASE inbox' = inbox
        BY <4>1 DEF Kept
      <4>2. CASE inbox # << >> /\ inbox' = Tail(inbox)
        <5>1. Head(inbox).type # "block"
          BY <2>3, <2>4, <4>2, BlockIsExpected, TailShift
        <5>2. QED
          BY <1>0, <4>2, <5>1, TailKeeps, TailHas
      <4>3. QED
        BY <2>3, <4>1, <4>2
    <3>3. QED
      BY <1>0, <1>2, <3>1, <3>2, FlowKept
  <2>5. QED
    BY <1>0, <2>1, <2>2, <2>4 DEF FlowInv
<1>5. QED
  BY <1>3, <1>4

LEMMA FlowUnchoke ==
  ASSUME TypeInv, FlowInv, ReceiveUnchoke
  PROVE  FlowInv'
<1> DEFINE dp == m_download_piece
<1>0. inbox \in Seq(InMsgs) /\ outbox \in Seq(OutMsgs) /\ DownloadOK(dp) /\ remote' = remote
  BY WorkShape DEF TypeInv, Work
<1>1. inbox # << >> /\ inbox' = Tail(inbox) /\ Head(inbox).type = "unchoke"
  BY DEF ReceiveUnchoke, Receives
<1>2. pc' = "notify" => Complete(m_download_piece')
  BY DEF ReceiveUnchoke, AfterReceive
<1>3. PICK next :
        /\ m_download_piece' = next[1] /\ Send(next[2]) /\ next[2] \in Seq(OutMsgs)
        /\ \/ next[1] = dp /\ (next[2] = << >> \/ next[2] = Requests(dp))
           \/ ~dp.exists /\ next[2] = Requests(next[1]) /\ \E p \in m_bitfield : next[1] = Fresh(p)
        /\ next[1] = dp /\ ~dp.exists => next[2] = << >>
  BY AskingWork
<1>4. ASSUME remote.chokes = 0
      PROVE  InFlow(inbox', outbox', connection', next[1], remote.choking)
  <2>1. InFlow(inbox, outbox, connection, dp, remote.choking)
    BY <1>4 DEF FlowInv
  <2>2. Has(inbox, "unchoke")
    BY <1>0, <1>1, TailHas
  <2>3. ~dp.exists /\ dp.downloaded = 0 /\ ~remote.choking /\ Once(inbox, "unchoke")
    BY <2>1, <2>2 DEF InFlow, Unchoking
  <2>4. ~Has(inbox, "block") /\ ~Has(outbox, "request")
    BY <1>0, <2>1, <2>3, FlowIdle
  <2>5. ~Has(inbox', "unchoke") /\ ~Has(inbox', "block") /\ Once(inbox', "unchoke")
    BY <1>0, <1>1, <2>3, <2>4, TailHas
  <2>6. CASE next[1] = dp
    <3>1. Plain(<< >>) /\ Send(<< >>)
      BY <1>3, <2>3, <2>6, PlainMessages
    <3>2. Kept(outbox, outbox', "request") /\ (connection' = "open" => connection = "open")
      BY <3>1, PlainKeeps
    <3>3. Kept(inbox, inbox', "block")
      BY <1>0, <1>1, TailKeeps
    <3>4. InFlow(inbox', outbox', connection', dp, remote.choking)
      BY <1>0, <2>1, <2>5, <3>2, <3>3, FlowKept
    <3>5. QED
      BY <2>6, <3>4
  <2>7. CASE \E p \in m_bitfield : next[1] = Fresh(p)
    <3>1. PICK p \in BitfieldBits : next[1] = Fresh(p)
      BY <2>7 DEF TypeInv, StateOK
    <3>2. outbox' = outbox \/ outbox' = outbox \o Requests(Fresh(p)) \/ next[1] = dp
      BY <1>3, <3>1, SendShape
    <3>3. CASE outbox' = outbox \/ outbox' = outbox \o Requests(Fresh(p))
      <4>1. InFlow(inbox', outbox', connection', Fresh(p), FALSE)
        BY <1>0, <2>4, <2>5, <3>3, FlowRestarts
      <4>2. remote.choking = FALSE
        BY <2>3 DEF TypeInv, Remotes
      <4>3. QED
        BY <3>1, <4>1, <4>2
    <3>4. QED
      BY <2>6, <3>2, <3>3
  <2>8. QED
    BY <1>3, <2>6, <2>7
<1>5. QED
  BY <1>0, <1>2, <1>3, <1>4 DEF FlowInv

LEMMA FlowNotify ==
  ASSUME TypeInv, FlowInv, NotifyDownloadedPiece
  PROVE  FlowInv'
<1> DEFINE dp == m_download_piece
           E == Emptied(dp)
<1>0. inbox \in Seq(InMsgs) /\ outbox \in Seq(OutMsgs) /\ DownloadOK(dp) /\ remote' = remote
  BY WorkShape DEF TypeInv, Work
<1>1. inbox' = inbox /\ pc = "notify" /\ pc' # "notify" /\ Complete(dp)
  BY DEF NotifyDownloadedPiece, FlowInv
<1>2. DownloadOK(E) /\ ~E.exists /\ E.piece_index = dp.piece_index /\ E.downloaded = dp.downloaded /\ E.data = dp.data
  BY <1>0, EmptiedFields
<1>3. ~ReceiveUnchoke
  BY <1>1 DEF ReceiveUnchoke, Receives
<1> HIDE DEF E
<1>4. PICK next :
        /\ m_download_piece' = next[1] /\ Send(next[2]) /\ next[2] \in Seq(OutMsgs)
        /\ \/ next[1] = E /\ (next[2] = << >> \/ next[2] = Requests(E))
           \/ ~E.exists /\ next[2] = Requests(next[1]) /\ \E p \in m_bitfield : next[1] = Fresh(p)
        /\ next[1] = E /\ ~E.exists => next[2] = << >>
  BY <1>3, AskingWork DEF E
<1>5. ASSUME remote.chokes = 0
      PROVE  InFlow(inbox', outbox', connection', next[1], remote.choking)
  <2>1. InFlow(inbox, outbox, connection, dp, remote.choking)
    BY <1>5 DEF FlowInv
  <2>2. ~Has(inbox, "block") /\ ~Has(outbox, "request") /\ dp.downloaded = PieceBlocks
    BY <1>0, <1>1, <2>1, FlowIdle
  <2>3. ~remote.choking /\ ~Has(inbox, "unchoke")
    BY <1>1, <2>1 DEF InFlow, Unchoking, Complete
  <2>4. PieceBlocks \in Nat /\ PieceBlocks \in 0..PieceBlocks
    BY PeerAssumption DEF PeerAssumption
  <2>5. CASE next[1] = E
    <3>1. Plain(<< >>) /\ Send(<< >>)
      BY <1>2, <1>4, <2>5, PlainMessages
    <3>2. Kept(outbox, outbox', "request")
      BY <3>1, PlainKeeps
    <3>3. /\ Ordered(inbox, "block", E.piece_index, PieceBlocks, PieceBlocks)
          /\ Ordered(outbox, "request", E.piece_index, PieceBlocks, PieceBlocks)
      BY <2>2, <2>4, OrderedNone
    <3>4. Ordered(outbox', "request", E.piece_index, PieceBlocks, PieceBlocks)
      BY <2>4, <3>2, <3>3 DEF Kept
    <3>5. Flow(inbox, outbox', connection', E, PieceBlocks, PieceBlocks, PieceBlocks)
      BY <1>2, <2>2, <2>4, <3>3, <3>4 DEF Flow
    <3>6. DataRight(E)
      BY <1>2, <2>1 DEF InFlow, DataRight
    <3>7. Unchoking(inbox, remote.choking, E)
      BY <2>1, <2>3 DEF InFlow, Unchoking
    <3>8. QED
      BY <1>1, <2>4, <2>5, <3>5, <3>6, <3>7 DEF InFlow
  <2>6. CASE \E p \in m_bitfield : next[1] = Fresh(p)
    <3>1. PICK p \in BitfieldBits : next[1] = Fresh(p)
      BY <2>6 DEF TypeInv, StateOK
    <3>2. outbox' = outbox \/ outbox' = outbox \o Requests(Fresh(p)) \/ next[1] = E
      BY <1>4, <3>1, SendShape
    <3>3. CASE outbox' = outbox \/ outbox' = outbox \o Requests(Fresh(p))
      <4>1. InFlow(inbox, outbox', connection', Fresh(p), FALSE)
        BY <1>0, <2>2, <2>3, <3>3, FlowRestarts
      <4>2. remote.choking = FALSE
        BY <2>3 DEF TypeInv, Remotes
      <4>3. QED
        BY <1>1, <3>1, <4>1, <4>2
    <3>4. QED
      BY <2>5, <3>2, <3>3
  <2>7. QED
    BY <1>4, <2>5, <2>6
<1>6. QED
  BY <1>0, <1>1, <1>4, <1>5 DEF FlowInv

LEMMA FlowHandshake ==
  ASSUME TypeInv, ShakeInv, FlowInv, Handshake \/ HandshakeFails
  PROVE  FlowInv'
<1> DEFINE dp == m_download_piece
<1>0. inbox \in Seq(InMsgs) /\ outbox \in Seq(OutMsgs) /\ DownloadOK(dp)
  BY DEF TypeInv
<1>1. m_download_piece' = dp /\ remote' = remote /\ pc' # "notify" /\ pc \in Handshaking
  BY DEF Handshake, HandshakeSends, HandshakeReceives, HandshakeEof, HandshakeFails, Handshaking, download
<1>2. remote.choking
  BY <1>1 DEF ShakeInv
<1>3. Kept(outbox, outbox', "request") /\ (connection' = "open" => connection = "open")
  <2>1. CASE HandshakeSends
    <3> DEFINE ms == <<Msg("handshake")>>
    <3>1. Msg("handshake").type = "handshake"
      BY DEF Msg
    <3>2. ms \in Seq(OutMsgs) /\ ~Has(ms, "request")
      BY <3>1, SentMessages DEF Has
    <3>3. Send(ms)
      BY <2>1 DEF HandshakeSends
    <3> HIDE DEF ms
    <3>4. Kept(outbox, outbox \o ms, "request")
      BY <1>0, <3>2, ConcatOthers DEF Kept
    <3>5. Kept(outbox, outbox, "request")
      BY DEF Kept
    <3>6. QED
      BY <3>2, <3>3, <3>4, <3>5, SendShape
  <2>2. CASE UNCHANGED <<outbox, connection>>
    BY <2>2 DEF Kept
  <2>3. QED
    BY <2>1, <2>2 DEF Handshake, HandshakeReceives, HandshakeEof, HandshakeFails
<1>4. ASSUME remote.chokes = 0
      PROVE  InFlow(inbox', outbox', connection', dp, remote.choking)
  <2>1. InFlow(inbox, outbox, connection, dp, remote.choking)
    BY <1>4 DEF FlowInv
  <2>2. ~dp.exists /\ ~Has(inbox, "unchoke")
    BY <1>2, <2>1 DEF InFlow, Unchoking
  <2>3. ~Has(inbox, "block")
    BY <1>0, <2>1, <2>2, FlowIdle
  <2>4. ~Has(inbox', "unchoke") /\ ~Has(inbox', "block")
    <3>1. CASE inbox' = inbox
      BY <2>2, <2>3, <3>1
    <3>2. CASE inbox # << >> /\ inbox' = Tail(inbox)
      BY <1>0, <2>2, <2>3, <3>2, TailHas
    <3>3. CASE inbox' = SubSeq(inbox, 3, Len(inbox))
      <4> DEFINE n == Len(inbox)
      <4>1. n \in Nat /\ \A i \in 3..n : inbox[i] \in InMsgs
        BY <1>0, LenProperties, ElementOfSeq
      <4>2. /\ Len(inbox') = IF 3 <= n THEN n - 3 + 1 ELSE 0
            /\ \A i \in 1..(n - 3 + 1) : inbox'[i] = inbox[3 + i - 1]
        BY <3>3, <4>1, SubSeqProperties
      <4>3. \A k \in 1..n : inbox[k].type \notin {"unchoke", "block"}
        BY <2>2, <2>3 DEF Has
      <4> HIDE DEF n
      <4>4. ASSUME NEW i \in 1..Len(inbox') PROVE inbox'[i].type \notin {"unchoke", "block"}
        <5>1. i \in 1..(n - 3 + 1) /\ 3 + i - 1 \in 1..n
          BY <4>1, <4>2
        <5>2. QED
          BY <4>2, <4>3, <5>1
      <4>5. QED
        BY <4>4 DEF Has
    <3>4. QED
      BY <3>1, <3>2, <3>3 DEF Handshake, HandshakeSends, HandshakeReceives, HandshakeEof, HandshakeFails
  <2>5. Kept(inbox, inbox', "block")
    <3> SUFFICES ASSUME NEW p, NEW lo \in Int, NEW hi \in Int, Ordered(inbox, "block", p, lo, hi)
                 PROVE  Ordered(inbox', "block", p, lo, hi)
      BY DEF Kept
    <3>1. \A o \in lo..(hi - 1) : FALSE
      BY <2>3 DEF Ordered, Has
    <3>2. QED
      BY <2>4, <3>1 DEF Ordered, Has
  <2>6. Once(inbox', "unchoke")
    BY <2>4 DEF Has, Once
  <2>7. QED
    BY <1>0, <1>3, <2>1, <2>4, <2>5, <2>6, FlowKept
<1>5. QED
  BY <1>1, <1>4 DEF FlowInv

LEMMA FlowRemote ==
  ASSUME TypeInv, FlowInv, RemoteStep
  PROVE  FlowInv'
<1> DEFINE dp == m_download_piece
<1>0. /\ inbox \in Seq(InMsgs) /\ outbox \in Seq(OutMsgs) /\ DownloadOK(dp)
      /\ remote \in Remotes /\ remote.chokes \in Nat
  BY DEF TypeInv, Remotes
<1>1. Kept(inbox, inbox, "block") /\ Kept(outbox, outbox, "request")
  BY DEF Kept
<1>2. CASE RemoteAnnounces \/ RemoteUnchokes \/ RemoteChokes \/ RemoteChats
  <2>1. PICK msg \in RemoteMsgs :
           /\ inbox' = Append(inbox, msg)
           /\ UNCHANGED <<pc, download, outbox, connection>>
           /\ \/ msg.type # "unchoke" /\ remote'.choking = remote.choking
              \/ msg.type = "unchoke" /\ remote.choking /\ ~remote'.choking
              \/ remote'.chokes = remote.chokes + 1
           /\ remote'.chokes = remote.chokes \/ remote'.chokes = remote.chokes + 1
           /\ remote' \in Remotes
    BY <1>2, RemoteTalks
  <2>2. msg \in InMsgs /\ msg.type # "block"
    BY DEF RemoteMsgs, InMsgs
  <2>3. Kept(inbox, inbox', "block")
    BY <1>0, <2>1, <2>2, AppendOthers DEF Kept
  <2>4. ASSUME remote'.chokes = 0
        PROVE  InFlow(inbox', outbox, connection, dp, remote'.choking)
    <3>1. remote.chokes = 0 /\ remote'.chokes # remote.chokes + 1
      BY <1>0, <2>1, <2>4
    <3>2. InFlow(inbox, outbox, connection, dp, remote.choking)
      BY <3>1 DEF FlowInv
    <3>3. CASE msg.type # "unchoke" /\ remote'.choking = remote.choking
      <4>1. /\ Has(inbox', "unchoke") <=> Has(inbox, "unchoke")
            /\ Once(inbox, "unchoke") => Once(inbox', "unchoke")
        BY <1>0, <2>1, <2>2, <3>3, AppendOthers
      <4>2. InFlow(inbox', outbox, connection, dp, remote.choking)
        BY <1>0, <1>1, <2>3, <3>2, <4>1, FlowKept
      <4>3. QED
        BY <3>3, <4>2
    <3>4. CASE msg.type = "unchoke" /\ remote.choking /\ ~remote'.choking
      <4>1. ~Has(inbox, "unchoke") /\ ~dp.exists /\ dp.downloaded = 0
        BY <3>2, <3>4 DEF InFlow, Unchoking
      <4>2. Once(inbox', "unchoke")
        <5> DEFINE n == Len(inbox)
        <5>1. n \in Nat /\ Len(inbox') = n + 1 /\ \A k \in 1..n : inbox'[k] = inbox[k]
          BY <1>0, <2>1, <2>2, AppendProperties
        <5>2. \A k \in 1..n : inbox[k].type # "unchoke"
          BY <4>1 DEF Has
        <5> HIDE DEF n
        <5>3. \A k \in 1..(n + 1) : inbox'[k].type = "unchoke" => k = n + 1
          BY <5>1, <5>2
        <5>4. QED
          BY <5>1, <5>3 DEF Once
      <4>3. PICK b, c, e \in 0..PieceBlocks : Flow(inbox, outbox, connection, dp, b, c, e)
        BY <3>2 DEF InFlow
      <4>4. dp.downloaded \in Int /\ b \in Int /\ Ordered(inbox, "block", dp.piece_index, dp.downloaded, b)
        BY <4>1, <4>3 DEF Flow
      <4>5. Ordered(inbox', "block", dp.piece_index, dp.downloaded, b)
        BY <2>3, <4>4 DEF Kept
      <4>6. Flow(inbox', outbox, connection, dp, b, c, e)
        BY <4>3, <4>5 DEF Flow
      <4>7. Unchoking(inbox', remote'.choking, dp)
        BY <3>4, <4>1, <4>2 DEF Unchoking
      <4>8. QED
        BY <3>2, <4>6, <4>7 DEF InFlow
    <3>5. QED
      BY <2>1, <3>1, <3>3, <3>4
  <2>5. QED
    BY <2>1, <2>4 DEF FlowInv, download
<1>3. CASE RemoteReads
  <2> DEFINE m == Head(outbox)
  <2>1. /\ connection = "open" /\ outbox # << >> /\ outbox' = Tail(outbox)
        /\ UNCHANGED <<pc, download>>
        /\ remote'.choking = remote.choking /\ remote'.chokes = remote.chokes
        /\ connection' = IF m.type = "stray" THEN "closed" ELSE "open"
        /\ \/ /\ m.type = "request" /\ m.piece \in RemoteHas
              /\ inbox' = Append(inbox, Block(m.piece, m.offset))
           \/ m.type = "handshake" /\ inbox' = inbox \o <<Hello, Msg("peer_id")>>
           \/ /\ m.type # "handshake" /\ inbox' = inbox
              /\ m.type = "request" =>
                   remote.choking \/ m.piece \notin RemoteHas \/ ~(m.offset < PieceBlocks)
    BY <1>3, RemoteReadsShape
  <2>2. ASSUME remote.chokes = 0
        PROVE  InFlow(inbox', outbox', connection', dp, remote.choking)
    <3>1. InFlow(inbox, outbox, "open", dp, remote.choking)
      BY <2>1, <2>2 DEF FlowInv
    <3>2. CASE m.type = "request"
      <4>1. /\ m.piece \in RemoteHas =>
                 InFlow(Append(inbox, Block(m.piece, m.offset)), Tail(outbox), "open", dp, remote.choking)
            /\ remote.choking \/ m.piece \notin RemoteHas \/ ~(m.offset < PieceBlocks) =>
                 InFlow(inbox, Tail(outbox), "open", dp, remote.choking)
        BY <1>0, <2>1, <3>1, <3>2, FlowServes
      <4> HIDE DEF m
      <4>2. QED
        BY <2>1, <3>2, <4>1
    <3>3. CASE m.type # "request"
      <4>1. Kept(outbox, outbox', "request")
        BY <1>0, <2>1, <3>3, TailKeeps
      <4>2. CASE inbox' = inbox
        <5>1. InFlow(inbox, outbox', connection', dp, remote.choking)
          BY <1>0, <1>1, <3>1, <4>1, FlowKept
        <5>2. QED
          BY <4>2, <5>1
      <4>3. CASE inbox' = inbox \o <<Hello, Msg("peer_id")>>
        <5> DEFINE ms == <<Hello, Msg("peer_id")>>
        <5>1. Hello.type = "handshake" /\ Msg("peer_id").type = "peer_id"
          BY DEF Hello, Msg
        <5>2. ms \in Seq({Hello, Msg("peer_id")}) /\ ~Has(ms, "block") /\ ~Has(ms, "unchoke")
          BY <5>1 DEF Has
        <5> HIDE DEF ms
        <5>3. /\ Kept(inbox, inbox \o ms, "block")
              /\ Has(inbox \o ms, "unchoke") <=> Has(inbox, "unchoke")
              /\ Once(inbox, "unchoke") => Once(inbox \o ms, "unchoke")
          BY <1>0, <5>2, ConcatOthers DEF Kept
        <5>4. inbox' = inbox \o ms
          BY <4>3 DEF ms
        <5>5. QED
          BY <1>0, <3>1, <4>1, <5>3, <5>4, FlowKept
      <4>4. QED
        BY <2>1, <3>3, <4>2, <4>3
    <3>4. QED
      BY <3>2, <3>3
  <2> HIDE DEF m
  <2>3. QED
    BY <2>1, <2>2 DEF FlowInv, download
<1>4. CASE RemoteCloses
  <2>1. /\ connection' = "closed" /\ UNCHANGED <<pc, download, outbox, remote>>
        /\ \/ UNCHANGED inbox
           \/ /\ Len(inbox) \in Nat \ {0} /\ inbox[Len(inbox)].type = "block"
              /\ inbox' \in Seq(InMsgs) /\ Len(inbox') = Len(inbox)
              /\ \A k \in 1..(Len(inbox) - 1) : inbox'[k] = inbox[k]
              /\ inbox'[Len(inbox)].type = "torn"
    BY <1>4, RemoteClosesShape
  <2>2. ASSUME remote.chokes = 0 PROVE InFlow(inbox', outbox, "closed", dp, remote.choking)
    <3>1. InFlow(inbox, outbox, connection, dp, remote.choking)
      BY <2>2 DEF FlowInv
    <3>2. CASE inbox' = inbox
      <4>1. InFlow(inbox, outbox, "closed", dp, remote.choking)
        BY <1>0, <1>1, <3>1, FlowKept
      <4>2. QED
        BY <3>2, <4>1
    <3>3. CASE inbox' # inbox
      BY <1>0, <2>1, <3>1, <3>3, FlowTears
    <3>4. QED
      BY <3>2, <3>3
  <2>3. QED
    BY <2>1, <2>2 DEF FlowInv, download
<1>5. QED
  BY <1>2, <1>3, <1>4 DEF RemoteStep

LEMMA FlowNext == TypeInv /\ ShakeInv /\ FlowInv /\ [Next]_vars => FlowInv'
<1> SUFFICES ASSUME TypeInv, ShakeInv, FlowInv, [Next]_vars PROVE FlowInv'
  OBVIOUS
<1>1. CASE UNCHANGED <<inbox, outbox, connection, pc, download, remote>>
  BY <1>1 DEF FlowInv, download
<1>2. (\E p \in BitfieldBits : MainMarks(p)) \/ SharedMemset \/ Tick \/ UNCHANGED vars
        => UNCHANGED <<inbox, outbox, connection, pc, download, remote>>
  BY DEF MainMarks, SharedMemset, Tick, vars
<1>3. QED
  BY <1>1, <1>2, FlowHandshake, FlowPlainWork, FlowUnchoke, FlowNotify, FlowRemote DEF Next, Work, PlainWork

LEMMA InitFlow == Init => ShakeInv /\ FlowInv
<1> SUFFICES ASSUME Init PROVE ShakeInv /\ FlowInv
  OBVIOUS
<1> DEFINE none == << >>
<1>1. /\ inbox = none /\ outbox = none /\ pc = "handshake" /\ m_download_piece = NoDownload
      /\ remote.choking /\ ~remote.interested /\ ~remote.shaken /\ ~remote.announced
  BY DEF Init
<1>2. ShakeInv
  BY <1>1 DEF ShakeInv, Handshaking
<1>3. NoDownload.downloaded = 0 /\ ~NoDownload.exists
  BY NoDownloadFields
<1>4. \A type : ~Has(none, type) /\ Once(none, type)
  BY EmptySeq DEF Has, Once
<1>5. PieceBlocks \in Nat /\ 0 \in 0..PieceBlocks /\ 0 \in Int
  BY PeerAssumption DEF PeerAssumption
<1> HIDE DEF none
<1>6. /\ Ordered(none, "block", NoDownload.piece_index, 0, 0)
      /\ Ordered(none, "request", NoDownload.piece_index, 0, 0)
  BY <1>4, <1>5, OrderedNone
<1>7. Flow(none, none, connection, NoDownload, 0, 0, 0)
  BY <1>3, <1>5, <1>6 DEF Flow
<1>8. DataRight(NoDownload)
  BY <1>3 DEF DataRight
<1>9. Unchoking(none, remote.choking, NoDownload)
  BY <1>3, <1>4 DEF Unchoking
<1>10. InFlow(none, none, connection, NoDownload, remote.choking)
  BY <1>5, <1>7, <1>8, <1>9 DEF InFlow
<1>11. QED
  BY <1>1, <1>2, <1>10 DEF FlowInv

LEMMA FlowInvariant == Spec => [](TypeInv /\ ShakeInv /\ FlowInv)
<1>1. TypeInv /\ ShakeInv /\ FlowInv /\ [Next]_vars => ShakeInv' /\ FlowInv'
  BY ShakeNext, FlowNext
<1>2. QED
  BY <1>1, InitFlow, TypesInvariant, PTL DEF Spec

-----------------------------------------------------------------------------
(* What the flow of requests and blocks shows.                             *)

\* The torrent's hash has no zero byte, where strncmp would stop, and a hash is
\* as long as any other.
HashesComparable ==
  /\ \E n \in Nat : \A h \in RemoteHashes \cup {OurHash} : h \in [1..n -> Nat]
  /\ \A i \in DOMAIN OurHash : OurHash[i] # 0

LEMMA EqualHashes ==
  ASSUME HashesComparable, NEW h \in RemoteHashes, strncmpEqual(OurHash, h)
  PROVE  h = OurHash
<1>1. PICK n \in Nat : OurHash \in [1..n -> Nat] /\ h \in [1..n -> Nat]
  BY DEF HashesComparable
<1>2. Len(OurHash) = n /\ \A i \in 1..n : OurHash[i] # 0
  BY <1>1 DEF HashesComparable
<1>3. \A i \in 1..n : OurHash[i] = h[i]
  <2> SUFFICES ASSUME NEW i \in 1..n PROVE OurHash[i] = h[i]
    OBVIOUS
  <2>1. \A j \in 1..(i - 1) : j \in 1..n
    BY <1>1
  <2>2. QED
    BY <1>2, <2>1 DEF strncmpEqual
<1>4. QED
  BY <1>1, <1>3

\* What the process hands to the main process is the whole piece, each block at
\* its own offset, and comes from a remote with our torrent, until the remote
\* chokes again: for every number of blocks, any pieces the remote has and
\* whatever else it sends, provided the torrent's hash has no zero byte.
THEOREM NotifiedPieceAlwaysIntact ==
  ASSUME HashesComparable PROVE Spec => []NotifiedPieceIntact
<1>1. TypeInv /\ ShakeInv /\ FlowInv => NotifiedPieceIntact
  <2> SUFFICES ASSUME TypeInv, ShakeInv, FlowInv, pc = "notify", remote.chokes = 0
               PROVE  /\ remote.hash = OurHash
                      /\ Len(m_download_piece.data) = PieceBlocks
                      /\ \A k \in 1..PieceBlocks :
                           m_download_piece.data[k] = Block(m_download_piece.piece_index, k - 1)
    BY DEF NotifiedPieceIntact
  <2>1. strncmpEqual(OurHash, remote.hash) /\ remote.hash \in RemoteHashes
    BY DEF ShakeInv, Handshaking, TypeInv, Remotes
  <2>2. remote.hash = OurHash
    BY <2>1, EqualHashes
  <2>3. /\ Complete(m_download_piece) /\ DownloadOK(m_download_piece)
        /\ InFlow(inbox, outbox, connection, m_download_piece, remote.choking)
    BY DEF FlowInv, TypeInv
  <2>4. m_download_piece.downloaded = PieceBlocks
    BY <2>3, FlowIdle
  <2>5. QED
    BY <2>2, <2>3, <2>4 DEF DownloadOK, InFlow, DataRight
<1>2. QED
  BY <1>1, FlowInvariant, PTL

\* What the remote has, read in the wrong bit order and with the haves' bytes
\* swapped, are pieces it has: so it is for a remote with all pieces of a
\* torrent whose bitfield has no spare bits.
ReadsAsAvailable ==
  AsRead(RemoteHas) \subseteq RemoteHas /\ \A p \in Pieces : HaveBit(p) \subseteq RemoteHas

\* Only available pieces are downloaded.
AvailableInv ==
  /\ m_bitfield \subseteq RemoteHas
  /\ m_download_piece.exists => m_download_piece.piece_index \in RemoteHas

LEMMA AvailableNext ==
  ASSUME ReadsAsAvailable, TypeInv, AvailableInv, [Next]_vars
  PROVE  AvailableInv'
<1> DEFINE dp == m_download_piece
<1>0. inbox \in Seq(InMsgs) /\ DownloadOK(dp)
  BY DEF TypeInv
<1>1. CASE ReceiveUnchoke \/ NotifyDownloadedPiece
  <2>1. PICK d, next :
           /\ d = dp \/ d = Emptied(dp)
           /\ m_download_piece' = next[1]
           /\ next[1] = d \/ \E p \in m_bitfield : next[1] = Fresh(p)
    BY <1>1, AskingWork
  <2>2. m_bitfield' = m_bitfield
    BY <1>1 DEF ReceiveUnchoke, NotifyDownloadedPiece
  <2>3. \A p \in m_bitfield : Fresh(p).piece_index = p /\ p \in RemoteHas
    BY FreshFields DEF AvailableInv, TypeInv, StateOK
  <2>4. ~Emptied(dp).exists
    BY <1>0, EmptiedFields
  <2>5. QED
    BY <2>1, <2>2, <2>3, <2>4 DEF AvailableInv
<1>2. CASE ReceiveBlock
  <2> DEFINE S == Stored(dp, Head(inbox))
  <2>1. m_download_piece' = S /\ m_bitfield' = m_bitfield /\ Receives("block")
    BY <1>2 DEF ReceiveBlock, AfterReceive
  <2>2. Head(inbox) \in BlockType
    <3>1. Head(inbox) \in InMsgs /\ Head(inbox).type = "block"
      BY <2>1, ReceivesTypes
    <3>2. QED
      BY <3>1 DEF InMsgs
  <2>3. S.exists = dp.exists /\ S.piece_index = dp.piece_index
    BY <1>0, <2>2, StoredFields
  <2> HIDE DEF S
  <2>4. QED
    BY <2>1, <2>3 DEF AvailableInv
<1>3. CASE ReceiveBitfield
  <2>1. Head(inbox) \in InMsgs /\ Head(inbox).type = "bitfield"
    BY <1>3, ReceivesTypes DEF ReceiveBitfield
  <2>2. Head(inbox).pieces = RemoteHas
    BY <2>1 DEF InMsgs, BlockType
  <2>3. m_bitfield' = AsRead(RemoteHas) /\ m_download_piece' = dp
    BY <1>3, <2>2 DEF ReceiveBitfield, AfterReceive
  <2>4. QED
    BY <2>3 DEF AvailableInv, ReadsAsAvailable
<1>4. CASE ReceiveHave
  <2>1. Head(inbox) \in InMsgs /\ Head(inbox).type = "have"
    BY <1>4, ReceivesTypes DEF ReceiveHave
  <2>2. Head(inbox).piece \in Pieces
    BY <2>1 DEF InMsgs, BlockType
  <2>3. m_bitfield' = m_bitfield \cup HaveBit(Head(inbox).piece) /\ m_download_piece' = dp
    BY <1>4 DEF ReceiveHave, AfterReceive
  <2>4. QED
    BY <2>2, <2>3 DEF AvailableInv, ReadsAsAvailable
<1>5. CASE UNCHANGED <<m_bitfield, m_download_piece>>
  BY <1>5 DEF AvailableInv
<1>6. \/ ReceiveUnchoke \/ NotifyDownloadedPiece \/ ReceiveBlock \/ ReceiveBitfield \/ ReceiveHave
      \/ UNCHANGED <<m_bitfield, m_download_piece>>
  <2>1. Handshake \/ HandshakeFails => UNCHANGED <<m_bitfield, m_download_piece>>
    BY DEF Handshake, HandshakeSends, HandshakeReceives, HandshakeEof, HandshakeFails, download
  <2>2. (\/ ReceiveChoke \/ ReceiveInterested \/ ReceiveTornBlock \/ ReceiveUnread
         \/ ReceiveKeepAlive \/ ReceiveKeepAliveAndByte \/ ReceiveEof) =>
           UNCHANGED <<m_bitfield, m_download_piece>>
    BY DEF ReceiveChoke, ReceiveInterested, ReceiveTornBlock, ReceiveUnread, ReceiveKeepAlive,
           ReceiveKeepAliveAndByte, ReceiveEof, AfterReceive, KeepAlive, download
  <2>3. (\E p \in BitfieldBits : MainMarks(p)) \/ SharedMemset \/ Tick \/ UNCHANGED vars
          => UNCHANGED <<m_bitfield, m_download_piece>>
    BY DEF MainMarks, SharedMemset, Tick, vars, download
  <2>4. RemoteStep => UNCHANGED <<m_bitfield, m_download_piece>>
    BY RemoteTalks, RemoteReadsShape, RemoteClosesShape DEF RemoteStep, download
  <2>5. QED
    BY <2>1, <2>2, <2>3, <2>4 DEF Next, Work
<1>7. QED
  BY <1>1, <1>2, <1>3, <1>4, <1>5, <1>6

\* Every block asked for exists and is one the remote has, and no block is asked
\* for twice while the first request or its answer is under way, until the
\* remote chokes again: for every number of blocks, when the pieces the remote
\* has survive the misreading of its bitfield and its haves.
THEOREM RequestsAlwaysServable ==
  ASSUME ReadsAsAvailable PROVE Spec => []RequestsServable
<1>1. Init => AvailableInv
  BY NoDownloadFields DEF Init, AvailableInv
<1>2. TypeInv /\ AvailableInv /\ [Next]_vars => AvailableInv'
  BY AvailableNext
<1>3. TypeInv /\ FlowInv /\ AvailableInv => RequestsServable
  <2> SUFFICES ASSUME TypeInv, FlowInv, AvailableInv, remote.chokes = 0,
                      NEW k \in DOMAIN outbox, outbox[k].type = "request"
               PROVE  /\ outbox[k].piece \in RemoteHas /\ outbox[k].offset < PieceBlocks
                      /\ \A j \in DOMAIN outbox : outbox[j].type = "request" =>
                           (outbox[j].piece = outbox[k].piece /\ outbox[j].offset = outbox[k].offset => j = k)
                      /\ \A j \in DOMAIN inbox : inbox[j].type = "block" =>
                           ~(inbox[j].piece = outbox[k].piece /\ inbox[j].offset = outbox[k].offset)
    BY DEF RequestsServable
  <2> DEFINE dp == m_download_piece
  <2>1. PICK b, c, e \in 0..PieceBlocks : Flow(inbox, outbox, connection, dp, b, c, e)
    BY DEF FlowInv, InFlow
  <2>2. DOMAIN outbox = 1..Len(outbox) /\ DOMAIN inbox = 1..Len(inbox)
    BY LenProperties DEF TypeInv
  <2>3. /\ \A j \in DOMAIN outbox : outbox[j].type = "request" =>
              outbox[j].piece = dp.piece_index /\ outbox[j].offset \in c..(e - 1)
        /\ \A i, j \in DOMAIN outbox : outbox[i].type = "request" /\ outbox[j].type = "request" /\ i < j =>
              outbox[i].offset < outbox[j].offset
        /\ \A j \in DOMAIN inbox : inbox[j].type = "block" => inbox[j].offset \in dp.downloaded..(b - 1)
    BY <2>1, <2>2 DEF Flow, Ordered
  <2>4. outbox[k].piece = dp.piece_index /\ outbox[k].offset \in c..(e - 1)
    BY <2>3
  <2>5. dp.downloaded \in Nat /\ dp.downloaded <= b /\ b <= c /\ c <= e /\ (~dp.exists => e = dp.downloaded)
    BY <2>1 DEF Flow, TypeInv, DownloadOK, Downloads
  <2>6. outbox[k].offset < PieceBlocks /\ dp.exists
    <3>1. PieceBlocks \in Nat
      BY PeerAssumption DEF PeerAssumption
    <3>2. QED
      BY <2>4, <2>5, <3>1
  <2>7. outbox[k].piece \in RemoteHas
    BY <2>4, <2>6 DEF AvailableInv
  <2>8. ASSUME NEW j \in DOMAIN outbox, outbox[j].type = "request", outbox[j].offset = outbox[k].offset
        PROVE  j = k
    <3>1. Len(outbox) \in Nat /\ (j < k \/ j = k \/ k < j)
      BY <2>2, LenProperties DEF TypeInv
    <3>2. ~(outbox[k].offset < outbox[k].offset)
      BY <2>4
    <3>3. ~(j < k) /\ ~(k < j)
      BY <2>3, <2>8, <3>2
    <3>4. QED
      BY <3>1, <3>3
  <2>9. ASSUME NEW j \in DOMAIN inbox, inbox[j].type = "block" PROVE inbox[j].offset # outbox[k].offset
    <3>1. inbox[j].offset \in dp.downloaded..(b - 1)
      BY <2>3, <2>9
    <3>2. QED
      BY <2>4, <2>5, <3>1
  <2>10. QED
    BY <2>6, <2>7, <2>8, <2>9
<1>4. QED
  BY <1>1, <1>2, <1>3, FlowInvariant, PTL DEF Spec

-----------------------------------------------------------------------------
(* A quiet remote.                                                         *)

QuietTypes == {"handshake", "peer_id", "bitfield", "unchoke", "block"}

\* A quiet remote keeps the connection, sends what receive_message reads whole,
\* and after its handshake nothing of it; it is never sent a stray byte.
QuietInv ==
  /\ connection = "open" /\ remote.chokes = 0 /\ ~Has(outbox, "stray")
  /\ \A k \in 1..Len(inbox) :
       /\ inbox[k].type \in QuietTypes
       /\ pc \notin Handshaking => inbox[k].type \notin {"handshake", "peer_id"}
  /\ pc # "desync"

LEMMA QuietHandshake ==
  ASSUME Quiet, TypeInv, ShakeInv, QuietInv, Handshake \/ HandshakeFails
  PROVE  QuietInv'
<1> DEFINE n == Len(inbox)
<1>0. inbox \in Seq(InMsgs) /\ outbox \in Seq(OutMsgs) /\ n \in Nat /\ remote' = remote
  BY LenProperties DEF TypeInv, Handshake, HandshakeSends, HandshakeReceives, HandshakeEof, HandshakeFails
<1>1. CASE HandshakeSends
  <2> DEFINE ms == <<Msg("handshake")>>
  <2>1. Msg("handshake").type = "handshake"
    BY DEF Msg
  <2>2. ms \in Seq(OutMsgs) /\ ~Has(ms, "stray") /\ Send(ms)
    BY <1>1, <2>1, SentMessages DEF Has, HandshakeSends
  <2> HIDE DEF ms
  <2>3. ~Has(outbox', "stray") /\ connection' = "open"
    BY <1>0, <2>2, SendShape, ConcatOthers DEF QuietInv
  <2>4. inbox' = inbox /\ pc' = "handshake_wait"
    BY <1>1 DEF HandshakeSends
  <2>5. QED
    BY <1>0, <2>3, <2>4 DEF QuietInv, Handshaking
<1>2. CASE HandshakeReceives
  <2>1. /\ inbox' = SubSeq(inbox, 3, n) /\ UNCHANGED <<outbox, connection>> /\ pc' \in {"receive", "rejected"}
        /\ pc = "handshake_wait" /\ inbox # << >>
    BY <1>2 DEF HandshakeReceives
  <2>2. \A k \in 3..n : inbox[k].type \notin {"handshake", "peer_id"}
    BY <2>1 DEF ShakeInv
  <2>3. \A i \in 3..n : inbox[i] \in InMsgs
    BY <1>0, ElementOfSeq
  <2>4. /\ Len(inbox') = IF 3 <= n THEN n - 3 + 1 ELSE 0
        /\ \A i \in 1..(n - 3 + 1) : inbox'[i] = inbox[3 + i - 1]
    BY <1>0, <2>1, <2>3, SubSeqProperties
  <2>5. \A k \in 1..n : inbox[k].type \in QuietTypes
    BY DEF QuietInv
  <2> HIDE DEF n
  <2>6. ASSUME NEW i \in 1..Len(inbox')
        PROVE  inbox'[i].type \in QuietTypes /\ inbox'[i].type \notin {"handshake", "peer_id"}
    <3>1. i \in 1..(n - 3 + 1) /\ 3 + i - 1 \in 1..n /\ 3 + i - 1 \in 3..n
      BY <1>0, <2>4
    <3>2. QED
      BY <2>2, <2>4, <2>5, <3>1
  <2>7. QED
    BY <1>0, <2>1, <2>6 DEF QuietInv
<1>3. CASE HandshakeEof \/ HandshakeFails
  BY <1>3 DEF HandshakeEof, HandshakeFails, QuietInv
<1>4. QED
  BY <1>1, <1>2, <1>3 DEF Handshake

LEMMA QuietWork ==
  ASSUME Quiet, TypeInv, FlowInv, QuietInv, Work
  PROVE  QuietInv'
<1>0. /\ inbox \in Seq(InMsgs) /\ outbox \in Seq(OutMsgs) /\ remote' = remote
      /\ pc \in {"receive", "notify"} /\ pc \notin Handshaking
  BY WorkShape DEF TypeInv, Handshaking
<1>1. ASSUME inbox # << >>
      PROVE  Head(inbox).type \in QuietTypes /\ Head(inbox).type \notin {"handshake", "peer_id"}
  <2>1. 1 \in 1..Len(inbox) /\ Head(inbox) = inbox[1]
    BY <1>0, <1>1, TailShift
  <2>2. QED
    BY <1>0, <2>1 DEF QuietInv
<1>2. ~ReceiveKeepAlive /\ ~ReceiveEof /\ ~ReceiveKeepAliveAndByte
  BY <1>1 DEF ReceiveKeepAlive, ReceiveEof, ReceiveKeepAliveAndByte, Receives, QuietInv, QuietTypes
<1>3. ~ReceiveUnread
  <2>1. inbox # << >> /\ Head(inbox).type = "block" => Head(inbox).piece = m_download_piece.piece_index
    BY BlockIsExpected DEF QuietInv
  <2>2. QED
    BY <1>1, <2>1 DEF ReceiveUnread, Receives, QuietTypes
<1>4. pc' # "desync"
  BY <1>2, <1>3 DEF Work, ReceiveChoke, ReceiveUnchoke, ReceiveBitfield, ReceiveHave, ReceiveInterested,
     ReceiveBlock, ReceiveTornBlock, NotifyDownloadedPiece, AfterReceive
<1>5. ~Has(outbox', "stray") /\ connection' = "open"
  <2>1. \E msgs \in Seq(OutMsgs) : Send(msgs) /\ ~Has(msgs, "stray")
    <3>1. CASE PlainWork
      <4>1. PICK msgs : /\ Plain(msgs) /\ Send(msgs)
                        /\ (\E k \in 1..Len(msgs) : msgs[k].type = "stray") => ReceiveKeepAlive \/ ReceiveEof
        BY <3>1, PlainWorkSends
      <4>2. QED
        BY <1>2, <4>1 DEF Plain, Has
    <3>2. CASE ReceiveUnchoke \/ NotifyDownloadedPiece
      <4>1. PICK dp, next : /\ Send(next[2]) /\ next[2] \in Seq(OutMsgs) /\ DownloadOK(dp) /\ DownloadOK(next[1])
                            /\ next[2] = << >> \/ next[2] = Requests(dp) \/ next[2] = Requests(next[1])
        BY <3>2, AskingWork
      <4>2. ~Has(<< >>, "stray")
        BY EmptySeq DEF Has
      <4>3. ASSUME NEW d, DownloadOK(d) PROVE ~Has(Requests(d), "stray")
        <5>1. Len(Requests(d)) = PieceBlocks /\ \A k \in 1..PieceBlocks : Requests(d)[k].type = "request"
          BY <4>3, RequestsFields
        <5>2. QED
          BY <5>1 DEF Has
      <4>4. QED
        BY <4>1, <4>2, <4>3
    <3>3. QED
      BY <3>1, <3>2 DEF Work, PlainWork
  <2>2. QED
    BY <1>0, <2>1, SendShape, ConcatOthers DEF QuietInv
<1>6. pc' \notin Handshaking
  BY WorkShape DEF Handshaking
<1>7. inbox' = inbox \/ (inbox # << >> /\ inbox' = Tail(inbox))
  BY DEF Work, ReceiveChoke, ReceiveUnchoke, ReceiveBitfield, ReceiveHave, ReceiveInterested, ReceiveBlock,
         ReceiveTornBlock, ReceiveUnread, ReceiveKeepAlive, ReceiveKeepAliveAndByte, ReceiveEof,
         NotifyDownloadedPiece, Receives
<1>8. \A k \in 1..Len(inbox) : inbox[k].type \in QuietTypes /\ inbox[k].type \notin {"handshake", "peer_id"}
  BY <1>0 DEF QuietInv
<1>9. \A k \in 1..Len(inbox') : inbox'[k].type \in QuietTypes /\ inbox'[k].type \notin {"handshake", "peer_id"}
  <2>1. CASE inbox' = inbox
    BY <1>8, <2>1
  <2>2. CASE inbox # << >> /\ inbox' = Tail(inbox)
    <3> DEFINE n == Len(inbox)
    <3>1. n \in Nat \ {0} /\ Len(inbox') = n - 1 /\ \A k \in 1..(n - 1) : inbox'[k] = inbox[k + 1]
      BY <1>0, <2>2, TailShift
    <3>2. \A k \in 1..n : inbox[k].type \in QuietTypes /\ inbox[k].type \notin {"handshake", "peer_id"}
      BY <1>8
    <3> HIDE DEF n
    <3>3. \A k \in 1..(n - 1) : k + 1 \in 1..n
      BY <3>1
    <3>4. QED
      BY <3>1, <3>2, <3>3
  <2>3. QED
    BY <1>7, <2>1, <2>2
<1>10. QED
  BY <1>0, <1>4, <1>5, <1>6, <1>9 DEF QuietInv

LEMMA QuietRemote ==
  ASSUME Quiet, TypeInv, ShakeInv, QuietInv, RemoteStep
  PROVE  QuietInv'
<1> DEFINE n == Len(inbox)
<1>0. inbox \in Seq(InMsgs) /\ outbox \in Seq(OutMsgs) /\ n \in Nat
  BY LenProperties DEF TypeInv
<1>1. ASSUME NEW T, NEW ms \in Seq(T), inbox' = inbox \o ms, pc' = pc,
             \A k \in 1..Len(ms) : /\ ms[k].type \in QuietTypes
                                   /\ pc \notin Handshaking => ms[k].type \notin {"handshake", "peer_id"}
      PROVE  \A k \in 1..Len(inbox') :
               /\ inbox'[k].type \in QuietTypes
               /\ pc' \notin Handshaking => inbox'[k].type \notin {"handshake", "peer_id"}
  <2> DEFINE m == Len(ms)
  <2>1. /\ n \in Nat /\ m \in Nat /\ Len(inbox') = n + m
        /\ \A k \in 1..n : inbox'[k] = inbox[k]
        /\ \A k \in 1..(n + m) : k > n => k - n \in 1..m /\ inbox'[k] = ms[k - n]
    BY <1>0, <1>1, ConcatShift
  <2>2. \A k \in 1..n : /\ inbox[k].type \in QuietTypes
                        /\ pc \notin Handshaking => inbox[k].type \notin {"handshake", "peer_id"}
    BY DEF QuietInv
  <2>3. \A k \in 1..m : /\ ms[k].type \in QuietTypes
                        /\ pc \notin Handshaking => ms[k].type \notin {"handshake", "peer_id"}
    BY <1>1
  <2> HIDE DEF n, m
  <2>4. ASSUME NEW k \in 1..(n + m)
        PROVE  /\ inbox'[k].type \in QuietTypes
               /\ pc \notin Handshaking => inbox'[k].type \notin {"handshake", "peer_id"}
    <3>1. CASE k > n
      <4> DEFINE q == k - n
      <4>1. q \in 1..m /\ inbox'[k] = ms[q]
        BY <2>1, <3>1
      <4> HIDE DEF q
      <4>2. /\ ms[q].type \in QuietTypes
            /\ pc \notin Handshaking => ms[q].type \notin {"handshake", "peer_id"}
        BY <2>3, <4>1
      <4>3. QED
        BY <4>1, <4>2
    <3>2. CASE k \in 1..n
      <4>1. inbox'[k] = inbox[k]
        BY <2>1, <3>2
      <4>2. /\ inbox[k].type \in QuietTypes
            /\ pc \notin Handshaking => inbox[k].type \notin {"handshake", "peer_id"}
        BY <2>2, <3>2
      <4>3. QED
        BY <4>1, <4>2
    <3>3. QED
      BY <2>1, <3>1, <3>2
  <2>5. QED
    BY <1>1, <2>1, <2>4
<1>2. CASE RemoteAnnounces \/ RemoteUnchokes \/ RemoteChokes \/ RemoteChats
  <2>1. PICK msg \in RemoteMsgs :
           /\ inbox' = Append(inbox, msg) /\ UNCHANGED <<pc, outbox, connection>>
           /\ remote'.chokes = remote.chokes /\ msg.type \in {"bitfield", "unchoke"}
    BY <1>2, RemoteTalks
  <2> DEFINE ms == <<msg>>
  <2>2. inbox' = inbox \o ms /\ ms \in Seq(RemoteMsgs) /\ Len(ms) = 1 /\ ms[1] = msg
    <3>1. msg \in InMsgs
      BY DEF RemoteMsgs, InMsgs
    <3>2. QED
      BY <1>0, <2>1, <3>1, AppendIsConcat
  <2> HIDE DEF ms
  <2>3. \A k \in 1..Len(ms) : ms[k].type \in QuietTypes /\ ms[k].type \notin {"handshake", "peer_id"}
    BY <2>1, <2>2 DEF QuietTypes
  <2>4. QED
    BY <1>1, <2>1, <2>2, <2>3 DEF QuietInv
<1>3. CASE RemoteReads
  <2> DEFINE m == Head(outbox)
  <2>1. /\ outbox # << >> /\ outbox' = Tail(outbox) /\ pc' = pc /\ remote'.chokes = remote.chokes
        /\ connection' = IF m.type = "stray" THEN "closed" ELSE "open"
        /\ \/ m.type = "request" /\ inbox' = Append(inbox, Block(m.piece, m.offset))
           \/ m.type = "handshake" /\ inbox' = inbox \o <<Hello, Msg("peer_id")>>
           \/ inbox' = inbox
        /\ m \in OutMsgs
    BY <1>3, RemoteReadsShape
  <2>2. /\ ~Has(outbox', "stray") /\ m.type # "stray"
        /\ pc \notin Handshaking => m.type # "handshake"
    BY <1>0, <2>1, TailHas DEF QuietInv, ShakeInv
  <2> HIDE DEF m
  <2>3. \A k \in 1..Len(inbox') :
           /\ inbox'[k].type \in QuietTypes
           /\ pc' \notin Handshaking => inbox'[k].type \notin {"handshake", "peer_id"}
    <3>1. CASE inbox' = inbox
      BY <2>1, <3>1 DEF QuietInv
    <3>2. CASE m.type = "handshake" /\ inbox' = inbox \o <<Hello, Msg("peer_id")>>
      <4> DEFINE ms == <<Hello, Msg("peer_id")>>
      <4>1. Hello.type = "handshake" /\ Msg("peer_id").type = "peer_id"
        BY DEF Hello, Msg
      <4>2. ms \in Seq({Hello, Msg("peer_id")}) /\ \A k \in 1..Len(ms) : ms[k].type \in QuietTypes
        BY <4>1 DEF QuietTypes
      <4>3. inbox' = inbox \o ms
        BY <3>2
      <4> HIDE DEF ms
      <4>4. pc \in Handshaking
        BY <2>2, <3>2
      <4>5. QED
        BY <1>1, <2>1, <4>2, <4>3, <4>4
    <3>3. CASE m.type = "request" /\ inbox' = Append(inbox, Block(m.piece, m.offset))
      <4> DEFINE new == Block(m.piece, m.offset)
                 ms == <<new>>
      <4>1. new.type = "block" /\ new \in BlockType
        <5>1. m.piece \in BitfieldBits /\ m.offset \in Nat
          BY <2>1, <3>3 DEF OutMsgs
        <5>2. m.piece \in Nat
          BY <5>1, Bits, PeerAssumption DEF BitfieldBits, PeerAssumption
        <5>3. QED
          BY <5>1, <5>2 DEF Block, BlockType
      <4> HIDE DEF new
      <4>2. inbox' = inbox \o ms
        BY <1>0, <3>3, <4>1, AppendIsConcat DEF new, InMsgs
      <4>3. ms \in Seq({new}) /\ Len(ms) = 1 /\ ms[1] = new
        OBVIOUS
      <4> HIDE DEF ms
      <4>4. \A k \in 1..Len(ms) : ms[k].type \in QuietTypes /\ ms[k].type \notin {"handshake", "peer_id"}
        BY <4>1, <4>3 DEF QuietTypes
      <4>5. QED
        BY <1>1, <2>1, <4>2, <4>3, <4>4
    <3>4. QED
      BY <2>1, <3>1, <3>2, <3>3
  <2>4. QED
    BY <2>1, <2>2, <2>3 DEF QuietInv
<1>4. CASE RemoteCloses
  BY <1>4 DEF RemoteCloses
<1>5. QED
  BY <1>2, <1>3, <1>4 DEF RemoteStep

\* From a remote that never chokes again and sends nothing odd, receive_message
\* reads every message whole, to the end of the download: for every number of
\* pieces, blocks and announced pieces.  What keeps blocks of another piece out
\* of the stream is that nothing is under way when a new piece is started.
THEOREM QuietStreamInSync ==
  ASSUME Quiet PROVE Spec => []StreamInSync
<1>1. Init => QuietInv
  <2> SUFFICES ASSUME Init PROVE QuietInv
    OBVIOUS
  <2>1. Len(<< >>) = 0 /\ 1..0 = {}
    BY EmptySeq
  <2>2. remote.chokes = 0
    BY DEF Init
  <2>3. QED
    BY <2>1, <2>2 DEF Init, QuietInv, Has
<1>2. TypeInv /\ ShakeInv /\ FlowInv /\ QuietInv /\ [Next]_vars => QuietInv'
  <2> SUFFICES ASSUME TypeInv, ShakeInv, FlowInv, QuietInv, [Next]_vars PROVE QuietInv'
    OBVIOUS
  <2>1. CASE UNCHANGED <<inbox, outbox, connection, pc, remote>>
    BY <2>1 DEF QuietInv
  <2>2. (\E p \in BitfieldBits : MainMarks(p)) \/ SharedMemset \/ Tick \/ UNCHANGED vars
          => UNCHANGED <<inbox, outbox, connection, pc, remote>>
    BY DEF MainMarks, SharedMemset, Tick, vars
  <2>3. QED
    BY <2>1, <2>2, QuietHandshake, QuietWork, QuietRemote DEF Next
<1>3. QuietInv => StreamInSync
  BY DEF QuietInv, StreamInSync
<1>4. QED
  BY <1>1, <1>2, <1>3, FlowInvariant, PTL DEF Spec
=============================================================================

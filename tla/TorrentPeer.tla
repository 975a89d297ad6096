---------------------------- MODULE TorrentPeer ----------------------------
(***************************************************************************)
(* A download process and its remote peer: torrent_peer                    *)
(* (network/peer/peer.cpp), its handshake in spawn() and its messages as   *)
(* multiproc_task::work() drives it, against a remote end that follows the *)
(* BitTorrent wire protocol, over a TCP connection that keeps order in     *)
(* each direction.                                                         *)
(*                                                                         *)
(* inbox and outbox hold whole messages.  Where the code does not read a   *)
(* whole message, the model goes to "desync" and stops: every later byte   *)
(* would be taken for something it is not.  Sizes and offsets count blocks *)
(* of MAX_BLOCK_SIZE.  The shared bitfield is written by the main process  *)
(* after a notification (module Multiproc) and zeroed by new processes.    *)
(***************************************************************************)
EXTENDS Integers, Sequences, SequencesExt

CONSTANTS
  NumPieces,    \* pieces of the torrent: 0..NumPieces - 1
  PieceBlocks,  \* piece_length / MAX_BLOCK_SIZE
  Width,        \* bits in a byte of a bitfield (8 in the code)
  OurHash,      \* the file hash of the download target, a sequence of bytes
  RemoteHashes, \* the file hashes the remote may have
  RemoteHas,    \* the pieces the remote announces in its bitfield
  Quiet,        \* TRUE: the remote never chokes again, sends nothing odd
  MaxChokes,    \* bound: how often the remote chokes
  MaxQueue      \* bound: the remote sends only while the queues are this short

Pieces == 0..(NumPieces - 1)
BitfieldBytes == (NumPieces + Width - 1) \div Width
BitfieldBits == 0..(BitfieldBytes * Width - 1)

ASSUME PeerAssumption ==
  /\ NumPieces \in Nat \ {0} /\ PieceBlocks \in Nat \ {0} /\ Width \in Nat \ {0}
  /\ RemoteHas \subseteq Pieces /\ Quiet \in BOOLEAN
  /\ MaxChokes \in Nat /\ MaxQueue \in Nat

VARIABLES
  inbox, outbox,          \* the two directions of the connection
  connection,             \* "open", "closed" by the remote, "reset" after a send
  pc,                     \* "handshake" to "rejected" in spawn(), then work()
  m_bitfield,             \* what we believe the remote has
  m_am_choking, m_download_piece, m_socket_healthy,
  keptAlive,              \* m_time_of_last_keep_alive_message is this second
  m_bitfield_pieces,      \* the shared bitfield
  notified,               \* pieces sent to the main process, not yet marked
  remote                  \* the remote's own state

download == <<m_am_choking, m_download_piece>>
health   == <<m_socket_healthy, keptAlive>>
shared   == <<m_bitfield_pieces, notified>>
vars == <<inbox, outbox, connection, pc, m_bitfield, download, health, shared, remote>>

Block(p, k) == [type |-> "block", piece |-> p, offset |-> k]
Request(p, k) == [type |-> "request", piece |-> p, offset |-> k]
Msg(type) == [type |-> type]
Zeros == [type |-> "zeros"]    \* what resize() puts where no block was stored

\* m_download_piece; size is data.size(), data what its storage holds.  Before
\* the first download its members are zero, the index as well.
Fresh(p) == [piece_index |-> p, exists |-> TRUE, downloaded |-> 0, size |-> 0,
             data |-> << >>]
NoDownload == [Fresh(0) EXCEPT !.exists = FALSE]

\* downloaded && downloaded >= piece_size.  Mutant: one block too early.
CompleteEarly(dp) == dp.downloaded > 0 /\ dp.downloaded + 1 >= PieceBlocks
Complete(dp) == dp.downloaded > 0 /\ dp.downloaded >= PieceBlocks

Init ==
  /\ inbox = << >> /\ outbox = << >> /\ connection = "open"
  /\ pc = "handshake" /\ m_bitfield = {}
  /\ m_am_choking = TRUE /\ m_download_piece = NoDownload
  /\ m_socket_healthy = TRUE /\ keptAlive = FALSE
  /\ m_bitfield_pieces = {} /\ notified = {}
  /\ remote \in [hash : RemoteHashes, reserved : BOOLEAN, shaken : {FALSE},
                  announced : {FALSE}, choking : {TRUE}, interested : {FALSE},
                  chokes : {0}]
  /\ Quiet => remote.hash = OurHash /\ ~remote.reserved

-----------------------------------------------------------------------------
(* Sending.  On a connection the remote has closed, the first send is      *)
(* answered by a reset and the later ones fail.                            *)

Sent(msgs) == IF connection = "open" THEN outbox \o msgs ELSE outbox
Send(msgs) ==
  /\ outbox' = Sent(msgs)
  /\ connection' = IF connection = "closed" /\ msgs # << >> THEN "reset"
                   ELSE connection

-----------------------------------------------------------------------------
(* handshake(), in the process that forks.                                 *)

Handshaking == {"handshake", "handshake_wait", "rejected"}

\* strncmp: a zero byte ends the comparison.  Mutant: only the first byte is
\* compared.
FirstByteEqual(a, b) == a[1] = b[1]
strncmpEqual(a, b) ==
  \A i \in 1..Len(a) : (\A j \in 1..(i - 1) : a[j] # 0) => a[i] = b[i]

\* The prefix ends, for strncmp, with the first of the reserved bytes, which
\* must be zero.
Accepted(hello) == ~hello.reserved /\ strncmpEqual(OurHash, hello.hash)

\* The connection is refused or the send times out.
HandshakeFails ==
  /\ pc = "handshake" /\ ~Quiet
  /\ pc' = "rejected"
  /\ UNCHANGED <<inbox, outbox, connection, m_bitfield, download, health, shared, remote>>

HandshakeSends ==
  /\ pc = "handshake"
  /\ Send(<<Msg("handshake")>>)
  /\ pc' = "handshake_wait"
  /\ UNCHANGED <<inbox, m_bitfield, download, health, shared, remote>>

\* One receive of 68 bytes, and zeros for what it did not get: too little for
\* the hash, or prefix and hash alone, or the peer identifier as well.  What
\* is not received stays in the socket.
HandshakeReceives ==
  /\ pc = "handshake_wait" /\ inbox # << >>
  /\ \/ ~Quiet /\ pc' = "rejected" /\ UNCHANGED inbox
     \/ /\ pc' = IF Accepted(Head(inbox)) THEN "receive" ELSE "rejected"
        /\ \/ ~Quiet /\ inbox' = Tail(inbox)
           \/ inbox' = SubSeq(inbox, 3, Len(inbox))
  /\ UNCHANGED <<outbox, connection, m_bitfield, download, health, shared, remote>>

\* The connection ends: nothing but zeros, which no prefix equals.
HandshakeEof ==
  /\ pc = "handshake_wait" /\ inbox = << >> /\ connection # "open"
  /\ pc' = "rejected"
  /\ UNCHANGED <<inbox, outbox, connection, m_bitfield, download, health, shared, remote>>

Handshake == HandshakeSends \/ HandshakeReceives \/ HandshakeEof

-----------------------------------------------------------------------------
(* What download_next_piece asks for.                                      *)

\* fill_outstanding_requests: always PieceBlocks requests, from downloaded on.
\* Mutant: the first one is one block late.
LateRequests(dp) ==
  [k \in 1..PieceBlocks |-> Request(dp.piece_index, dp.downloaded + k)]
Requests(dp) ==
  [k \in 1..PieceBlocks |-> Request(dp.piece_index, dp.downloaded + k - 1)]

\* determine_download_piece: an unmarked piece of the peer's bitfield; the
\* search is sure to find one only if the peer has everything we have
\* (module DynamicBitset).  The memset drops what the old record held.
Determined(dp) ==
  LET missing == m_bitfield \ m_bitfield_pieces
  IN {Fresh(p) : p \in missing} \cup
     (IF missing # {} /\ m_bitfield_pieces \subseteq m_bitfield THEN {} ELSE {dp})

\* download_next_piece: the records it may leave and the requests it sends.
\* Mutant: m_am_choking is not looked at.
DownloadNextUnchecked(choking, dp) ==
  {<<next, IF ~next.exists \/ Complete(next) THEN << >> ELSE Requests(next)>> :
     next \in IF dp.exists THEN {dp} ELSE Determined(dp)}
DownloadNext(choking, dp) ==
  IF choking THEN {<<dp, << >>>>} ELSE DownloadNextUnchecked(choking, dp)

-----------------------------------------------------------------------------
(* One turn of work(): receive_message, then a notification if the piece   *)
(* is complete, else quit() on an unhealthy socket.                        *)

AfterReceive(dp, healthy) ==
  /\ pc' = IF Complete(dp) THEN "notify" ELSE IF healthy THEN "receive" ELSE "exited"
  /\ m_download_piece' = dp /\ m_socket_healthy' = healthy
  /\ UNCHANGED <<shared, remote>>

Receives(type) == /\ pc = "receive" /\ inbox # << >>
                  /\ Head(inbox).type = type
                  /\ inbox' = Tail(inbox)

ReceiveChoke ==
  /\ Receives("choke")
  /\ m_am_choking' = TRUE
  /\ AfterReceive(m_download_piece, m_socket_healthy)
  /\ UNCHANGED <<outbox, connection, m_bitfield, keptAlive>>

\* receive_message_unchoke calls download_next_piece.
ReceiveUnchoke ==
  /\ Receives("unchoke")
  /\ m_am_choking' = FALSE
  /\ \E next \in DownloadNext(FALSE, m_download_piece) :
       AfterReceive(next[1], m_socket_healthy) /\ Send(next[2])
  /\ UNCHANGED <<m_bitfield, keptAlive>>

\* A bitfield's first piece is the high bit of its byte on the wire, and the
\* low one for dynamic_bitset.  Mutant: off by one.
AsReadShifted(pieces) ==
  {(p \div Width) * Width + Width - (p % Width) : p \in pieces}
AsRead(pieces) ==
  {(p \div Width) * Width + (Width - 1) - (p % Width) : p \in pieces}

\* The index of a have message is not converted from network byte order:
\* index p becomes p * 2^24, and bit_set ignores what lies outside.
HaveBit(p) == {p * 16777216} \cap BitfieldBits

ReceiveBitfield ==
  /\ Receives("bitfield")
  /\ m_bitfield' = AsRead(Head(inbox).pieces)
  /\ Send(<<Msg("interested")>>)
  /\ AfterReceive(m_download_piece, m_socket_healthy)
  /\ UNCHANGED <<m_am_choking, keptAlive>>

ReceiveHave ==
  /\ Receives("have")
  /\ m_bitfield' = m_bitfield \cup HaveBit(Head(inbox).piece)
  /\ AfterReceive(m_download_piece, m_socket_healthy)
  /\ UNCHANGED <<outbox, connection, m_am_choking, keptAlive>>

\* interested and not_interested only set m_peer_intersted, which nothing reads.
ReceiveInterested ==
  /\ Receives("interested")
  /\ AfterReceive(m_download_piece, m_socket_healthy)
  /\ UNCHANGED <<outbox, connection, m_bitfield, m_am_choking, keptAlive>>

\* data.resize() and the recv loop: the block goes behind what is downloaded,
\* whatever its offset; what clear() had emptied comes back as zeros.
\* Mutant: downloaded is not advanced.
StoredUncounted(dp, block) ==
  [dp EXCEPT !.size = dp.downloaded + 1,
             !.data = [k \in 1..(dp.downloaded + 1) |->
                         IF k > dp.downloaded THEN block
                         ELSE IF k <= dp.size THEN dp.data[k] ELSE Zeros]]
Stored(dp, block) ==
  [StoredUncounted(dp, block) EXCEPT !.downloaded = dp.downloaded + 1]

\* A complete piece is announced at once, before it is notified.
ReceiveBlock ==
  /\ Receives("block")
  /\ Head(inbox).piece = m_download_piece.piece_index
  /\ LET dp == Stored(m_download_piece, Head(inbox)) IN
       /\ AfterReceive(dp, m_socket_healthy)
       /\ Send(IF Complete(dp) THEN <<Msg("have"), Msg("interested")>> ELSE << >>)
  /\ UNCHANGED <<m_bitfield, m_am_choking, keptAlive>>

\* The connection ends inside a block: recv returns 0 for ever in the loop.
ReceiveTornBlock ==
  /\ Receives("torn") /\ Head(inbox).piece = m_download_piece.piece_index
  /\ pc' = "spin"
  /\ UNCHANGED <<outbox, connection, m_bitfield, download, health, shared, remote>>

\* The payload of the message stays in the socket: a block of another piece,
\* or a request, cancel or unknown message.  Or the message is none: it is the
\* identifier the handshake did not wait for.
ReceiveUnread ==
  /\ \/ Receives("other") \/ Receives("peer_id")
     \/ /\ Receives("block") \/ Receives("torn")
        /\ Head(inbox).piece # m_download_piece.piece_index
  /\ pc' = "desync"
  /\ UNCHANGED <<outbox, connection, m_bitfield, download, health, shared, remote>>

\* receive_message_keep_alive for a header of length 0: unhealthy if one was
\* answered in this second or the answer cannot be sent.  The answer is
\* sizeof(peer::message) = 5 bytes: a keep-alive and one stray byte.
\* Mutant: the result of a second one is ignored.
KeepAliveAlwaysHealthy ==
  /\ Send(<<Msg("keep_alive"), Msg("stray")>>)
  /\ keptAlive' = TRUE
  /\ AfterReceive(m_download_piece, TRUE)
  /\ UNCHANGED <<m_bitfield, m_am_choking>>
KeepAlive ==
  /\ IF keptAlive THEN UNCHANGED <<outbox, connection>>
     ELSE Send(<<Msg("keep_alive"), Msg("stray")>>)
  /\ keptAlive' = TRUE
  /\ AfterReceive(m_download_piece, ~keptAlive /\ connection # "reset")
  /\ UNCHANGED <<m_bitfield, m_am_choking>>

ReceiveKeepAlive == Receives("keep_alive") /\ KeepAlive

\* recv of 5 bytes takes the first byte of a message that follows the 4 bytes
\* of a keep-alive closely.
ReceiveKeepAliveAndByte ==
  /\ Receives("keep_alive") /\ Len(inbox) > 1
  /\ pc' = "desync"
  /\ UNCHANGED <<outbox, connection, m_bitfield, download, health, shared, remote>>

\* recv returns 0 bytes: the header keeps its zeros and reads as a keep-alive.
ReceiveEof ==
  /\ pc = "receive" /\ inbox = << >> /\ connection # "open"
  /\ KeepAlive
  /\ UNCHANGED inbox

\* notify_downloaded_piece; empty_download_piece keeps downloaded and the
\* storage; then download_next_piece, and quit() on an unhealthy socket.
NotifyDownloadedPiece ==
  /\ pc = "notify"
  /\ pc' = IF m_socket_healthy THEN "receive" ELSE "exited"
  /\ notified' = notified \cup {m_download_piece.piece_index}
  /\ LET emptied == [m_download_piece EXCEPT !.exists = FALSE, !.size = 0]
     IN \E next \in DownloadNext(m_am_choking, emptied) :
          m_download_piece' = next[1] /\ Send(next[2])
  /\ UNCHANGED <<inbox, m_bitfield, m_am_choking, health, m_bitfield_pieces, remote>>

Work ==
  \/ ReceiveChoke \/ ReceiveUnchoke \/ ReceiveBitfield \/ ReceiveHave
  \/ ReceiveInterested \/ ReceiveBlock \/ ReceiveTornBlock \/ ReceiveUnread
  \/ ReceiveKeepAlive \/ ReceiveKeepAliveAndByte \/ ReceiveEof
  \/ NotifyDownloadedPiece

-----------------------------------------------------------------------------
(* The rest of the program.                                                *)

\* The main process marks a notified piece.
MainMarks(p) ==
  /\ p \in notified
  /\ m_bitfield_pieces' = m_bitfield_pieces \cup {p} /\ notified' = notified \ {p}
  /\ UNCHANGED <<inbox, outbox, connection, pc, m_bitfield, download, health, remote>>

\* Another download process starts and zeroes the shared bitfield.
SharedMemset ==
  /\ ~Quiet /\ m_bitfield_pieces' = {}
  /\ UNCHANGED <<inbox, outbox, connection, pc, m_bitfield, download, health,
                 notified, remote>>

\* The clock moves to the next second.
Tick == /\ keptAlive' = FALSE
        /\ UNCHANGED <<inbox, outbox, connection, pc, m_bitfield, download,
                       m_socket_healthy, shared, remote>>

-----------------------------------------------------------------------------
(* The remote peer.                                                        *)

RemoteOnly == UNCHANGED <<pc, m_bitfield, download, health, shared>>
RemoteSends(msg) == /\ connection = "open"
                    /\ Len(inbox) < MaxQueue /\ Len(outbox) <= MaxQueue
                    /\ inbox' = Append(inbox, msg)
                    /\ RemoteOnly /\ UNCHANGED connection

RemoteAnnounces ==
  /\ remote.shaken /\ ~remote.announced
  /\ RemoteSends([type |-> "bitfield", pieces |-> RemoteHas])
  /\ remote' = [remote EXCEPT !.announced = TRUE] /\ UNCHANGED outbox

RemoteUnchokes ==
  /\ remote.interested /\ remote.choking
  /\ RemoteSends(Msg("unchoke"))
  /\ remote' = [remote EXCEPT !.choking = FALSE] /\ UNCHANGED outbox

RemoteChokes ==
  /\ ~remote.choking /\ ~Quiet /\ remote.chokes < MaxChokes
  /\ RemoteSends(Msg("choke"))
  /\ remote' = [remote EXCEPT !.choking = TRUE, !.chokes = @ + 1] /\ UNCHANGED outbox

\* Messages that carry no block: a have, an interest in us, a keep-alive, one
\* of a type or length receive_message does not consume.
RemoteChats ==
  /\ remote.announced /\ ~Quiet
  /\ \/ \E p \in Pieces : RemoteSends([type |-> "have", piece |-> p])
     \/ \E type \in {"interested", "keep_alive", "other"} : RemoteSends(Msg(type))
  /\ UNCHANGED <<outbox, remote>>

\* The remote's half of the handshake, up to its identifier.
Hello == [type |-> "handshake", hash |-> remote.hash, reserved |-> remote.reserved]

\* The remote reads a message of ours; a handshake is answered, an unchoked request for a block it has
\* is served, any other is dropped, and a stray byte makes it give up.
RemoteReads ==
  /\ connection = "open" /\ outbox # << >>
  /\ LET msg == Head(outbox)
         serves == /\ msg.type = "request" /\ ~remote.choking
                   /\ msg.piece \in RemoteHas /\ msg.offset < PieceBlocks
     IN /\ serves => Len(inbox) < MaxQueue
        /\ inbox' = CASE serves -> Append(inbox, Block(msg.piece, msg.offset))
                      [] msg.type = "handshake" -> inbox \o <<Hello, Msg("peer_id")>>
                      [] OTHER -> inbox
        /\ connection' = IF msg.type = "stray" THEN "closed" ELSE "open"
        /\ remote' = [remote EXCEPT !.interested = @ \/ msg.type = "interested",
                                    !.shaken = @ \/ msg.type = "handshake"]
  /\ outbox' = Tail(outbox)
  /\ RemoteOnly

\* The remote goes away, possibly in the middle of its last block.
RemoteCloses ==
  /\ connection = "open" /\ ~Quiet
  /\ connection' = "closed"
  /\ \/ UNCHANGED inbox
     \/ /\ inbox # << >> /\ Last(inbox).type = "block"
        /\ inbox' = [inbox EXCEPT ![Len(inbox)] = [Last(inbox) EXCEPT !.type = "torn"]]
  /\ RemoteOnly /\ UNCHANGED <<outbox, remote>>

RemoteStep == \/ RemoteAnnounces \/ RemoteUnchokes \/ RemoteChokes \/ RemoteChats
              \/ RemoteReads \/ RemoteCloses

Next == Handshake \/ HandshakeFails \/ Work \/ (\E p \in BitfieldBits : MainMarks(p)) \/ SharedMemset \/ Tick
        \/ RemoteStep

Spec == Init /\ [][Next]_vars

\* The process runs while recv or its own work can go on, and so does the main
\* process; a quiet remote announces, unchokes and reads (which serves).
FairSpec ==
  /\ Spec /\ WF_vars(Handshake) /\ WF_vars(Work)
  /\ \A p \in BitfieldBits : WF_vars(MainMarks(p))
  /\ WF_vars(RemoteAnnounces \/ RemoteUnchokes \/ RemoteReads)

-----------------------------------------------------------------------------
(* Properties.                                                             *)

BlockType == [type : {"block", "torn"}, piece : Nat, offset : Nat]

\* Every variable keeps its type.
TypeOK ==
  /\ connection \in {"open", "closed", "reset"}
  /\ pc \in {"receive", "notify", "exited", "spin", "desync"} \cup Handshaking
  /\ m_bitfield \subseteq BitfieldBits /\ m_bitfield_pieces \subseteq BitfieldBits
  /\ notified \subseteq BitfieldBits
  /\ m_am_choking \in BOOLEAN /\ m_socket_healthy \in BOOLEAN /\ keptAlive \in BOOLEAN
  /\ m_download_piece.piece_index \in BitfieldBits
  /\ m_download_piece.downloaded \in Nat /\ m_download_piece.size \in Nat
  /\ \A k \in DOMAIN m_download_piece.data :
       m_download_piece.data[k] \in BlockType \cup {Zeros}

\* What the process hands to the main process is the whole piece: each of its
\* blocks, at its own offset (receive_message_block ignores the offset it is
\* sent, and there is no hash check; requests in order, answered in order, are
\* what keeps that harmless), and comes from a remote with our torrent.  It
\* holds until the remote chokes again, whatever else the remote and the other
\* processes do.
NotifiedPieceIntact ==
  pc = "notify" /\ remote.chokes = 0 =>
    /\ remote.hash = OurHash
    /\ Len(m_download_piece.data) = PieceBlocks
    /\ \A k \in 1..PieceBlocks :
         m_download_piece.data[k] = Block(m_download_piece.piece_index, k - 1)

\* receive_message never leaves part of a message in the socket.
StreamInSync == pc # "desync"

\* Every block asked for exists and is one the remote announced, and no block
\* is asked for twice while the first request or its answer is under way
\* (fill_outstanding_requests, the bit order of bitfields), until the remote
\* chokes again.
RequestsServable ==
  LET InFlight(s, type) == {k \in DOMAIN s : s[k].type = type} IN
  remote.chokes = 0 =>
     \A k \in InFlight(outbox, "request") :
       /\ outbox[k].piece \in RemoteHas /\ outbox[k].offset < PieceBlocks
       /\ \A j \in InFlight(outbox, "request") :
            outbox[j].piece = outbox[k].piece /\ outbox[j].offset = outbox[k].offset => j = k
       /\ \A j \in InFlight(inbox, "block") :
            ~(inbox[j].piece = outbox[k].piece /\ inbox[j].offset = outbox[k].offset)

\* A remote that stays unchoked and has every piece delivers every piece: the
\* process never runs out of requests before the torrent is complete.
PiecesDelivered == \A p \in RemoteHas : <>(p \in m_bitfield_pieces)

\* A process whose remote is gone ends, unless the stream broke inside a block
\* (where the recv loop spins for ever) or was misread before.
ClosedEndsProcess == connection # "open" ~> pc \in {"rejected", "exited", "spin", "desync"}

\* No step asks for a block while the remote's last word, as far as the process
\* has read, is a choke.
NoRequestWhileChoked ==
  [][m_am_choking' => \A k \in DOMAIN outbox' \ DOMAIN outbox :
                        outbox'[k].type # "request"]_vars

\* The remote can read what it is sent, message by message: a keep-alive is
\* answered with a keep-alive.
RemoteInSync == \A k \in DOMAIN outbox : outbox[k].type # "stray"
=============================================================================

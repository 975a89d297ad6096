-------------------------------- MODULE Ipc --------------------------------
(***************************************************************************)
(* The main channel of Torr (ipc/ipc.cpp): one named pipe that every       *)
(* download process writes and the main process reads.                     *)
(*                                                                         *)
(* A pipe holds PipeSlots buffers of one page (16 of them on Linux).  The  *)
(* 24-byte multiproc_message header takes one buffer; the payload of a     *)
(* piece takes PieceSlots whole pages.  So the content of the pipe is a    *)
(* sequence of slots, each a header (part 0) or the k-th page of a payload *)
(* (part k), and bytes inside a page are not told apart.                   *)
(***************************************************************************)
EXTENDS Integers, Sequences

CONSTANTS
  Pieces,      \* the pieces of the torrent
  PipeSlots,   \* pages the kernel buffers in one pipe
  PieceSlots   \* pages of one piece's payload (data.capacity())

ASSUME IpcAssumption == /\ PipeSlots \in Nat \ {0}
                        /\ PieceSlots \in Nat \ {0}

Slot == [piece : Pieces, part : 0..PieceSlots]

\* The multiproc_message of a finished piece.
Header(p) == [piece |-> p, part |-> 0]

\* The k-th page of the payload that follows the header.
Page(p, k) == [piece |-> p, part |-> k]

\* The whole payload, in the order notify_downloaded_piece writes it.
Payload(p) == [k \in 1..PieceSlots |-> Page(p, k)]

\* write() on the blocking descriptor advances only while a buffer is free.
HasRoom(fifo) == Len(fifo) < PipeSlots

\* write(): the next slot of a header or payload enters at the tail.
write(fifo, slot) == Append(fifo, slot)

\* read(max_size) with a positive size: one header's worth, from the head.
readOne(fifo) == Tail(fifo)

\* read() without a size asks for m_read_data.capacity() bytes, which start()
\* has made at least as large as the pipe: it takes everything there is.
readAll(fifo) == << >>
=============================================================================

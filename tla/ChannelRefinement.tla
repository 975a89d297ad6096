------------------------- MODULE ChannelRefinement -------------------------
(***************************************************************************)
(* The processes, the pipe and the semaphore of Multiproc implement        *)
(* PieceChannel on the first run of the program.  A piece counts as sent   *)
(* once the last page of its payload is in the pipe, as taken while        *)
(* handle_downloaded_piece is between its last read and the mark, and as   *)
(* stored if its file starts with its payload.                             *)
(***************************************************************************)
EXTENDS Multiproc

\* A history variable: the pieces whose last page is in the pipe, in the order
\* in which those pages were written.  It watches the pipe and nothing else,
\* and no step of Multiproc depends on it.
VARIABLE sent

varsH == <<vars, sent>>

InitH == Init /\ sent = << >>

\* The step adds the last page of a payload to the pipe.
LastPageWritten ==
  /\ Len(m_main_channel') > Len(m_main_channel)
  /\ m_main_channel'[Len(m_main_channel')].part = PieceSlots

RecordSent ==
  sent' = IF m_main_channel' = << >> THEN << >>
          ELSE IF LastPageWritten
          THEN Append(sent, m_main_channel'[Len(m_main_channel')].piece)
          ELSE sent

NextH == Next /\ RecordSent

SpecH == InitH /\ [][NextH]_varsH

StoredPieces == {p \in Pieces : HoldsPayload(p)}

Abstract == INSTANCE PieceChannel WITH
  queue   <- sent,
  storing <- IF mainPc = "complete" THEN message ELSE NoPiece,
  stored  <- StoredPieces,
  marked  <- m_bitfield_pieces

\* Pages of several processes, read by a thread that takes headers outside the
\* mutex and more bytes than it needs inside it, and processes that die at any
\* point add up to a channel that delivers whole pieces in order and marks
\* only what it has stored (notify_downloaded_piece, start,
\* handle_downloaded_piece).
ImplementsPieceChannel == Abstract!Spec
=============================================================================

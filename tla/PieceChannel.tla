---------------------------- MODULE PieceChannel ----------------------------
(***************************************************************************)
(* What the main channel promises, without pages, headers, mutex or        *)
(* processes: finished pieces arrive whole and in the order in which they  *)
(* were sent; the main process stores the oldest one and marks it.  Pieces *)
(* queued behind the one being stored are lost with it, unmarked, and are  *)
(* downloaded again.  A mark stands for a stored piece.                    *)
(***************************************************************************)
EXTENDS Sequences

CONSTANTS Pieces, NoPiece

VARIABLES
  queue,    \* pieces sent in full and not yet taken
  storing,  \* the piece being taken, until it is marked
  stored,   \* pieces whose bytes are on disk
  marked    \* pieces marked in the shared bitfield

vars == <<queue, storing, stored, marked>>

Init == queue = << >> /\ storing = NoPiece /\ stored = {} /\ marked = {}

\* A download process has written the last byte of piece p.
Send(p) == queue' = Append(queue, p) /\ UNCHANGED <<storing, stored, marked>>

\* The main process truncates the file of the oldest piece ...
Truncate ==
  /\ queue # << >> /\ storing = NoPiece
  /\ stored' = stored \ {Head(queue)}
  /\ UNCHANGED <<queue, storing, marked>>

\* ... takes that piece, and everything queued behind it, from the channel ...
Take ==
  /\ queue # << >> /\ storing = NoPiece
  /\ storing' = Head(queue)
  /\ stored' = stored \cup {Head(queue)}
  /\ queue' = << >>
  /\ UNCHANGED marked

\* ... and marks it.
Mark ==
  /\ storing # NoPiece
  /\ marked' = marked \cup {storing}
  /\ storing' = NoPiece
  /\ UNCHANGED <<queue, stored>>

\* A new download process zeroes the shared bitfield.
Zero == marked' = {} /\ UNCHANGED <<queue, storing, stored>>

Next == (\E p \in Pieces : Send(p)) \/ Truncate \/ Take \/ Mark \/ Zero

Spec == Init /\ [][Next]_vars
=============================================================================

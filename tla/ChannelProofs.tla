--------------------------- MODULE ChannelProofs ---------------------------
(***************************************************************************)
(* Proofs about the main channel on the first run of the program: its      *)
(* framing, what handle_downloaded_piece finds in it, the files behind the *)
(* bitfield, and that all of it implements PieceChannel.                   *)
(***************************************************************************)
EXTENDS MultiprocProofs, ChannelRefinement, SequenceTheorems

USE IpcAssumption, MultiprocAssumption DEF IpcAssumption, MultiprocAssumption

-----------------------------------------------------------------------------
(* One slot read from the head of a pipe.                                  *)

LEMMA EmptyIffZero ==
  ASSUME NEW S, NEW s \in Seq(S)
  PROVE  Len(s) \in Nat /\ (s = << >> <=> Len(s) = 0)
BY EmptySeq

LEMMA ReadOneSlots ==
  ASSUME NEW S, NEW s \in Seq(S), s # << >>
  PROVE  /\ Len(s) \in Nat /\ Len(s) >= 1 /\ Head(s) = s[1] /\ s[1] \in S
         /\ readOne(s) \in Seq(S) /\ Len(readOne(s)) = Len(s) - 1
         /\ \A k \in 1..(Len(s) - 1) : readOne(s)[k] = s[k + 1]
         /\ readOne(s) = << >> <=> Len(s) = 1
<1>1. Len(s) \in Nat /\ Len(s) >= 1
  BY EmptySeq
<1>2. /\ Tail(s) \in Seq(S) /\ Len(Tail(s)) = Len(s) - 1
      /\ \A k \in 1..Len(Tail(s)) : Tail(s)[k] = s[k + 1]
  BY HeadTailProperties
<1>3. Tail(s) = << >> <=> Len(s) = 1
  <2> DEFINE t == Tail(s)
  <2>1. t \in Seq(S) /\ Len(t) = Len(s) - 1
    BY <1>2
  <2> HIDE DEF t
  <2>2. t = << >> <=> Len(s) = 1
    BY <1>1, <2>1, EmptyIffZero
  <2>3. QED
    BY <2>2 DEF t
<1>4. Head(s) = s[1] /\ s[1] \in S
  BY <1>1, ElementOfSeq
<1>5. QED
  BY <1>1, <1>2, <1>3, <1>4 DEF readOne

-----------------------------------------------------------------------------
(* The inductive invariant.  The reader trusts the first frame of the pipe *)
(* only, so the invariant speaks of the first frame and of the last slot,  *)
(* and nothing in between has to be described.                             *)

IdlePcs  == {"poll", "check", "sweep", "spawn"}
ServePcs == {"sem_wait", "drain"}

\* The pipe starts with a frame: with its header while start() looks for one,
\* with its first page from the header on.
HeadInSync ==
  /\ mainPc # "desync"
  /\ mainPc \in ServePcs =>
       \A k \in 1..PieceSlots :
         k <= Len(m_main_channel) => m_main_channel[k] = Page(message, k)
  /\ mainPc \in IdlePcs /\ m_main_channel # << >> =>
       /\ m_main_channel[1].part = 0
       /\ \A k \in 1..PieceSlots : k < Len(m_main_channel) =>
            m_main_channel[k + 1] = Page(m_main_channel[1].piece, k)
  /\ mainPc = "complete" => m_main_channel = << >>

\* The last frame lacks a page (of an empty pipe: only its header was written,
\* and start() has taken that).
FrameOpen ==
  IF m_main_channel = << >> THEN mainPc = "sem_wait"
  ELSE m_main_channel[Len(m_main_channel)].part # PieceSlots

\* Only its writer may then hold the semaphore; and if the writer was killed,
\* nobody ever will.
OpenFrameLocked ==
  FrameOpen => /\ m_main_channel_mutex = 0
               /\ \A a \in Actors : Holds(a) => a # Main /\ pc[a] = "payload"

\* A process inside write() of its payload wrote the last slot.
WriterAtTail ==
  \A t \in Pids : pc[t] = "payload" =>
    IF m_main_channel = << >>
    THEN /\ mainPc = "sem_wait"
         /\ message = m_download_piece[t].piece_index /\ written[t] = 0
    ELSE m_main_channel[Len(m_main_channel)] =
           Page(m_download_piece[t].piece_index, written[t])

\* Every write() of a payload starts at its first page.
WritesFromStart ==
  \A t \in Pids : pc[t] \notin {"payload", "exited", "reaped"} => written[t] = 0

HandlerReady ==
  mainPc = "drain" => /\ receive_left = PieceSlots
                      /\ PieceSlots <= Len(m_main_channel)
                      /\ files[message] = << >>

PiecesStored ==
  /\ mainPc = "complete" => HoldsPayload(message)
  /\ \A p \in m_bitfield_pieces : HoldsPayload(p) \/ (mainPc = "drain" /\ message = p)

FramesRight == /\ HeadInSync /\ OpenFrameLocked /\ WriterAtTail /\ WritesFromStart
               /\ HandlerReady /\ PiecesStored

ChannelInv == restarts = 0 => FramesRight

\* What the semaphore guarantees on the first run.
Exclusive == /\ AtMostOneHolder
             /\ m_main_channel_mutex > 0 => \A a \in Actors : ~Holds(a)

LEMMA FirstRunExclusive ==
  ASSUME TypeInv, TokensBounded, restarts = 0
  PROVE  Exclusive
<1>1. AtMostOneHolder
  BY TokensExclude DEF MutualExclusion
<1>2. ASSUME m_main_channel_mutex > 0, NEW a \in Actors, Holds(a)
      PROVE  FALSE
  <2>1. IsFiniteSet(Holders) /\ a \in Holders
    BY <1>2, HoldersFinite DEF Holders
  <2>2. Cardinality(Holders) \in Nat /\ Cardinality(Holders) # 0
    BY <2>1, FS_CardinalityType, FS_EmptySet
  <2>3. QED
    BY <1>2, <2>2 DEF TokensBounded, TypeInv, TypeOK
<1>3. QED
  BY <1>1, <1>2 DEF Exclusive

LEMMA ChannelInvInit == Init => ChannelInv
BY DEF Init, ChannelInv, FramesRight, HeadInSync, FrameOpen, OpenFrameLocked, WriterAtTail,
       WritesFromStart, HandlerReady, PiecesStored, IdlePcs, ServePcs

-----------------------------------------------------------------------------
(* A step that leaves the pipe, the semaphore and the files alone, and     *)
(* moves nobody into or within notify_downloaded_piece.                    *)

QuietStep ==
  /\ UNCHANGED <<channelVars, files, message, receive_left, written>>
  /\ m_bitfield_pieces' \in {m_bitfield_pieces, {}}
  /\ mainPc' = mainPc \/ (mainPc \in IdlePcs /\ mainPc' \in IdlePcs)
  /\ \A t \in Pids : pc'[t] \in InNotify =>
       pc'[t] = pc[t] /\ m_download_piece'[t] = m_download_piece[t]
  /\ \A t \in Pids : pc'[t] \notin {"payload", "exited", "reaped"} => written[t] = 0

LEMMA FramesKept ==
  ASSUME TypeInv, FramesRight, QuietStep
  PROVE  FramesRight'
<1> USE DEF QuietStep
<1> USE DEF channelVars, IdlePcs, ServePcs
<1>1. HeadInSync'
  BY DEF FramesRight, HeadInSync
<1>2. OpenFrameLocked'
  <2>1. FrameOpen' = FrameOpen
    BY DEF FrameOpen
  <2>2. \A a \in Actors : Holds(a)' => Holds(a) /\ (a # Main => pc'[a] = pc[a])
    BY DEF Holds, Actors, Main, Pids
  <2>3. QED
    BY <2>1, <2>2 DEF FramesRight, OpenFrameLocked
<1>3. WriterAtTail'
  BY DEF FramesRight, WriterAtTail, InNotify
<1>4. (WritesFromStart /\ HandlerReady)'
  BY DEF FramesRight, WritesFromStart, HandlerReady
<1>5. PiecesStored'
  BY DEF FramesRight, PiecesStored, HoldsPayload
<1>6. QED
  BY <1>1, <1>2, <1>3, <1>4, <1>5 DEF FramesRight

-----------------------------------------------------------------------------
(* The main thread.                                                        *)

\* Nobody holds the semaphore, or its holder is not writing a payload: then
\* the first frame of the pipe, if there is one, is whole.
LEMMA ClosedFrameWhole ==
  ASSUME TypeInv, HeadInSync, ~FrameOpen
  PROVE  /\ mainPc = "sem_wait" => PieceSlots <= Len(m_main_channel)
         /\ mainPc \in IdlePcs /\ m_main_channel # << >> =>
              PieceSlots + 1 <= Len(m_main_channel)
<1> DEFINE n == Len(m_main_channel)
<1>1. /\ m_main_channel \in Seq(Slot) /\ n \in Nat
      /\ m_main_channel # << >> => n >= 1
  BY ReadOneSlots DEF TypeInv, TypeOK
<1>2. m_main_channel # << >> => n >= 1 /\ m_main_channel[n].part = PieceSlots
  BY <1>1 DEF FrameOpen
<1>3. ASSUME mainPc = "sem_wait" PROVE PieceSlots <= n
  <2>1. m_main_channel # << >>
    BY <1>3 DEF FrameOpen
  <2>2. \A k \in 1..PieceSlots : k <= n => m_main_channel[k] = Page(message, k)
    BY <1>3 DEF HeadInSync, ServePcs
  <2>3. n < PieceSlots => m_main_channel[n] = Page(message, n)
    BY <1>1, <2>1, <2>2
  <2>4. QED
    BY <1>1, <1>2, <2>1, <2>3 DEF Page
<1>4. ASSUME mainPc \in IdlePcs, m_main_channel # << >> PROVE PieceSlots + 1 <= n
  <2>1. m_main_channel[1].part = 0
    BY <1>4 DEF HeadInSync
  <2>2. \A k \in 1..PieceSlots : k < n =>
          m_main_channel[k + 1] = Page(m_main_channel[1].piece, k)
    BY <1>4 DEF HeadInSync
  <2>3. n - 1 \in 1..PieceSlots => m_main_channel[n] = Page(m_main_channel[1].piece, n - 1)
    <3>1. (n - 1) + 1 = n /\ n - 1 < n
      BY <1>1
    <3>2. QED
      BY <2>2, <3>1
  <2>4. QED
    BY <1>1, <1>2, <1>4, <2>1, <2>3 DEF Page
<1>5. QED
  BY <1>3, <1>4

\* start() takes a header without the mutex.
LEMMA HeaderFrames ==
  ASSUME TypeInv, FramesRight, StartReadsHeader
  PROVE  FramesRight'
<1> DEFINE n == Len(m_main_channel)
<1> USE DEF IdlePcs, ServePcs
<1>1. /\ m_main_channel \in Seq(Slot) /\ n \in Nat /\ n >= 1
      /\ Len(m_main_channel') = n - 1 /\ Head(m_main_channel) = m_main_channel[1]
      /\ \A k \in 1..(n - 1) : m_main_channel'[k] = m_main_channel[k + 1]
      /\ m_main_channel' = << >> <=> n = 1
  <2>1. /\ m_main_channel \in Seq(Slot) /\ m_main_channel # << >>
        /\ m_main_channel' = readOne(m_main_channel)
    BY DEF StartReadsHeader, TypeInv, TypeOK
  <2>2. QED
    BY <2>1, ReadOneSlots
<1>2. /\ mainPc = "poll" /\ mainPc' = "sem_wait" /\ message' = m_main_channel[1].piece
      /\ m_main_channel[1].part = 0 /\ m_main_channel[1] \in Slot
      /\ UNCHANGED <<m_main_channel_mutex, storeVars, pc, written, peerVars>>
  BY <1>1 DEF StartReadsHeader, OthersThanMain
<1>3. HeadInSync'
  BY <1>1, <1>2 DEF FramesRight, HeadInSync
<1>4. FrameOpen' => FrameOpen
  <2>1. CASE n = 1
    BY <1>1, <1>2, <2>1 DEF FrameOpen
  <2>2. CASE n > 1
    <3>1. m_main_channel'[n - 1] = m_main_channel[n]
      BY <1>1, <2>2
    <3>2. QED
      BY <1>1, <2>2, <3>1 DEF FrameOpen
  <2>3. QED
    BY <1>1, <2>1, <2>2
<1>5. OpenFrameLocked'
  <2>1. \A a \in Actors : Holds(a)' => Holds(a)
    BY <1>2 DEF Holds
  <2>2. QED
    BY <1>2, <1>4, <2>1 DEF FramesRight, OpenFrameLocked
<1>6. WriterAtTail'
  <2> SUFFICES ASSUME NEW t \in Pids, pc[t] = "payload"
               PROVE  IF m_main_channel' = << >>
                      THEN /\ mainPc' = "sem_wait"
                           /\ message' = m_download_piece[t].piece_index
                           /\ written[t] = 0
                      ELSE m_main_channel'[Len(m_main_channel')] =
                             Page(m_download_piece[t].piece_index, written[t])
    BY <1>2 DEF WriterAtTail, peerVars
  <2>1. m_main_channel[n] = Page(m_download_piece[t].piece_index, written[t])
    BY <1>1 DEF FramesRight, WriterAtTail
  <2>2. CASE n = 1
    BY <1>1, <1>2, <2>1, <2>2 DEF Page
  <2>3. CASE n > 1
    BY <1>1, <2>1, <2>3
  <2>4. QED
    BY <1>1, <2>2, <2>3
<1>7. (WritesFromStart /\ HandlerReady)'
  BY <1>2 DEF FramesRight, WritesFromStart, HandlerReady
<1>8. PiecesStored'
  BY <1>2 DEF FramesRight, PiecesStored, HoldsPayload, storeVars
<1>9. QED
  BY <1>3, <1>5, <1>6, <1>7, <1>8 DEF FramesRight

\* sem_wait returns in start(): no process holds the semaphore, so the first
\* frame is whole.
LEMMA LockFrames ==
  ASSUME TypeInv, FramesRight, Exclusive, StartLocks
  PROVE  FramesRight'
<1> USE DEF IdlePcs, ServePcs
<1>1. /\ mainPc = "sem_wait" /\ mainPc' = "drain" /\ m_main_channel_mutex > 0
      /\ receive_left' = PieceSlots /\ files' = [files EXCEPT ![message] = << >>]
      /\ UNCHANGED <<m_main_channel, m_bitfield_pieces, message, pc, written, peerVars>>
  BY DEF StartLocks, sem_wait, OthersThanMain
<1>2. \A t \in Pids : pc[t] # "payload"
  BY <1>1 DEF Exclusive, Holds, Actors, Main, Pids, InNotify
<1>3. ~FrameOpen
  BY <1>1 DEF FramesRight, OpenFrameLocked
<1>4. PieceSlots <= Len(m_main_channel) /\ m_main_channel # << >>
  BY <1>1, <1>3, ClosedFrameWhole DEF FramesRight, FrameOpen
<1>5. HeadInSync'
  BY <1>1 DEF FramesRight, HeadInSync
<1>6. OpenFrameLocked'
  BY <1>1, <1>3, <1>4 DEF OpenFrameLocked, FrameOpen
<1>7. (WriterAtTail /\ WritesFromStart)'
  BY <1>1, <1>2 DEF FramesRight, WriterAtTail, WritesFromStart
<1>8. message \in Pieces /\ files \in [Pieces -> Seq(Slot)] /\ m_bitfield_pieces \subseteq Pieces
  BY <1>1 DEF TypeInv, TypeOK, MessageIsPiece
<1>9. HandlerReady'
  BY <1>1, <1>4, <1>8 DEF HandlerReady
<1>10. PiecesStored'
  BY <1>1, <1>8 DEF FramesRight, PiecesStored, HoldsPayload
<1>11. QED
  BY <1>5, <1>6, <1>7, <1>9, <1>10 DEF FramesRight

\* handle_downloaded_piece takes all there is, which starts with its payload.
LEMMA ReadFrames ==
  ASSUME TypeInv, FramesRight, Exclusive, HandleReads
  PROVE  FramesRight' /\ mainPc' = "complete" /\ HoldsPayload(message)'
<1> USE DEF IdlePcs, ServePcs
<1>1. /\ mainPc = "drain" /\ m_main_channel' = << >>
      /\ files' = [files EXCEPT ![message] = files[message] \o m_main_channel]
      /\ UNCHANGED <<m_main_channel_mutex, m_bitfield_pieces, message, pc, written, peerVars>>
  BY DEF HandleReads, readAll, OthersThanMain
<1>2. /\ message \in Pieces /\ files \in [Pieces -> Seq(Slot)]
      /\ m_bitfield_pieces \subseteq Pieces /\ m_main_channel \in Seq(Slot)
  BY <1>1 DEF TypeInv, TypeOK, MessageIsPiece
<1>3. /\ receive_left = PieceSlots /\ PieceSlots <= Len(m_main_channel)
      /\ files[message] = << >>
      /\ \A k \in 1..PieceSlots : m_main_channel[k] = Page(message, k)
  BY <1>1, <1>2 DEF FramesRight, HandlerReady, HeadInSync
<1>4. files'[message] = m_main_channel
  BY <1>1, <1>2, <1>3
<1>5. mainPc' = "complete"
  BY <1>2, <1>3 DEF HandleReads
<1>6. HoldsPayload(message)'
  BY <1>1, <1>3, <1>4 DEF HoldsPayload
<1>7. \A t \in Pids : pc[t] # "payload"
  BY <1>1 DEF Exclusive, AtMostOneHolder, Holds, Actors, Main, Pids, InNotify
<1>8. (HeadInSync /\ OpenFrameLocked /\ HandlerReady)'
  BY <1>1, <1>5 DEF HeadInSync, OpenFrameLocked, FrameOpen, HandlerReady
<1>9. (WriterAtTail /\ WritesFromStart)'
  BY <1>1, <1>7 DEF FramesRight, WriterAtTail, WritesFromStart
<1>10. PiecesStored'
  <2>1. ASSUME NEW p \in m_bitfield_pieces, p # message PROVE HoldsPayload(p)'
    BY <1>1, <1>2, <2>1 DEF FramesRight, PiecesStored, HoldsPayload
  <2>2. QED
    BY <1>1, <1>6, <2>1 DEF PiecesStored
<1>11. QED
  BY <1>5, <1>6, <1>8, <1>9, <1>10 DEF FramesRight

\* The piece is marked and the semaphore posted.
LEMMA CompleteFrames ==
  ASSUME TypeInv, FramesRight, Exclusive, HandleCompletes
  PROVE  FramesRight'
<1> USE DEF IdlePcs, ServePcs
<1>1. /\ mainPc = "complete" /\ mainPc' = "poll"
      /\ m_bitfield_pieces' = m_bitfield_pieces \cup {message}
      /\ UNCHANGED <<m_main_channel, files, message, pc, written, peerVars>>
  BY DEF HandleCompletes, OthersThanMain
<1>2. m_main_channel = << >>
  BY <1>1 DEF FramesRight, HeadInSync
<1>3. \A t \in Pids : pc[t] # "payload"
  BY <1>1 DEF Exclusive, AtMostOneHolder, Holds, Actors, Main, Pids, InNotify
<1>4. (HeadInSync /\ OpenFrameLocked /\ HandlerReady)'
  BY <1>1, <1>2 DEF HeadInSync, OpenFrameLocked, FrameOpen, HandlerReady
<1>5. (WriterAtTail /\ WritesFromStart)'
  BY <1>1, <1>3 DEF FramesRight, WriterAtTail, WritesFromStart
<1>6. PiecesStored'
  BY <1>1 DEF FramesRight, PiecesStored, HoldsPayload
<1>7. QED
  BY <1>4, <1>5, <1>6 DEF FramesRight

-----------------------------------------------------------------------------
(* notify_downloaded_piece.                                                *)

\* The holder of the semaphore is alone, and the semaphore is 0.
LEMMA HolderAlone ==
  ASSUME TypeInv, Exclusive, NEW t \in Pids, pc[t] \in InNotify
  PROVE  /\ m_main_channel_mutex = 0 /\ mainPc \notin {"drain", "complete"}
         /\ \A u \in Pids : u # t => pc[u] \notin InNotify
<1>1. t \in Actors /\ t # Main /\ Main \in Actors /\ Pids \subseteq Actors /\ Main \notin Pids
  BY DEF Actors, Main, Pids
<1>2. Holds(t)
  BY <1>1 DEF Holds
<1>3. m_main_channel_mutex \in Nat
  BY DEF TypeInv, TypeOK
<1>4. m_main_channel_mutex = 0
  BY <1>1, <1>2, <1>3 DEF Exclusive
<1>5. mainPc \notin {"drain", "complete"}
  BY <1>1, <1>2 DEF Exclusive, AtMostOneHolder, Holds
<1>6. \A u \in Pids : u # t => pc[u] \notin InNotify
  BY <1>1, <1>2 DEF Exclusive, AtMostOneHolder, Holds
<1>7. QED
  BY <1>4, <1>5, <1>6

\* What a write() changes.
LEMMA WrittenSlots ==
  ASSUME TypeInv, NEW e \in Slot, m_main_channel' = write(m_main_channel, e)
  PROVE  LET n == Len(m_main_channel)
         IN  /\ n \in Nat /\ (m_main_channel = << >> <=> n = 0)
             /\ m_main_channel' # << >> /\ Len(m_main_channel') = n + 1
             /\ m_main_channel'[n + 1] = e
             /\ \A k \in 1..n : m_main_channel'[k] = m_main_channel[k]
<1>1. m_main_channel \in Seq(Slot)
  BY DEF TypeInv, TypeOK
<1>2. m_main_channel = << >> <=> Len(m_main_channel) = 0
  BY <1>1, EmptyIffZero
<1>3. /\ Len(m_main_channel) \in Nat /\ m_main_channel' \in Seq(Slot)
      /\ Len(m_main_channel') = Len(m_main_channel) + 1
      /\ m_main_channel'[Len(m_main_channel) + 1] = e
      /\ \A k \in 1..Len(m_main_channel) : m_main_channel'[k] = m_main_channel[k]
  BY <1>1 DEF write
<1>4. m_main_channel' # << >>
  BY <1>3, EmptyIffZero
<1>5. QED
  BY <1>2, <1>3, <1>4

\* sem_wait returns in a download process: the last frame is whole.
LEMMA WaitFrames ==
  ASSUME TypeInv, FramesRight, Exclusive, NEW t \in Pids, NotifyWaits(t)
  PROVE  FramesRight'
<1>1. /\ m_main_channel_mutex > 0 /\ pc[t] = "notify" /\ pc' = [pc EXCEPT ![t] = "header"]
      /\ UNCHANGED <<m_main_channel, storeVars, mainVars, peerVars, written>>
  BY DEF NotifyWaits, TaskGoes, sem_wait, OthersThanTask, storeVars
<1>2. ~FrameOpen /\ ~FrameOpen'
  BY <1>1 DEF FramesRight, OpenFrameLocked, FrameOpen, mainVars
<1>3. pc \in [Pids -> TaskPcs]
  BY DEF TypeInv, TypeOK
<1>4. HeadInSync'
  BY <1>1 DEF FramesRight, HeadInSync, mainVars
<1>5. OpenFrameLocked'
  BY <1>2 DEF OpenFrameLocked
<1>6. (WriterAtTail /\ WritesFromStart)'
  BY <1>1, <1>3 DEF FramesRight, WriterAtTail, WritesFromStart, mainVars, peerVars
<1>7. HandlerReady'
  BY <1>1 DEF FramesRight, HandlerReady, mainVars, storeVars
<1>8. PiecesStored'
  BY <1>1 DEF FramesRight, PiecesStored, HoldsPayload, mainVars, storeVars
<1>9. QED
  BY <1>4, <1>5, <1>6, <1>7, <1>8 DEF FramesRight

\* A header enters the pipe, behind whole frames.
LEMMA WriteHeaderFrames ==
  ASSUME TypeInv, FramesRight, Exclusive, NEW t \in Pids, NotifyWritesHeader(t)
  PROVE  FramesRight'
<1> DEFINE n == Len(m_main_channel)
           p == m_download_piece[t].piece_index
<1> USE DEF IdlePcs, ServePcs
<1>1. /\ pc[t] = "header" /\ pc' = [pc EXCEPT ![t] = "payload"]
      /\ m_main_channel' = write(m_main_channel, Header(p))
      /\ UNCHANGED <<m_main_channel_mutex, storeVars, mainVars, peerVars, written>>
  BY DEF NotifyWritesHeader, TaskGoes, OthersThanTask, storeVars
<1>2. /\ pc \in [Pids -> TaskPcs] /\ m_main_channel \in Seq(Slot) /\ Header(p) \in Slot
      /\ mainPc \in MainPcs
  BY <1>1 DEF TypeInv, TypeOK, DownloadIsPiece, NotifiesComplete, Header, Slot
<1>3. /\ n \in Nat /\ (m_main_channel = << >> <=> n = 0)
      /\ m_main_channel' # << >> /\ Len(m_main_channel') = n + 1
      /\ m_main_channel'[n + 1] = Header(p)
      /\ \A k \in 1..n : m_main_channel'[k] = m_main_channel[k]
  BY <1>1, <1>2, WrittenSlots
<1>4. /\ m_main_channel_mutex = 0 /\ mainPc \notin {"drain", "complete"}
      /\ \A u \in Pids : u # t => pc[u] \notin InNotify
  BY <1>1, HolderAlone DEF InNotify
<1>5. ~FrameOpen
  BY <1>1 DEF FramesRight, OpenFrameLocked, Holds, Actors, Main, Pids, InNotify
<1>6. /\ mainPc = "sem_wait" => PieceSlots <= n
      /\ mainPc \in IdlePcs /\ n # 0 => PieceSlots + 1 <= n
  BY <1>3, <1>5, ClosedFrameWhole DEF FramesRight
<1>7. HeadInSync'
  <2>1. CASE mainPc = "sem_wait"
    <3>1. \A k \in 1..PieceSlots : k <= n /\ m_main_channel[k] = Page(message, k)
      BY <1>3, <1>6, <2>1 DEF FramesRight, HeadInSync
    <3>2. \A k \in 1..PieceSlots : m_main_channel'[k] = Page(message, k)
      BY <1>3, <3>1
    <3>3. QED
      BY <1>1, <2>1, <3>2 DEF HeadInSync, mainVars
  <2>2. CASE mainPc \in IdlePcs /\ n # 0
    <3>1. /\ m_main_channel[1].part = 0
          /\ \A k \in 1..PieceSlots : k < n =>
               m_main_channel[k + 1] = Page(m_main_channel[1].piece, k)
      BY <1>3, <2>2 DEF FramesRight, HeadInSync
    <3>2. /\ m_main_channel'[1] = m_main_channel[1]
          /\ \A k \in 1..PieceSlots : k < n /\ m_main_channel'[k + 1] = m_main_channel[k + 1]
      BY <1>3, <1>6, <2>2
    <3>3. QED
      BY <1>1, <2>2, <3>1, <3>2 DEF HeadInSync, mainVars
  <2>3. CASE mainPc \in IdlePcs /\ n = 0
    <3>1. m_main_channel'[1].part = 0 /\ Len(m_main_channel') = 1
      BY <1>3, <2>3 DEF Header
    <3>2. QED
      BY <1>1, <2>3, <3>1 DEF HeadInSync, mainVars
  <2>4. mainPc # "desync"
    BY DEF FramesRight, HeadInSync
  <2>5. QED
    BY <1>2, <1>4, <2>1, <2>2, <2>3, <2>4 DEF MainPcs
<1>8. OpenFrameLocked'
  <2>1. \A a \in Actors : Holds(a)' => a = t
    BY <1>1, <1>2, <1>4 DEF Holds, Actors, mainVars
  <2>2. t # Main /\ pc'[t] = "payload"
    BY <1>1, <1>2 DEF Main, Pids
  <2>3. QED
    BY <1>1, <1>4, <2>1, <2>2 DEF OpenFrameLocked
<1>9. WriterAtTail'
  <2>1. written[t] = 0
    BY <1>1 DEF FramesRight, WritesFromStart
  <2>2. Header(p) = Page(p, 0)
    BY DEF Header, Page
  <2>3. \A u \in Pids : pc'[u] = "payload" => u = t
    BY <1>1, <1>2, <1>4 DEF InNotify
  <2>4. QED
    BY <1>1, <1>3, <2>1, <2>2, <2>3 DEF WriterAtTail, peerVars
<1>10. WritesFromStart'
  BY <1>1, <1>2 DEF FramesRight, WritesFromStart
<1>11. HandlerReady'
  BY <1>1, <1>4 DEF HandlerReady, mainVars
<1>12. PiecesStored'
  BY <1>1 DEF FramesRight, PiecesStored, HoldsPayload, mainVars, storeVars
<1>13. QED
  BY <1>7, <1>8, <1>9, <1>10, <1>11, <1>12 DEF FramesRight

\* A page enters the pipe, behind the page or header that the same process
\* wrote before it.
LEMMA WritePageFrames ==
  ASSUME TypeInv, FramesRight, Exclusive, NEW t \in Pids, NotifyWritesPage(t)
  PROVE  FramesRight'
<1> DEFINE n == Len(m_main_channel)
           p == m_download_piece[t].piece_index
           w == written[t]
<1> USE DEF IdlePcs, ServePcs
<1>1. /\ pc[t] = "payload"
      /\ pc' = [pc EXCEPT ![t] = IF w + 1 >= PieceSlots THEN "post" ELSE "payload"]
      /\ written' = [written EXCEPT ![t] = IF w + 1 >= PieceSlots THEN 0 ELSE w + 1]
      /\ m_main_channel' = write(m_main_channel, Page(p, w + 1))
      /\ UNCHANGED <<m_main_channel_mutex, storeVars, mainVars, peerVars>>
  BY DEF NotifyWritesPage, WriteReturns, TaskGoes, OthersThanTask, storeVars
<1>2. /\ pc \in [Pids -> TaskPcs] /\ m_main_channel \in Seq(Slot)
      /\ written \in [Pids -> 0..PieceSlots - 1] /\ w \in 0..PieceSlots - 1
      /\ mainPc \in MainPcs
  BY DEF TypeInv, TypeOK
<1>3. Page(p, w + 1) \in Slot
  BY <1>1, <1>2 DEF TypeInv, DownloadIsPiece, NotifiesComplete, Page, Slot
<1>4. /\ n \in Nat /\ (m_main_channel = << >> <=> n = 0)
      /\ m_main_channel' # << >> /\ Len(m_main_channel') = n + 1
      /\ m_main_channel'[n + 1] = Page(p, w + 1)
      /\ \A k \in 1..n : m_main_channel'[k] = m_main_channel[k]
  BY <1>1, <1>3, WrittenSlots
<1>5. /\ m_main_channel_mutex = 0 /\ mainPc \notin {"drain", "complete"}
      /\ \A u \in Pids : u # t => pc[u] \notin InNotify
  BY <1>1, HolderAlone DEF InNotify
<1>6. /\ n = 0 => mainPc = "sem_wait" /\ message = p /\ w = 0
      /\ n # 0 => m_main_channel[n] = Page(p, w)
  BY <1>1, <1>4 DEF FramesRight, WriterAtTail
<1>7. HeadInSync'
  <2>1. CASE mainPc = "sem_wait"
    <3>1. \A k \in 1..PieceSlots : k <= n => m_main_channel[k] = Page(message, k)
      BY <2>1 DEF FramesRight, HeadInSync
    <3>2. n + 1 <= PieceSlots => message = p /\ w = n
      <4>1. CASE n = 0
        BY <1>6, <4>1
      <4>2. CASE n # 0 /\ n <= PieceSlots
        <5>1. Page(message, n) = Page(p, w)
          BY <1>4, <1>6, <3>1, <4>2
        <5>2. QED
          BY <5>1 DEF Page
      <4>3. QED
        BY <1>4, <4>1, <4>2
    <3>3. ASSUME NEW k \in 1..PieceSlots, k <= n + 1
          PROVE  m_main_channel'[k] = Page(message, k)
      <4>1. CASE k <= n
        BY <1>4, <3>1, <4>1
      <4>2. CASE k = n + 1
        BY <1>4, <3>2, <4>2
      <4>3. QED
        BY <1>4, <3>3, <4>1, <4>2
    <3>4. QED
      BY <1>1, <1>4, <2>1, <3>3 DEF HeadInSync, mainVars
  <2>2. CASE mainPc \in IdlePcs
    <3>1. n # 0
      BY <1>6, <2>2
    <3>2. /\ m_main_channel[1].part = 0
          /\ \A k \in 1..PieceSlots : k < n =>
               m_main_channel[k + 1] = Page(m_main_channel[1].piece, k)
      BY <1>4, <2>2, <3>1 DEF FramesRight, HeadInSync
    <3>3. ASSUME n <= PieceSlots PROVE m_main_channel[1].piece = p /\ w = n - 1
      <4>1. CASE n = 1
        <5>1. m_main_channel[1] = Page(p, w)
          BY <1>6, <4>1
        <5>2. QED
          BY <3>2, <4>1, <5>1 DEF Page
      <4>2. CASE n > 1
        <5>1. n - 1 \in 1..PieceSlots /\ n - 1 < n /\ (n - 1) + 1 = n
          BY <1>4, <3>3, <4>2
        <5>2. Page(m_main_channel[1].piece, n - 1) = Page(p, w)
          BY <1>6, <3>1, <3>2, <5>1
        <5>3. QED
          BY <5>2 DEF Page
      <4>3. n = 1 \/ n > 1
        <5>1. n \in Nat /\ n # 0
          BY <1>4, <3>1
        <5> HIDE DEF n
        <5>2. QED
          BY <5>1
      <4>4. QED
        BY <4>1, <4>2, <4>3, Zenon
    <3>4. m_main_channel'[1] = m_main_channel[1]
      BY <1>4, <3>1
    <3>5. ASSUME NEW k \in 1..PieceSlots, k < n + 1
          PROVE  m_main_channel'[k + 1] = Page(m_main_channel[1].piece, k)
      <4>1. CASE k < n
        BY <1>4, <3>2, <4>1
      <4>2. CASE k = n
        BY <1>4, <3>3, <4>2
      <4>3. QED
        BY <1>4, <3>5, <4>1, <4>2
    <3>6. QED
      BY <1>1, <1>4, <2>2, <3>2, <3>4, <3>5 DEF HeadInSync, mainVars
  <2>3. mainPc # "desync"
    BY DEF FramesRight, HeadInSync
  <2>4. QED
    BY <1>2, <1>5, <2>1, <2>2, <2>3 DEF MainPcs
<1>8. OpenFrameLocked'
  <2> SUFFICES ASSUME FrameOpen'
               PROVE  /\ m_main_channel_mutex' = 0
                      /\ \A a \in Actors : Holds(a)' => a # Main /\ pc'[a] = "payload"
    BY DEF OpenFrameLocked
  <2>1. w + 1 # PieceSlots
    BY <1>4 DEF FrameOpen, Page
  <2>2. pc'[t] = "payload" /\ t # Main
    BY <1>1, <1>2, <2>1 DEF Main, Pids
  <2>3. \A a \in Actors : Holds(a)' => a = t
    BY <1>1, <1>2, <1>5 DEF Holds, Actors, mainVars
  <2>4. QED
    BY <1>1, <1>5, <2>2, <2>3
<1>9. WriterAtTail'
  <2>1. \A u \in Pids : pc'[u] = "payload" => u = t
    BY <1>1, <1>2, <1>5 DEF InNotify
  <2>2. pc'[t] = "payload" => written'[t] = w + 1
    BY <1>1, <1>2
  <2>3. QED
    BY <1>1, <1>4, <2>1, <2>2 DEF WriterAtTail, peerVars
<1>10. WritesFromStart'
  BY <1>1, <1>2 DEF FramesRight, WritesFromStart
<1>11. HandlerReady'
  BY <1>1, <1>5 DEF HandlerReady, mainVars
<1>12. PiecesStored'
  BY <1>1 DEF FramesRight, PiecesStored, HoldsPayload, mainVars, storeVars
<1>13. QED
  BY <1>7, <1>8, <1>9, <1>10, <1>11, <1>12 DEF FramesRight

\* sem_post: the process has written its frame to the end.
LEMMA PostFrames ==
  ASSUME TypeInv, FramesRight, Exclusive, NEW t \in Pids, NotifyPosts(t)
  PROVE  FramesRight'
<1>1. /\ pc[t] = "post" /\ pc' = [pc EXCEPT ![t] = "next"]
      /\ UNCHANGED <<m_main_channel, storeVars, mainVars, written>>
  BY DEF NotifyPosts, TaskGoes, OthersThanTask, storeVars
<1>2. pc \in [Pids -> TaskPcs]
  BY DEF TypeInv, TypeOK
<1>3. \A u \in Pids : pc'[u] # "payload"
  BY <1>1, <1>2, HolderAlone DEF InNotify
<1>4. ~FrameOpen /\ ~FrameOpen'
  BY <1>1 DEF FramesRight, OpenFrameLocked, FrameOpen, Holds, Actors, Main, Pids, InNotify,
              mainVars
<1>5. HeadInSync'
  BY <1>1 DEF FramesRight, HeadInSync, mainVars
<1>6. (OpenFrameLocked /\ WriterAtTail)'
  BY <1>3, <1>4 DEF OpenFrameLocked, WriterAtTail
<1>7. WritesFromStart'
  BY <1>1, <1>2 DEF FramesRight, WritesFromStart
<1>8. HandlerReady'
  BY <1>1 DEF FramesRight, HandlerReady, mainVars, storeVars
<1>9. PiecesStored'
  BY <1>1 DEF FramesRight, PiecesStored, HoldsPayload, mainVars, storeVars
<1>10. QED
  BY <1>5, <1>6, <1>7, <1>8, <1>9 DEF FramesRight

-----------------------------------------------------------------------------
(* Every other step is quiet.                                              *)

LEMMA TaskQuiet ==
  ASSUME TypeInv, WritesFromStart, NEW t \in Pids,
         TaskConstructs(t) \/ TaskSandboxes(t) \/ Receive(t) \/ TaskDownloadsNext(t)
           \/ TaskKilled(t)
  PROVE  QuietStep
<1> USE DEF OthersThanTask, TaskGoes
<1>1. /\ UNCHANGED <<channelVars, files, written, mainVars>>
      /\ m_bitfield_pieces' \in {m_bitfield_pieces, {}}
  BY DEF TaskConstructs, TaskSandboxes, Receive, ReceiveChoke, ReceiveUnchoke,
         ReceiveLastBlock, ReceiveOther, ReceiveKeepAliveTwice, AfterReceive,
         TaskDownloadsNext, TaskKilled
<1>2. \E to \in {"sandbox", "receive", "notify", "exited"} :
        /\ pc' = [pc EXCEPT ![t] = to]
        /\ pc[t] \in {"payload", "exited", "reaped"} => to = "exited"
  BY DEF TaskConstructs, TaskSandboxes, Receive, ReceiveChoke, ReceiveUnchoke,
         ReceiveLastBlock, ReceiveOther, ReceiveKeepAliveTwice, AfterReceive,
         TaskDownloadsNext, TaskKilled
<1>3. \A u \in Pids : u # t => m_download_piece'[u] = m_download_piece[u]
  BY DEF TaskConstructs, TaskSandboxes, Receive, ReceiveChoke, ReceiveUnchoke,
         ReceiveLastBlock, ReceiveOther, ReceiveKeepAliveTwice, AfterReceive,
         TaskDownloadsNext, TaskKilled, peerVars, TypeInv, TypeOK
<1>4. pc \in [Pids -> TaskPcs]
  BY DEF TypeInv, TypeOK
<1>5. \A u \in Pids : pc'[u] \in InNotify =>
        pc'[u] = pc[u] /\ m_download_piece'[u] = m_download_piece[u]
  BY <1>2, <1>3, <1>4 DEF InNotify
<1>6. \A u \in Pids : pc'[u] \notin {"payload", "exited", "reaped"} => written[u] = 0
  BY <1>2, <1>4 DEF WritesFromStart
<1>7. QED
  BY <1>1, <1>5, <1>6, Zenon DEF QuietStep, mainVars

LEMMA MainQuiet ==
  ASSUME TypeInv, WritesFromStart,
         StartTimesOut \/ StartChecksSpawning \/ RespawnerPasses \/ RespawnerFindsDead
           \/ RespawnerEnds
  PROVE  QuietStep
<1> USE DEF OthersThanMain, storeVars, peerVars
<1>1. /\ UNCHANGED <<channelVars, storeVars, message, receive_left, peerVars, written>>
      /\ mainPc \in IdlePcs /\ mainPc' \in IdlePcs
  BY DEF StartTimesOut, StartChecksSpawning, RespawnerPasses, RespawnerFindsDead,
         RespawnerEnds, IdlePcs
<1>2. pc' = pc \/ \E u \in Pids : pc[u] = "exited" /\ pc' = [pc EXCEPT ![u] = "reaped"]
  <2>1. CASE RespawnerPasses
    <3>1. m_tasks[it] \in Pids
      BY <2>1 DEF RespawnerPasses, TypeInv, TypeOK
    <3>2. QED
      BY <2>1, <3>1 DEF RespawnerPasses
  <2>2. QED
    BY <2>1 DEF StartTimesOut, StartChecksSpawning, RespawnerFindsDead, RespawnerEnds
<1>3. pc \in [Pids -> TaskPcs]
  BY DEF TypeInv, TypeOK
<1>4. \A u \in Pids : pc'[u] = pc[u] \/ pc'[u] = "reaped"
  BY <1>2, <1>3
<1>5. \A u \in Pids : pc'[u] \in InNotify => pc'[u] = pc[u]
  BY <1>4 DEF InNotify
<1>6. \A u \in Pids : pc'[u] \notin {"payload", "exited", "reaped"} => written[u] = 0
  BY <1>4 DEF WritesFromStart
<1>7. QED
  BY <1>1, <1>5, <1>6, Zenon DEF QuietStep

LEMMA SpawnQuiet ==
  ASSUME TypeInv, SpawnInv, WritesFromStart,
         \/ \E a \in {"main", "thread"} : Spawn(a)
         \/ SpawnerStart \/ SpawnerDone \/ UNCHANGED vars
  PROVE  QuietStep
<1> USE DEF vars, taskVars, storeVars, peerVars
<1>1. UNCHANGED <<channelVars, storeVars, message, receive_left, peerVars, written>>
  BY DEF Spawn, SpawnRejects, SpawnForks, SpawnGivesUp, SpawnReturns, SpawnerStart,
         SpawnerDone, mainVars
<1>2. mainPc' = mainPc \/ (mainPc \in IdlePcs /\ mainPc' \in IdlePcs)
  BY DEF Spawn, Spawning, SpawnRejects, SpawnForks, SpawnGivesUp, SpawnReturns, SpawnerStart,
         SpawnerDone, mainVars, IdlePcs
<1>3. \/ pc' = pc
      \/ /\ forks + 1 \in Pids /\ pc[forks + 1] = "none"
         /\ pc' = [pc EXCEPT ![forks + 1] = "construct"]
  <2>1. ASSUME NEW a \in {"main", "thread"}, SpawnForks(a)
        PROVE  /\ forks + 1 \in Pids /\ pc[forks + 1] = "none"
               /\ pc' = [pc EXCEPT ![forks + 1] = "construct"]
    <3>1. forks + 1 \in Pids /\ forks \in Nat
      BY <2>1 DEF SpawnForks, TypeInv, TypeOK, ForksPaidFor, Pids
    <3>2. pc[forks + 1] = "none"
      BY <3>1 DEF SpawnInv, FreshPids
    <3>3. QED
      BY <2>1, <3>1, <3>2 DEF SpawnForks
  <2>2. QED
    BY <2>1 DEF Spawn, SpawnRejects, SpawnGivesUp, SpawnerStart, SpawnerDone
<1>4. pc \in [Pids -> TaskPcs]
  BY DEF TypeInv, TypeOK
<1>5. \A u \in Pids : pc'[u] = pc[u] \/ (pc'[u] = "construct" /\ pc[u] = "none")
  BY <1>3, <1>4
<1>6. \A u \in Pids : pc'[u] \in InNotify => pc'[u] = pc[u]
  BY <1>5 DEF InNotify
<1>7. \A u \in Pids : pc'[u] \notin {"payload", "exited", "reaped"} => written[u] = 0
  BY <1>5 DEF WritesFromStart
<1>8. QED
  BY <1>1, <1>2, <1>6, <1>7, Zenon DEF QuietStep

\* No step leads back to the first run.
LEMMA FirstRunStays ==
  ASSUME TypeInv, [Next]_vars, restarts' = 0
  PROVE  restarts = 0 /\ ~Restart
<1>1. ~Restart
  BY DEF Restart, TypeInv, TypeOK
<1>2. ASSUME \/ \E a \in {"main", "thread"} : Spawn(a)
             \/ SpawnerStart \/ SpawnerDone \/ UNCHANGED vars
      PROVE  UNCHANGED restarts
  BY <1>2 DEF Spawn, SpawnRejects, SpawnForks, SpawnGivesUp, SpawnerStart, SpawnerDone, vars
<1>3. ASSUME MainStep PROVE UNCHANGED restarts
  BY <1>3 DEF MainStep, StartReadsHeader, StartMisreadsPayload, StartTimesOut,
     StartChecksSpawning, StartLocks, HandleReads, HandleCompletes, RespawnerPasses,
     RespawnerFindsDead, RespawnerEnds, OthersThanMain
<1>4. ASSUME NEW t \in Pids, TaskStep(t) PROVE UNCHANGED restarts
  BY <1>4 DEF TaskStep, TaskConstructs, TaskSandboxes, TaskKilled, Receive, ReceiveChoke,
     ReceiveUnchoke, ReceiveLastBlock, ReceiveOther, ReceiveKeepAliveTwice, AfterReceive,
     Notify, NotifyWaits, NotifyWritesHeader, NotifyWritesPage, NotifyPosts,
     TaskDownloadsNext, OthersThanTask
<1>5. QED
  BY <1>1, <1>2, <1>3, <1>4 DEF Next

\* The steps of the first run.  start() never misreads a payload: the head of
\* the pipe is a header whenever it looks for one.
LEMMA FirstRunSteps ==
  ASSUME TypeInv, SpawnInv, FramesRight, [Next]_vars, ~Restart
  PROVE  \/ QuietStep
         \/ StartReadsHeader \/ StartLocks \/ HandleReads \/ HandleCompletes
         \/ \E t \in Pids : \/ NotifyWaits(t) \/ NotifyWritesHeader(t)
                            \/ NotifyWritesPage(t) \/ NotifyPosts(t)
<1>1. WritesFromStart
  BY DEF FramesRight
<1>2. ~StartMisreadsPayload
  <2>1. m_main_channel \in Seq(Slot)
    BY DEF TypeInv, TypeOK
  <2>2. m_main_channel # << >> => Head(m_main_channel) = m_main_channel[1]
    BY <2>1, ReadOneSlots
  <2>3. QED
    BY <2>2 DEF StartMisreadsPayload, FramesRight, HeadInSync, IdlePcs
<1>3. QED
  BY <1>1, <1>2, TaskQuiet, MainQuiet, SpawnQuiet DEF Next, MainStep, TaskStep, Notify

LEMMA ChannelInvNext ==
  ASSUME TypeInv, SpawnInv, TokensBounded, ChannelInv, [Next]_vars
  PROVE  ChannelInv'
<1> SUFFICES ASSUME restarts' = 0 PROVE FramesRight'
  BY DEF ChannelInv
<1>1. restarts = 0 /\ ~Restart
  BY FirstRunStays
<1>2. FramesRight /\ Exclusive
  BY <1>1, FirstRunExclusive DEF ChannelInv
<1>3. QED
  BY <1>1, <1>2, FirstRunSteps, FramesKept, HeaderFrames, LockFrames, ReadFrames,
     CompleteFrames, WaitFrames, WriteHeaderFrames, WritePageFrames, PostFrames

-----------------------------------------------------------------------------
(* The theorems about the channel.                                         *)

THEOREM ChannelInvariant == Spec => []ChannelInv
BY ChannelInvInit, ChannelInvNext, TypeInvariant, SpawnInvariant, TokensAlwaysBounded, PTL
DEF Spec

\* start() takes headers without the mutex, from a pipe that any number of
\* processes write and any of them may leave half a frame in; on the first run
\* it never takes payload for a header.
THEOREM ChannelAlwaysInSync == Spec => []ChannelInSync
<1>1. ChannelInv => ChannelInSync
  BY DEF ChannelInv, FramesRight, HeadInSync, ChannelInSync
<1>2. QED
  BY <1>1, ChannelInvariant, PTL

\* Once start() has the mutex, the whole payload of its header is in the pipe:
\* the reads in handle_downloaded_piece cannot block or mix pieces.
THEOREM HandlerAlwaysFindsPayload == Spec => []HandlerFindsPayload
<1>1. ASSUME TypeInv, ChannelInv PROVE HandlerFindsPayload
  <2> SUFFICES ASSUME restarts = 0, mainPc = "drain"
               PROVE  /\ receive_left <= Len(m_main_channel)
                      /\ \A k \in 1..PieceSlots : m_main_channel[k] = Page(message, k)
    BY DEF HandlerFindsPayload
  <2>1. receive_left = PieceSlots /\ PieceSlots <= Len(m_main_channel)
    BY <1>1 DEF ChannelInv, FramesRight, HandlerReady
  <2>2. \A k \in 1..PieceSlots : k <= Len(m_main_channel) => m_main_channel[k] = Page(message, k)
    BY <1>1 DEF ChannelInv, FramesRight, HeadInSync, ServePcs
  <2>3. Len(m_main_channel) \in Nat
    BY <1>1 DEF TypeInv, TypeOK
  <2>4. QED
    BY <2>1, <2>2, <2>3
<1>2. QED
  BY <1>1, TypeInvariant, ChannelInvariant, PTL

\* A piece the bitfield shows as present is in its file, whole and in order,
\* on the first run, except while its file is rewritten.
THEOREM MarkedPieceAlwaysOnDisk == Spec => []MarkedPieceOnDisk
<1>1. ChannelInv => MarkedPieceOnDisk
  BY DEF ChannelInv, FramesRight, PiecesStored, MarkedPieceOnDisk
<1>2. QED
  BY <1>1, ChannelInvariant, PTL

-----------------------------------------------------------------------------
(* The refinement.  Besides ChannelInv it needs that the history variable  *)
(* starts with the piece of the first frame, and is empty until that frame *)
(* is whole.                                                               *)

FirstFrameSent(size, piece) ==
  /\ sent # << >> <=> size <= Len(m_main_channel)
  /\ sent # << >> => Head(sent) = piece

SentRight ==
  /\ sent \in Seq(Pieces)
  /\ mainPc \in ServePcs => FirstFrameSent(PieceSlots, message)
  /\ mainPc \in IdlePcs => FirstFrameSent(PieceSlots + 1, m_main_channel[1].piece)
  /\ mainPc = "complete" => sent = << >>

SentInv == restarts = 0 => SentRight

AbstractStep == [Abstract!Next]_(Abstract!vars)

\* A step that PieceChannel does not see.
LEMMA AbstractStutters ==
  ASSUME UNCHANGED <<sent, files, m_bitfield_pieces, message>>,
         mainPc' = "complete" <=> mainPc = "complete"
  PROVE  AbstractStep
BY DEF AbstractStep, Abstract!vars, StoredPieces,
         HoldsPayload

\* A step that leaves the pipe alone leaves the history alone.
LEMMA SentKept ==
  ASSUME TypeInv, FramesRight, SentRight, RecordSent, UNCHANGED m_main_channel
  PROVE  UNCHANGED sent
<1>1. m_main_channel = << >> => Len(m_main_channel) = 0
  BY EmptyIffZero DEF TypeInv, TypeOK
<1>2. m_main_channel = << >> => sent = << >>
  <2>1. mainPc \in IdlePcs \cup ServePcs \cup {"complete"}
    BY DEF TypeInv, TypeOK, MainPcs, FramesRight, HeadInSync, IdlePcs, ServePcs
  <2>2. QED
    BY <1>1, <2>1 DEF SentRight, FirstFrameSent
<1>3. ~LastPageWritten
  <2>1. Len(m_main_channel) \in Nat
    BY DEF TypeInv, TypeOK
  <2>2. QED
    BY <2>1 DEF LastPageWritten
<1>4. QED
  BY <1>2, <1>3 DEF RecordSent

LEMMA QuietRefines ==
  ASSUME TypeInv, FramesRight, SentRight, RecordSent, QuietStep
  PROVE  SentRight' /\ AbstractStep
<1>1. UNCHANGED <<m_main_channel, files, message>>
  BY DEF QuietStep, channelVars
<1>2. UNCHANGED sent
  BY <1>1, SentKept
<1>3. mainPc' = mainPc \/ (mainPc \in IdlePcs /\ mainPc' \in IdlePcs)
  BY DEF QuietStep
<1>4. SentRight'
  BY <1>1, <1>2, <1>3 DEF SentRight, FirstFrameSent, IdlePcs, ServePcs
<1>5. mainPc' = "complete" <=> mainPc = "complete"
  BY <1>3 DEF IdlePcs
<1>6. CASE UNCHANGED m_bitfield_pieces
  BY <1>1, <1>2, <1>4, <1>5, <1>6, AbstractStutters
<1>7. CASE m_bitfield_pieces' = {}
  BY <1>1, <1>2, <1>4, <1>5, <1>7 DEF AbstractStep, Abstract!Next, Abstract!Zero,
       StoredPieces, HoldsPayload
<1>8. QED
  BY <1>4, <1>6, <1>7 DEF QuietStep

\* The header does not count as a page.
LEMMA HeaderRefines ==
  ASSUME TypeInv, FramesRight, SentRight, RecordSent, StartReadsHeader
  PROVE  SentRight' /\ AbstractStep
<1> DEFINE n == Len(m_main_channel)
<1>1. /\ m_main_channel \in Seq(Slot) /\ m_main_channel # << >>
      /\ m_main_channel' = readOne(m_main_channel)
      /\ mainPc = "poll" /\ mainPc' = "sem_wait" /\ message' = Head(m_main_channel).piece
      /\ UNCHANGED storeVars
  BY DEF StartReadsHeader, TypeInv, TypeOK
<1>2. /\ n \in Nat /\ n >= 1 /\ Len(m_main_channel') = n - 1
      /\ Head(m_main_channel) = m_main_channel[1]
      /\ m_main_channel' = << >> <=> n = 1
  BY <1>1, ReadOneSlots
<1>3. FirstFrameSent(PieceSlots + 1, m_main_channel[1].piece) /\ sent \in Seq(Pieces)
  BY <1>1 DEF SentRight, IdlePcs
<1>4. UNCHANGED sent
  <2>1. ~LastPageWritten
    BY <1>2 DEF LastPageWritten
  <2>2. n = 1 => sent = << >>
    BY <1>3 DEF FirstFrameSent
  <2>3. QED
    BY <1>2, <2>1, <2>2 DEF RecordSent
<1>5. FirstFrameSent(PieceSlots, message)'
  BY <1>1, <1>2, <1>3, <1>4 DEF FirstFrameSent
<1>6. SentRight'
  BY <1>1, <1>3, <1>4, <1>5 DEF SentRight, IdlePcs, ServePcs
<1>7. AbstractStep
  BY <1>1, <1>4 DEF storeVars, AbstractStep, Abstract!vars, StoredPieces,
         HoldsPayload
<1>8. QED
  BY <1>6, <1>7

\* handle_downloaded_piece truncates the file of the oldest piece sent.
LEMMA LockRefines ==
  ASSUME TypeInv, FramesRight, SentRight, RecordSent, StartLocks
  PROVE  SentRight' /\ AbstractStep
<1>1. /\ mainPc = "sem_wait" /\ mainPc' = "drain" /\ m_main_channel_mutex > 0
      /\ files' = [files EXCEPT ![message] = << >>]
      /\ UNCHANGED <<m_main_channel, m_bitfield_pieces, message>>
  BY DEF StartLocks, sem_wait
<1>2. UNCHANGED sent
  BY <1>1, SentKept
<1>3. ~FrameOpen
  BY <1>1 DEF FramesRight, OpenFrameLocked
<1>4. PieceSlots <= Len(m_main_channel)
  BY <1>1, <1>3, ClosedFrameWhole DEF FramesRight
<1>5. sent # << >> /\ Head(sent) = message
  BY <1>1, <1>4 DEF SentRight, FirstFrameSent, ServePcs
<1>6. SentRight'
  BY <1>1, <1>2 DEF SentRight, FirstFrameSent, ServePcs, IdlePcs
<1>7. message \in Pieces /\ files \in [Pieces -> Seq(Slot)]
  BY <1>1 DEF TypeInv, TypeOK, MessageIsPiece
<1>8. StoredPieces' = StoredPieces \ {message}
  <2>1. Len(<< >>) = 0
    BY EmptySeq
  <2>2. ASSUME NEW p \in Pieces PROVE p \in StoredPieces' <=> p \in StoredPieces \ {message}
    <3>1. CASE p = message
      BY <1>1, <1>7, <2>1, <3>1 DEF StoredPieces, HoldsPayload
    <3>2. CASE p # message
      <4>1. files'[p] = files[p]
        BY <1>1, <1>7, <3>2
      <4>2. QED
        BY <3>2, <4>1 DEF StoredPieces, HoldsPayload
    <3>3. QED
      BY <3>1, <3>2
  <2>3. StoredPieces \subseteq Pieces /\ StoredPieces' \subseteq Pieces
    BY DEF StoredPieces
  <2>4. QED
    BY <2>2, <2>3, Zenon
<1>9. Abstract!Truncate
  BY <1>1, <1>2, <1>5, <1>8 DEF Abstract!Truncate
<1>10. QED
  BY <1>6, <1>9 DEF AbstractStep, Abstract!Next

\* It stores the oldest piece sent, and swallows the others.
LEMMA ReadRefines ==
  ASSUME TypeInv, FramesRight, Exclusive, SentRight, RecordSent, HandleReads
  PROVE  SentRight' /\ AbstractStep
<1>1. /\ mainPc = "drain" /\ m_main_channel' = << >>
      /\ files' = [files EXCEPT ![message] = files[message] \o m_main_channel]
      /\ UNCHANGED <<m_bitfield_pieces, message>>
  BY DEF HandleReads, readAll
<1>2. mainPc' = "complete" /\ HoldsPayload(message)'
  BY ReadFrames
<1>3. sent' = << >>
  BY <1>1 DEF RecordSent
<1>4. sent # << >> /\ Head(sent) = message
  BY <1>1 DEF FramesRight, HandlerReady, SentRight, FirstFrameSent, ServePcs
<1>5. message \in Pieces /\ files \in [Pieces -> Seq(Slot)]
  BY <1>1 DEF TypeInv, TypeOK, MessageIsPiece
<1>6. StoredPieces' = StoredPieces \cup {message}
  <2>1. ASSUME NEW p \in Pieces PROVE p \in StoredPieces' <=> p \in StoredPieces \cup {message}
    <3>1. CASE p = message
      BY <1>1, <1>2, <3>1 DEF StoredPieces, HoldsPayload
    <3>2. CASE p # message
      <4>1. files'[p] = files[p]
        BY <1>1, <1>5, <3>2
      <4>2. QED
        BY <3>2, <4>1 DEF StoredPieces, HoldsPayload
    <3>3. QED
      BY <3>1, <3>2
  <2>2. StoredPieces \cup {message} \subseteq Pieces /\ StoredPieces' \subseteq Pieces
    BY <1>5 DEF StoredPieces
  <2>3. QED
    BY <2>1, <2>2, Zenon
<1>7. Abstract!Take
  BY <1>1, <1>2, <1>3, <1>4, <1>6 DEF Abstract!Take
<1>8. SentRight'
  BY <1>2, <1>3 DEF SentRight, IdlePcs, ServePcs
<1>9. QED
  BY <1>7, <1>8 DEF AbstractStep, Abstract!Next

\* It marks what it stored.
LEMMA CompleteRefines ==
  ASSUME TypeInv, FramesRight, SentRight, RecordSent, HandleCompletes
  PROVE  SentRight' /\ AbstractStep
<1>1. /\ mainPc = "complete" /\ mainPc' = "poll"
      /\ m_bitfield_pieces' = m_bitfield_pieces \cup {message}
      /\ UNCHANGED <<m_main_channel, files, message>>
  BY DEF HandleCompletes
<1>2. UNCHANGED sent /\ sent = << >>
  BY <1>1, SentKept DEF SentRight
<1>3. message \in Pieces /\ message # NoPiece
  BY <1>1 DEF TypeInv, MessageIsPiece
<1>4. Abstract!Mark
  BY <1>1, <1>2, <1>3 DEF Abstract!Mark, StoredPieces, HoldsPayload
<1>5. m_main_channel = << >> /\ Len(m_main_channel) = 0
  BY <1>1, EmptyIffZero DEF FramesRight, HeadInSync, TypeInv, TypeOK
<1>6. SentRight'
  BY <1>1, <1>2, <1>5 DEF SentRight, FirstFrameSent, IdlePcs, ServePcs
<1>7. QED
  BY <1>4, <1>6 DEF AbstractStep, Abstract!Next

\* sem_wait and sem_post of a writer are not seen.
LEMMA WaitRefines ==
  ASSUME TypeInv, FramesRight, SentRight, RecordSent, NEW t \in Pids,
         NotifyWaits(t) \/ NotifyPosts(t)
  PROVE  SentRight' /\ AbstractStep
<1>1. UNCHANGED <<m_main_channel, storeVars, mainVars>>
  BY DEF NotifyWaits, NotifyPosts, OthersThanTask, storeVars
<1>2. UNCHANGED sent
  BY <1>1, SentKept
<1>3. QED
  BY <1>1, <1>2, AbstractStutters DEF SentRight, FirstFrameSent, mainVars, storeVars

\* A header opens a frame, and leaves the first one as it is.
LEMMA WriteHeaderRefines ==
  ASSUME TypeInv, FramesRight, Exclusive, SentRight, RecordSent,
         NEW t \in Pids, NotifyWritesHeader(t)
  PROVE  SentRight' /\ AbstractStep
<1> DEFINE n == Len(m_main_channel)
           e == Header(m_download_piece[t].piece_index)
<1>1. /\ pc[t] = "header" /\ m_main_channel' = write(m_main_channel, e)
      /\ UNCHANGED <<storeVars, mainVars>>
  BY DEF NotifyWritesHeader, TaskGoes, OthersThanTask, storeVars
<1>2. e \in Slot /\ e.part = 0
  BY <1>1 DEF TypeInv, DownloadIsPiece, NotifiesComplete, Header, Slot
<1>3. /\ n \in Nat /\ (m_main_channel = << >> <=> n = 0)
      /\ m_main_channel' # << >> /\ Len(m_main_channel') = n + 1
      /\ m_main_channel'[n + 1] = e
      /\ \A k \in 1..n : m_main_channel'[k] = m_main_channel[k]
  BY <1>1, <1>2, WrittenSlots
<1>4. UNCHANGED sent
  BY <1>2, <1>3 DEF RecordSent, LastPageWritten
<1>5. mainPc \notin {"drain", "complete"}
  BY <1>1, HolderAlone DEF InNotify
<1>6. ~FrameOpen
  BY <1>1 DEF FramesRight, OpenFrameLocked, Holds, Actors, Main, Pids, InNotify
<1>7. /\ mainPc = "sem_wait" => PieceSlots <= n
      /\ mainPc \in IdlePcs /\ n # 0 => PieceSlots + 1 <= n
  BY <1>3, <1>6, ClosedFrameWhole DEF FramesRight
<1>8. ASSUME mainPc = "sem_wait" PROVE FirstFrameSent(PieceSlots, message)'
  BY <1>1, <1>3, <1>4, <1>7, <1>8 DEF SentRight, FirstFrameSent, ServePcs, mainVars
<1>9. ASSUME mainPc \in IdlePcs
      PROVE  FirstFrameSent(PieceSlots + 1, m_main_channel[1].piece)'
  <2>1. FirstFrameSent(PieceSlots + 1, m_main_channel[1].piece)
    BY <1>9 DEF SentRight
  <2>2. n # 0 => m_main_channel'[1] = m_main_channel[1]
    BY <1>3
  <2>3. n = 0 => sent = << >>
    BY <2>1 DEF FirstFrameSent
  <2>4. PieceSlots + 1 <= n <=> PieceSlots + 1 <= n + 1
    BY <1>3, <1>7, <1>9
  <2>5. QED
    BY <1>3, <1>4, <2>1, <2>2, <2>3, <2>4 DEF FirstFrameSent
<1>10. SentRight'
  BY <1>1, <1>4, <1>5, <1>8, <1>9 DEF SentRight, IdlePcs, ServePcs, mainVars
<1>11. AbstractStep
  BY <1>1, <1>4, AbstractStutters DEF mainVars, storeVars
<1>12. QED
  BY <1>10, <1>11

\* The last page of a payload sends the piece; it completes the first frame
\* if no frame was complete before.
LEMMA WritePageRefines ==
  ASSUME TypeInv, FramesRight, Exclusive, SentRight, RecordSent,
         NEW t \in Pids, NotifyWritesPage(t)
  PROVE  SentRight' /\ AbstractStep
<1> DEFINE n == Len(m_main_channel)
           p == m_download_piece[t].piece_index
           w == written[t]
           e == Page(p, w + 1)
<1>1. /\ pc[t] = "payload" /\ m_main_channel' = write(m_main_channel, e)
      /\ UNCHANGED <<storeVars, mainVars>>
  BY DEF NotifyWritesPage, TaskGoes, OthersThanTask, storeVars
<1>2. w \in 0..PieceSlots - 1 /\ p \in Pieces /\ mainPc \in MainPcs
  BY <1>1 DEF TypeInv, TypeOK, DownloadIsPiece, NotifiesComplete
<1>3. e \in Slot /\ e.part = w + 1 /\ e.piece = p
  BY <1>2 DEF Page, Slot
<1>4. /\ n \in Nat /\ (m_main_channel = << >> <=> n = 0)
      /\ m_main_channel' # << >> /\ Len(m_main_channel') = n + 1
      /\ m_main_channel'[n + 1] = e
      /\ \A k \in 1..n : m_main_channel'[k] = m_main_channel[k]
  BY <1>1, <1>3, WrittenSlots
<1>5. mainPc \notin {"drain", "complete"} /\ mainPc # "desync"
  BY <1>1, HolderAlone DEF InNotify, FramesRight, HeadInSync
<1>6. sent' = IF w + 1 = PieceSlots THEN Append(sent, p) ELSE sent
  BY <1>3, <1>4 DEF RecordSent, LastPageWritten
<1>7. /\ sent \in Seq(Pieces) /\ sent' \in Seq(Pieces)
      /\ w + 1 = PieceSlots => sent' # << >> /\ (sent = << >> => Head(sent') = p)
      /\ sent # << >> => sent' # << >> /\ Head(sent') = Head(sent)
  <2>1. sent \in Seq(Pieces)
    BY DEF SentRight
  <2>2. /\ Append(sent, p) \in Seq(Pieces) /\ Append(sent, p) # << >>
        /\ sent = << >> => Head(Append(sent, p)) = p
        /\ sent # << >> => Head(Append(sent, p)) = Head(sent)
    BY <1>2, <2>1
  <2>3. QED
    BY <1>6, <2>1, <2>2
<1>8. /\ n = 0 => mainPc = "sem_wait" /\ message = p /\ w = 0
      /\ n # 0 => m_main_channel[n] = Page(p, w)
  BY <1>1, <1>4 DEF FramesRight, WriterAtTail
<1>9. ASSUME mainPc = "sem_wait" PROVE FirstFrameSent(PieceSlots, message)'
  <2>1. FirstFrameSent(PieceSlots, message)
    BY <1>9 DEF SentRight, ServePcs
  <2>2. CASE PieceSlots <= n
    BY <1>1, <1>4, <1>7, <2>1, <2>2 DEF FirstFrameSent, mainVars
  <2>3. CASE n < PieceSlots
    <3>1. message = p /\ w = n
      <4>1. CASE n = 0
        BY <1>8, <4>1
      <4>2. CASE n # 0
        <5>1. m_main_channel[n] = Page(message, n)
          BY <1>4, <1>9, <2>3, <4>2 DEF FramesRight, HeadInSync, ServePcs
        <5>2. Page(message, n) = Page(p, w)
          BY <1>8, <4>2, <5>1
        <5>3. QED
          BY <5>2 DEF Page
      <4>3. QED
        BY <4>1, <4>2
    <3>2. sent = << >>
      BY <1>4, <2>1, <2>3 DEF FirstFrameSent
    <3>3. sent' # << >> <=> PieceSlots <= n + 1
      BY <1>4, <1>6, <1>7, <2>3, <3>1, <3>2
    <3>4. sent' # << >> => Head(sent') = p
      BY <1>6, <1>7, <3>2
    <3>5. QED
      BY <1>1, <1>4, <3>1, <3>3, <3>4 DEF FirstFrameSent, mainVars
  <2>4. QED
    BY <1>4, <2>2, <2>3
<1>10. ASSUME mainPc \in IdlePcs
       PROVE  FirstFrameSent(PieceSlots + 1, m_main_channel[1].piece)'
  <2>1. FirstFrameSent(PieceSlots + 1, m_main_channel[1].piece)
    BY <1>10 DEF SentRight
  <2>2. n # 0
    BY <1>8, <1>10 DEF IdlePcs
  <2>3. m_main_channel'[1] = m_main_channel[1]
    BY <1>4, <2>2
  <2>4. CASE PieceSlots + 1 <= n
    BY <1>4, <1>7, <2>1, <2>3, <2>4 DEF FirstFrameSent
  <2>5. CASE n <= PieceSlots
    <3>1. m_main_channel[1].piece = p /\ w = n - 1
      <4>1. /\ m_main_channel[1].part = 0
            /\ \A k \in 1..PieceSlots : k < n =>
                 m_main_channel[k + 1] = Page(m_main_channel[1].piece, k)
        BY <1>4, <1>10, <2>2 DEF FramesRight, HeadInSync
      <4>2. CASE n = 1
        <5>1. m_main_channel[1] = Page(p, w)
          BY <1>8, <4>2
        <5>2. QED
          BY <4>1, <4>2, <5>1 DEF Page
      <4>3. CASE n > 1
        <5>1. n - 1 \in 1..PieceSlots /\ n - 1 < n /\ (n - 1) + 1 = n
          BY <1>4, <2>5, <4>3
        <5>2. Page(m_main_channel[1].piece, n - 1) = Page(p, w)
          BY <1>8, <2>2, <4>1, <5>1
        <5>3. QED
          BY <5>2 DEF Page
      <4>4. n = 1 \/ n > 1
        <5>1. n \in Nat /\ n # 0
          BY <1>4, <2>2
        <5> HIDE DEF n
        <5>2. QED
          BY <5>1
      <4>5. QED
        BY <4>2, <4>3, <4>4, Zenon
    <3>2. sent = << >>
      BY <1>4, <2>1, <2>5 DEF FirstFrameSent
    <3>3. sent' # << >> <=> PieceSlots + 1 <= n + 1
      BY <1>4, <1>6, <1>7, <2>5, <3>1, <3>2
    <3>4. sent' # << >> => Head(sent') = p
      BY <1>6, <1>7, <3>2
    <3>5. QED
      BY <1>4, <2>3, <3>1, <3>3, <3>4 DEF FirstFrameSent
  <2>6. QED
    BY <1>4, <2>4, <2>5
<1>11. SentRight'
  BY <1>1, <1>5, <1>7, <1>9, <1>10 DEF SentRight, IdlePcs, ServePcs, mainVars
<1>12. AbstractStep
  <2>1. CASE w + 1 = PieceSlots
    <3>1. Abstract!Send(p)
      BY <1>1, <1>6, <2>1 DEF Abstract!Send, StoredPieces, HoldsPayload, mainVars, storeVars
    <3>2. QED
      BY <1>2, <3>1 DEF AbstractStep, Abstract!Next
  <2>2. CASE w + 1 # PieceSlots
    BY <1>1, <1>6, <2>2, AbstractStutters DEF mainVars, storeVars
  <2>3. QED
    BY <2>1, <2>2
<1>13. QED
  BY <1>11, <1>12

LEMMA RefinementStep ==
  ASSUME TypeInv, SpawnInv, TokensBounded, ChannelInv, SentInv, [NextH]_varsH, restarts' = 0
  PROVE  SentRight' /\ AbstractStep
<1>1. [Next]_vars
  BY DEF NextH, varsH
<1>2. restarts = 0 /\ ~Restart
  BY <1>1, FirstRunStays
<1>3. FramesRight /\ Exclusive /\ SentRight
  BY <1>2, FirstRunExclusive DEF ChannelInv, SentInv
<1>4. CASE UNCHANGED varsH
  BY <1>3, <1>4, AbstractStutters
  DEF varsH, vars, channelVars, storeVars, mainVars, SentRight, FirstFrameSent
<1>5. CASE NextH
  <2>1. RecordSent
    BY <1>5 DEF NextH
  <2>2. QED
    BY <1>1, <1>2, <1>3, <2>1, FirstRunSteps, QuietRefines, HeaderRefines, LockRefines,
       ReadRefines, CompleteRefines, WaitRefines, WriteHeaderRefines, WritePageRefines
<1>6. QED
  BY <1>4, <1>5

LEMMA RefinementInit == InitH => Abstract!Init /\ SentInv
<1> SUFFICES ASSUME InitH PROVE Abstract!Init /\ SentInv
  OBVIOUS
<1>1. sent = << >> /\ m_main_channel = << >> /\ mainPc = "poll" /\ m_bitfield_pieces = {}
  BY DEF InitH, Init
<1>2. Len(<< >>) = 0 /\ << >> \in Seq(Pieces)
  BY EmptySeq
<1>3. ASSUME NEW p \in Pieces PROVE ~HoldsPayload(p)
  BY <1>2 DEF InitH, Init, HoldsPayload
<1>4. StoredPieces = {}
  BY <1>3 DEF StoredPieces
<1>5. Abstract!Init
  BY <1>1, <1>4 DEF Abstract!Init
<1>6. SentInv
  BY <1>1, <1>2 DEF SentInv, SentRight, FirstFrameSent, IdlePcs, ServePcs
<1>7. QED
  BY <1>5, <1>6

\* As long as the program is not restarted, any number of download processes,
\* the pipe, the semaphore and the main thread, with processes dying anywhere,
\* implement PieceChannel: whole pieces, in the order in which their last page
\* was written, and a mark only for a stored piece.
THEOREM ChannelRefines == SpecH /\ [](restarts = 0) => ImplementsPieceChannel
<1>1. InitH => Init
  BY DEF InitH
<1>2. [NextH]_varsH => [Next]_vars
  BY DEF NextH, varsH
<1>3. SpecH => Spec
  BY <1>1, <1>2, PTL DEF SpecH, Spec
<1>4. ASSUME TypeInv, SpawnInv, TokensBounded, ChannelInv, SentInv, [NextH]_varsH
      PROVE  SentInv'
  BY <1>4, RefinementStep DEF SentInv
<1>5. SpecH => []SentInv
  BY <1>3, <1>4, RefinementInit, TypeInvariant, SpawnInvariant, TokensAlwaysBounded,
     ChannelInvariant, PTL DEF SpecH
<1>6. ASSUME TypeInv, SpawnInv, TokensBounded, ChannelInv, SentInv, [NextH]_varsH,
             restarts = 0, (restarts = 0)'
      PROVE  [Abstract!Next]_(Abstract!vars)
  BY <1>6, RefinementStep DEF AbstractStep
<1>7. QED
  BY <1>3, <1>5, <1>6, RefinementInit, TypeInvariant, SpawnInvariant, TokensAlwaysBounded,
     ChannelInvariant, PTL DEF SpecH, ImplementsPieceChannel, Abstract!Spec
=============================================================================

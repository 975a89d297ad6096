-------------------------- MODULE MultiprocProofs --------------------------
(***************************************************************************)
(* Proofs about Multiproc, for any number of pieces, addresses, children   *)
(* and restarts, and any sizes of the pipe and of a piece.                 *)
(***************************************************************************)
EXTENDS Multiproc, FiniteSetTheorems, TLAPS

USE IpcAssumption, MultiprocAssumption DEF IpcAssumption, MultiprocAssumption

-----------------------------------------------------------------------------
(* Type correctness.  TypeOK is not inductive: a piece index is written to *)
(* the channel, and the index in a header marks the bitfield, so both must *)
(* be pieces by then; and every fork uses up an address, which bounds the  *)
(* process numbers.                                                        *)

\* Every fork used up one of the announced addresses.
ForksPaidFor == forks + m_addresses <= Addresses

\* From the header on, start() and handle_downloaded_piece work on a piece.
MessageIsPiece == mainPc \in {"sem_wait", "drain", "complete"} => message \in Pieces

\* A download that exists, or is complete, is of a piece.
DownloadIsPiece(t) ==
  m_download_piece[t].exists = TRUE \/ m_download_piece[t].complete = TRUE =>
    m_download_piece[t].piece_index \in Pieces

\* notify_downloaded_piece runs only for a complete piece.
NotifiesComplete(t) ==
  pc[t] \in {"notify", "header", "payload"} => m_download_piece[t].complete = TRUE

TypeInv == /\ TypeOK /\ ForksPaidFor /\ MessageIsPiece
           /\ \A t \in Pids : DownloadIsPiece(t) /\ NotifiesComplete(t)

LEMMA TypeInvInit == Init => TypeInv
<1> SUFFICES ASSUME Init PROVE TypeInv
  OBVIOUS
<1>1. /\ m_main_channel \in Seq(Slot) /\ files \in [Pieces -> Seq(Slot)]
      /\ m_tasks \in Seq(Pids)
  BY DEF Init
<1>2. /\ mainPc \in MainPcs /\ spawnerPc \in SpawnerPcs
      /\ message \in Pieces \cup {NoPiece} /\ m_bitfield_pieces \in SUBSET Pieces
  BY DEF Init, MainPcs, SpawnerPcs
<1>3. /\ m_main_channel_mutex \in Nat /\ restarts \in Nat
      /\ receive_left \in Int /\ it \in Nat \ {0} /\ spawned \in Nat
  BY DEF Init
<1>4. m_is_spawning \in BOOLEAN
  BY DEF Init
<1>5. m_addresses \in 0..Addresses /\ forks \in 0..Addresses
  BY DEF Init
<1>6. /\ pc \in [Pids -> TaskPcs] /\ m_am_choking \in [Pids -> BOOLEAN]
      /\ m_download_piece \in [Pids -> Download]
      /\ m_socket_healthy \in [Pids -> BOOLEAN]
      /\ written \in [Pids -> 0..PieceSlots - 1]
  BY DEF Init, TaskPcs, NoDownload, Download
<1>7. ForksPaidFor /\ MessageIsPiece
  BY DEF Init, ForksPaidFor, MessageIsPiece
<1>8. ASSUME NEW t \in Pids PROVE DownloadIsPiece(t) /\ NotifiesComplete(t)
  BY DEF Init, DownloadIsPiece, NotifiesComplete, NoDownload
<1>9. QED
  BY <1>1, <1>2, <1>3, <1>4, <1>5, <1>6, <1>7, <1>8 DEF TypeInv, TypeOK

\* spawn(), in either thread.
LEMMA TypeInvSpawn ==
  ASSUME TypeInv, NEW a \in {"main", "thread"}, Spawn(a)
  PROVE  TypeInv'
<1> USE DEF TypeInv, TypeOK, ForksPaidFor, MessageIsPiece, DownloadIsPiece,
            NotifiesComplete, Pids
<1> USE DEF channelVars, storeVars, mainVars, threadVars, spawnVars, peerVars, taskVars
<1>1. CASE SpawnRejects(a)
  BY <1>1 DEF SpawnRejects
<1>2. CASE SpawnForks(a)
  <2>1. forks + 1 \in Pids
    BY <1>2 DEF SpawnForks
  <2>2. m_tasks' \in Seq(Pids) /\ pc' \in [Pids -> TaskPcs]
    BY <1>2, <2>1 DEF SpawnForks, TaskPcs, Running
  <2>3. mainPc' \in MainPcs /\ spawned' \in Nat
    BY <1>2 DEF SpawnForks, SpawnReturns, MainPcs
  <2>4. /\ message' \in Pieces \cup {NoPiece} /\ spawnerPc' \in SpawnerPcs
        /\ receive_left' \in Int /\ it' \in Nat \ {0} /\ m_is_spawning' \in BOOLEAN
    BY <1>2 DEF SpawnForks, SpawnReturns
  <2>5. m_addresses' \in 0..Addresses /\ forks' \in 0..Addresses
    BY <1>2 DEF SpawnForks
  <2>6. TypeOK'
    BY <1>2, <2>2, <2>3, <2>4, <2>5 DEF SpawnForks
  <2>7. (ForksPaidFor /\ MessageIsPiece)'
    BY <1>2 DEF SpawnForks, SpawnReturns
  <2>8. ASSUME NEW t \in Pids PROVE (DownloadIsPiece(t) /\ NotifiesComplete(t))'
    BY <1>2, <2>1 DEF SpawnForks
  <2>9. QED
    BY <2>6, <2>7, <2>8
<1>3. CASE SpawnGivesUp(a)
  BY <1>3, SMTT(30) DEF SpawnGivesUp, SpawnReturns, MainPcs
<1>4. QED
  BY <1>1, <1>2, <1>3 DEF Spawn

\* The spawner thread outside spawn().
LEMMA TypeInvThread ==
  ASSUME TypeInv, SpawnerStart \/ SpawnerDone
  PROVE  TypeInv'
BY DEF TypeInv, TypeOK, ForksPaidFor, MessageIsPiece, DownloadIsPiece, NotifiesComplete,
       SpawnerStart, SpawnerDone, SpawnerPcs, channelVars, storeVars, mainVars,
       threadVars, spawnVars, peerVars, taskVars

\* What erase does to the vector of children.
LEMMA EraseType ==
  ASSUME NEW S, NEW s \in Seq(S), NEW i \in 1..Len(s)
  PROVE  /\ erase(s, i) \in Seq(S)
         /\ Len(erase(s, i)) = Len(s) - 1
         /\ \A k \in 1..Len(s) - 1 :
              erase(s, i)[k] = IF k < i THEN s[k] ELSE s[k + 1]
<1>1. Len(s) - 1 \in Nat
  OBVIOUS
<1>2. \A k \in 1..Len(s) - 1 : (IF k < i THEN s[k] ELSE s[k + 1]) \in S
  OBVIOUS
<1>3. QED
  BY <1>1, <1>2 DEF erase

\* start() and respawner().
LEMMA TypeInvMain ==
  ASSUME TypeInv, MainStep
  PROVE  TypeInv'
<1> USE DEF TypeInv, TypeOK, ForksPaidFor, MessageIsPiece, DownloadIsPiece,
            NotifiesComplete, OthersThanMain, MainPcs
<1> USE DEF channelVars, storeVars, mainVars, threadVars, spawnVars, peerVars, taskVars
<1>1. CASE StartReadsHeader
  <2>1. Head(m_main_channel) \in Slot /\ readOne(m_main_channel) \in Seq(Slot)
    BY <1>1 DEF StartReadsHeader, readOne
  <2>2. Head(m_main_channel).piece \in Pieces
    BY <2>1 DEF Slot
  <2>3. QED
    BY <1>1, <2>1, <2>2 DEF StartReadsHeader
<1>2. CASE StartMisreadsPayload \/ StartTimesOut \/ StartChecksSpawning \/ RespawnerEnds
  BY <1>2, SMTT(30)
  DEF StartMisreadsPayload, StartTimesOut, StartChecksSpawning, RespawnerEnds, FirstTask
<1>3. CASE RespawnerPasses
  <2>1. m_tasks[it] \in Pids
    BY <1>3 DEF RespawnerPasses
  <2>2. TypeOK'
    BY <1>3, <2>1, SMTT(30) DEF RespawnerPasses, TaskPcs
  <2>3. ASSUME NEW t \in Pids PROVE NotifiesComplete(t)'
    BY <1>3, <2>1 DEF RespawnerPasses
  <2>4. QED
    BY <1>3, <2>2, <2>3 DEF RespawnerPasses
<1>4. CASE RespawnerFindsDead
  <2>1. it \in 1..Len(m_tasks)
    BY <1>4 DEF RespawnerFindsDead
  <2>2. m_tasks' \in Seq(Pids)
    BY <1>4, <2>1, EraseType DEF RespawnerFindsDead
  <2>3. QED
    BY <1>4, <2>2 DEF RespawnerFindsDead
<1>5. CASE StartLocks
  BY <1>5 DEF StartLocks, sem_wait
<1>6. CASE HandleReads
  BY <1>6 DEF HandleReads, readAll
<1>7. CASE HandleCompletes
  BY <1>7 DEF HandleCompletes, sem_post
<1>8. QED
  BY <1>1, <1>2, <1>3, <1>4, <1>5, <1>6, <1>7 DEF MainStep

\* The pieces determine_download_piece settles on keep the type.
LEMMA DeterminedType ==
  ASSUME TypeInv, NEW t \in Pids, NEW dp \in DeterminedPieces(t)
  PROVE  /\ dp \in Download
         /\ dp.exists = TRUE \/ dp.complete = TRUE => dp.piece_index \in Pieces
<1>1. CASE dp = m_download_piece[t]
  BY <1>1 DEF TypeInv, TypeOK, DownloadIsPiece
<1>2. CASE \E p \in Pieces \ m_bitfield_pieces :
             dp = [piece_index |-> p, exists |-> TRUE, complete |-> FALSE]
  BY <1>2 DEF Download
<1>3. QED
  BY <1>1, <1>2 DEF DeterminedPieces

\* work() after receive_message.
LEMMA TypeInvReceive ==
  ASSUME TypeInv, NEW t \in Pids, NEW dp \in Download, NEW healthy \in BOOLEAN,
         dp.exists = TRUE \/ dp.complete = TRUE => dp.piece_index \in Pieces,
         AfterReceive(t, dp, healthy),
         m_am_choking' \in [Pids -> BOOLEAN]
  PROVE  TypeInv'
<1> USE DEF AfterReceive, TaskGoes, OthersThanTask
<1> USE DEF channelVars, mainVars, threadVars, spawnVars
<1>1. pc' \in [Pids -> TaskPcs]
  BY DEF TypeInv, TypeOK, TaskPcs, Running
<1>2. m_download_piece' \in [Pids -> Download] /\ m_socket_healthy' \in [Pids -> BOOLEAN]
  BY DEF TypeInv, TypeOK
<1>3. TypeOK'
  BY <1>1, <1>2 DEF TypeInv, TypeOK
<1>4. (ForksPaidFor /\ MessageIsPiece)'
  BY DEF TypeInv, ForksPaidFor, MessageIsPiece
<1>5. dp.complete \in BOOLEAN
  BY DEF Download
<1>6. ASSUME NEW u \in Pids PROVE (DownloadIsPiece(u) /\ NotifiesComplete(u))'
  BY <1>5 DEF TypeInv, TypeOK, DownloadIsPiece, NotifiesComplete
<1>7. QED
  BY <1>3, <1>4, <1>6 DEF TypeInv

LEMMA TypeInvTask ==
  ASSUME TypeInv, NEW t \in Pids, TaskStep(t)
  PROVE  TypeInv'
<1> USE DEF channelVars, storeVars, mainVars, threadVars, spawnVars, peerVars, taskVars
<1> USE DEF OthersThanTask, TaskGoes
<1>1. CASE TaskConstructs(t) \/ TaskSandboxes(t) \/ TaskKilled(t)
  <2>1. /\ pc' \in [Pids -> TaskPcs] /\ m_bitfield_pieces' \in SUBSET Pieces
        /\ \A u \in Pids : pc'[u] \in {"notify", "header", "payload"} => pc'[u] = pc[u]
    BY <1>1 DEF TypeInv, TypeOK, TaskConstructs, TaskSandboxes, TaskKilled, TaskPcs, Running,
                InNotify
  <2>2. UNCHANGED <<channelVars, peerVars, written, files, restarts, mainVars, threadVars,
                    spawnVars>>
    BY <1>1, Zenon DEF TaskConstructs, TaskSandboxes, TaskKilled
  <2>3. TypeOK'
    BY <2>1, <2>2, Zenon DEF TypeInv, TypeOK
  <2>4. QED
    BY <2>1, <2>2, <2>3 DEF TypeInv, ForksPaidFor, MessageIsPiece, DownloadIsPiece,
                            NotifiesComplete
<1>2. CASE Receive(t)
  <2>1. /\ m_download_piece[t] \in Download /\ m_socket_healthy[t] \in BOOLEAN
        /\ \/ m_download_piece[t].exists = TRUE
           \/ m_download_piece[t].complete = TRUE
           => m_download_piece[t].piece_index \in Pieces
    BY DEF TypeInv, TypeOK, DownloadIsPiece
  <2>2. m_am_choking' \in [Pids -> BOOLEAN]
    BY <1>2 DEF Receive, ReceiveChoke, ReceiveUnchoke, ReceiveLastBlock, ReceiveOther,
                ReceiveKeepAliveTwice, TypeInv, TypeOK
  <2>3. CASE AfterReceive(t, m_download_piece[t], m_socket_healthy[t])
    BY <2>1, <2>2, <2>3, TypeInvReceive
  <2>4. CASE AfterReceive(t, m_download_piece[t], FALSE)
    BY <2>1, <2>2, <2>4, TypeInvReceive
  <2>5. CASE ReceiveUnchoke(t)
    <3>1. PICK dp \in DeterminedPieces(t) : AfterReceive(t, dp, m_socket_healthy[t])
      BY <2>5 DEF ReceiveUnchoke
    <3>2. QED
      BY <2>1, <2>2, <3>1, DeterminedType, TypeInvReceive
  <2>6. CASE ReceiveLastBlock(t)
    <3> DEFINE dp == [m_download_piece[t] EXCEPT !.complete = TRUE]
    <3>1. m_download_piece[t].exists \in BOOLEAN
      BY <2>1 DEF Download
    <3>2. m_download_piece[t].exists = TRUE
      BY <2>6, <3>1 DEF ReceiveLastBlock
    <3>3. dp \in Download /\ dp.piece_index \in Pieces
      BY <2>1, <3>2 DEF Download
    <3>4. AfterReceive(t, dp, m_socket_healthy[t])
      BY <2>6 DEF ReceiveLastBlock
    <3> HIDE DEF dp
    <3>5. QED
      BY <2>1, <2>2, <3>3, <3>4, TypeInvReceive
  <2>7. QED
    BY <1>2, <2>3, <2>4, <2>5, <2>6
    DEF Receive, ReceiveChoke, ReceiveOther, ReceiveKeepAliveTwice
<1>3. CASE NotifyWaits(t)
  BY <1>3 DEF NotifyWaits, sem_wait, TypeInv, TypeOK, ForksPaidFor, MessageIsPiece,
              DownloadIsPiece, NotifiesComplete, TaskPcs, Running, InNotify
<1>4. CASE NotifyWritesHeader(t)
  <2>1. m_download_piece[t].piece_index \in Pieces
    BY <1>4 DEF NotifyWritesHeader, TypeInv, DownloadIsPiece, NotifiesComplete
  <2>2. m_main_channel' \in Seq(Slot)
    BY <1>4, <2>1 DEF NotifyWritesHeader, write, Header, Slot, TypeInv, TypeOK
  <2>3. pc' \in [Pids -> TaskPcs]
    BY <1>4 DEF NotifyWritesHeader, TypeInv, TypeOK, TaskPcs, Running, InNotify
  <2>4. TypeOK'
    BY <1>4, <2>2, <2>3 DEF NotifyWritesHeader, TypeInv, TypeOK
  <2>5. QED
    BY <1>4, <2>4 DEF NotifyWritesHeader, TypeInv, TypeOK, ForksPaidFor, MessageIsPiece,
                      DownloadIsPiece, NotifiesComplete
<1>5. CASE NotifyWritesPage(t)
  <2>1. m_download_piece[t].piece_index \in Pieces
    BY <1>5 DEF NotifyWritesPage, TypeInv, DownloadIsPiece, NotifiesComplete
  <2>2. written[t] \in 0..PieceSlots - 1
    BY DEF TypeInv, TypeOK
  <2>3. m_main_channel' \in Seq(Slot)
    BY <1>5, <2>1, <2>2 DEF NotifyWritesPage, write, Page, Slot, TypeInv, TypeOK
  <2>4. written' \in [Pids -> 0..PieceSlots - 1]
    BY <1>5, <2>2 DEF NotifyWritesPage, WriteReturns, TypeInv, TypeOK
  <2>5. pc' \in [Pids -> TaskPcs]
    BY <1>5 DEF NotifyWritesPage, TypeInv, TypeOK, TaskPcs, Running, InNotify
  <2>6. TypeOK'
    BY <1>5, <2>3, <2>4, <2>5 DEF NotifyWritesPage, TypeInv, TypeOK
  <2>7. QED
    BY <1>5, <2>6 DEF NotifyWritesPage, TypeInv, TypeOK, ForksPaidFor, MessageIsPiece,
                      DownloadIsPiece, NotifiesComplete
<1>6. CASE NotifyPosts(t)
  <2>1. m_download_piece' \in [Pids -> Download]
    BY <1>6 DEF NotifyPosts, Download, TypeInv, TypeOK
  <2>2. pc' \in [Pids -> TaskPcs]
    BY <1>6 DEF NotifyPosts, TypeInv, TypeOK, TaskPcs, Running
  <2>3. m_main_channel_mutex' \in Nat
    <3>1. m_main_channel_mutex \in Nat
      BY Zenon DEF TypeInv, TypeOK
    <3>2. m_main_channel_mutex' = m_main_channel_mutex + 1
      BY <1>6, Zenon DEF NotifyPosts, sem_post
    <3>3. QED
      BY <3>1, <3>2
  <2>4. UNCHANGED <<m_main_channel, m_bitfield_pieces, m_am_choking, m_socket_healthy,
                    written, files, restarts, mainVars, threadVars, spawnVars>>
    BY <1>6 DEF NotifyPosts
  <2>5. TypeOK'
    BY <2>1, <2>2, <2>3, <2>4, Zenon DEF TypeInv, TypeOK
  <2>6. ASSUME NEW u \in Pids PROVE (DownloadIsPiece(u) /\ NotifiesComplete(u))'
    BY <1>6 DEF NotifyPosts, TypeInv, TypeOK, Download, DownloadIsPiece, NotifiesComplete
  <2>7. QED
    BY <1>6, <2>5, <2>6 DEF NotifyPosts, TypeInv, ForksPaidFor, MessageIsPiece
<1>7. CASE TaskDownloadsNext(t)
  <2>1. PICK dp \in DeterminedPieces(t) :
               m_download_piece' = [m_download_piece EXCEPT ![t] = dp]
    BY <1>7, Zenon DEF TaskDownloadsNext
  <2>2. /\ dp \in Download
        /\ dp.exists = TRUE \/ dp.complete = TRUE => dp.piece_index \in Pieces
    BY DeterminedType, Zenon
  <2>3. m_download_piece' \in [Pids -> Download]
    BY <2>1, <2>2 DEF TypeInv, TypeOK
  <2>4. /\ pc' \in [Pids -> TaskPcs]
        /\ pc'[t] \in {"receive", "exited"}
        /\ \A u \in Pids : u # t => pc'[u] = pc[u]
    BY <1>7 DEF TaskDownloadsNext, TypeInv, TypeOK, TaskPcs, Running
  <2>5. UNCHANGED <<channelVars, m_bitfield_pieces, m_am_choking, m_socket_healthy, written,
                    files, restarts, mainVars, threadVars, spawnVars>>
    BY <1>7, Zenon DEF TaskDownloadsNext
  <2>6. TypeOK'
    BY <2>3, <2>4, <2>5, Zenon DEF TypeInv, TypeOK
  <2>7. ASSUME NEW u \in Pids PROVE (DownloadIsPiece(u) /\ NotifiesComplete(u))'
    BY <2>1, <2>2, <2>4 DEF TypeInv, TypeOK, DownloadIsPiece, NotifiesComplete
  <2>8. QED
    BY <2>5, <2>6, <2>7 DEF TypeInv, ForksPaidFor, MessageIsPiece
<1>8. QED
  BY <1>1, <1>2, <1>3, <1>4, <1>5, <1>6, <1>7 DEF TaskStep, Notify

\* The program starts again with the initial state, whatever the semaphore.
LEMMA TypeInvRestart ==
  ASSUME TypeInv, Restart
  PROVE  TypeInv'
<1>1. /\ m_main_channel' \in Seq(Slot) /\ files' \in [Pieces -> Seq(Slot)]
      /\ m_tasks' \in Seq(Pids)
  BY DEF Restart, TypeInv, TypeOK
<1>2. /\ mainPc' \in MainPcs /\ spawnerPc' \in SpawnerPcs
      /\ message' \in Pieces \cup {NoPiece} /\ m_bitfield_pieces' \in SUBSET Pieces
  BY DEF Restart, MainPcs, SpawnerPcs
<1>3. /\ m_main_channel_mutex' \in Nat /\ restarts' \in Nat
      /\ receive_left' \in Int /\ it' \in Nat \ {0} /\ spawned' \in Nat
  BY DEF Restart, sem_post, TypeInv, TypeOK
<1>4. m_is_spawning' \in BOOLEAN
  BY DEF Restart
<1>5. m_addresses' \in 0..Addresses /\ forks' \in 0..Addresses
  BY DEF Restart
<1>6. /\ pc' \in [Pids -> TaskPcs] /\ m_am_choking' \in [Pids -> BOOLEAN]
      /\ m_download_piece' \in [Pids -> Download]
      /\ m_socket_healthy' \in [Pids -> BOOLEAN]
      /\ written' \in [Pids -> 0..PieceSlots - 1]
  BY DEF Restart, TaskPcs, NoDownload, Download
<1>7. (ForksPaidFor /\ MessageIsPiece)'
  BY DEF Restart, ForksPaidFor, MessageIsPiece
<1>8. ASSUME NEW t \in Pids PROVE (DownloadIsPiece(t) /\ NotifiesComplete(t))'
  BY DEF Restart, DownloadIsPiece, NotifiesComplete, NoDownload
<1>9. QED
  BY <1>1, <1>2, <1>3, <1>4, <1>5, <1>6, <1>7, <1>8 DEF TypeInv, TypeOK

\* Every step of the program, and every step that changes nothing.
LEMMA TypeInvNext ==
  ASSUME TypeInv, [Next]_vars
  PROVE  TypeInv'
<1>1. CASE UNCHANGED vars
  BY <1>1 DEF vars, channelVars, storeVars, mainVars, threadVars, spawnVars, peerVars,
              taskVars, TypeInv, TypeOK, ForksPaidFor, MessageIsPiece, DownloadIsPiece,
              NotifiesComplete
<1>2. QED
  BY <1>1, TypeInvSpawn, TypeInvThread, TypeInvMain, TypeInvTask, TypeInvRestart DEF Next

\* Every variable keeps its type in every run of the program.
THEOREM TypeInvariant == Spec => []TypeInv
BY TypeInvInit, TypeInvNext, PTL DEF Spec

THEOREM TypeCorrect == Spec => []TypeOK
<1>1. TypeInv => TypeOK
  BY DEF TypeInv
<1>2. QED
  BY <1>1, TypeInvariant, PTL

-----------------------------------------------------------------------------
(* The semaphore.  A step takes a token into the critical section, brings  *)
(* one back or loses one there, or leaves both sides alone; so the tokens  *)
(* in existence never grow in number within one run of the program.        *)

TakesToken(a) == /\ a \notin Holders /\ Holders' = Holders \cup {a}
                 /\ m_main_channel_mutex' = m_main_channel_mutex - 1
GivesToken(a) == /\ a \in Holders /\ Holders' = Holders \ {a}
                 /\ m_main_channel_mutex' \in {m_main_channel_mutex, m_main_channel_mutex + 1}
KeepsTokens   == Holders' = Holders /\ UNCHANGED m_main_channel_mutex

TokenStep == KeepsTokens \/ \E a \in Actors : TakesToken(a) \/ GivesToken(a)

LEMMA HoldersFinite == IsFiniteSet(Holders)
<1>1. IsFiniteSet(Pids)
  BY FS_Interval DEF Pids
<1>2. IsFiniteSet(Actors)
  BY <1>1, FS_AddElement DEF Actors
<1>3. QED
  BY <1>2, FS_Subset DEF Holders

\* A step in which the main thread's place stays on its side of sem_wait and
\* sem_post, and so does every process's.
LEMMA SameHolders ==
  ASSUME mainPc \in {"drain", "complete"} <=> mainPc' \in {"drain", "complete"},
         \A t \in Pids : pc[t] \in InNotify <=> pc'[t] \in InNotify,
         UNCHANGED m_main_channel_mutex
  PROVE  TokenStep
BY DEF TokenStep, KeepsTokens, Holders, Holds, Actors, Main, Pids

\* A step that takes one process out of notify_downloaded_piece, or one that
\* takes none out, and posts at most one token for it.
LEMMA TaskLeaves ==
  ASSUME TypeInv, NEW t \in Pids, NEW to \in TaskPcs \ InNotify,
         pc' = [pc EXCEPT ![t] = to],
         mainPc \in {"drain", "complete"} <=> mainPc' \in {"drain", "complete"},
         \/ UNCHANGED m_main_channel_mutex
         \/ pc[t] \in InNotify /\ m_main_channel_mutex' = m_main_channel_mutex + 1
  PROVE  TokenStep
<1>1. pc \in [Pids -> TaskPcs] /\ t # Main /\ t \in Actors
  BY DEF TypeInv, TypeOK, Pids, Main, Actors
<1>2. CASE pc[t] \in InNotify
  <2>1. t \in Holders /\ Holders' = Holders \ {t}
    BY <1>1, <1>2 DEF Holders, Holds, Actors, Main, Pids
  <2>2. QED
    BY <1>1, <2>1 DEF TokenStep, GivesToken
<1>3. CASE pc[t] \notin InNotify
  BY <1>1, <1>3, SameHolders
<1>4. QED
  BY <1>2, <1>3

\* A step that moves one process without crossing sem_wait or sem_post.
LEMMA TaskStays ==
  ASSUME TypeInv, NEW t \in Pids, NEW to \in TaskPcs,
         pc[t] \in InNotify <=> to \in InNotify,
         pc' = [pc EXCEPT ![t] = to], UNCHANGED <<mainPc, m_main_channel_mutex>>
  PROVE  TokenStep
BY SameHolders DEF TypeInv, TypeOK

LEMMA SpawnTokens ==
  ASSUME TypeInv, NEW a \in {"main", "thread"}, Spawn(a)
  PROVE  TokenStep
<1> USE DEF Spawning, SpawnReturns, mainVars, threadVars, channelVars, taskVars
<1>1. CASE SpawnRejects(a) \/ SpawnGivesUp(a)
  BY <1>1, SameHolders DEF SpawnRejects, SpawnGivesUp
<1>2. CASE SpawnForks(a)
  <2>1. forks + 1 \in Pids
    BY <1>2 DEF SpawnForks, TypeInv, TypeOK, ForksPaidFor, Pids
  <2>2. "construct" \in TaskPcs \ InNotify
    BY DEF TaskPcs, Running, InNotify
  <2>3. mainPc \in {"drain", "complete"} <=> mainPc' \in {"drain", "complete"}
    BY <1>2 DEF SpawnForks
  <2>4. QED
    BY <1>2, <2>1, <2>2, <2>3, TaskLeaves DEF SpawnForks
<1>3. QED
  BY <1>1, <1>2 DEF Spawn

LEMMA MainTokens ==
  ASSUME TypeInv, MainStep
  PROVE  TokenStep
<1> USE DEF OthersThanMain, channelVars
<1>1. CASE \/ StartReadsHeader \/ StartMisreadsPayload \/ StartTimesOut
           \/ StartChecksSpawning \/ HandleReads \/ RespawnerFindsDead \/ RespawnerEnds
  BY <1>1, SameHolders DEF StartReadsHeader, StartMisreadsPayload, StartTimesOut,
     StartChecksSpawning, HandleReads, RespawnerFindsDead, RespawnerEnds
<1>2. CASE RespawnerPasses
  BY <1>2, SameHolders DEF RespawnerPasses, TypeInv, TypeOK, InNotify
<1>3. CASE StartLocks
  <2>1. Main \notin Holders /\ Holders' = Holders \cup {Main}
    BY <1>3 DEF StartLocks, Holders, Holds, Actors
  <2>2. QED
    BY <1>3, <2>1 DEF StartLocks, sem_wait, TokenStep, TakesToken, Actors
<1>4. CASE HandleCompletes
  <2>1. Main \in Holders /\ Holders' = Holders \ {Main}
    BY <1>4 DEF HandleCompletes, Holders, Holds, Actors
  <2>2. QED
    BY <1>4, <2>1 DEF HandleCompletes, sem_post, TokenStep, GivesToken, Actors
<1>5. QED
  BY <1>1, <1>2, <1>3, <1>4 DEF MainStep

LEMMA TaskTokens ==
  ASSUME TypeInv, NEW t \in Pids, TaskStep(t)
  PROVE  TokenStep
<1> USE DEF OthersThanTask, channelVars, mainVars, TaskGoes
<1>1. CASE TaskConstructs(t) \/ TaskSandboxes(t) \/ TaskKilled(t)
  BY <1>1, TaskLeaves
  DEF TaskConstructs, TaskSandboxes, TaskKilled, TaskPcs, Running, InNotify
<1>2. CASE Receive(t)
  <2>1. PICK dp, healthy : AfterReceive(t, dp, healthy)
    BY <1>2 DEF Receive, ReceiveChoke, ReceiveUnchoke, ReceiveLastBlock, ReceiveOther,
                ReceiveKeepAliveTwice
  <2>2. PICK to \in {"notify", "receive", "exited"} : pc' = [pc EXCEPT ![t] = to]
    BY <2>1 DEF AfterReceive
  <2>3. to \in TaskPcs \ InNotify
    BY <2>2 DEF TaskPcs, Running, InNotify
  <2>4. QED
    BY <2>1, <2>2, <2>3, TaskLeaves DEF AfterReceive
<1>3. CASE NotifyWaits(t)
  <2>1. t \notin Holders /\ Holders' = Holders \cup {t}
    BY <1>3 DEF NotifyWaits, Holders, Holds, Actors, Main, Pids, InNotify, TypeInv, TypeOK
  <2>2. QED
    BY <1>3, <2>1 DEF NotifyWaits, sem_wait, TokenStep, TakesToken, Actors
<1>4. CASE NotifyWritesHeader(t) \/ NotifyWritesPage(t)
  <2>1. PICK to \in {"payload", "post"} : pc' = [pc EXCEPT ![t] = to]
    BY <1>4 DEF NotifyWritesHeader, NotifyWritesPage
  <2>2. to \in TaskPcs /\ to \in InNotify /\ pc[t] \in InNotify
    BY <1>4, <2>1 DEF NotifyWritesHeader, NotifyWritesPage, TaskPcs, Running, InNotify
  <2>3. UNCHANGED <<mainPc, m_main_channel_mutex>>
    BY <1>4 DEF NotifyWritesHeader, NotifyWritesPage
  <2>4. QED
    BY <2>1, <2>2, <2>3, TaskStays
<1>5. CASE NotifyPosts(t)
  BY <1>5, TaskLeaves DEF NotifyPosts, sem_post, TaskPcs, Running, InNotify
<1>6. CASE TaskDownloadsNext(t)
  BY <1>6, TaskLeaves DEF TaskDownloadsNext, TaskPcs, Running, InNotify
<1>7. QED
  BY <1>1, <1>2, <1>3, <1>4, <1>5, <1>6 DEF TaskStep, Notify

\* Within one run of the program no step makes a token.
LEMMA TokenStepBound ==
  ASSUME TypeInv, TypeInv', TokensBounded, TokenStep, restarts' = restarts
  PROVE  TokensBounded'
<1>1. IsFiniteSet(Holders) /\ Cardinality(Holders) \in Nat
  BY HoldersFinite, FS_CardinalityType
<1>2. m_main_channel_mutex \in Nat /\ m_main_channel_mutex' \in Nat /\ restarts \in Nat
  BY DEF TypeInv, TypeOK
<1>3. CASE KeepsTokens
  BY <1>3 DEF KeepsTokens, TokensBounded
<1>4. ASSUME NEW a \in Actors, TakesToken(a) PROVE TokensBounded'
  <2>1. Cardinality(Holders') = Cardinality(Holders) + 1
    BY <1>1, <1>4, FS_AddElement DEF TakesToken
  <2>2. QED
    BY <1>1, <1>2, <1>4, <2>1 DEF TakesToken, TokensBounded
<1>5. ASSUME NEW a \in Actors, GivesToken(a) PROVE TokensBounded'
  <2>1. Cardinality(Holders') = Cardinality(Holders) - 1
    BY <1>1, <1>5, FS_RemoveElement DEF GivesToken
  <2>2. QED
    BY <1>1, <1>2, <1>5, <2>1 DEF GivesToken, TokensBounded
<1>6. QED
  BY <1>3, <1>4, <1>5 DEF TokenStep

\* Running the program again makes one token, and empties the critical section.
LEMMA RestartBound ==
  ASSUME TypeInv, TokensBounded, Restart
  PROVE  TokensBounded'
<1>1. Holders' = {}
  BY DEF Restart, Holders, Holds, Actors, Main, Pids, InNotify
<1>2. Cardinality(Holders') = 0
  BY <1>1, FS_EmptySet
<1>3. Cardinality(Holders) \in Nat
  BY HoldersFinite, FS_CardinalityType
<1>4. QED
  BY <1>2, <1>3 DEF Restart, sem_post, TokensBounded, TypeInv, TypeOK

LEMMA TokensBoundedNext ==
  ASSUME TypeInv, TypeInv', TokensBounded, [Next]_vars
  PROVE  TokensBounded'
<1>1. ASSUME NEW a \in {"main", "thread"}, Spawn(a) PROVE TokensBounded'
  <2>1. restarts' = restarts
    BY <1>1 DEF Spawn, SpawnRejects, SpawnForks, SpawnGivesUp
  <2>2. QED
    BY <1>1, <2>1, SpawnTokens, TokenStepBound
<1>2. CASE SpawnerStart \/ SpawnerDone \/ UNCHANGED vars
  <2>1. restarts' = restarts /\ UNCHANGED <<mainPc, pc, m_main_channel_mutex>>
    BY <1>2 DEF SpawnerStart, SpawnerDone, vars, channelVars, mainVars, taskVars
  <2>2. QED
    BY <2>1, SameHolders, TokenStepBound
<1>3. CASE MainStep
  <2>1. restarts' = restarts
    BY <1>3 DEF MainStep, StartReadsHeader, StartMisreadsPayload, StartTimesOut,
       StartChecksSpawning, StartLocks, HandleReads, HandleCompletes, RespawnerPasses,
       RespawnerFindsDead, RespawnerEnds, OthersThanMain
  <2>2. QED
    BY <1>3, <2>1, MainTokens, TokenStepBound
<1>4. ASSUME NEW t \in Pids, TaskStep(t) PROVE TokensBounded'
  <2>1. restarts' = restarts
    BY <1>4 DEF TaskStep, TaskConstructs, TaskSandboxes, TaskKilled, Receive, ReceiveChoke,
       ReceiveUnchoke, ReceiveLastBlock, ReceiveOther, ReceiveKeepAliveTwice, AfterReceive,
       Notify, NotifyWaits, NotifyWritesHeader, NotifyWritesPage, NotifyPosts,
       TaskDownloadsNext, OthersThanTask
  <2>2. QED
    BY <1>4, <2>1, TaskTokens, TokenStepBound
<1>5. CASE Restart
  BY <1>5, RestartBound
<1>6. QED
  BY <1>1, <1>2, <1>3, <1>4, <1>5 DEF Next

\* After r restarts at most 1 + r processes are in the channel's critical
\* section, whatever the number of processes and wherever they die
\* (the constructor's sem_post; notify_downloaded_piece; start).
THEOREM TokensAlwaysBounded == Spec => []TokensBounded
<1>1. Init => TokensBounded
  <2> SUFFICES ASSUME Init PROVE TokensBounded
    OBVIOUS
  <2>1. Holders = {}
    BY DEF Init, Holders, Holds, Actors, Main, Pids, InNotify
  <2>2. QED
    BY <2>1, FS_EmptySet DEF Init, TokensBounded
<1>2. QED
  BY <1>1, TypeInvariant, TokensBoundedNext, PTL DEF Spec

\* With one token in existence at most one process is in the critical section.
LEMMA TokensExclude ==
  ASSUME TypeInv, TokensBounded
  PROVE  MutualExclusion
<1> SUFFICES ASSUME restarts = 0, NEW a \in Actors, NEW b \in Actors,
                    Holds(a), Holds(b), a # b
             PROVE  FALSE
  BY DEF MutualExclusion, AtMostOneHolder
<1>1. IsFiniteSet({a}) /\ Cardinality({a}) = 1
  BY FS_Singleton
<1>2. Cardinality({a} \cup {b}) = 2
  BY <1>1, FS_AddElement
<1>3. {a} \cup {b} \in SUBSET Holders
  BY DEF Holders
<1>4. Cardinality({a} \cup {b}) <= Cardinality(Holders)
  BY <1>3, HoldersFinite, FS_Subset
<1>5. Cardinality(Holders) \in Nat
  BY HoldersFinite, FS_CardinalityType
<1>6. m_main_channel_mutex \in Nat
  BY DEF TypeInv, TypeOK
<1>7. m_main_channel_mutex + Cardinality(Holders) <= 1
  BY DEF TokensBounded
<1>8. Cardinality(Holders) >= 2
  BY <1>2, <1>4
<1>9. QED
  BY <1>5, <1>6, <1>7, <1>8, Z3

\* On the first run of the program the named semaphore is a mutex.
THEOREM MutexCorrect == Spec => []MutualExclusion
BY TokensExclude, TypeInvariant, TokensAlwaysBounded, PTL

-----------------------------------------------------------------------------
(* The vector of children, m_tasks, which the spawner thread and the main  *)
(* thread both work on without a lock.                                     *)

\* A process number is used from its fork on, and only then.
FreshPids == /\ \A t \in Pids : t > forks => pc[t] = "none"
             /\ \A i \in DOMAIN m_tasks : m_tasks[i] <= forks

\* Before the thread runs there is no child; while it runs, the main thread
\* can only be in a sweep that began before, and has no child left to find
\* dead in it.  So respawner() does not get to its call of spawn().
SpawnerAlone ==
  /\ spawnerPc = "new" => m_tasks = << >> /\ forks = 0
  /\ spawnerPc = "spawn" => m_is_spawning = TRUE
  /\ spawnerPc # "done" => mainPc # "spawn"
  /\ spawnerPc # "done" /\ mainPc = "sweep" =>
       \A i \in DOMAIN m_tasks : i >= it => pc[m_tasks[i]] # "reaped"

\* An entry of m_tasks was paid for by a turn of spawner()'s loop; while the
\* main thread is in spawn(), the entry it replaces is already erased.
EntriesPaidFor ==
  /\ spawned <= ChildrenCount
  /\ Len(m_tasks) + (IF mainPc = "spawn" THEN 1 ELSE 0) <= spawned

SpawnInv == FreshPids /\ ChildrenTracked /\ SpawnerAlone /\ EntriesPaidFor

LEMMA SpawnInvInit == Init => SpawnInv
<1> SUFFICES ASSUME Init PROVE SpawnInv
  OBVIOUS
<1>1. m_tasks = << >> /\ Len(m_tasks) = 0 /\ DOMAIN m_tasks = {}
  BY DEF Init
<1>2. FreshPids /\ EntriesPaidFor
  BY <1>1 DEF Init, FreshPids, EntriesPaidFor
<1>3. ChildrenTracked
  BY <1>1 DEF Init, ChildrenTracked, Running, InNotify
<1>4. SpawnerAlone
  BY <1>1 DEF Init, SpawnerAlone
<1>5. QED
  BY <1>2, <1>3, <1>4 DEF SpawnInv

-----------------------------------------------------------------------------
(* The steps of the download processes: a running child goes on or exits.  *)

LEMMA TaskMoves ==
  ASSUME TypeInv, NEW t \in Pids, TaskStep(t)
  PROVE  /\ pc[t] \in Running
         /\ \E to \in Running \cup {"exited"} : pc' = [pc EXCEPT ![t] = to]
         /\ UNCHANGED <<mainVars, threadVars, spawnVars>>
<1> USE DEF OthersThanTask, TaskGoes
<1>1. CASE TaskConstructs(t) \/ TaskSandboxes(t) \/ TaskKilled(t)
  BY <1>1 DEF TaskConstructs, TaskSandboxes, TaskKilled, Running
<1>2. CASE Receive(t)
  <2>1. PICK dp, healthy : AfterReceive(t, dp, healthy)
    BY <1>2 DEF Receive, ReceiveChoke, ReceiveUnchoke, ReceiveLastBlock, ReceiveOther,
                ReceiveKeepAliveTwice
  <2>2. QED
    BY <2>1 DEF AfterReceive, Running
<1>3. CASE Notify(t)
  BY <1>3 DEF Notify, NotifyWaits, NotifyWritesHeader, NotifyWritesPage, NotifyPosts,
              TaskDownloadsNext, Running, InNotify
<1>4. QED
  BY <1>1, <1>2, <1>3 DEF TaskStep

LEMMA SpawnInvTask ==
  ASSUME TypeInv, SpawnInv, NEW t \in Pids, TaskStep(t)
  PROVE  SpawnInv'
<1> USE DEF mainVars, threadVars, spawnVars
<1>1. PICK to \in Running \cup {"exited"} : pc' = [pc EXCEPT ![t] = to]
  BY TaskMoves
<1>2. /\ pc[t] \in Running /\ pc[t] # "none"
      /\ UNCHANGED <<mainVars, threadVars, spawnVars>>
  BY TaskMoves DEF Running, InNotify
<1>3. /\ pc \in [Pids -> TaskPcs] /\ to # "reaped" /\ to # "none"
      /\ m_tasks \in Seq(Pids)
  BY <1>1 DEF TypeInv, TypeOK, Running, InNotify
<1>4. FreshPids'
  BY <1>1, <1>2, <1>3 DEF SpawnInv, FreshPids
<1>5. ChildrenTracked'
  BY <1>1, <1>2, <1>3 DEF SpawnInv, ChildrenTracked
<1>6. (SpawnerAlone /\ EntriesPaidFor)'
  BY <1>1, <1>2, <1>3 DEF SpawnInv, SpawnerAlone, EntriesPaidFor
<1>7. QED
  BY <1>4, <1>5, <1>6 DEF SpawnInv

-----------------------------------------------------------------------------
(* The steps of the two threads.                                           *)

LEMMA SpawnInvThread ==
  ASSUME TypeInv, SpawnInv, SpawnerStart \/ SpawnerDone
  PROVE  SpawnInv'
BY DEF SpawnerStart, SpawnerDone, mainVars, spawnVars, taskVars,
       SpawnInv, FreshPids, ChildrenTracked, SpawnerAlone, EntriesPaidFor

LEMMA SpawnInvSpawn ==
  ASSUME TypeInv, SpawnInv, NEW a \in {"main", "thread"}, Spawn(a)
  PROVE  SpawnInv'
<1> USE DEF Spawning, SpawnReturns, mainVars, threadVars, spawnVars, taskVars
<1>1. CASE SpawnRejects(a)
  BY <1>1 DEF SpawnRejects, SpawnInv, FreshPids, ChildrenTracked, SpawnerAlone, EntriesPaidFor
<1>2. CASE SpawnGivesUp(a)
  <2>1. (FreshPids /\ ChildrenTracked)'
    BY <1>2 DEF SpawnGivesUp, SpawnInv, FreshPids, ChildrenTracked
  <2>2. SpawnerAlone'
    BY <1>2 DEF SpawnGivesUp, SpawnInv, SpawnerAlone
  <2>3. EntriesPaidFor'
    BY <1>2 DEF SpawnGivesUp, SpawnInv, EntriesPaidFor, TypeInv, TypeOK
  <2>4. QED
    BY <2>1, <2>2, <2>3 DEF SpawnInv
<1>3. CASE SpawnForks(a)
  <2>1. /\ forks + 1 \in Pids /\ forks \in Nat /\ forks' = forks + 1
        /\ pc' = [pc EXCEPT ![forks + 1] = "construct"]
        /\ pc \in [Pids -> TaskPcs]
    BY <1>3 DEF SpawnForks, TypeInv, TypeOK, ForksPaidFor, Pids
  <2>2. /\ m_tasks \in Seq(Pids) /\ Len(m_tasks) \in Nat
        /\ Len(m_tasks') = Len(m_tasks) + 1
        /\ DOMAIN m_tasks = 1..Len(m_tasks) /\ DOMAIN m_tasks' = 1..Len(m_tasks')
        /\ \A i \in 1..Len(m_tasks) : m_tasks'[i] = m_tasks[i] /\ m_tasks[i] \in Pids
        /\ m_tasks'[Len(m_tasks) + 1] = forks + 1
    BY <1>3, <2>1 DEF SpawnForks, TypeInv, TypeOK
  <2>3. \A i \in 1..Len(m_tasks) : m_tasks[i] <= forks /\ m_tasks[i] # forks + 1
    BY <2>1, <2>2, SMTT(30) DEF SpawnInv, FreshPids, Pids
  <2>4. FreshPids'
    BY <2>1, <2>2, <2>3, SMTT(30) DEF SpawnInv, FreshPids, Pids
  <2>5. ChildrenTracked'
    <3>1. ASSUME NEW t \in Pids, pc'[t] \in Running \cup {"exited"}
          PROVE  \E i \in DOMAIN m_tasks' : m_tasks'[i] = t
      <4>1. CASE t = forks + 1
        BY <2>2, <4>1
      <4>2. CASE t # forks + 1
        <5>1. pc[t] \in Running \cup {"exited"}
          BY <2>1, <3>1, <4>2
        <5>2. PICK i \in DOMAIN m_tasks : m_tasks[i] = t
          BY <5>1 DEF SpawnInv, ChildrenTracked
        <5>3. QED
          BY <2>2, <5>2
      <4>3. QED
        BY <4>1, <4>2
    <3>2. \A i, j \in DOMAIN m_tasks' : m_tasks'[i] = m_tasks'[j] => i = j
      BY <2>2, <2>3 DEF SpawnInv, ChildrenTracked
    <3>3. QED
      BY <3>1, <3>2 DEF ChildrenTracked
  <2>6. SpawnerAlone'
    <3>1. spawnerPc # "new" /\ UNCHANGED <<spawnerPc, m_is_spawning, it>> /\ mainPc' # "spawn"
      BY <1>3 DEF SpawnForks, SpawnInv, SpawnerAlone
    <3>2. ASSUME spawnerPc' # "done", mainPc' = "sweep", NEW i \in DOMAIN m_tasks', i >= it'
          PROVE  pc'[m_tasks'[i]] # "reaped"
      <4>1. mainPc = "sweep"
        BY <1>3, <3>2 DEF SpawnForks
      <4>2. CASE i \in DOMAIN m_tasks
        BY <2>1, <2>2, <2>3, <3>1, <3>2, <4>1, <4>2 DEF SpawnInv, SpawnerAlone
      <4>3. CASE i = Len(m_tasks) + 1
        BY <2>1, <2>2, <4>3
      <4>4. QED
        BY <2>2, <3>2, <4>2, <4>3
    <3>3. QED
      BY <3>1, <3>2 DEF SpawnInv, SpawnerAlone
  <2>7. EntriesPaidFor'
    BY <1>3, <2>2 DEF SpawnForks, SpawnInv, EntriesPaidFor, SpawnerAlone, TypeInv, TypeOK
  <2>8. QED
    BY <2>4, <2>5, <2>6, <2>7 DEF SpawnInv
<1>4. QED
  BY <1>1, <1>2, <1>3 DEF Spawn

LEMMA SpawnInvMain ==
  ASSUME TypeInv, SpawnInv, MainStep
  PROVE  SpawnInv'
<1> USE DEF OthersThanMain, threadVars
<1>1. CASE \/ StartReadsHeader \/ StartMisreadsPayload \/ StartTimesOut
           \/ StartLocks \/ HandleReads \/ HandleCompletes \/ RespawnerEnds
  <2>1. /\ mainPc # "spawn" /\ mainPc' # "spawn" /\ mainPc' # "sweep"
        /\ UNCHANGED <<threadVars, m_tasks, forks, pc>>
    BY <1>1 DEF StartReadsHeader, StartMisreadsPayload, StartTimesOut, StartLocks,
                HandleReads, HandleCompletes, RespawnerEnds
  <2>2. QED
    BY <2>1 DEF SpawnInv, FreshPids, ChildrenTracked, SpawnerAlone, EntriesPaidFor
<1>2. CASE StartChecksSpawning
  <2>1. spawnerPc = "spawn" => mainPc' = "poll"
    BY <1>2 DEF StartChecksSpawning, SpawnInv, SpawnerAlone
  <2>2. SpawnerAlone'
    <3>1. spawnerPc \in SpawnerPcs
      BY DEF TypeInv, TypeOK
    <3>2. mainPc' # "spawn" /\ UNCHANGED <<threadVars, m_tasks, forks, pc>>
      BY <1>2 DEF StartChecksSpawning
    <3>3. CASE spawnerPc = "new"
      BY <3>2, <3>3 DEF SpawnInv, SpawnerAlone
    <3>4. CASE spawnerPc # "new"
      BY <2>1, <3>1, <3>2, <3>4 DEF SpawnInv, SpawnerAlone, SpawnerPcs
    <3>5. QED
      BY <3>3, <3>4
  <2>3. (FreshPids /\ ChildrenTracked /\ EntriesPaidFor)'
    BY <1>2 DEF StartChecksSpawning, SpawnInv, FreshPids, ChildrenTracked, EntriesPaidFor
  <2>4. QED
    BY <2>2, <2>3 DEF SpawnInv
<1>3. CASE RespawnerPasses
  <2>1. /\ m_tasks[it] \in Pids /\ it \in DOMAIN m_tasks /\ it' = it + 1 /\ it \in Nat
        /\ pc \in [Pids -> TaskPcs]
        /\ UNCHANGED <<mainPc, threadVars, m_tasks, forks>>
        /\ DOMAIN m_tasks \subseteq Nat /\ \A i \in DOMAIN m_tasks : m_tasks[i] \in Pids
    BY <1>3 DEF RespawnerPasses, TypeInv, TypeOK
  <2>2. \/ pc' = pc
        \/ pc[m_tasks[it]] = "exited" /\ pc' = [pc EXCEPT ![m_tasks[it]] = "reaped"]
    BY <1>3 DEF RespawnerPasses
  <2>3. \A t \in Pids : pc'[t] # pc[t] =>
           t = m_tasks[it] /\ pc[t] = "exited" /\ pc'[t] = "reaped"
    BY <2>1, <2>2
  <2>4. FreshPids'
    BY <2>1, <2>3 DEF SpawnInv, FreshPids
  <2>5. ChildrenTracked'
    BY <2>1, <2>3 DEF SpawnInv, ChildrenTracked, Running, InNotify
  <2>6. SpawnerAlone'
    BY <2>1, <2>3 DEF SpawnInv, SpawnerAlone, ChildrenTracked
  <2>7. EntriesPaidFor'
    BY <2>1 DEF SpawnInv, EntriesPaidFor
  <2>8. QED
    BY <2>4, <2>5, <2>6, <2>7 DEF SpawnInv
<1>4. CASE RespawnerFindsDead
  <2>1. /\ m_tasks \in Seq(Pids) /\ it \in 1..Len(m_tasks) /\ mainPc = "sweep"
        /\ mainPc' = "spawn" /\ m_tasks' = erase(m_tasks, it)
        /\ UNCHANGED <<threadVars, forks, pc>> /\ pc[m_tasks[it]] = "reaped"
    BY <1>4 DEF RespawnerFindsDead, TypeInv, TypeOK
  <2>2. /\ m_tasks' \in Seq(Pids) /\ Len(m_tasks') = Len(m_tasks) - 1
        /\ \A k \in 1..Len(m_tasks) - 1 :
             m_tasks'[k] = IF k < it THEN m_tasks[k] ELSE m_tasks[k + 1]
    BY <2>1, EraseType
  <2>3. /\ DOMAIN m_tasks = 1..Len(m_tasks) /\ DOMAIN m_tasks' = 1..(Len(m_tasks) - 1)
        /\ Len(m_tasks) \in Nat
    BY <2>1, <2>2
  <2>4. FreshPids'
    BY <2>1, <2>2, <2>3 DEF SpawnInv, FreshPids
  <2>5. ChildrenTracked'
    <3>1. ASSUME NEW t \in Pids, pc'[t] \in Running \cup {"exited"}
          PROVE  \E k \in DOMAIN m_tasks' : m_tasks'[k] = t
      <4>1. PICK i \in DOMAIN m_tasks : m_tasks[i] = t
        BY <2>1, <3>1 DEF SpawnInv, ChildrenTracked
      <4>2. i # it
        BY <2>1, <3>1, <4>1 DEF Running, InNotify
      <4>3. CASE i < it
        BY <2>1, <2>2, <2>3, <4>1, <4>3
      <4>4. CASE i > it
        <5>1. i - 1 \in 1..(Len(m_tasks) - 1) /\ ~(i - 1 < it)
          BY <2>1, <2>3, <4>4
        <5>2. m_tasks'[i - 1] = m_tasks[i]
          BY <2>2, <2>3, <5>1
        <5>3. QED
          BY <2>3, <4>1, <5>1, <5>2
      <4>5. QED
        BY <2>1, <2>3, <4>2, <4>3, <4>4
    <3>2. ASSUME NEW i \in DOMAIN m_tasks', NEW j \in DOMAIN m_tasks', m_tasks'[i] = m_tasks'[j]
          PROVE  i = j
      <4> DEFINE from(k) == IF k < it THEN k ELSE k + 1
      <4>1. from(i) \in DOMAIN m_tasks /\ from(j) \in DOMAIN m_tasks
        BY <2>1, <2>3
      <4>2. m_tasks[from(i)] = m_tasks[from(j)]
        BY <2>1, <2>2, <2>3, <3>2
      <4>3. from(i) = from(j)
        BY <4>1, <4>2 DEF SpawnInv, ChildrenTracked
      <4>4. QED
        BY <2>1, <2>3, <4>3
    <3>3. QED
      BY <3>1, <3>2 DEF ChildrenTracked
  <2>6. SpawnerAlone'
    <3>1. spawnerPc = "done"
      BY <2>1, <2>3 DEF SpawnInv, SpawnerAlone
    <3>2. QED
      BY <2>1, <3>1 DEF threadVars, SpawnerAlone
  <2>7. EntriesPaidFor'
    BY <2>1, <2>2, <2>3 DEF SpawnInv, EntriesPaidFor, TypeInv, TypeOK
  <2>8. QED
    BY <2>4, <2>5, <2>6, <2>7 DEF SpawnInv
<1>5. QED
  BY <1>1, <1>2, <1>3, <1>4 DEF MainStep

-----------------------------------------------------------------------------
(* The theorems.                                                           *)

LEMMA SpawnInvRestart ==
  ASSUME Restart
  PROVE  SpawnInv'
<1>1. m_tasks' = << >> /\ Len(m_tasks') = 0 /\ DOMAIN m_tasks' = {}
  BY DEF Restart
<1>2. (FreshPids /\ EntriesPaidFor)'
  BY <1>1 DEF Restart, FreshPids, EntriesPaidFor
<1>3. ChildrenTracked'
  BY <1>1 DEF Restart, ChildrenTracked, Running, InNotify
<1>4. SpawnerAlone'
  BY <1>1 DEF Restart, SpawnerAlone
<1>5. QED
  BY <1>2, <1>3, <1>4 DEF SpawnInv

LEMMA SpawnInvNext ==
  ASSUME TypeInv, SpawnInv, [Next]_vars
  PROVE  SpawnInv'
<1>1. CASE UNCHANGED vars
  BY <1>1 DEF vars, mainVars, threadVars, spawnVars, taskVars,
              SpawnInv, FreshPids, ChildrenTracked, SpawnerAlone, EntriesPaidFor
<1>2. QED
  BY <1>1, SpawnInvSpawn, SpawnInvThread, SpawnInvMain, SpawnInvTask, SpawnInvRestart DEF Next

THEOREM SpawnInvariant == Spec => []SpawnInv
BY SpawnInvInit, SpawnInvNext, TypeInvariant, PTL DEF Spec

\* The spawner thread and respawner() are never both inside spawn(), although
\* only the unlocked flag m_is_spawning keeps them apart, and the main thread
\* may already be in a sweep when the flag is raised.
THEOREM SpawnersExclusive == Spec => []NoConcurrentSpawn
<1>1. SpawnInv => NoConcurrentSpawn
  BY DEF SpawnInv, SpawnerAlone, NoConcurrentSpawn
<1>2. QED
  BY <1>1, SpawnInvariant, PTL

\* No child that has not been waited for is ever missing from m_tasks, and none
\* is in it twice (spawn's push_back against respawner's erase).
THEOREM ChildrenAlwaysTracked == Spec => []ChildrenTracked
<1>1. SpawnInv => ChildrenTracked
  BY DEF SpawnInv
<1>2. QED
  BY <1>1, SpawnInvariant, PTL

\* Respawning never takes m_tasks beyond m_spawn_children_count.
THEOREM ChildrenAlwaysBounded == Spec => []ChildrenBounded
<1>1. TypeInv /\ SpawnInv => ChildrenBounded
  BY DEF SpawnInv, EntriesPaidFor, ChildrenBounded, TypeInv, TypeOK
<1>2. QED
  BY <1>1, TypeInvariant, SpawnInvariant, PTL
=============================================================================

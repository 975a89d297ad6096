----------------------------- MODULE Multiproc -----------------------------
(***************************************************************************)
(* Torr's process structure (multiproc/multiproc.cpp).  The main process   *)
(* runs start(); a detached thread runs spawner(); every successful        *)
(* handshake forks a download process (multiproc_task).  They share        *)
(*                                                                         *)
(*   - the main channel, a pipe (module Ipc);                              *)
(*   - the named semaphore m_main_channel_mutex;                           *)
(*   - the shared memory segment m_bitfield_pieces;                        *)
(*   - between the two threads of the main process, m_addresses, m_tasks   *)
(*     and m_is_spawning, which no lock protects.                          *)
(*                                                                         *)
(* A download process is named by the number of its fork.  What it hears   *)
(* from its remote peer is the nondeterministic choice in the Receive      *)
(* actions; module TorrentPeer models that side.  A remote sends only      *)
(* blocks it was asked for, so the index a fresh process starts with (0 in *)
(* the code) is never used, and is NoPiece here.                           *)
(***************************************************************************)
EXTENDS Ipc, FiniteSets

CONSTANTS
  Addresses,       \* how many peer addresses the tracker's announce returned
  ChildrenCount,   \* m_spawn_children_count
  MaxRestarts,     \* bound: how often the whole program is killed and rerun
  CanKill,         \* may a download process be killed from outside?
  NoPiece          \* piece_index before the first determine_download_piece

ASSUME MultiprocAssumption == /\ Addresses \in Nat
                              /\ ChildrenCount \in Nat
                              /\ MaxRestarts \in Nat
                              /\ CanKill \in BOOLEAN
                              /\ NoPiece \notin Pieces

VARIABLES
  m_main_channel,        \* the pipe: a sequence of slots
  m_main_channel_mutex,  \* the value of the named semaphore
  m_bitfield_pieces,     \* the pieces marked in the shared bitfield
  files,                 \* ./.pieces/piece_N.txt, as the slots written to it
  restarts,              \* runs of the program before this one
  mainPc, message, receive_left, it,        \* the main thread, in start()
  spawnerPc, spawned, m_is_spawning,        \* the spawner thread
  m_addresses, m_tasks, forks,              \* what spawn() works on
  pc, m_am_choking, m_download_piece,       \* the download processes
  m_socket_healthy, written

channelVars == <<m_main_channel, m_main_channel_mutex>>
storeVars   == <<m_bitfield_pieces, files>>
mainVars    == <<mainPc, message, receive_left, it>>
threadVars  == <<spawnerPc, spawned, m_is_spawning>>
spawnVars   == <<m_addresses, m_tasks, forks>>
peerVars    == <<m_am_choking, m_download_piece, m_socket_healthy>>
taskVars    == <<pc, peerVars, written>>
vars == <<channelVars, storeVars, restarts, mainVars, threadVars, spawnVars,
          taskVars>>

Pids == 1..Addresses

MainPcs == {"poll", "check", "sweep", "spawn", "sem_wait", "drain",
            "complete", "desync"}
SpawnerPcs == {"new", "spawn", "done"}
\* A process that has the semaphore, and one that runs at all.
InNotify == {"header", "payload", "post"}
Running  == InNotify \cup {"construct", "sandbox", "receive", "notify", "next"}
TaskPcs  == Running \cup {"none", "exited", "reaped"}

\* m_download_piece with its data abstracted: complete stands for
\* downloaded && downloaded >= piece_size.
NoDownload == [piece_index |-> NoPiece, exists |-> FALSE, complete |-> FALSE]
Download == [piece_index : Pieces \cup {NoPiece},
             exists : BOOLEAN, complete : BOOLEAN]

-----------------------------------------------------------------------------
(* Library calls, and what the project's mutants make of them.             *)

\* sem_wait blocks while the value is 0.  Mutant: the call is missing.
SemWaitMissing == UNCHANGED m_main_channel_mutex
sem_wait == /\ m_main_channel_mutex > 0
            /\ m_main_channel_mutex' = m_main_channel_mutex - 1

sem_post == m_main_channel_mutex' = m_main_channel_mutex + 1

\* std::vector::erase.  Mutants: nothing is erased; the neighbour is.
EraseNothing(s, i) == s
EraseNext(s, i) == [k \in 1..(Len(s) - 1) |-> IF k <= i THEN s[k] ELSE s[k + 1]]
erase(s, i) == [k \in 1..(Len(s) - 1) |-> IF k < i THEN s[k] ELSE s[k + 1]]

-----------------------------------------------------------------------------
(* Start of the program.                                                   *)

\* The constructor of multiproc on a machine that has not run Torr before:
\* nothing is forked, the channel is empty, the shared memory zeroed, the
\* addresses announced; sem_open creates the semaphore with value 0 and
\* sem_post makes it 1.
Init ==
  /\ m_main_channel = << >>
  /\ m_bitfield_pieces = {}
  /\ mainPc = "poll" /\ message = NoPiece /\ receive_left = 0 /\ it = 1
  /\ spawnerPc = "new" /\ spawned = 0 /\ m_is_spawning = FALSE
  /\ m_addresses = Addresses /\ m_tasks = << >> /\ forks = 0
  /\ pc = [t \in Pids |-> "none"]
  /\ m_am_choking = [t \in Pids |-> TRUE]
  /\ m_download_piece = [t \in Pids |-> NoDownload]
  /\ m_socket_healthy = [t \in Pids |-> TRUE]
  /\ written = [t \in Pids |-> 0]
  /\ m_main_channel_mutex = 1
  /\ files = [p \in Pieces |-> << >>]
  /\ restarts = 0

-----------------------------------------------------------------------------
(* spawn(), called by the spawner thread and by respawner().               *)

Spawning(a) == IF a = "main" THEN mainPc = "spawn"
               ELSE spawnerPc = "spawn" /\ spawned < ChildrenCount

\* spawn() returns: to start()'s loop, or to the next turn of spawner()'s.
SpawnReturns(a) ==
  IF a = "main"
  THEN mainPc' = "poll" /\ UNCHANGED <<message, receive_left, it, threadVars>>
  ELSE spawned' = spawned + 1 /\ UNCHANGED <<spawnerPc, m_is_spawning, mainVars>>

\* The handshake with the first address fails: the address is erased.
SpawnRejects(a) ==
  /\ Spawning(a) /\ m_addresses > 0
  /\ m_addresses' = m_addresses - 1
  /\ UNCHANGED <<channelVars, storeVars, restarts, mainVars, threadVars,
                 m_tasks, forks, taskVars>>

\* It succeeds: the address is erased, the process forked and remembered.
SpawnForks(a) ==
  /\ Spawning(a) /\ m_addresses > 0
  /\ m_addresses' = m_addresses - 1
  /\ forks' = forks + 1
  /\ m_tasks' = Append(m_tasks, forks + 1)
  /\ pc' = [pc EXCEPT ![forks + 1] = "construct"]
  /\ SpawnReturns(a)
  /\ UNCHANGED <<channelVars, storeVars, restarts, peerVars, written>>

\* No address is left: spawn() returns 0.
SpawnGivesUp(a) ==
  /\ Spawning(a) /\ m_addresses = 0
  /\ SpawnReturns(a)
  /\ UNCHANGED <<channelVars, storeVars, restarts, spawnVars, taskVars>>

Spawn(a) == SpawnRejects(a) \/ SpawnForks(a) \/ SpawnGivesUp(a)

-----------------------------------------------------------------------------
(* spawner(), the detached thread.                                         *)

\* Mutant: m_is_spawning is never set.
SpawnerStartsSilently ==
  /\ spawnerPc = "new"
  /\ spawnerPc' = "spawn"
  /\ UNCHANGED <<channelVars, storeVars, restarts, mainVars, spawned,
                 m_is_spawning, spawnVars, taskVars>>

SpawnerStart ==
  /\ spawnerPc = "new"
  /\ spawnerPc' = "spawn"
  /\ m_is_spawning' = TRUE
  /\ UNCHANGED <<channelVars, storeVars, restarts, mainVars, spawned,
                 spawnVars, taskVars>>

SpawnerDone ==
  /\ spawnerPc = "spawn" /\ spawned >= ChildrenCount
  /\ spawnerPc' = "done"
  /\ m_is_spawning' = FALSE
  /\ UNCHANGED <<channelVars, storeVars, restarts, mainVars, spawned,
                 spawnVars, taskVars>>

-----------------------------------------------------------------------------
(* start() and respawner(), the main thread.                               *)

\* What no step of the main thread outside spawn() and waitpid touches.
OthersThanMain == UNCHANGED <<restarts, threadVars, m_addresses, forks, peerVars, written>>

\* Mutant: the piece is marked when its header arrives, before its payload.
StartMarksEarly ==
  /\ mainPc = "poll" /\ m_main_channel # << >>
  /\ Head(m_main_channel).part = 0
  /\ message' = Head(m_main_channel).piece
  /\ m_main_channel' = readOne(m_main_channel)
  /\ m_bitfield_pieces' = m_bitfield_pieces \cup {message'}
  /\ mainPc' = "sem_wait"
  /\ UNCHANGED <<m_main_channel_mutex, files, receive_left, it, m_tasks, pc>>
  /\ OthersThanMain

\* read(sizeof(message), 1000) finds a header; it is taken outside the mutex.
StartReadsHeader ==
  /\ mainPc = "poll" /\ m_main_channel # << >>
  /\ Head(m_main_channel).part = 0
  /\ message' = Head(m_main_channel).piece
  /\ m_main_channel' = readOne(m_main_channel)
  /\ mainPc' = "sem_wait"
  /\ UNCHANGED <<m_main_channel_mutex, storeVars, receive_left, it, m_tasks, pc>>
  /\ OthersThanMain

\* The 24 bytes are payload.  What the program does with them as a header is
\* arbitrary; the model stops the main thread here.
StartMisreadsPayload ==
  /\ mainPc = "poll" /\ m_main_channel # << >>
  /\ Head(m_main_channel).part # 0
  /\ mainPc' = "desync"
  /\ UNCHANGED <<channelVars, storeVars, message, receive_left, it, m_tasks, pc>>
  /\ OthersThanMain

\* poll() times out on an empty channel.
StartTimesOut ==
  /\ mainPc = "poll" /\ m_main_channel = << >>
  /\ mainPc' = "check"
  /\ UNCHANGED <<channelVars, storeVars, message, receive_left, it, m_tasks, pc>>
  /\ OthersThanMain

\* m_tasks.begin().  Mutant: the sweep skips the first child.
SecondTask == 2
FirstTask == 1

\* if (!m_is_spawning) respawner();
StartChecksSpawning ==
  /\ mainPc = "check"
  /\ mainPc' = IF m_is_spawning THEN "poll" ELSE "sweep"
  /\ it' = FirstTask
  /\ UNCHANGED <<channelVars, storeVars, message, receive_left, m_tasks, pc>>
  /\ OthersThanMain

\* waitpid(WNOHANG) returns 0 for a running child, and the pid of a zombie,
\* which it reaps; neither is < 0, so the sweep goes on.
RespawnerPasses ==
  /\ mainPc = "sweep" /\ it <= Len(m_tasks)
  /\ pc[m_tasks[it]] # "reaped"
  /\ it' = it + 1
  /\ pc' = IF pc[m_tasks[it]] = "exited"
           THEN [pc EXCEPT ![m_tasks[it]] = "reaped"] ELSE pc
  /\ UNCHANGED <<channelVars, storeVars, mainPc, message, receive_left, m_tasks>>
  /\ OthersThanMain

\* waitpid fails (ECHILD) for a child an earlier sweep reaped: its entry is
\* erased, one replacement is spawned, and the sweep ends.
RespawnerFindsDead ==
  /\ mainPc = "sweep" /\ it <= Len(m_tasks)
  /\ pc[m_tasks[it]] = "reaped"
  /\ m_tasks' = erase(m_tasks, it)
  /\ mainPc' = "spawn"
  /\ UNCHANGED <<channelVars, storeVars, message, receive_left, it, pc>>
  /\ OthersThanMain

RespawnerEnds ==
  /\ mainPc = "sweep" /\ it > Len(m_tasks)
  /\ mainPc' = "poll"
  /\ UNCHANGED <<channelVars, storeVars, message, receive_left, it, m_tasks, pc>>
  /\ OthersThanMain

\* Mutant: start() and handle_downloaded_piece both wait for the semaphore.
StartLocksTwice ==
  /\ mainPc = "sem_wait"
  /\ m_main_channel_mutex > 1 /\ m_main_channel_mutex' = m_main_channel_mutex - 2
  /\ files' = [files EXCEPT ![message] = << >>]
  /\ receive_left' = PieceSlots
  /\ mainPc' = "drain"
  /\ UNCHANGED <<m_main_channel, m_bitfield_pieces, message, it, m_tasks, pc>>
  /\ OthersThanMain

\* sem_wait, then handle_downloaded_piece opens (and truncates) the file.
StartLocks ==
  /\ mainPc = "sem_wait"
  /\ sem_wait
  /\ files' = [files EXCEPT ![message] = << >>]
  /\ receive_left' = PieceSlots
  /\ mainPc' = "drain"
  /\ UNCHANGED <<m_main_channel, m_bitfield_pieces, message, it, m_tasks, pc>>
  /\ OthersThanMain

\* One turn of the loop in handle_downloaded_piece: read() is not limited to
\* receive_left, so frames queued behind the payload are written as well.
HandleReads ==
  /\ mainPc = "drain" /\ m_main_channel # << >>
  /\ files' = [files EXCEPT ![message] = @ \o m_main_channel]
  /\ receive_left' = receive_left - Len(m_main_channel)
  /\ m_main_channel' = readAll(m_main_channel)
  /\ mainPc' = IF receive_left' > 0 THEN "drain" ELSE "complete"
  /\ UNCHANGED <<m_main_channel_mutex, m_bitfield_pieces, message, it, m_tasks, pc>>
  /\ OthersThanMain

\* piece_download_complete marks the piece; start() posts the semaphore.
HandleCompletes ==
  /\ mainPc = "complete"
  /\ m_bitfield_pieces' = m_bitfield_pieces \cup {message}
  /\ sem_post
  /\ mainPc' = "poll"
  /\ UNCHANGED <<m_main_channel, files, message, receive_left, it, m_tasks, pc>>
  /\ OthersThanMain

MainStep ==
  \/ StartReadsHeader \/ StartMisreadsPayload \/ StartTimesOut
  \/ StartChecksSpawning \/ StartLocks \/ HandleReads \/ HandleCompletes
  \/ RespawnerPasses \/ RespawnerFindsDead \/ RespawnerEnds

-----------------------------------------------------------------------------
(* A download process.                                                     *)

\* The environment of every task step: it only moves process t.
TaskGoes(t, from, to) == pc[t] = from /\ pc' = [pc EXCEPT ![t] = to]
OthersThanTask == UNCHANGED <<files, restarts, mainVars, threadVars, spawnVars>>

\* Mutant: the task's constructor posts the semaphore, as multiproc's does.
TaskConstructsAndPosts(t) ==
  /\ \E to \in {"sandbox", "exited"} : TaskGoes(t, "construct", to)
  /\ m_bitfield_pieces' = {}
  /\ sem_post
  /\ UNCHANGED <<m_main_channel, peerVars, written>> /\ OthersThanTask

\* The constructor attaches the shared memory, which zeroes it for everybody,
\* connects the channel and opens the semaphore, or quits.
TaskConstructs(t) ==
  /\ \E to \in {"sandbox", "exited"} : TaskGoes(t, "construct", to)
  /\ m_bitfield_pieces' = {}
  /\ UNCHANGED <<channelVars, peerVars, written>> /\ OthersThanTask

\* sandbox(): landlock and then seccomp, or SANDBOX_FAILED().
TaskSandboxes(t) ==
  /\ \E to \in {"receive", "exited"} : TaskGoes(t, "sandbox", to)
  /\ UNCHANGED <<channelVars, m_bitfield_pieces, peerVars, written>>
  /\ OthersThanTask

\* The pieces determine_download_piece may settle on, given what process t
\* had before: one that is not marked, or none and nothing changes.
DeterminedPieces(t) ==
  {m_download_piece[t]} \cup
  {[piece_index |-> p, exists |-> TRUE, complete |-> FALSE] :
     p \in Pieces \ m_bitfield_pieces}

\* download_next_piece: nothing while choked, and no new piece while one exists.
DownloadNextPiece(t, choking, dp) ==
  IF choking \/ m_download_piece[t].exists THEN dp = m_download_piece[t]
  ELSE dp \in DeterminedPieces(t)

\* work(), after receive_message has left m_download_piece = dp and
\* m_socket_healthy = healthy: notify a complete piece, else quit if unhealthy.
AfterReceive(t, dp, healthy) ==
  /\ TaskGoes(t, "receive", IF dp.complete THEN "notify"
                            ELSE IF healthy THEN "receive" ELSE "exited")
  /\ m_download_piece' = [m_download_piece EXCEPT ![t] = dp]
  /\ m_socket_healthy' = [m_socket_healthy EXCEPT ![t] = healthy]
  /\ UNCHANGED <<channelVars, m_bitfield_pieces, written>> /\ OthersThanTask

ReceiveChoke(t) ==
  /\ AfterReceive(t, m_download_piece[t], m_socket_healthy[t])
  /\ m_am_choking' = [m_am_choking EXCEPT ![t] = TRUE]

ReceiveUnchoke(t) ==
  /\ m_am_choking' = [m_am_choking EXCEPT ![t] = FALSE]
  /\ \E dp \in DeterminedPieces(t) :
       /\ DownloadNextPiece(t, FALSE, dp)
       /\ AfterReceive(t, dp, m_socket_healthy[t])

\* The block that makes downloaded reach piece_size.
ReceiveLastBlock(t) ==
  /\ m_download_piece[t].exists /\ ~m_download_piece[t].complete
  /\ AfterReceive(t, [m_download_piece[t] EXCEPT !.complete = TRUE],
                  m_socket_healthy[t])
  /\ UNCHANGED m_am_choking

\* Any message that leaves the download as it is (have, bitfield, interested,
\* a block in the middle of a piece, ...).
ReceiveOther(t) ==
  /\ AfterReceive(t, m_download_piece[t], m_socket_healthy[t])
  /\ UNCHANGED m_am_choking

\* A second keep-alive in one second, or the end of the stream read as one.
ReceiveKeepAliveTwice(t) ==
  /\ AfterReceive(t, m_download_piece[t], FALSE)
  /\ UNCHANGED m_am_choking

Receive(t) == \/ ReceiveChoke(t) \/ ReceiveUnchoke(t) \/ ReceiveLastBlock(t)
              \/ ReceiveOther(t) \/ ReceiveKeepAliveTwice(t)

\* notify_downloaded_piece, one action per blocking call.
NotifyWaits(t) ==
  /\ TaskGoes(t, "notify", "header")
  /\ sem_wait
  /\ UNCHANGED <<m_main_channel, m_bitfield_pieces, peerVars, written>>
  /\ OthersThanTask

\* Mutant: the semaphore is posted between the header and the payload.
NotifyWritesHeaderUnlocked(t) ==
  /\ HasRoom(m_main_channel)
  /\ TaskGoes(t, "header", "payload")
  /\ m_main_channel' = write(m_main_channel, Header(m_download_piece[t].piece_index))
  /\ sem_post
  /\ UNCHANGED <<m_bitfield_pieces, peerVars, written>>
  /\ OthersThanTask

NotifyWritesHeader(t) ==
  /\ HasRoom(m_main_channel)
  /\ TaskGoes(t, "header", "payload")
  /\ m_main_channel' = write(m_main_channel, Header(m_download_piece[t].piece_index))
  /\ UNCHANGED <<m_main_channel_mutex, m_bitfield_pieces, peerVars, written>>
  /\ OthersThanTask

\* write() returns once the whole span is written; written counts the pages
\* while it is blocked.  Mutant: the span is a page too long.
WriteReturnsLate(t) == written[t] >= PieceSlots
WriteReturns(t) == written[t] + 1 >= PieceSlots

NotifyWritesPage(t) ==
  /\ HasRoom(m_main_channel)
  /\ TaskGoes(t, "payload", IF WriteReturns(t) THEN "post" ELSE "payload")
  /\ written' = [written EXCEPT ![t] = IF WriteReturns(t) THEN 0 ELSE @ + 1]
  /\ m_main_channel' = write(m_main_channel,
                             Page(m_download_piece[t].piece_index, written[t] + 1))
  /\ UNCHANGED <<m_main_channel_mutex, m_bitfield_pieces, peerVars>>
  /\ OthersThanTask

\* sem_post, then empty_download_piece, which keeps downloaded as it was.
NotifyPosts(t) ==
  /\ TaskGoes(t, "post", "next")
  /\ sem_post
  /\ m_download_piece' = [m_download_piece EXCEPT ![t].exists = FALSE]
  /\ UNCHANGED <<m_main_channel, m_bitfield_pieces, m_am_choking,
                 m_socket_healthy, written>>
  /\ OthersThanTask

\* work() goes on with download_next_piece, and quits if unhealthy.
TaskDownloadsNext(t) ==
  /\ TaskGoes(t, "next", IF m_socket_healthy[t] THEN "receive" ELSE "exited")
  /\ \E dp \in DeterminedPieces(t) :
       /\ DownloadNextPiece(t, m_am_choking[t], dp)
       /\ m_download_piece' = [m_download_piece EXCEPT ![t] = dp]
  /\ UNCHANGED <<channelVars, m_bitfield_pieces, m_am_choking,
                 m_socket_healthy, written>>
  /\ OthersThanTask

Notify(t) == \/ NotifyWaits(t) \/ NotifyWritesHeader(t) \/ NotifyWritesPage(t)
             \/ NotifyPosts(t) \/ TaskDownloadsNext(t)

\* The process is killed (out of memory, a signal, the seccomp filter).
TaskKilled(t) ==
  /\ CanKill /\ pc[t] \in Running
  /\ pc' = [pc EXCEPT ![t] = "exited"]
  /\ UNCHANGED <<channelVars, m_bitfield_pieces, peerVars, written>>
  /\ OthersThanTask

TaskStep(t) == TaskConstructs(t) \/ TaskSandboxes(t) \/ Receive(t)
               \/ Notify(t) \/ TaskKilled(t)

-----------------------------------------------------------------------------
\* The program is interrupted and run again.  Nothing unlinks the semaphore:
\* sem_open finds its old value and the constructor's sem_post adds one to it.
Restart ==
  /\ restarts < MaxRestarts
  /\ restarts' = restarts + 1
  /\ sem_post
  /\ m_main_channel' = << >>
  /\ m_bitfield_pieces' = {}
  /\ mainPc' = "poll" /\ message' = NoPiece /\ receive_left' = 0 /\ it' = 1
  /\ spawnerPc' = "new" /\ spawned' = 0 /\ m_is_spawning' = FALSE
  /\ m_addresses' = Addresses /\ m_tasks' = << >> /\ forks' = 0
  /\ pc' = [t \in Pids |-> "none"]
  /\ m_am_choking' = [t \in Pids |-> TRUE]
  /\ m_download_piece' = [t \in Pids |-> NoDownload]
  /\ m_socket_healthy' = [t \in Pids |-> TRUE]
  /\ written' = [t \in Pids |-> 0]
  /\ UNCHANGED files

Next ==
  \/ \E a \in {"main", "thread"} : Spawn(a)
  \/ SpawnerStart \/ SpawnerDone \/ MainStep
  \/ \E t \in Pids : TaskStep(t)
  \/ Restart

Spec == Init /\ [][Next]_vars
-----------------------------------------------------------------------------
(* Fairness.  The kernel runs every thread and process that can run.       *)
(* Nothing is assumed of the remote peers: Receive has no fairness, nor    *)
(* has a handshake in spawn() (its recv has no timeout).  sem_wait is only *)
(* weakly fair: the semaphore favours nobody.                              *)

TaskProceeds(t) == TaskConstructs(t) \/ TaskSandboxes(t) \/ Notify(t)

Fairness ==
  /\ WF_vars(MainStep \/ SpawnGivesUp("main"))
  /\ WF_vars(SpawnerStart \/ SpawnerDone \/ SpawnGivesUp("thread"))
  /\ \A t \in Pids : WF_vars(TaskProceeds(t))

FairSpec == Spec /\ Fairness

-----------------------------------------------------------------------------
(* Properties.                                                             *)

\* Every variable keeps the type the code gives it.
TypeOK ==
  /\ m_main_channel \in Seq(Slot)
  /\ m_main_channel_mutex \in Nat
  /\ m_bitfield_pieces \in SUBSET Pieces
  /\ files \in [Pieces -> Seq(Slot)]
  /\ restarts \in Nat
  /\ mainPc \in MainPcs /\ message \in Pieces \cup {NoPiece}
  /\ receive_left \in Int /\ it \in Nat \ {0}
  /\ spawnerPc \in SpawnerPcs /\ spawned \in Nat /\ m_is_spawning \in BOOLEAN
  /\ m_addresses \in 0..Addresses /\ forks \in 0..Addresses
  /\ m_tasks \in Seq(Pids)
  /\ pc \in [Pids -> TaskPcs]
  /\ m_am_choking \in [Pids -> BOOLEAN]
  /\ m_download_piece \in [Pids -> Download]
  /\ m_socket_healthy \in [Pids -> BOOLEAN]
  /\ written \in [Pids -> 0..PieceSlots - 1]

\* Who is between sem_wait and sem_post: the main thread (as process 0) in
\* handle_downloaded_piece, a download process in notify_downloaded_piece.
Main == 0
Actors == Pids \cup {Main}
Holds(a) == IF a = Main THEN mainPc \in {"drain", "complete"}
            ELSE pc[a] \in InNotify
Holders == {a \in Actors : Holds(a)}

\* At most one process is inside the channel's critical section.
AtMostOneHolder == \A a, b \in Actors : Holds(a) /\ Holds(b) => a = b

\* On the first run of the program the semaphore is a mutex, whatever
\* processes die and wherever they die (notify_downloaded_piece, start).
MutualExclusion == restarts = 0 => AtMostOneHolder

\* start() reads headers outside the mutex, yet on the first run it never takes
\* payload bytes for a header.
ChannelInSync == restarts = 0 => mainPc # "desync"

\* When handle_downloaded_piece starts reading, the whole payload of its
\* message, and not some other process's data, is at the head of the channel:
\* its blocking read() cannot hang.
HandlerFindsPayload ==
  restarts = 0 /\ mainPc = "drain" =>
    /\ receive_left <= Len(m_main_channel)
    /\ \A k \in 1..PieceSlots : m_main_channel[k] = Page(message, k)

HoldsPayload(p) == /\ Len(files[p]) >= PieceSlots
                   /\ \A k \in 1..PieceSlots : files[p][k] = Page(p, k)

\* A piece marked in the shared bitfield has its bytes in its file, in order,
\* except while handle_downloaded_piece rewrites that very file.
MarkedPieceOnDisk ==
  restarts = 0 =>
    \A p \in m_bitfield_pieces :
      HoldsPayload(p) \/ (mainPc = "drain" /\ message = p)

\* respawner() and spawner() are never both inside spawn(), so the unlocked
\* m_addresses and the push_back on m_tasks have one user at a time.
NoConcurrentSpawn == ~(mainPc = "spawn" /\ spawnerPc = "spawn")

\* Every child that has not been reaped is in m_tasks, once: no zombie is lost
\* and none is waited for twice in a sweep (spawn, respawner).
ChildrenTracked ==
  /\ \A t \in Pids : pc[t] \in Running \cup {"exited"} =>
       \E i \in DOMAIN m_tasks : m_tasks[i] = t
  /\ \A i, j \in DOMAIN m_tasks : m_tasks[i] = m_tasks[j] => i = j

\* spawner and respawner together never keep more than
\* m_spawn_children_count entries.
ChildrenBounded == Len(m_tasks) <= ChildrenCount

\* The main thread waits for the mutex, a writer holds it, and the pipe that
\* only the main thread empties is full: neither ever moves again.
Standoff == /\ mainPc = "sem_wait" /\ m_main_channel_mutex = 0
            /\ ~HasRoom(m_main_channel)
            /\ \E t \in Pids : pc[t] \in {"header", "payload"}

\* A process died between sem_wait and sem_post.
TokenLost == m_main_channel_mutex = 0 /\ Holders = {}

\* A piece of any size reaches the main process: the reader and the writers of
\* the channel never wait for each other (start() against
\* notify_downloaded_piece).
NoStandoff == ~Standoff

\* The channel is written under mutual exclusion in every run of the program,
\* also when an earlier run left its semaphore behind.
WritesSynchronised == AtMostOneHolder

\* Each run of the program adds one token to the semaphore it inherits, and
\* nothing else creates one: after r restarts at most 1 + r processes can be in
\* the critical section (the constructor's sem_post, never undone).
TokensBounded == m_main_channel_mutex + Cardinality(Holders) <= 1 + restarts

\* A header that start() has read is served, unless a standoff or the death of
\* a holder has stopped the channel for good; weak fairness of sem_wait is
\* enough, because writers that keep overtaking fill the pipe.
HeaderServed ==
  mainPc = "sem_wait" ~> (mainPc # "sem_wait" \/ Standoff \/ TokenLost)

\* A child that has exited is reaped, unless the main thread keeps receiving
\* pieces (respawner runs only when a read times out) or is stuck in a
\* handshake or in the mutex, or the spawner thread never finishes.
DeadChildReaped ==
  \/ []<>(mainPc = "sem_wait")
  \/ <>[](mainPc = "spawn")
  \/ <>[]m_is_spawning
  \/ \A t \in Pids : pc[t] = "exited" ~> pc[t] = "reaped"
=============================================================================

---------------------------- MODULE MCMultiproc ----------------------------
(***************************************************************************)
(* Instances of Multiproc for TLC.                                         *)
(***************************************************************************)
EXTENDS Multiproc, TLC

\* Pieces are interchangeable: no action orders or names them.
PieceSymmetry == Permutations(Pieces)

\* States that differ only in values no later step reads are one state: the
\* memory of a process that is gone, the locals of a function that returned.
MainLocals == <<IF mainPc \in {"sem_wait", "drain", "complete"} THEN message ELSE NoPiece,
                IF mainPc = "drain" THEN receive_left ELSE 0,
                IF mainPc = "sweep" THEN it ELSE 1>>
TaskLocals(t) ==
  IF pc[t] \in Running
  THEN <<m_am_choking[t], m_download_piece[t], m_socket_healthy[t],
         IF pc[t] = "payload" THEN written[t] ELSE 0>>
  ELSE << >>
LiveState == <<channelVars, storeVars, restarts, mainPc, MainLocals, threadVars,
               spawnVars, pc, [t \in Pids |-> TaskLocals(t)]>>
=============================================================================

-------------------------------- MODULE Tcp --------------------------------
(***************************************************************************)
(* tcp::connect and connect_with_timeout (network/socket/tcp.cpp,          *)
(* network/socket/cassync.h): a non-blocking connect that waits in poll()  *)
(* until a deadline, through any number of interrupting signals, and makes *)
(* the socket blocking again.  Its result is ignored: tcp::connect returns *)
(* the descriptor also of a socket that is refused or still connecting.    *)
(*                                                                         *)
(* A tick of clock stands for part of the two seconds; clock_gettime and   *)
(* fcntl do not fail.                                                      *)
(***************************************************************************)
EXTENDS Integers

CONSTANT ConnectTimeout   \* the 2000 ms of tcp::connect, in ticks

ASSUME TcpAssumption == ConnectTimeout \in Nat

VARIABLES
  pc,           \* where the thread that uses the socket stands
  sock,         \* what the kernel makes of the connection
  nonblocking,  \* O_NONBLOCK
  clock         \* ticks since connect() was called

tcpVars == <<sock, nonblocking, clock>>

SockStates == {"none", "connecting", "connected", "refused", "ended", "reset"}
Connecting == {"tcp_loop", "tcp_poll"}

TcpInit == sock = "none" /\ nonblocking = FALSE /\ clock = 0

\* connect_with_timeout is over, whatever it returns: F_SETFL with the saved
\* flags, which are 0 (the comparison binds tighter than the assignment).
\* Mutant: the flags are not restored.
FlagsKept == UNCHANGED nonblocking
FlagsRestored == nonblocking' = FALSE

ConnectReturns == pc' = "tcp_connected" /\ FlagsRestored /\ UNCHANGED clock

\* socket() fails; or connect() is settled at once; or it is under way.
ConnectStarts ==
  /\ pc = "tcp_connect"
  /\ \/ pc' = "failed" /\ UNCHANGED tcpVars
     \/ pc' = "tcp_connected" /\ sock' \in {"connected", "refused"}
        /\ nonblocking' = FALSE /\ clock' = 0
     \/ pc' = "tcp_loop" /\ sock' = "connecting"
        /\ nonblocking' = TRUE /\ clock' = 0

\* The top of the loop: poll() gets what is left until the deadline.
ConnectLoops ==
  /\ pc = "tcp_loop"
  /\ IF clock > ConnectTimeout THEN ConnectReturns
     ELSE pc' = "tcp_poll" /\ UNCHANGED <<nonblocking, clock>>
  /\ UNCHANGED sock

\* poll() reports the socket (connected, or with an error that getsockopt
\* fetches), or times out.
PollReturns ==
  /\ pc = "tcp_poll"
  /\ sock # "connecting" \/ clock >= ConnectTimeout
  /\ ConnectReturns
  /\ UNCHANGED sock

\* A signal interrupts poll().  Mutant: the time to wait starts anew.
PollInterruptedAnew ==
  /\ pc = "tcp_poll" /\ clock < ConnectTimeout
  /\ pc' = "tcp_loop" /\ clock' = 0
  /\ UNCHANGED <<sock, nonblocking>>

PollInterrupted ==
  /\ pc = "tcp_poll" /\ clock < ConnectTimeout
  /\ pc' = "tcp_loop"
  /\ UNCHANGED tcpVars

Elapse ==
  /\ pc \in Connecting /\ clock <= ConnectTimeout
  /\ clock' = clock + 1
  /\ UNCHANGED <<pc, sock, nonblocking>>

\* The kernel learns the fate of the connection, long after the two seconds
\* if nobody answers.
SockSettles ==
  /\ sock = "connecting"
  /\ sock' \in {"connected", "refused"}
  /\ UNCHANGED <<pc, nonblocking, clock>>

TcpConnect == ConnectStarts \/ ConnectLoops \/ PollReturns
TcpStep == TcpConnect \/ PollInterrupted \/ Elapse \/ SockSettles

\* A send or receive that would have to wait does so, unless the socket is
\* non-blocking: then it fails like one on a dead connection.
WouldBlock == nonblocking
SendFails == sock \in {"refused", "reset"} \/ (sock = "connecting" /\ WouldBlock)
SendSucceeds == sock \in {"connected", "ended"}
=============================================================================

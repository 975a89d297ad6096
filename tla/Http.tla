-------------------------------- MODULE Http --------------------------------
(***************************************************************************)
(* http (network/socket/http.cpp): connect, one GET request, the answer    *)
(* read until the server closes the connection, its header cut off.        *)
(*                                                                         *)
(* The answer is a sequence of atoms: a piece of text, a newline, and the  *)
(* parts of a bencoded body (Tracker says which).  Whether a request is    *)
(* encrypted depends on the port alone; with openssl a failing write or    *)
(* read counts as 0 bytes, without it tcp's error is unwrapped by value(), *)
(* which throws, and nothing catches it: the program is terminated.        *)
(***************************************************************************)
EXTENDS Tcp, Sequences

CONSTANTS
  RecvSize,   \* the 1024 bytes of one receive, in atoms
  Ports       \* m_url.port(); 443 is encrypted

ASSUME HttpAssumption == RecvSize \in Nat \ {0}

VARIABLES
  m_port,
  m_data_size,  \* m_data.size()
  received,     \* m_data up to read_offset; zeros follow
  toClient,     \* what the server has sent and no receive has returned
  response      \* history: the server's answer, whole; empty before it

httpVars == <<m_data_size, received, toClient, response>>

Text    == [k |-> "text"]
NewLine == [k |-> "newline"]
ZeroByte == [k |-> "zero"]

Secure == m_port = 443
Unwrap(failed) == pc' = IF failed THEN "terminated" ELSE "http_parse"

HttpInit == /\ m_port \in Ports
            /\ m_data_size = 0 /\ received = << >>
            /\ toClient = << >> /\ response = << >>

\* from_string on a new object: the url is parsed and its host resolved, or not.
HttpFromString(from) ==
  /\ pc = from
  /\ pc' \in {"tcp_connect", "failed"}
  /\ sock' = "none" /\ nonblocking' = FALSE /\ clock' = 0
  /\ m_data_size' = 0 /\ received' = << >> /\ toClient' = << >> /\ response' = << >>

\* The rest of connect(): SSL_connect waits for the connection, and fails on a
\* refused one or in its own handshake.
HttpSecures ==
  /\ pc = "tcp_connected"
  /\ IF ~Secure THEN pc' = "http_send"
     ELSE \/ SendSucceeds /\ pc' \in {"http_send", "failed"}
          \/ SendFails /\ pc' = "failed"
  /\ UNCHANGED <<tcpVars, httpVars>>

\* get_request sends, and makes room for the first receive.
HttpSends ==
  /\ pc = "http_send"
  /\ \/ SendSucceeds /\ pc' = "http_recv" /\ m_data_size' = RecvSize
     \/ SendFails /\ pc' = (IF Secure THEN "failed" ELSE "terminated")
        /\ UNCHANGED m_data_size
  /\ UNCHANGED <<tcpVars, received, toClient, response>>

\* resize(m_data.size() + size).  Mutant: the buffer stays as it is.
NotResized(size) == m_data_size
Resized(size) == m_data_size + size

\* A receive returns some of what has arrived, at most 1024 bytes.
HttpReceives(size) ==
  /\ pc = "http_recv" /\ size \in 1..RecvSize /\ size <= Len(toClient)
  /\ received' = received \o SubSeq(toClient, 1, size)
  /\ toClient' = SubSeq(toClient, size + 1, Len(toClient))
  /\ m_data_size' = Resized(size)
  /\ UNCHANGED <<pc, tcpVars, response>>

\* The end of the stream ends the loop; an error ends it or is thrown.
HttpReceiveEnds ==
  /\ pc = "http_recv" /\ toClient = << >>
  /\ \/ sock = "ended" /\ Unwrap(FALSE)
     \/ sock = "reset" /\ Unwrap(~Secure)
     \/ sock = "connected" /\ WouldBlock /\ Unwrap(~Secure)
  /\ UNCHANGED <<tcpVars, httpVars>>

\* The body starts behind the first empty line; without one the whole text
\* stays.  Mutant: the counter of newlines starts at 1.
FirstNewLine(s) == {i \in 1..Len(s) : s[i] = NewLine}
EmptyLine(s) == {i \in 2..Len(s) : s[i - 1] = NewLine /\ s[i] = NewLine}

Body(s) ==
  LET ends == EmptyLine(s)
  IN IF ends = {} THEN s
     ELSE SubSeq(s, (CHOOSE i \in ends : \A j \in ends : i <= j) + 1, Len(s))

HttpRequest == \/ HttpSecures \/ HttpSends \/ HttpReceiveEnds
               \/ \E size \in 1..RecvSize : HttpReceives(size)

-----------------------------------------------------------------------------
(* The server.                                                             *)

ServerAnswers(answer) ==
  /\ pc = "http_recv" /\ sock = "connected" /\ response = << >>
  /\ response' = answer /\ toClient' = answer
  /\ UNCHANGED <<pc, tcpVars, m_data_size, received>>

\* It closes the connection: after the answer, as it is asked to, or in the
\* middle of it, in order or with a reset.
ServerCloses ==
  /\ sock = "connected"
  /\ \/ sock' = "ended" /\ \E n \in 0..Len(toClient) : toClient' = SubSeq(toClient, 1, n)
     \/ sock' = "reset" /\ toClient' = << >>
  /\ UNCHANGED <<pc, nonblocking, clock, m_data_size, received, response>>

-----------------------------------------------------------------------------
\* A receive never writes behind the end of m_data: there is always room for
\* the 1024 bytes it may return, although the buffer grows only by what came
\* (get_request).
RecvInsideBuffer == pc = "http_recv" => Len(received) + RecvSize <= m_data_size

\* The program is terminated by an exception only when the other side failed
\* it: the connection was refused or reset, or the answer is not a whole list
\* of at least one peer.  A signal, a slow connection or a slow server is no reason
\* (connect_with_timeout, tcp_write, tcp_receive).
ExceptionHasCause ==
  pc = "terminated" => \/ sock \in {"refused", "reset"}
                       \/ received # response
                       \/ /\ response # << >>
                          /\ \A i \in 1..Len(response) : response[i].k # "peers" \/ response[i].length = 0
=============================================================================

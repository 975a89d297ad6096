--------------------------- MODULE TrackerProofs ---------------------------
(***************************************************************************)
(* Proofs about tracker::announce, over udp and over http, for every       *)
(* number of calls, every set of address lists, every size of a receive    *)
(* and every loss, delay and duplication of the datagrams.                 *)
(***************************************************************************)
EXTENDS Tracker, SequenceTheorems, ByteLemmas

USE TcpAssumption, HttpAssumption, TrackerAssumption
    DEF TcpAssumption, HttpAssumption, TrackerAssumption

-----------------------------------------------------------------------------
(* The types.                                                              *)

Lists == PeerLists \cup {<< >>}
Datagrams == [kind : {"connect", "announce", "error"}, tid : 1..MaxTime,
              cid : ConnectionIds \cup {0}, list : Lists]

\* TypeOK with the form of the datagrams, which the answers of the tracker
\* keep when they change a request's fields.
TypeInv == TypeOK /\ toTracker \subseteq Datagrams /\ fromTracker \subseteq Datagrams

LEMMA InitTypes == Init => TypeInv
<1> SUFFICES ASSUME Init PROVE TypeInv
  OBVIOUS
<1>1. pc = "idle" /\ sock = "none" /\ nonblocking = FALSE /\ clock = 0
  BY DEF Init, TcpInit
<1>2. clock \in 0..ConnectTimeout + 1
  BY <1>1
<1>3. nonblocking \in BOOLEAN /\ m_has_endpoint \in BOOLEAN
  BY <1>1, Zenon DEF Init
<1>4. QED
  BY <1>1, <1>2, <1>3 DEF Init, TypeInv, TypeOK, SockStates

LEMMA DatagramFields ==
  ASSUME NEW kind \in {"connect", "announce", "error"}, NEW tid \in 1..MaxTime,
         NEW cid \in ConnectionIds \cup {0}, NEW list \in Lists
  PROVE  Datagram(kind, tid, cid, list) \in Datagrams
  BY DEF Datagram, Datagrams

\* A step of the connection or of the http client and its server.
LEMMA HttpStepTypes ==
  TypeInv /\ (HttpStep \/ ConnectStep \/ HttpAnnounce \/ HttpAnnounceParses) => TypeInv'
<1> SUFFICES ASSUME TypeInv, HttpStep \/ ConnectStep \/ HttpAnnounce \/ HttpAnnounceParses
             PROVE  TypeInv'
  OBVIOUS
<1> USE DEF TypeInv, TypeOK, SockStates, Connecting, client, network, history, tcpVars
<1>1. CASE HttpStep
  <2>1. UNCHANGED <<client, now, network, nonblocking, clock>>
    BY <1>1 DEF HttpStep, HttpRequest, HttpSecures, HttpSends, HttpReceiveEnds, HttpReceives,
                ServerCloses, ServerAnswers
  <2>2. pc' \in {"http_send", "failed", "http_recv", "terminated", "http_parse", pc}
        /\ sock' \in {sock, "ended", "reset"}
    BY <1>1 DEF HttpStep, HttpRequest, HttpSecures, HttpSends, HttpReceiveEnds, HttpReceives,
                Unwrap, ServerCloses, ServerAnswers
  <2>3. QED
    BY <2>1, <2>2
<1>2. CASE ConnectStep
  <2>1. UNCHANGED <<client, now, network>>
    BY <1>2 DEF ConnectStep
  <2>2. nonblocking' \in BOOLEAN
    BY <1>2, Zenon DEF ConnectStep, TcpStep, TcpConnect, ConnectStarts, ConnectLoops, PollReturns,
              ConnectReturns, FlagsRestored, PollInterrupted, Elapse, SockSettles
  <2>3. clock' \in 0..ConnectTimeout + 1
    BY <1>2 DEF ConnectStep, TcpStep, TcpConnect, ConnectStarts, ConnectLoops, PollReturns,
              ConnectReturns, PollInterrupted, Elapse, SockSettles
  <2>4. pc' \in {"failed", "tcp_connected", "tcp_loop", "tcp_poll", pc}
        /\ sock' \in {sock, "connecting", "connected", "refused"}
    BY <1>2 DEF ConnectStep, TcpStep, TcpConnect, ConnectStarts, ConnectLoops, PollReturns,
              ConnectReturns, PollInterrupted, Elapse, SockSettles
  <2>5. QED
    BY <2>1, <2>2, <2>3, <2>4
<1>3. CASE HttpAnnounce
  <2>1. /\ UNCHANGED <<client, now, network>>
        /\ pc' \in {"tcp_connect", "failed"} /\ sock' = "none" /\ nonblocking' = FALSE /\ clock' = 0
    BY <1>3 DEF HttpAnnounce, HttpFromString
  <2>2. nonblocking' \in BOOLEAN
    BY <2>1, Zenon
  <2>3. QED
    BY <2>1, <2>2
<1>4. CASE HttpAnnounceParses
  BY <1>4 DEF HttpAnnounceParses, http
<1>5. QED
  BY <1>1, <1>2, <1>3, <1>4

\* A step of the udp client.
LEMMA UdpStepTypes ==
  TypeInv /\ (Announce \/ ConnectSends \/ AnnounceSends \/ UdpSendFails \/ Receive \/ TimesOut)
    => TypeInv'
<1> SUFFICES ASSUME TypeInv,
                    Announce \/ ConnectSends \/ AnnounceSends \/ UdpSendFails \/ Receive \/ TimesOut
             PROVE  TypeInv'
  OBVIOUS
<1> USE DEF TypeInv, TypeOK, SockStates, Connecting, network, http, tcpVars
<1>1. CASE Announce
  BY <1>1 DEF Announce
<1>2. CASE ConnectSends
  <2>1. Datagram("connect", now, 0, << >>) \in Datagrams
    BY DEF Datagram, Datagrams, Lists
  <2>2. QED
    BY <1>2, <2>1 DEF ConnectSends, Datagrams
<1>3. CASE AnnounceSends
  <2>1. Datagram("announce", now, m_announce_connection_identifier, << >>) \in Datagrams
    BY DEF Datagram, Datagrams, Lists
  <2>2. QED
    BY <1>3, <2>1 DEF AnnounceSends, Datagrams
<1>4. CASE UdpSendFails
  BY <1>4 DEF UdpSendFails
<1>5. CASE Receive
  BY <1>5 DEF Receive, ConnectReceives, AnnounceReceives, Arrives, ConnectionIdStored, Datagrams
<1>6. CASE TimesOut
  BY <1>6 DEF TimesOut
<1>7. QED
  BY <1>1, <1>2, <1>3, <1>4, <1>5, <1>6

\* A step of the tracker, the network or the clock.
LEMMA NetworkStepTypes ==
  TypeInv /\ ((\E m \in toTracker : TrackerAnswers(m)) \/ Lose \/ Tick) => TypeInv'
<1> SUFFICES ASSUME TypeInv, (\E m \in toTracker : TrackerAnswers(m)) \/ Lose \/ Tick
             PROVE  TypeInv'
  OBVIOUS
<1> USE DEF TypeInv, TypeOK, SockStates, Connecting, client, network, http, tcpVars
<1>1. ASSUME NEW m \in toTracker, TrackerAnswers(m)
      PROVE  TypeInv'
  <2>1. fromTracker' \subseteq Datagrams
    <3>1. m \in Datagrams /\ << >> \in Lists /\ PeerLists \subseteq Lists
      BY DEF Lists
    <3> m.tid \in 1..MaxTime /\ m.cid \in ConnectionIds \cup {0}
      BY <3>1 DEF Datagrams
    <3>2. CASE \E cid \in ConnectionIds : Answer(m, "connect", cid, << >>)
      BY <3>1, <3>2, DatagramFields DEF Answer
    <3>3. CASE \E list \in PeerLists : Answer(m, "announce", m.cid, list)
      BY <3>1, <3>3, DatagramFields DEF Answer
    <3>4. CASE Answer(m, "error", 0, << >>)
      BY <3>1, <3>4, DatagramFields DEF Answer
    <3>5. QED
      BY <1>1, <3>2, <3>3, <3>4 DEF TrackerAnswers
  <2>2. toTracker' \subseteq Datagrams
    BY <1>1 DEF TrackerAnswers
  <2>3. UNCHANGED <<pc, client, now, http>>
    BY <1>1 DEF TrackerAnswers
  <2>4. QED
    BY <2>1, <2>2, <2>3 DEF Datagrams
<1>2. CASE Lose
  BY <1>2 DEF Lose
<1>3. CASE Tick
  BY <1>3 DEF Tick
<1>4. QED
  BY <1>1, <1>2, <1>3

LEMMA StutterTypes == TypeInv /\ UNCHANGED vars => TypeInv'
  BY DEF vars, client, network, http, tcpVars, TypeInv, TypeOK

LEMMA TypesInvariant == Spec => []TypeInv
<1>1. TypeInv /\ [Next]_vars => TypeInv'
  BY HttpStepTypes, UdpStepTypes, NetworkStepTypes, StutterTypes DEF Next, Client
<1>2. QED
  BY <1>1, InitTypes, PTL DEF Spec

\* Every variable of the tracker client keeps its type: in particular the time
\* spent in connect_with_timeout never runs past the deadline by more than the
\* tick in which it is noticed, and every datagram carries a transaction
\* identifier that time() has returned.
THEOREM TrackerTypes == Spec => []TypeOK
<1>1. TypeInv => TypeOK
  BY DEF TypeInv
<1>2. QED
  BY <1>1, TypesInvariant, PTL

-----------------------------------------------------------------------------
(* The udp transactions.                                                   *)

UdpPcs  == {"connect", "connect_wait", "announce", "announce_wait"}
HttpPcs == {"http", "tcp_connect", "tcp_connected", "http_send", "http_recv", "http_parse"}
           \cup Connecting

\* A call runs the steps of its url's protocol and no other.
ByProtocol == /\ pc \in UdpPcs => m_protocol = "udp"
              /\ pc \in HttpPcs => m_protocol \in {"http", "https"}

\* Every response under way was given to this call: what an earlier call's
\* socket would have received is gone.
AnswersOfThisCall ==
  \A m \in fromTracker : /\ m.kind = "connect" => m.cid \in issued
                         /\ m.kind = "announce" => m.list \in answered

UdpInv == ByProtocol /\ AnswersOfThisCall /\ ConnectionIdCurrent /\ AddressesAnswerThisCall

\* The steps of the connection and of the http client stay inside their part.
LEMMA HttpStepPcs ==
  ASSUME HttpStep \/ ConnectStep \/ HttpAnnounce \/ HttpAnnounceParses
  PROVE  /\ pc' = pc \/ (pc \in HttpPcs /\ pc' \in HttpPcs \cup {"done", "failed", "terminated"})
         /\ UNCHANGED <<m_protocol, m_announce_connection_identifier, fromTracker, issued, answered, before>>
         /\ pc = "http_parse" \/ UNCHANGED m_peer_addresses
<1> USE DEF HttpPcs, Connecting, client, network, history
<1>1. CASE HttpStep
  BY <1>1 DEF HttpStep, HttpRequest, HttpSecures, HttpSends, HttpReceiveEnds, HttpReceives,
              Unwrap, ServerCloses, ServerAnswers
<1>2. CASE ConnectStep
  BY <1>2 DEF ConnectStep, TcpStep, TcpConnect, ConnectStarts, ConnectLoops, PollReturns,
              ConnectReturns, PollInterrupted, Elapse, SockSettles
<1>3. CASE HttpAnnounce
  BY <1>3 DEF HttpAnnounce, HttpFromString
<1>4. CASE HttpAnnounceParses
  BY <1>4 DEF HttpAnnounceParses
<1>5. QED
  BY <1>1, <1>2, <1>3, <1>4

LEMMA UdpInvStep == TypeInv /\ UdpInv /\ [Next]_vars => UdpInv'
<1> SUFFICES ASSUME TypeInv, UdpInv, [Next]_vars
             PROVE  UdpInv'
  OBVIOUS
<1> USE DEF UdpInv, ByProtocol, AnswersOfThisCall, ConnectionIdCurrent, AddressesAnswerThisCall,
            UdpPcs
<1>1. CASE HttpStep \/ ConnectStep \/ HttpAnnounce \/ HttpAnnounceParses
  <2>1. /\ pc' = pc \/ (pc \in HttpPcs /\ pc' \in HttpPcs \cup {"done", "failed", "terminated"})
        /\ UNCHANGED <<m_protocol, m_announce_connection_identifier, fromTracker, issued, answered>>
        /\ pc = "http_parse" \/ UNCHANGED m_peer_addresses
    BY <1>1, HttpStepPcs
  <2>2. QED
    BY <2>1 DEF HttpPcs, Connecting
<1>2. CASE Announce
  BY <1>2 DEF Announce, HttpPcs, Connecting
<1>3. CASE ConnectSends
  BY <1>3 DEF ConnectSends, HttpPcs, Connecting, history
<1>4. CASE AnnounceSends
  BY <1>4 DEF AnnounceSends, HttpPcs, Connecting, history
<1>5. CASE UdpSendFails
  BY <1>5 DEF UdpSendFails, HttpPcs, Connecting, network, history
<1>6. ASSUME NEW m \in fromTracker, ConnectReceives(m)
      PROVE  UdpInv'
  BY <1>6 DEF ConnectReceives, Arrives, ConnectionIdStored, HttpPcs, Connecting, history
<1>7. ASSUME NEW m \in fromTracker, AnnounceReceives(m)
      PROVE  UdpInv'
  BY <1>7 DEF AnnounceReceives, Arrives, NewAddresses, HttpPcs, Connecting, history
<1>8. CASE TimesOut
  BY <1>8 DEF TimesOut, HttpPcs, Connecting, network, history
<1>9. ASSUME NEW m \in toTracker, TrackerAnswers(m)
      PROVE  UdpInv'
  <2> USE DEF TrackerAnswers, client, history
  <2>1. issued \subseteq issued' /\ answered \subseteq answered'
    BY <1>9
  <2>2. ASSUME NEW n \in fromTracker', n \notin fromTracker
        PROVE  /\ n.kind = "connect" => n.cid \in issued'
               /\ n.kind = "announce" => n.list \in answered'
    BY <1>9, <2>2 DEF Answer, Datagram
  <2>3. AnswersOfThisCall'
    BY <2>1, <2>2
  <2>4. QED
    BY <1>9, <2>1, <2>3 DEF HttpPcs, Connecting
<1>10. CASE Lose \/ Tick
  BY <1>10 DEF Lose, Tick, client, network, history
<1>11. CASE UNCHANGED vars
  BY <1>11 DEF vars, client, network, history
<1>12. QED
  BY <1>1, <1>2, <1>3, <1>4, <1>5, <1>6, <1>7, <1>8, <1>9, <1>10, <1>11 DEF Next, Client, Receive

LEMMA UdpInvariant == Spec => []UdpInv
<1>1. Init => UdpInv
  BY DEF Init, UdpInv, ByProtocol, AnswersOfThisCall, ConnectionIdCurrent,
         AddressesAnswerThisCall, UdpPcs, HttpPcs, Connecting
<1>2. QED
  BY <1>1, UdpInvStep, TypesInvariant, PTL DEF Spec

\* The addresses a successful udp announce returns are those of one answer the
\* tracker gave to this call, whatever is lost, delayed, duplicated or
\* reordered, and however often the object was asked before.
THEOREM AddressesAlwaysAnswerThisCall == Spec => []AddressesAnswerThisCall
<1>1. UdpInv => AddressesAnswerThisCall
  BY DEF UdpInv
<1>2. QED
  BY <1>1, UdpInvariant, PTL

\* An announce request never carries a connection identifier of an earlier
\* call: udp_connetion_transaction replaces the one the object remembers before
\* udp_announce uses it.
THEOREM ConnectionIdAlwaysCurrent == Spec => []ConnectionIdCurrent
<1>1. UdpInv => ConnectionIdCurrent
  BY DEF UdpInv
<1>2. QED
  BY <1>1, UdpInvariant, PTL

-----------------------------------------------------------------------------
(* The http client.                                                        *)

Addrs == {NoAddress, Garbage} \cup UNION {{list[i] : i \in DOMAIN list} : list \in PeerLists}
Atoms == {Text, NewLine, ZeroByte, [k |-> "failure"], [k |-> "end"]}
         \cup [k : {"peers"}, length : Nat] \cup [k : {"ip", "port"}, of : Addrs]

LEMMA OneMore ==
  ASSUME NEW s \in Seq(Atoms), NEW x \in Atoms
  PROVE  /\ s \o <<x>> \in Seq(Atoms) /\ Len(s \o <<x>>) = Len(s) + 1
         /\ \A i \in 1..Len(s) : (s \o <<x>>)[i] = s[i]
         /\ (s \o <<x>>)[Len(s) + 1] = x
<1>1. s \o <<x>> = Append(s, x)
  BY AppendIsConcat
<1>2. QED
  BY <1>1, AppendProperties

LEMMA HeaderAnd ==
  ASSUME NEW x \in Atoms
  PROVE  /\ Header \o <<x>> \in Seq(Atoms) /\ Len(Header \o <<x>>) = 6
         /\ \A i \in 1..5 : (Header \o <<x>>)[i] = Header[i]
         /\ (Header \o <<x>>)[6] = x
<1>1. Header \in Seq(Atoms) /\ Len(Header) = 5
  BY DEF Header, Atoms
<1> DEFINE s == Header \o <<x>>
<1>2. s \in Seq(Atoms) /\ Len(s) = Len(Header) + 1
  BY <1>1, OneMore
<1>3. \A i \in 1..Len(Header) : s[i] = Header[i]
  BY <1>1, OneMore
<1>4. s[Len(Header) + 1] = x
  BY <1>1, OneMore
<1> HIDE DEF s
<1>5. s \in Seq(Atoms) /\ Len(s) = 6 /\ (\A i \in 1..5 : s[i] = Header[i]) /\ s[6] = x
  BY <1>1, <1>2, <1>3, <1>4
<1>6. QED
  BY <1>5 DEF s

LEMMA ListTypes == \A list \in Lists : list \in Seq(Addrs)
<1>1. ASSUME NEW list \in PeerLists PROVE list \in Seq(Addrs)
  <2>1. {list[i] : i \in DOMAIN list} \subseteq Addrs
    BY DEF Addrs
  <2>2. list \in Seq({list[i] : i \in DOMAIN list})
    BY PeerListsAssumption DEF PeerListsAssumption
  <2>3. QED
    BY <2>1, <2>2, SeqMonotonic
<1>2. << >> \in Seq(Addrs)
  BY EmptySeq
<1>3. QED
  BY <1>1, <1>2 DEF Lists

\* The bytes of the string "peers" are two atoms for each address.
LEMMA AddressesShape ==
  ASSUME NEW list \in Seq(Addrs)
  PROVE  /\ Addresses(list) \in Seq(Atoms) /\ Len(Addresses(list)) = 2 * Len(list)
         /\ \A j \in 1..Len(list) : /\ Addresses(list)[2 * j - 1] = Half(list[j], "ip")
                                    /\ Addresses(list)[2 * j] = Half(list[j], "port")
         /\ \A i \in 1..(2 * Len(list)) : Addresses(list)[i].k \in {"zero", "ip", "port"}
<1> DEFINE n == Len(list)
<1>1. n \in Nat /\ \A j \in 1..n : list[j] \in Addrs
  BY LenProperties, ElementOfSeq
<1> HIDE DEF n
<1>2. ASSUME NEW x \in Addrs, NEW part \in {"ip", "port"}
      PROVE  Half(x, part) \in Atoms /\ Half(x, part).k \in {"zero", "ip", "port"}
  BY DEF Half, ZeroByte, Atoms
<1>3. 2 * n \in Nat /\ \A i \in 1..(2 * n) : /\ i % 2 = 1 => (i + 1) \div 2 \in 1..n
                                             /\ i % 2 # 1 => i \div 2 \in 1..n
  BY <1>1
<1>4. Addresses(list) = [i \in 1..(2 * n) |-> IF i % 2 = 1 THEN Half(list[(i + 1) \div 2], "ip")
                                              ELSE Half(list[i \div 2], "port")]
  BY DEF Addresses, n
<1>5. \A i \in 1..(2 * n) : /\ Addresses(list)[i] \in Atoms
                            /\ Addresses(list)[i].k \in {"zero", "ip", "port"}
  BY <1>1, <1>2, <1>3, <1>4
<1>6. Addresses(list) \in [1..(2 * n) -> Atoms]
  BY <1>4, <1>5
<1>7. Addresses(list) \in Seq(Atoms) /\ Len(Addresses(list)) = 2 * n
  BY <1>3, <1>6
<1>8. ASSUME NEW j \in 1..n
      PROVE  /\ Addresses(list)[2 * j - 1] = Half(list[j], "ip")
             /\ Addresses(list)[2 * j] = Half(list[j], "port")
  <2>1. /\ 2 * j - 1 \in 1..(2 * n) /\ (2 * j - 1) % 2 = 1 /\ (2 * j - 1 + 1) \div 2 = j
        /\ 2 * j \in 1..(2 * n) /\ (2 * j) % 2 # 1 /\ (2 * j) \div 2 = j
    BY <1>1
  <2>2. QED
    BY <1>4, <2>1
<1>9. QED
  BY <1>5, <1>7, <1>8 DEF n

\* An answer with a list: the header, the length, the addresses, the end.
LEMMA CompactShape ==
  ASSUME NEW list \in Seq(Addrs)
  PROVE  /\ Compact(list) \in Seq(Atoms) /\ Len(Compact(list)) = 2 * Len(list) + 7
         /\ \A i \in 1..5 : Compact(list)[i] = Header[i]
         /\ Compact(list)[6] = [k |-> "peers", length |-> 2 * Len(list)]
         /\ \A i \in 1..(2 * Len(list)) : Compact(list)[i + 6] = Addresses(list)[i]
         /\ Compact(list)[2 * Len(list) + 7] = [k |-> "end"]
<1> DEFINE n == Len(list)
           size == [k |-> "peers", length |-> 2 * n]
           end == [k |-> "end"]
           A == Addresses(list)
<1>1. n \in Nat
  BY LenProperties
<1>2. A \in Seq(Atoms) /\ Len(A) = 2 * n
  BY AddressesShape
<1>3. Compact(list) = Header \o <<size>> \o A \o <<end>>
  BY DEF Compact
<1>4. Header \in Seq(Atoms) /\ Len(Header) = 5
  BY DEF Header, Atoms
<1>5. size \in Atoms /\ end \in Atoms
  BY <1>1 DEF Atoms
<1>6. /\ Header \o <<size>> \in Seq(Atoms) /\ Len(Header \o <<size>>) = 6
      /\ \A i \in 1..5 : (Header \o <<size>>)[i] = Header[i]
      /\ (Header \o <<size>>)[6] = size
  BY <1>4, <1>5, HeaderAnd
<1> DEFINE front == Header \o <<size>>
<1> HIDE DEF n, size, end, A, front
<1>7. /\ front \o A \in Seq(Atoms) /\ Len(front \o A) = 6 + 2 * n
      /\ \A i \in 1..(6 + 2 * n) : (front \o A)[i] = IF i <= 6 THEN front[i] ELSE A[i - 6]
  BY <1>2, <1>6, ConcatProperties DEF front
<1> DEFINE body == front \o A
<1>8. Compact(list) = body \o <<end>>
  BY <1>3 DEF front
<1> HIDE DEF body
<1>9. /\ Compact(list) \in Seq(Atoms) /\ Len(Compact(list)) = 2 * n + 7
      /\ \A i \in 1..(2 * n + 7) : Compact(list)[i] = IF i <= 2 * n + 6 THEN body[i] ELSE end
  <2>1. body \in Seq(Atoms) /\ Len(body) = 6 + 2 * n
    BY <1>7 DEF body
  <2>2. /\ body \o <<end>> \in Seq(Atoms) /\ Len(body \o <<end>>) = Len(body) + 1
        /\ \A i \in 1..Len(body) : (body \o <<end>>)[i] = body[i]
        /\ (body \o <<end>>)[Len(body) + 1] = end
    BY <1>5, <2>1, OneMore
  <2>3. QED
    BY <1>1, <1>8, <2>1, <2>2
<1>10. \A i \in 1..(6 + 2 * n) : body[i] = IF i <= 6 THEN front[i] ELSE A[i - 6]
  BY <1>7 DEF body
<1>11. (\A i \in 1..5 : front[i] = Header[i]) /\ front[6] = size
  BY <1>6 DEF front
<1>12. \A i \in 1..5 : Compact(list)[i] = Header[i]
  BY <1>1, <1>9, <1>10, <1>11
<1>13. Compact(list)[6] = size /\ Compact(list)[2 * n + 7] = end
  BY <1>1, <1>9, <1>10, <1>11
<1>14. \A i \in 1..(2 * n) : Compact(list)[i + 6] = A[i]
  BY <1>1, <1>9, <1>10
<1>15. QED
  BY <1>9, <1>12, <1>13, <1>14 DEF n, size, end, A

\* Every answer starts with the header and has no newline behind it.
LEMMA ResponseShape ==
  ASSUME NEW r \in Responses
  PROVE  /\ r \in Seq(Atoms) /\ Len(r) >= 6
         /\ \A i \in 1..5 : r[i] = Header[i]
         /\ \A i \in 6..Len(r) : r[i] # NewLine
<1>1. ASSUME NEW list \in Lists, r = Compact(list)
      PROVE  /\ r \in Seq(Atoms) /\ Len(r) >= 6
             /\ \A i \in 1..5 : r[i] = Header[i]
             /\ \A i \in 6..Len(r) : r[i].k # "newline"
  <2> DEFINE n == Len(list)
  <2>1. list \in Seq(Addrs)
    BY ListTypes
  <2>2. n \in Nat
    BY <2>1, LenProperties
  <2>3. /\ r \in Seq(Atoms) /\ Len(r) = 2 * n + 7
        /\ \A i \in 1..5 : r[i] = Header[i]
        /\ r[6] = [k |-> "peers", length |-> 2 * n] /\ r[2 * n + 7] = [k |-> "end"]
        /\ \A i \in 1..(2 * n) : r[i + 6] = Addresses(list)[i]
    BY <1>1, <2>1, CompactShape
  <2>4. \A i \in 1..(2 * n) : Addresses(list)[i].k \in {"zero", "ip", "port"}
    BY <2>1, AddressesShape
  <2> HIDE DEF n
  <2>5. ASSUME NEW i \in 6..(2 * n + 7)
        PROVE  r[i].k # "newline"
    <3>1. CASE i = 6 \/ i = 2 * n + 7
      BY <2>3, <3>1
    <3>2. CASE i \in 7..(2 * n + 6)
      <4>1. i - 6 \in 1..(2 * n) /\ (i - 6) + 6 = i
        BY <2>2, <3>2
      <4>2. r[i] = Addresses(list)[i - 6]
        BY <2>3, <4>1
      <4>3. QED
        BY <2>4, <4>1, <4>2
    <3>3. QED
      BY <2>2, <3>1, <3>2
  <2>6. QED
    BY <2>2, <2>3, <2>5
<1>2. ASSUME NEW x \in {[k |-> "failure"], Text}, r = Header \o <<x>>
      PROVE  /\ r \in Seq(Atoms) /\ Len(r) >= 6
             /\ \A i \in 1..5 : r[i] = Header[i]
             /\ \A i \in 6..Len(r) : r[i].k # "newline"
  <2>2. x \in Atoms /\ x.k # "newline"
    BY DEF Atoms, Text
  <2>3. /\ r \in Seq(Atoms) /\ Len(r) = 6 /\ r[6] = x
        /\ \A i \in 1..5 : r[i] = Header[i]
    BY <1>2, <2>2, HeaderAnd
  <2>4. QED
    BY <2>2, <2>3
<1>3. /\ r \in Seq(Atoms) /\ Len(r) >= 6
      /\ \A i \in 1..5 : r[i] = Header[i]
      /\ \A i \in 6..Len(r) : r[i].k # "newline"
  BY <1>1, <1>2 DEF Responses, Lists
<1>4. NewLine.k = "newline"
  BY DEF NewLine
<1>5. QED
  BY <1>3, <1>4

\* Only an answer with a list has an atom "peers".
LEMMA PeersAtom ==
  ASSUME NEW r \in Responses
  PROVE  \/ \E list \in Lists : r = Compact(list)
         \/ Len(r) = 6 /\ r[6].k \in {"failure", "text"} /\ \A i \in 1..6 : r[i].k # "peers"
<1>1. CASE \E list \in Lists : r = Compact(list)
  BY <1>1
<1>2. ASSUME NEW x \in {[k |-> "failure"], Text}, r = Header \o <<x>>
      PROVE  Len(r) = 6 /\ r[6].k \in {"failure", "text"} /\ \A i \in 1..6 : r[i].k # "peers"
  <2>1. x \in Atoms /\ x.k \in {"failure", "text"}
    BY DEF Atoms, Text
  <2>2. Len(r) = 6 /\ r[6] = x /\ \A i \in 1..5 : r[i] = Header[i]
    BY <1>2, <2>1, HeaderAnd
  <2>3. \A i \in 1..5 : Header[i].k # "peers"
    BY DEF Header, Text, NewLine
  <2>4. QED
    BY <2>1, <2>2, <2>3
<1>3. QED
  BY <1>1, <1>2 DEF Responses, Lists

\* The body of a beginning of an answer: what follows the header, or all of it
\* when the header has not come whole.
LEMMA BodyShape ==
  ASSUME NEW r \in Responses, NEW s \in Seq(Atoms),
         Len(s) <= Len(r), \A i \in 1..Len(s) : s[i] = r[i]
  PROVE  /\ Body(s) \in Seq(Atoms)
         /\ Len(s) < 5 => Body(s) = s /\ (s # << >> => s[1] = Text)
         /\ Len(s) >= 5 => /\ Body(s) # s /\ Len(Body(s)) = Len(s) - 5
                           /\ \A i \in 1..(Len(s) - 5) : Body(s)[i] = r[i + 5]
<1> DEFINE n == Len(s)
<1>1. n \in Nat /\ \A i \in 1..n : s[i] \in Atoms
  BY LenProperties, ElementOfSeq
<1>2. /\ \A i \in 1..5 : r[i] = Header[i]
      /\ \A i \in 6..Len(r) : r[i] # NewLine
      /\ Len(r) \in Nat
  BY ResponseShape, LenProperties
<1>3. /\ Header[1] = Text /\ Header[2] = NewLine /\ Header[3] = Text
      /\ Header[4] = NewLine /\ Header[5] = NewLine /\ Text # NewLine
  BY DEF Header, Text, NewLine
<1> HIDE DEF n
<1>4. EmptyLine(s) = {i \in 2..n : s[i - 1] = NewLine /\ s[i] = NewLine}
  BY DEF EmptyLine, n
<1>5. /\ n <= Len(r) /\ \A i \in 1..n : s[i] = r[i]
  BY DEF n
<1>6. ASSUME NEW i \in EmptyLine(s) PROVE i = 5
  <2>1. i \in 2..n /\ s[i - 1] = NewLine /\ s[i] = NewLine
    BY <1>4
  <2>2. i - 1 \in 1..n /\ i \in 1..n /\ i - 1 \in Nat
    BY <1>1, <2>1
  <2>3. r[i - 1] = NewLine /\ r[i] = NewLine
    BY <1>5, <2>1, <2>2
  <2>4. i < 6
    BY <1>1, <1>2, <1>5, <2>1, <2>3
  <2>5. i \in 1..5 /\ i - 1 \in 1..5
    BY <1>1, <2>1, <2>4
  <2>6. Header[i] = NewLine /\ Header[i - 1] = NewLine
    BY <1>2, <2>3, <2>5
  <2>7. i # 2 /\ i # 3 /\ i # 4
    BY <1>3, <2>6
  <2>8. QED
    BY <2>1, <2>4, <2>7, <1>1
<1>7. CASE n < 5
  <2>1. EmptyLine(s) = {}
    BY <1>1, <1>4, <1>6, <1>7
  <2>2. Body(s) = s
    BY <2>1 DEF Body
  <2>3. s # << >> => s[1] = Text
    <3>1. s # << >> => n \in Nat \ {0}
      BY EmptySeq DEF n
    <3>2. QED
      BY <1>1, <1>2, <1>3, <1>5, <3>1
  <2>4. QED
    BY <1>1, <1>7, <2>2, <2>3 DEF n
<1>8. CASE n >= 5
  <2>1. 5 \in EmptyLine(s)
    <3>1. s[4] = NewLine /\ s[5] = NewLine
      BY <1>1, <1>2, <1>3, <1>5, <1>8
    <3>2. QED
      BY <1>1, <1>4, <1>8, <3>1
  <2>2. EmptyLine(s) = {5}
    BY <1>6, <2>1
  <2>3. (CHOOSE i \in EmptyLine(s) : \A j \in EmptyLine(s) : i <= j) = 5
    BY <2>2
  <2>4. Body(s) = SubSeq(s, 6, n)
    BY <2>2, <2>3 DEF Body, n
  <2>5. \A i \in 6..n : s[i] \in Atoms
    BY <1>1
  <2>6. /\ SubSeq(s, 6, n) \in Seq(Atoms)
        /\ Len(SubSeq(s, 6, n)) = IF 6 <= n THEN n - 6 + 1 ELSE 0
        /\ \A i \in 1..n - 6 + 1 : SubSeq(s, 6, n)[i] = s[6 + i - 1]
    BY <1>1, <2>5, SubSeqProperties
  <2>7. Len(Body(s)) = n - 5
    BY <1>1, <1>8, <2>4, <2>6
  <2>8. \A i \in 1..(n - 5) : Body(s)[i] = r[i + 5]
    <3>1. ASSUME NEW i \in 1..(n - 5) PROVE SubSeq(s, 6, n)[i] = r[i + 5]
      <4>1. i \in 1..n - 6 + 1 /\ 6 + i - 1 = i + 5 /\ i + 5 \in 1..n
        BY <1>1, <1>8
      <4>2. QED
        BY <1>5, <2>6, <4>1
    <3>2. QED
      BY <2>4, <3>1
  <2>9. Body(s) # s
    BY <1>1, <2>7 DEF n
  <2>10. QED
    BY <1>1, <1>8, <2>4, <2>6, <2>7, <2>8, <2>9 DEF n
<1>9. QED
  BY <1>1, <1>7, <1>8

LEMMA EmptyBody == Body(<< >>) = << >>
<1>1. EmptyLine(<< >>) = {}
  BY DEF EmptyLine
<1>2. QED
  BY <1>1 DEF Body

\* The loop over the entries stops at the first zero one, and at MAX_PEERS.
LEMMA ListedShape ==
  ASSUME NEW s \in Seq(Addrs)
  PROVE  \E m \in 0..Len(s) :
           /\ Listed(s) \in Seq(Addrs) /\ Len(Listed(s)) = m
           /\ \A i \in 1..m : Listed(s)[i] = s[i]
           /\ \A k \in 1..Len(s) :
                k <= m <=> k <= MaxPeers /\ \A j \in 1..k : s[j] # NoAddress
<1> DEFINE n == Len(s)
           ends == {k \in 1..n : s[k] = NoAddress}
           shown == {k \in 1..n : k <= MaxPeers /\ \A e \in ends : k < e}
           m == IF shown = {} THEN 0 ELSE CHOOSE k \in shown : \A j \in shown : j <= k
<1>1. n \in Nat /\ \A i \in 1..n : s[i] \in Addrs
  BY LenProperties, ElementOfSeq
<1>2. Listed(s) = SubSeq(s, 1, m)
  BY DEF Listed
<1> HIDE DEF n
<1>3. shown # {} => m \in shown /\ \A j \in shown : j <= m
  <2> SUFFICES ASSUME shown # {} PROVE m \in shown /\ \A j \in shown : j <= m
    OBVIOUS
  <2>1. \E k \in shown : \A j \in shown : j <= k
    <3>1. shown \in SUBSET (1..n)
      OBVIOUS
    <3> HIDE DEF shown
    <3>2. QED
      BY <1>1, <3>1, Greatest
  <2> HIDE DEF shown
  <2>2. QED
    BY <2>1
<1>4. \A k \in 1..n : k \in shown <=> k <= MaxPeers /\ \A j \in 1..k : s[j] # NoAddress
  <2>1. ASSUME NEW k \in 1..n
        PROVE  (\A e \in ends : k < e) <=> \A j \in 1..k : s[j] # NoAddress
    BY <1>1
  <2>2. QED
    BY <2>1
<1>5. m \in 0..n
  BY <1>1, <1>3
<1>6. ASSUME NEW k \in 1..n PROVE k <= m <=> k \in shown
  <2>1. CASE k \in shown
    BY <1>3, <2>1
  <2>2. CASE k <= m
    <3>1. m # 0
      <4> HIDE DEF m
      <4>1. QED
        BY <1>1, <1>5, <2>2
    <3>2. m \in shown
      BY <1>3, <3>1
    <3> HIDE DEF m
    <3>3. k \in shown
      BY <1>1, <2>2, <3>2
    <3>4. QED
      BY <2>2, <3>3
  <2>3. QED
    BY <2>1, <2>2
<1> HIDE DEF m, shown
<1>7. \A i \in 1..m : s[i] \in Addrs
  BY <1>1, <1>5
<1>8. /\ Listed(s) \in Seq(Addrs) /\ Len(Listed(s)) = m
      /\ \A i \in 1..m : Listed(s)[i] = s[i]
  <2>1. /\ SubSeq(s, 1, m) \in Seq(Addrs)
        /\ Len(SubSeq(s, 1, m)) = IF 1 <= m THEN m - 1 + 1 ELSE 0
        /\ \A i \in 1..m - 1 + 1 : SubSeq(s, 1, m)[i] = s[1 + i - 1]
    BY <1>1, <1>5, <1>7, SubSeqProperties
  <2>2. m \in Nat /\ m - 1 + 1 = m
    BY <1>1, <1>5
  <2>3. \A i \in 1..m : 1 + i - 1 = i
    BY <2>2
  <2>4. QED
    BY <1>2, <2>1, <2>2, <2>3
<1>9. QED
  BY <1>4, <1>5, <1>6, <1>8 DEF n

\* The entries made of an answer that was cut behind the first b atoms of its
\* body: those before the cut are the tracker's, those behind it zero, and one
\* that the cut divides is zero or garbage.
LEMMA EntriesShape ==
  ASSUME NEW list \in Seq(Addrs), NEW b \in Seq(Atoms),
         Len(b) \in 1..(2 * Len(list) + 2),
         \A i \in 1..Len(b) : b[i] = Compact(list)[i + 5]
  PROVE  LET E == Entries(PeersString(b)) IN
         /\ E \in Seq(Addrs) /\ Len(E) = Len(list)
         /\ \A j \in 1..Len(list) :
              /\ 2 * j < Len(b) => E[j] = list[j]
              /\ 2 * j = Len(b) /\ list[j] = NoAddress => E[j] = NoAddress
              /\ 2 * j > Len(b) => E[j] = NoAddress
<1> DEFINE n == Len(list)
           p == Len(b)
           P == PeersString(b)
           E == Entries(P)
<1>1. n \in Nat /\ p \in 1..(2 * n + 2) /\ \A j \in 1..n : list[j] \in Addrs
  BY LenProperties, ElementOfSeq
<1>2. b[1].length = 2 * n
  <2>1. Compact(list)[6] = [k |-> "peers", length |-> 2 * n]
    BY CompactShape
  <2>2. 1 \in 1..Len(b) /\ 1 + 5 = 6
    BY <1>1
  <2>3. b[1] = Compact(list)[6]
    BY <2>2
  <2>4. QED
    BY <2>1, <2>3
<1>3. P = [i \in 1..(2 * n) |-> IF i < p THEN b[i + 1] ELSE ZeroByte]
  BY <1>2 DEF PeersString
<1>4. ASSUME NEW i \in 1..(2 * n)
      PROVE  /\ i < p => P[i] = Addresses(list)[i]
             /\ i >= p => P[i] = ZeroByte
  <2> HIDE DEF n, p
  <2>1. P[i] = IF i < p THEN b[i + 1] ELSE ZeroByte
    BY <1>3
  <2>2. CASE i < p
    <3>1. i + 1 \in 1..p /\ (i + 1) + 5 = i + 6
      BY <1>1, <2>2
    <3>2. b[i + 1] = Compact(list)[i + 6]
      BY <3>1 DEF p
    <3>3. Compact(list)[i + 6] = Addresses(list)[i]
      BY CompactShape DEF n
    <3>4. QED
      BY <1>1, <2>1, <2>2, <3>2, <3>3
  <2>3. QED
    BY <1>1, <2>1, <2>2
<1>5. Len(P) = 2 * n /\ (2 * n) \div 2 = n
  <2> HIDE DEF n, p, P
  <2>1. 2 * n \in Nat /\ DOMAIN P = 1..(2 * n)
    BY <1>1, <1>3
  <2>2. QED
    BY <1>1, <1>3, <2>1
<1>6. E = [j \in 1..n |-> Entry(P[2 * j - 1], P[2 * j])]
  BY <1>5 DEF Entries
<1> HIDE DEF n, p, P
<1>7. ASSUME NEW j \in 1..n
      PROVE  /\ 2 * j - 1 < p => P[2 * j - 1] = Half(list[j], "ip")
             /\ 2 * j < p => P[2 * j] = Half(list[j], "port")
             /\ 2 * j - 1 >= p => P[2 * j - 1] = ZeroByte
             /\ 2 * j >= p => P[2 * j] = ZeroByte
  <2>1. 2 * j - 1 \in 1..(2 * n) /\ 2 * j \in 1..(2 * n)
    BY <1>1
  <2>2. Addresses(list)[2 * j - 1] = Half(list[j], "ip") /\ Addresses(list)[2 * j] = Half(list[j], "port")
    BY AddressesShape DEF n
  <2>3. QED
    BY <1>4, <2>1, <2>2
<1>8. ASSUME NEW x PROVE /\ Entry(Half(x, "ip"), Half(x, "port")) = x
                         /\ Entry(Half(x, "ip"), ZeroByte) \in {NoAddress, Garbage}
                         /\ x = NoAddress => Entry(Half(x, "ip"), ZeroByte) = NoAddress
  BY DEF Entry, Half, ZeroByte
<1>9. Entry(ZeroByte, ZeroByte) = NoAddress
  BY DEF Entry
<1>10. ASSUME NEW j \in 1..n
       PROVE  /\ E[j] \in Addrs
              /\ 2 * j < p => E[j] = list[j]
              /\ 2 * j = p /\ list[j] = NoAddress => E[j] = NoAddress
              /\ 2 * j > p => E[j] = NoAddress
  <2>1. E[j] = Entry(P[2 * j - 1], P[2 * j])
    BY <1>6
  <2> HIDE DEF E
  <2>2. CASE 2 * j < p
    <3>1. 2 * j - 1 < p
      BY <1>1, <2>2
    <3>2. E[j] = list[j]
      BY <1>7, <1>8, <2>1, <2>2, <3>1
    <3>3. QED
      BY <1>1, <2>2, <3>2
  <2>3. CASE 2 * j = p
    <3>1. 2 * j - 1 < p /\ 2 * j >= p /\ ~(2 * j < p) /\ ~(2 * j > p)
      BY <1>1, <2>3
    <3>2. E[j] = Entry(Half(list[j], "ip"), ZeroByte)
      BY <1>7, <2>1, <3>1
    <3>3. E[j] \in {NoAddress, Garbage} /\ (list[j] = NoAddress => E[j] = NoAddress)
      BY <1>8, <3>2
    <3>4. QED
      BY <3>1, <3>3 DEF Addrs
  <2>4. CASE 2 * j > p
    <3>1. 2 * j - 1 >= p /\ 2 * j >= p /\ ~(2 * j < p) /\ 2 * j # p
      BY <1>1, <2>4
    <3>2. E[j] = NoAddress
      BY <1>7, <1>9, <2>1, <3>1
    <3>3. QED
      BY <3>1, <3>2 DEF Addrs
  <2>5. 2 * j < p \/ 2 * j = p \/ 2 * j > p
    <3>1. 2 * j \in Nat /\ p \in Nat
      BY <1>1
    <3>2. QED
      BY <3>1
  <2>6. QED
    BY <2>2, <2>3, <2>4, <2>5
<1>11. E \in [1..n -> Addrs]
  BY <1>6, <1>10
<1> HIDE DEF E
<1>12. E \in Seq(Addrs) /\ Len(E) = n
  BY <1>1, <1>11
<1>13. QED
  BY <1>10, <1>12 DEF n, p, E, P

HttpTypes ==
  /\ received \in Seq(Atoms) /\ toClient \in Seq(Atoms)
  /\ response \in Responses \cup {<< >>}
  /\ m_data_size \in Nat /\ m_peer_addresses \in Seq(Addrs)

\* The socket is blocking again once connect_with_timeout is over.
Blocking == pc \notin Connecting => nonblocking = FALSE

\* Nothing has been received before the request is sent, and m_data keeps room
\* for one more receive behind what has.
Fresh == pc \in {"tcp_connect", "tcp_connected", "http_send"} \cup Connecting =>
           received = << >> /\ toClient = << >> /\ response = << >> /\ m_data_size = 0
Room  == pc = "http_recv" => m_data_size = Len(received) + RecvSize

\* What has been received is a beginning of the answer, and what is under way
\* comes next in it.
InOrder ==
  /\ Len(received) + Len(toClient) <= Len(response)
  /\ \A i \in 1..Len(received) : received[i] = response[i]
  /\ \A i \in 1..Len(toClient) : toClient[i] = response[Len(received) + i]

\* Only an http call receives an answer, and it has added no address before
\* it has parsed it.
NothingAdded == /\ pc \in HttpPcs => before = m_peer_addresses
                /\ m_protocol \notin {"http", "https"} => response = << >>

HttpInv == HttpTypes /\ Blocking /\ Fresh /\ Room /\ InOrder /\ NothingAdded
           /\ ExceptionHasCause /\ HttpAddressesGenuine

\* What was received and answered, and what the call added, are facts once the
\* call is over: only parsing the answer can make them true, and nothing that
\* leaves them alone makes them false.
LEMMA ResultsKept ==
  ASSUME HttpInv, UNCHANGED <<received, response, m_peer_addresses, before>>,
         pc' = pc \/ pc' \notin {"done", "terminated"},
         sock \in {"refused", "reset"} => sock' = sock
  PROVE  HttpAddressesGenuine' /\ ExceptionHasCause'
<1>1. HttpAddressesGenuine'
  BY DEF HttpInv, HttpAddressesGenuine
<1>2. ExceptionHasCause'
  BY DEF HttpInv, ExceptionHasCause
<1>3. QED
  BY <1>1, <1>2

LEMMA OtherStepHttp ==
  ASSUME HttpInv, UNCHANGED <<pc, http, m_protocol, m_peer_addresses, before>>
  PROVE  HttpInv'
<1>1. UNCHANGED <<sock, nonblocking, m_data_size, received, toClient, response>>
  BY DEF http, tcpVars, httpVars
<1>2. HttpAddressesGenuine' /\ ExceptionHasCause'
  BY <1>1, ResultsKept
<1>3. QED
  BY <1>1, <1>2 DEF HttpInv, HttpTypes, Blocking, Fresh, Room, InOrder, NothingAdded

LEMMA CompactNotEmpty == \A list \in Lists : Compact(list) # << >>
<1>1. ASSUME NEW list \in Lists PROVE Compact(list) # << >>
  <2>1. list \in Seq(Addrs)
    BY ListTypes
  <2>2. Len(list) \in Nat /\ Len(Compact(list)) = 2 * Len(list) + 7
    BY <2>1, LenProperties, CompactShape
  <2>3. Len(<< >>) = 0
    BY EmptySeq
  <2>4. QED
    BY <2>2, <2>3
<1>2. QED
  BY <1>1

LEMMA UdpStepHttp ==
  ASSUME TypeInv, UdpInv, HttpInv, ConnectSends \/ AnnounceSends \/ UdpSendFails \/ Receive \/ TimesOut
  PROVE  HttpInv'
<1>1. /\ pc \in UdpPcs /\ pc' \in UdpPcs \cup {"done", "failed"}
      /\ UNCHANGED <<http, m_protocol, before>>
  BY DEF ConnectSends, AnnounceSends, UdpSendFails, Receive, ConnectReceives, AnnounceReceives,
         TimesOut, UdpPcs, history
<1>2. UNCHANGED <<sock, nonblocking, m_data_size, received, toClient, response>>
  BY <1>1 DEF http, tcpVars, httpVars
<1>3. m_peer_addresses' \in Seq(Addrs)
  <2>1. CASE UNCHANGED m_peer_addresses
    BY <2>1 DEF HttpInv, HttpTypes
  <2>2. ASSUME NEW m \in fromTracker, m_peer_addresses' = Listed(m.list)
        PROVE  m_peer_addresses' \in Seq(Addrs)
    <3>1. m.list \in Lists
      BY DEF TypeInv, Datagrams
    <3>2. m.list \in Seq(Addrs)
      BY <3>1, ListTypes
    <3>3. QED
      BY <2>2, <3>2, ListedShape
  <2>3. QED
    BY <2>1, <2>2 DEF ConnectSends, AnnounceSends, UdpSendFails, Receive, ConnectReceives,
                      AnnounceReceives, NewAddresses, TimesOut
<1>4. m_protocol = "udp"
  BY <1>1 DEF UdpInv, ByProtocol
<1>5. response = << >>
  BY <1>4 DEF HttpInv, NothingAdded
<1>6. HttpAddressesGenuine'
  BY <1>2, <1>5, CompactNotEmpty DEF HttpAddressesGenuine, Lists
<1>7. Blocking' /\ Fresh' /\ Room' /\ NothingAdded' /\ ExceptionHasCause'
  BY <1>1, <1>2, <1>4 DEF HttpInv, Blocking, Fresh, Room, NothingAdded, ExceptionHasCause,
                          UdpPcs, HttpPcs, Connecting
<1>8. HttpTypes' /\ InOrder'
  BY <1>2, <1>3 DEF HttpInv, HttpTypes, InOrder
<1>9. QED
  BY <1>6, <1>7, <1>8 DEF HttpInv

LEMMA AnnounceHttp == HttpInv /\ Announce => HttpInv'
<1> SUFFICES ASSUME HttpInv, Announce PROVE HttpInv'
  OBVIOUS
<1>1. /\ pc \in {"idle", "done", "failed"} /\ pc' \in {"failed", "http", "connect"}
      /\ UNCHANGED <<http, m_protocol, m_peer_addresses>> /\ before' = m_peer_addresses
  BY DEF Announce
<1>2. UNCHANGED <<sock, nonblocking, m_data_size, received, toClient, response>>
  BY <1>1 DEF http, tcpVars, httpVars
<1>3. HttpAddressesGenuine' /\ ExceptionHasCause'
  BY <1>1 DEF HttpAddressesGenuine, ExceptionHasCause
<1>4. Blocking' /\ Fresh' /\ Room' /\ NothingAdded'
  BY <1>1, <1>2 DEF HttpInv, Blocking, Fresh, Room, NothingAdded, Connecting
<1>5. HttpTypes' /\ InOrder'
  BY <1>1, <1>2 DEF HttpInv, HttpTypes, InOrder
<1>6. QED
  BY <1>3, <1>4, <1>5 DEF HttpInv

LEMMA HttpAnnounceHttp == UdpInv /\ HttpInv /\ HttpAnnounce => HttpInv'
<1> SUFFICES ASSUME UdpInv, HttpInv, HttpAnnounce PROVE HttpInv'
  OBVIOUS
<1>1. /\ pc = "http" /\ pc' \in {"tcp_connect", "failed"} /\ nonblocking' = FALSE
      /\ m_data_size' = 0 /\ received' = << >> /\ toClient' = << >> /\ response' = << >>
      /\ UNCHANGED <<m_protocol, m_peer_addresses, before>>
  BY DEF HttpAnnounce, HttpFromString, client, history
<1>2. HttpAddressesGenuine' /\ ExceptionHasCause'
  BY <1>1 DEF HttpAddressesGenuine, ExceptionHasCause
<1>3. Blocking' /\ Fresh' /\ Room' /\ NothingAdded'
  BY <1>1 DEF HttpInv, Blocking, Fresh, Room, NothingAdded, Connecting, HttpPcs
<1>4. Len(<< >>) = 0 /\ << >> \in Seq(Atoms)
  BY EmptySeq
<1>5. HttpTypes' /\ InOrder'
  BY <1>1, <1>4 DEF HttpInv, HttpTypes, InOrder
<1>6. QED
  BY <1>2, <1>3, <1>5 DEF HttpInv

LEMMA ConnectStepHttp == UdpInv /\ HttpInv /\ ConnectStep => HttpInv'
<1> SUFFICES ASSUME UdpInv, HttpInv, ConnectStep PROVE HttpInv'
  OBVIOUS
<1>1. UNCHANGED <<m_data_size, received, toClient, response, m_protocol, m_peer_addresses, before>>
  BY DEF ConnectStep, client, history, httpVars
<1>2. /\ \/ UNCHANGED <<pc, nonblocking>>
         \/ /\ pc \in {"tcp_connect"} \cup Connecting
            /\ pc' \in {"failed", "tcp_connected"} \cup Connecting
            /\ pc' \notin Connecting => nonblocking' = FALSE \/ (pc \notin Connecting /\ UNCHANGED nonblocking)
      /\ sock \in {"refused", "reset"} => sock' = sock \/ pc = "tcp_connect"
  BY DEF ConnectStep, TcpStep, TcpConnect, ConnectStarts, ConnectLoops, PollReturns,
         ConnectReturns, FlagsRestored, PollInterrupted, Elapse, SockSettles, Connecting, tcpVars
<1>3. HttpAddressesGenuine'
  BY <1>1, <1>2 DEF HttpInv, HttpAddressesGenuine, Connecting
<1>4. ExceptionHasCause'
  BY <1>1, <1>2 DEF HttpInv, ExceptionHasCause, Connecting
<1>5. Blocking'
  BY <1>2 DEF HttpInv, Blocking, Connecting
<1>6. Fresh' /\ Room' /\ NothingAdded'
  BY <1>1, <1>2 DEF HttpInv, Fresh, Room, NothingAdded, Connecting, HttpPcs
<1>7. HttpTypes' /\ InOrder'
  BY <1>1 DEF HttpInv, HttpTypes, InOrder
<1>8. QED
  BY <1>3, <1>4, <1>5, <1>6, <1>7 DEF HttpInv

LEMMA HttpSendsHttp ==
  ASSUME HttpInv, HttpSecures \/ HttpSends \/ HttpReceiveEnds,
         UNCHANGED <<client, now, network, history, m_port>>
  PROVE  HttpInv'
<1>1. UNCHANGED <<sock, nonblocking, received, toClient, response, m_protocol, m_peer_addresses, before>>
  BY DEF HttpSecures, HttpSends, HttpReceiveEnds, client, history, tcpVars, httpVars
<1>2. \/ pc = "tcp_connected" /\ pc' \in {"http_send", "failed"} /\ UNCHANGED m_data_size
      \/ pc = "http_send" /\ pc' = "http_recv" /\ m_data_size' = RecvSize
      \/ pc = "http_send" /\ pc' \in {"failed", "terminated"} /\ UNCHANGED m_data_size
      \/ pc = "http_recv" /\ pc' \in {"http_parse", "terminated"} /\ UNCHANGED m_data_size
  BY DEF HttpSecures, HttpSends, HttpReceiveEnds, Unwrap, httpVars
<1>3. nonblocking = FALSE
  BY <1>2 DEF HttpInv, Blocking, Connecting
<1>4. pc' = "terminated" => sock \in {"refused", "reset"}
  BY <1>2, <1>3 DEF HttpSecures, HttpSends, HttpReceiveEnds, SendFails, WouldBlock, Unwrap
<1>5. HttpAddressesGenuine' /\ ExceptionHasCause'
  BY <1>1, <1>2, <1>4 DEF HttpAddressesGenuine, ExceptionHasCause
<1>6. Blocking' /\ NothingAdded'
  BY <1>1, <1>2, <1>3 DEF HttpInv, Blocking, NothingAdded, Connecting, HttpPcs
<1>7. Fresh' /\ HttpTypes' /\ InOrder'
  BY <1>1, <1>2 DEF HttpInv, HttpTypes, InOrder, Fresh, Connecting
<1>8. Room'
  <2>1. Len(<< >>) = 0
    BY EmptySeq
  <2>2. CASE pc = "http_send" /\ pc' = "http_recv" /\ m_data_size' = RecvSize
    BY <1>1, <2>1, <2>2 DEF HttpInv, Fresh, Room
  <2>3. QED
    BY <1>2, <2>2 DEF Room
<1>9. QED
  BY <1>5, <1>6, <1>7, <1>8 DEF HttpInv

LEMMA HttpReceivesHttp ==
  ASSUME HttpInv, NEW size \in 1..RecvSize, HttpReceives(size),
         UNCHANGED <<client, now, network, history, m_port>>
  PROVE  HttpInv'
<1> DEFINE n == Len(received)
           t == Len(toClient)
           part == SubSeq(toClient, 1, size)
           rest == SubSeq(toClient, size + 1, t)
<1>1. /\ pc = "http_recv" /\ size <= t
      /\ received' = received \o part /\ toClient' = rest
      /\ m_data_size' = m_data_size + size
      /\ UNCHANGED <<pc, sock, nonblocking, response, m_protocol, m_peer_addresses, before>>
  BY DEF HttpReceives, Resized, client, history, tcpVars
<1>2. n \in Nat /\ t \in Nat /\ size \in Nat /\ \A i \in 1..t : toClient[i] \in Atoms
  BY LenProperties, ElementOfSeq DEF HttpInv, HttpTypes
<1> HIDE DEF n, t
<1>3. part \in Seq(Atoms) /\ Len(part) = size /\ \A i \in 1..size : part[i] = toClient[i]
  <2>1. \A i \in 1..size : toClient[i] \in Atoms
    BY <1>1, <1>2
  <2>2. /\ part \in Seq(Atoms) /\ Len(part) = IF 1 <= size THEN size - 1 + 1 ELSE 0
        /\ \A i \in 1..size - 1 + 1 : part[i] = toClient[1 + i - 1]
    BY <1>2, <2>1, SubSeqProperties
  <2>3. size - 1 + 1 = size /\ \A i \in 1..size : 1 + i - 1 = i
    BY <1>2
  <2>4. QED
    BY <2>2, <2>3
<1>4. rest \in Seq(Atoms) /\ Len(rest) = t - size /\ \A i \in 1..(t - size) : rest[i] = toClient[size + i]
  <2>1. \A i \in size + 1..t : toClient[i] \in Atoms
    BY <1>1, <1>2
  <2>2. /\ rest \in Seq(Atoms) /\ Len(rest) = IF size + 1 <= t THEN t - (size + 1) + 1 ELSE 0
        /\ \A i \in 1..t - (size + 1) + 1 : rest[i] = toClient[size + 1 + i - 1]
    BY <1>2, <2>1, SubSeqProperties
  <2>3. t - (size + 1) + 1 = t - size /\ \A i \in 1..(t - size) : size + 1 + i - 1 = size + i
    BY <1>1, <1>2
  <2> HIDE DEF rest
  <2>4. QED
    BY <1>1, <1>2, <2>2, <2>3
<1> HIDE DEF part, rest
<1>5. /\ received' \in Seq(Atoms) /\ Len(received') = n + size
      /\ \A i \in 1..(n + size) : received'[i] = IF i <= n THEN received[i] ELSE part[i - n]
  BY <1>1, <1>3, ConcatProperties DEF HttpInv, HttpTypes, n
<1>6. HttpTypes'
  BY <1>1, <1>2, <1>4, <1>5 DEF HttpInv, HttpTypes
<1>7. InOrder'
  <2>1. /\ n + t <= Len(response) /\ \A i \in 1..n : received[i] = response[i]
        /\ \A i \in 1..t : toClient[i] = response[n + i]
    BY DEF HttpInv, InOrder, n, t
  <2>2. Len(received') + Len(toClient') <= Len(response)
    BY <1>1, <1>2, <1>4, <1>5, <2>1
  <2>3. ASSUME NEW i \in 1..(n + size) PROVE received'[i] = response[i]
    <3>1. CASE i <= n
      BY <1>2, <1>5, <2>1, <3>1
    <3>2. CASE ~(i <= n)
      <4>1. i - n \in 1..size /\ i - n \in 1..t /\ n + (i - n) = i
        BY <1>1, <1>2, <3>2
      <4>2. QED
        BY <1>3, <1>5, <2>1, <3>2, <4>1
    <3>3. QED
      BY <3>1, <3>2
  <2>4. ASSUME NEW i \in 1..(t - size) PROVE toClient'[i] = response[n + size + i]
    <3>1. size + i \in 1..t /\ n + (size + i) = n + size + i
      BY <1>1, <1>2
    <3>2. QED
      BY <1>1, <1>4, <2>1, <3>1
  <2>5. QED
    BY <1>1, <1>4, <1>5, <2>2, <2>3, <2>4 DEF InOrder
<1>8. Room'
  <2>1. m_data_size = n + RecvSize
    BY <1>1 DEF HttpInv, Room, n
  <2>2. QED
    BY <1>1, <1>2, <1>5, <2>1 DEF Room
<1>9. Blocking' /\ Fresh' /\ NothingAdded' /\ ExceptionHasCause' /\ HttpAddressesGenuine'
  BY <1>1 DEF HttpInv, Blocking, Fresh, NothingAdded, ExceptionHasCause, HttpAddressesGenuine,
              Connecting
<1>10. QED
  BY <1>6, <1>7, <1>8, <1>9 DEF HttpInv

LEMMA ServerClosesHttp ==
  ASSUME HttpInv, ServerCloses, UNCHANGED <<client, now, network, history, m_port>>
  PROVE  HttpInv'
<1>1. /\ sock = "connected"
      /\ UNCHANGED <<pc, nonblocking, m_data_size, received, response, m_protocol, m_peer_addresses, before>>
  BY DEF ServerCloses, client, history
<1>2. HttpAddressesGenuine' /\ ExceptionHasCause'
  BY <1>1, ResultsKept
<1>3. Len(<< >>) = 0 /\ << >> \in Seq(Atoms)
  BY EmptySeq
<1>4. Len(received) \in Nat /\ Len(toClient) \in Nat /\ \A i \in 1..Len(toClient) : toClient[i] \in Atoms
  BY LenProperties, ElementOfSeq DEF HttpInv, HttpTypes
<1>5. \E n \in 0..Len(toClient) : /\ toClient' \in Seq(Atoms) /\ Len(toClient') = n
                                  /\ \A i \in 1..n : toClient'[i] = toClient[i]
  <2>1. CASE toClient' = << >>
    BY <1>3, <1>4, <2>1
  <2>2. ASSUME NEW n \in 0..Len(toClient), toClient' = SubSeq(toClient, 1, n)
        PROVE  /\ toClient' \in Seq(Atoms) /\ Len(toClient') = n
               /\ \A i \in 1..n : toClient'[i] = toClient[i]
    <3>1. n \in Nat /\ n \in Int /\ \A i \in 1..n : toClient[i] \in Atoms
      BY <1>4
    <3>2. /\ toClient' \in Seq(Atoms) /\ Len(toClient') = IF 1 <= n THEN n - 1 + 1 ELSE 0
          /\ \A i \in 1..n - 1 + 1 : toClient'[i] = toClient[1 + i - 1]
      BY <2>2, <3>1, SubSeqProperties
    <3>3. n - 1 + 1 = n /\ (1 <= n \/ n = 0) /\ \A i \in 1..n : 1 + i - 1 = i
      BY <3>1
    <3>4. QED
      BY <3>2, <3>3
  <2>3. QED
    BY <2>1, <2>2 DEF ServerCloses
<1>6. HttpTypes' /\ InOrder'
  <2>1. HttpTypes'
    BY <1>1, <1>5 DEF HttpInv, HttpTypes
  <2>2. PICK n \in 0..Len(toClient) : Len(toClient') = n /\ \A i \in 1..n : toClient'[i] = toClient[i]
    BY <1>5
  <2>3. Len(received) + n <= Len(response)
    <3>1. Len(received) + Len(toClient) <= Len(response) /\ Len(response) \in Nat
      <4>1. response \in Seq(Atoms)
        BY <1>3, ResponseShape DEF HttpInv, HttpTypes
      <4>2. QED
        BY <4>1, LenProperties DEF HttpInv, InOrder
    <3>2. QED
      BY <1>4, <3>1
  <2>4. \A i \in 1..n : toClient'[i] = response[Len(received) + i]
    <3>1. \A i \in 1..n : i \in 1..Len(toClient)
      BY <1>4
    <3>2. QED
      BY <2>2, <3>1 DEF HttpInv, InOrder
  <2>5. \A i \in 1..Len(received) : received[i] = response[i]
    BY DEF HttpInv, InOrder
  <2>6. QED
    BY <1>1, <2>1, <2>2, <2>3, <2>4, <2>5 DEF InOrder
<1>7. Fresh'
  <2>1. Len(toClient) = 0 => toClient' = << >>
    <3>1. Len(toClient) = 0 => Len(toClient') = 0 /\ toClient' \in Seq(Atoms)
      BY <1>4, <1>5
    <3>2. QED
      BY <3>1, EmptySeq
  <2>2. toClient = << >> => toClient' = << >>
    BY <1>3, <2>1
  <2>3. QED
    BY <1>1, <2>2 DEF HttpInv, Fresh
<1>8. Blocking' /\ Room' /\ NothingAdded'
  BY <1>1 DEF HttpInv, Blocking, Room, NothingAdded
<1>9. QED
  BY <1>2, <1>6, <1>7, <1>8 DEF HttpInv

LEMMA ServerAnswersHttp ==
  ASSUME UdpInv, HttpInv, NEW answer \in Responses, ServerAnswers(answer),
         UNCHANGED <<client, now, network, history, m_port>>
  PROVE  HttpInv'
<1>1. /\ pc = "http_recv" /\ response = << >> /\ response' = answer /\ toClient' = answer
      /\ UNCHANGED <<pc, nonblocking, m_data_size, received, m_protocol, m_peer_addresses, before>>
  BY DEF ServerAnswers, client, history, tcpVars
<1>2. answer \in Seq(Atoms) /\ Len(answer) \in Nat
  BY ResponseShape, LenProperties
<1>3. Len(received) = 0
  <2>1. Len(received) \in Nat /\ Len(toClient) \in Nat /\ Len(<< >>) = 0
    BY EmptySeq, LenProperties DEF HttpInv, HttpTypes
  <2>2. Len(received) + Len(toClient) <= 0
    BY <1>1, <2>1 DEF HttpInv, InOrder
  <2>3. QED
    BY <2>1, <2>2
<1>4. HttpTypes'
  BY <1>1, <1>2 DEF HttpInv, HttpTypes
<1>5. InOrder'
  <2>1. \A i \in 1..Len(answer) : 0 + i = i
    BY <1>2
  <2>2. QED
    BY <1>1, <1>2, <1>3, <2>1 DEF InOrder
<1>6. HttpAddressesGenuine' /\ ExceptionHasCause'
  BY <1>1 DEF HttpAddressesGenuine, ExceptionHasCause
<1>7. m_protocol \in {"http", "https"}
  BY <1>1 DEF UdpInv, ByProtocol, HttpPcs
<1>8. Blocking' /\ Fresh' /\ Room' /\ NothingAdded'
  BY <1>1, <1>7 DEF HttpInv, Blocking, Fresh, Room, NothingAdded, Connecting, HttpPcs
<1>9. QED
  BY <1>4, <1>5, <1>6, <1>8 DEF HttpInv

\* A list parsed of an answer that came whole is the tracker's; one of a cut
\* answer is no longer than it, and only its last address may be another.
LEMMA ParsedList ==
  ASSUME NEW list \in Seq(Addrs), NEW b \in Seq(Atoms),
         Len(b) \in 1..(2 * Len(list) + 2),
         \A i \in 1..Len(b) : b[i] = Compact(list)[i + 5]
  PROVE  LET L == Listed(Entries(PeersString(b))) IN
         /\ L \in Seq(Addrs)
         /\ Len(b) = 2 * Len(list) + 2 => L = Listed(list)
         /\ Len(L) <= Len(Listed(list))
         /\ \A i \in 1..(Len(L) - 1) : L[i] = list[i]
<1> DEFINE E == Entries(PeersString(b))
           L == Listed(E)
           n == Len(list)
           p == Len(b)
<1>1. n \in Nat /\ p \in Nat
  BY LenProperties
<1>2. E \in Seq(Addrs) /\ Len(E) = n
  BY EntriesShape
<1>3. \A j \in 1..n : /\ 2 * j < p => E[j] = list[j]
                      /\ 2 * j = p /\ list[j] = NoAddress => E[j] = NoAddress
                      /\ 2 * j > p => E[j] = NoAddress
  BY EntriesShape
<1> HIDE DEF E, p
<1>4. PICK me \in 0..n : /\ L \in Seq(Addrs) /\ Len(L) = me
                         /\ \A i \in 1..me : L[i] = E[i]
                         /\ \A k \in 1..n :
                              k <= me <=> k <= MaxPeers /\ \A j \in 1..k : E[j] # NoAddress
  BY <1>2, ListedShape
<1>5. PICK ml \in 0..n : /\ Len(Listed(list)) = ml
                         /\ \A k \in 1..n :
                              k <= ml <=> k <= MaxPeers /\ \A j \in 1..k : list[j] # NoAddress
  BY ListedShape
<1> HIDE DEF L, n
<1>6. me \in Nat /\ ml \in Nat
  BY <1>1
<1>7. ASSUME NEW j \in 1..n, E[j] # NoAddress PROVE 2 * j <= p /\ list[j] # NoAddress
  <2>1. 2 * j \in Nat
    BY <1>1
  <2>2. ~(2 * j > p)
    BY <1>3, <1>7
  <2>3. 2 * j < p \/ 2 * j = p
    BY <1>1, <2>1, <2>2
  <2>4. QED
    BY <1>1, <1>3, <1>7, <2>1, <2>3
<1>8. me <= ml
  <2>1. CASE me = 0
    BY <1>6, <2>1
  <2>2. CASE me # 0
    <3>1. me \in 1..n /\ me <= me
      BY <1>1, <2>2
    <3>2. me <= MaxPeers /\ \A j \in 1..me : E[j] # NoAddress
      BY <1>4, <3>1
    <3>3. \A j \in 1..me : j \in 1..n
      BY <1>1, <3>1
    <3>4. \A j \in 1..me : list[j] # NoAddress
      BY <1>7, <3>2, <3>3
    <3>5. QED
      BY <1>5, <3>1, <3>2, <3>4
  <2>3. QED
    BY <2>1, <2>2
<1>9. ASSUME NEW i \in 1..(me - 1) PROVE L[i] = list[i]
  <2>1. i \in 1..me /\ i \in 1..n /\ i + 1 \in 1..me /\ i + 1 \in 1..n
    BY <1>1, <1>6
  <2>2. me \in 1..n /\ me <= me
    BY <1>1, <2>1
  <2>3. E[i + 1] # NoAddress
    BY <1>4, <2>1, <2>2
  <2>4. 2 * (i + 1) <= p
    BY <1>7, <2>1, <2>3
  <2>5. 2 * i < p
    BY <1>1, <2>1, <2>4
  <2>6. QED
    BY <1>3, <1>4, <2>1, <2>5
<1>10. p = 2 * n + 2 => L = Listed(list)
  <2> SUFFICES ASSUME p = 2 * n + 2 PROVE E = list
    BY DEF L
  <2>1. \A j \in 1..n : E[j] = list[j]
    <3>1. \A j \in 1..n : 2 * j < p
      BY <1>1
    <3>2. QED
      BY <1>3, <3>1
  <2>2. QED
    BY <1>2, <2>1, SeqEqual DEF n
<1>11. QED
  BY <1>4, <1>5, <1>8, <1>9, <1>10 DEF n, p, L, E

\* The addresses that http_announce appends to those of earlier calls.
LEMMA AppendedPart ==
  ASSUME NEW A \in Seq(Addrs), NEW N \in Seq(Addrs)
  PROVE  /\ A \o N \in Seq(Addrs)
         /\ SubSeq(A \o N, 1, Len(A)) = A
         /\ SubSeq(A \o N, Len(A) + 1, Len(A \o N)) = N
<1> DEFINE a == Len(A)
           n == Len(N)
           C == A \o N
<1>1. a \in Nat /\ n \in Nat
  BY LenProperties
<1>2. /\ C \in Seq(Addrs) /\ Len(C) = a + n
      /\ \A i \in 1..(a + n) : C[i] = IF i <= a THEN A[i] ELSE N[i - a]
  BY ConcatProperties
<1> HIDE DEF C
<1>3. \A i \in 1..(a + n) : C[i] \in Addrs
  BY <1>2, ElementOfSeq
<1>4. SubSeq(C, 1, a) = A
  <2> DEFINE B == SubSeq(C, 1, a)
  <2>1. /\ B \in Seq(Addrs) /\ Len(B) = IF 1 <= a THEN a - 1 + 1 ELSE 0
        /\ \A i \in 1..a - 1 + 1 : B[i] = C[1 + i - 1]
    <3>1. \A i \in 1..a : C[i] \in Addrs
      BY <1>1, <1>3
    <3>2. QED
      BY <1>1, <3>1, SubSeqProperties
  <2> HIDE DEF a, B
  <2>2. a - 1 + 1 = a /\ (1 <= a \/ a = 0) /\ \A i \in 1..a : 1 + i - 1 = i /\ i \in 1..(a + n) /\ i <= a
    BY <1>1
  <2>3. Len(B) = a /\ \A i \in 1..a : B[i] = A[i]
    BY <1>2, <2>1, <2>2
  <2>4. B = A
    BY <2>1, <2>3, SeqEqual DEF a
  <2>5. QED
    BY <2>4 DEF B
<1>5. SubSeq(C, a + 1, a + n) = N
  <2> DEFINE B == SubSeq(C, a + 1, a + n)
  <2>1. /\ B \in Seq(Addrs) /\ Len(B) = IF a + 1 <= a + n THEN a + n - (a + 1) + 1 ELSE 0
        /\ \A i \in 1..a + n - (a + 1) + 1 : B[i] = C[a + 1 + i - 1]
    <3>1. \A i \in (a + 1)..(a + n) : C[i] \in Addrs
      BY <1>1, <1>3
    <3>2. QED
      BY <1>1, <3>1, SubSeqProperties
  <2> HIDE DEF a, n, B
  <2>2. /\ a + n - (a + 1) + 1 = n /\ (a + 1 <= a + n \/ n = 0)
        /\ \A i \in 1..n : /\ a + 1 + i - 1 = a + i /\ a + i \in 1..(a + n)
                           /\ ~(a + i <= a) /\ a + i - a = i
    BY <1>1
  <2>3. Len(B) = n
    BY <1>1, <2>1, <2>2
  <2>4. ASSUME NEW i \in 1..n PROVE B[i] = N[i]
    <3>1. B[i] = C[a + i]
      <4>1. i \in 1..a + n - (a + 1) + 1
        BY <1>1, <2>2
      <4>2. B[i] = C[a + 1 + i - 1]
        BY <2>1, <4>1
      <4>3. QED
        BY <2>2, <4>2
    <3>2. C[a + i] = N[i]
      <4> DEFINE q == a + i
      <4>1. q \in 1..(a + n) /\ ~(q <= a) /\ q - a = i
        BY <1>1
      <4> HIDE DEF q
      <4>2. C[q] = N[i]
        BY <1>2, <4>1
      <4>3. QED
        BY <4>2 DEF q
    <3>3. QED
      BY <3>1, <3>2
  <2>5. B = N
    BY <2>1, <2>3, <2>4, SeqEqual DEF n
  <2>6. QED
    BY <2>5 DEF B
<1>6. QED
  BY <1>2, <1>4, <1>5 DEF C

LEMMA ParsesHttp == UdpInv /\ HttpInv /\ HttpAnnounceParses => HttpInv'
<1> SUFFICES ASSUME UdpInv, HttpInv, HttpAnnounceParses PROVE HttpInv'
  OBVIOUS
<1> DEFINE body == Body(received)
           n == Len(received)
<1>1. /\ pc = "http_parse" /\ pc' \in {"failed", "done", "terminated"}
      /\ UNCHANGED <<sock, nonblocking, m_data_size, received, toClient, response, m_protocol, before>>
  BY DEF HttpAnnounceParses, http, tcpVars, httpVars, history
<1>2. /\ received \in Seq(Atoms) /\ n \in Nat /\ n <= Len(response)
      /\ \A i \in 1..n : received[i] = response[i]
      /\ before = m_peer_addresses /\ m_peer_addresses \in Seq(Addrs)
  <2>1. received \in Seq(Atoms) /\ toClient \in Seq(Atoms) /\ response \in Seq(Atoms)
    BY EmptySeq, ResponseShape DEF HttpInv, HttpTypes
  <2>2. n \in Nat /\ Len(toClient) \in Nat /\ Len(response) \in Nat
    BY <2>1, LenProperties
  <2>3. n + Len(toClient) <= Len(response) /\ \A i \in 1..n : received[i] = response[i]
    BY DEF HttpInv, InOrder
  <2>4. n <= Len(response)
    <3> HIDE DEF n
    <3>1. QED
      BY <2>2, <2>3
  <2>5. before = m_peer_addresses /\ m_peer_addresses \in Seq(Addrs)
    BY <1>1 DEF HttpInv, HttpTypes, NothingAdded, HttpPcs
  <2>6. QED
    BY <2>1, <2>2, <2>3, <2>4, <2>5
<1>3. CASE response = << >>
  <2>1. Len(response) = 0
    BY <1>3, EmptySeq
  <2>2. n = 0
    BY <1>2, <2>1
  <2>3. received = << >>
    BY <1>2, <2>2, EmptySeq
  <2>4. body = << >>
    BY <2>3, EmptyBody
  <2>5. pc' = "failed" /\ UNCHANGED m_peer_addresses
    BY <2>4 DEF HttpAnnounceParses
  <2>6. HttpAddressesGenuine' /\ ExceptionHasCause'
    BY <2>5 DEF HttpAddressesGenuine, ExceptionHasCause
  <2>7. Blocking' /\ Fresh' /\ Room' /\ NothingAdded'
    BY <1>1, <2>5 DEF HttpInv, Blocking, Fresh, Room, NothingAdded, Connecting, HttpPcs
  <2>8. HttpTypes' /\ InOrder'
    BY <1>1, <2>5 DEF HttpInv, HttpTypes, InOrder
  <2>9. QED
    BY <2>6, <2>7, <2>8 DEF HttpInv
<1>4. CASE response \in Responses
  <2>1. /\ body \in Seq(Atoms)
        /\ n < 5 => body = received /\ (received # << >> => received[1] = Text)
        /\ n >= 5 => /\ body # received /\ Len(body) = n - 5
                     /\ \A i \in 1..(n - 5) : body[i] = response[i + 5]
    BY <1>2, <1>4, BodyShape
  <2>2. Text.k = "text" /\ Len(<< >>) = 0
    BY EmptySeq DEF Text
  <2>3. Len(response) \in Nat /\ Len(response) >= 6
    BY <1>4, ResponseShape, LenProperties
  <2>4. ASSUME body # << >>
        PROVE  \/ n < 5 /\ body[1].k = "text"
               \/ n >= 6 /\ Len(body) = n - 5 /\ body[1] = response[6]
    <3>1. CASE n < 5
      BY <2>1, <2>2, <2>4, <3>1
    <3>2. CASE n >= 5
      <4>1. Len(body) = n - 5 /\ \A i \in 1..(n - 5) : body[i] = response[i + 5]
        BY <2>1, <3>2
      <4>2. Len(body) \in Nat \ {0}
        BY <2>1, <2>4, EmptySeq
      <4> HIDE DEF body, n
      <4>3. n >= 6 /\ 1 \in 1..(n - 5) /\ 1 + 5 = 6
        BY <1>2, <3>2, <4>1, <4>2
      <4>4. body[1] = response[6]
        BY <4>1, <4>3
      <4>5. QED
        BY <4>1, <4>3, <4>4
    <3> HIDE DEF n, body
    <3>3. QED
      BY <1>2, <3>1, <3>2
  <2>5. ASSUME NEW list \in Lists, response = Compact(list), body # << >>, body[1].k = "peers"
        PROVE  /\ Len(body) \in 1..(2 * Len(list) + 2)
               /\ \A i \in 1..Len(body) : body[i] = Compact(list)[i + 5]
               /\ n = Len(response) <=> Len(body) = 2 * Len(list) + 2
    <3>1. list \in Seq(Addrs)
      BY ListTypes
    <3>2. Len(list) \in Nat /\ Len(response) = 2 * Len(list) + 7
      BY <2>5, <3>1, CompactShape, LenProperties
    <3>3. n >= 6 /\ Len(body) = n - 5
      BY <2>4, <2>5
    <3>4. \A i \in 1..(n - 5) : body[i] = response[i + 5]
      BY <1>2, <2>1, <3>3
    <3> HIDE DEF n, body
    <3>5. Len(body) \in 1..(2 * Len(list) + 2)
      BY <1>2, <3>2, <3>3
    <3>6. n = Len(response) <=> Len(body) = 2 * Len(list) + 2
      BY <1>2, <3>2, <3>3
    <3>7. QED
      BY <2>5, <3>3, <3>4, <3>5, <3>6
  <2>6. ASSUME body # << >>, body[1].k = "peers"
        PROVE  \E list \in Lists : response = Compact(list)
    <3>1. response[6].k = "peers"
      BY <2>2, <2>4, <2>6
    <3>2. QED
      BY <1>4, <3>1, PeersAtom
  <2>7. m_peer_addresses' \in Seq(Addrs)
    <3>1. CASE UNCHANGED m_peer_addresses
      BY <1>2, <3>1
    <3>2. CASE m_peer_addresses' = Append(m_peer_addresses, Garbage)
      <4>1. Garbage \in Addrs
        BY DEF Addrs
      <4>2. QED
        BY <1>2, <3>2, <4>1, AppendProperties
    <3>3. CASE /\ body # << >> /\ body[1].k = "peers"
               /\ m_peer_addresses' = m_peer_addresses \o Listed(Entries(PeersString(body)))
      <4>1. PICK list \in Lists : response = Compact(list)
        BY <2>6, <3>3
      <4>2. /\ Len(body) \in 1..(2 * Len(list) + 2)
            /\ \A i \in 1..Len(body) : body[i] = Compact(list)[i + 5]
        BY <2>5, <3>3, <4>1
      <4>3. Listed(Entries(PeersString(body))) \in Seq(Addrs)
        BY <2>1, <4>2, ListTypes, ParsedList
      <4>4. QED
        BY <1>2, <3>3, <4>3, AppendedPart
    <3>4. QED
      BY <3>1, <3>2, <3>3 DEF HttpAnnounceParses
  <2>8. HttpAddressesGenuine'
    <3> SUFFICES ASSUME NEW list \in PeerLists, pc' = "done", response = Compact(list), body # received
                 PROVE  LET new == SubSeq(m_peer_addresses', Len(before) + 1, Len(m_peer_addresses'))
                        IN /\ before = SubSeq(m_peer_addresses', 1, Len(before))
                           /\ IF received = response THEN new = Listed(list)
                              ELSE /\ Len(new) <= Len(Listed(list))
                                   /\ \A i \in 1..(Len(new) - 1) : new[i] = list[i]
      BY <1>1 DEF HttpAddressesGenuine
    <3>1. list \in Lists /\ list \in Seq(Addrs)
      BY ListTypes DEF Lists
    <3>2. body # << >> => body[1].k = "peers"
      <4>1. response[6].k = "peers"
        <5>1. response[6] = [k |-> "peers", length |-> 2 * Len(list)]
          BY <3>1, CompactShape
        <5>2. QED
          BY <5>1
      <4>2. body # << >> => body[1] = response[6]
        BY <1>2, <2>1, <2>4
      <4>3. QED
        BY <4>1, <4>2
    <3>3. body # << >> /\ m_peer_addresses' = m_peer_addresses \o Listed(Entries(PeersString(body)))
      BY <3>2 DEF HttpAnnounceParses
    <3> DEFINE L == Listed(Entries(PeersString(body)))
    <3>4. /\ Len(body) \in 1..(2 * Len(list) + 2)
          /\ \A i \in 1..Len(body) : body[i] = Compact(list)[i + 5]
          /\ n = Len(response) => Len(body) = 2 * Len(list) + 2
      BY <2>5, <3>1, <3>2, <3>3
    <3>5. /\ L \in Seq(Addrs)
          /\ n = Len(response) => L = Listed(list)
          /\ Len(L) <= Len(Listed(list))
          /\ \A i \in 1..(Len(L) - 1) : L[i] = list[i]
      BY <2>1, <3>1, <3>4, ParsedList
    <3> HIDE DEF L, body
    <3>6. SubSeq(m_peer_addresses', Len(before) + 1, Len(m_peer_addresses')) = L
          /\ SubSeq(m_peer_addresses', 1, Len(before)) = before
      BY <1>2, <3>3, <3>5, AppendedPart DEF L
    <3>7. QED
      BY <3>5, <3>6
  <2>9. ExceptionHasCause'
    <3> SUFFICES ASSUME pc' = "terminated", received = response
                 PROVE  /\ response # << >>
                        /\ \A i \in 1..Len(response) :
                             response[i].k # "peers" \/ response[i].length = 0
      BY <1>1 DEF ExceptionHasCause
    <3>1. body # << >> /\ n >= 6 /\ body[1] = response[6]
      BY <1>2, <2>3, <2>4 DEF HttpAnnounceParses
    <3>2. response # << >>
      BY <2>2, <2>3
    <3>3. CASE Len(response) = 6 /\ \A i \in 1..6 : response[i].k # "peers"
      BY <3>2, <3>3
    <3>4. ASSUME NEW list \in Lists, response = Compact(list)
          PROVE  \A i \in 1..Len(response) : response[i].k # "peers" \/ response[i].length = 0
      <4> DEFINE l == Len(list)
      <4>1. list \in Seq(Addrs) /\ l \in Nat
        BY ListTypes, LenProperties
      <4>2. /\ Len(response) = 2 * l + 7
            /\ response[6] = [k |-> "peers", length |-> 2 * l]
            /\ response[2 * l + 7] = [k |-> "end"]
            /\ \A i \in 1..5 : response[i] = Header[i]
        BY <3>4, <4>1, CompactShape
      <4>3. body[1].k = "peers" /\ body[1].length = 2 * l
        BY <3>1, <4>2
      <4>4. ~StringEnds(body)
        BY <3>1, <4>3 DEF HttpAnnounceParses
      <4>5. Len(body) = 2 * l + 2
        BY <2>5, <3>1, <3>4, <4>3
      <4>6. l = 0
        <5> HIDE DEF l, body
        <5>1. 2 * l \notin 1..(Len(body) - 1 + RecvSize)
          BY <4>3, <4>4 DEF StringEnds
        <5>2. QED
          BY <4>1, <4>5, <5>1
      <4>7. \A i \in 1..5 : Header[i].k # "peers"
        BY DEF Header, Text, NewLine
      <4> HIDE DEF l
      <4>8. QED
        BY <4>2, <4>6, <4>7
    <3>5. QED
      BY <1>4, <3>2, <3>3, <3>4, PeersAtom
  <2>10. Blocking' /\ Fresh' /\ Room' /\ NothingAdded'
    BY <1>1 DEF HttpInv, Blocking, Fresh, Room, NothingAdded, Connecting, HttpPcs
  <2>11. HttpTypes' /\ InOrder'
    BY <1>1, <2>7 DEF HttpInv, HttpTypes, InOrder
  <2>12. QED
    BY <2>8, <2>9, <2>10, <2>11 DEF HttpInv
<1>5. QED
  BY <1>3, <1>4 DEF HttpInv, HttpTypes

LEMMA HttpInvStep == TypeInv /\ UdpInv /\ HttpInv /\ [Next]_vars => HttpInv'
<1> SUFFICES ASSUME TypeInv, UdpInv, HttpInv, [Next]_vars
             PROVE  HttpInv'
  OBVIOUS
<1>1. CASE Client
  BY <1>1, AnnounceHttp, HttpAnnounceHttp, ParsesHttp, UdpStepHttp DEF Client
<1>2. CASE HttpStep
  BY <1>2, HttpSendsHttp, HttpReceivesHttp, ServerClosesHttp, ServerAnswersHttp
     DEF HttpStep, HttpRequest
<1>3. CASE ConnectStep
  BY <1>3, ConnectStepHttp
<1>4. CASE (\E m \in toTracker : TrackerAnswers(m)) \/ Lose \/ Tick \/ UNCHANGED vars
  <2>1. UNCHANGED <<pc, http, m_protocol, m_peer_addresses, before>>
    BY <1>4 DEF TrackerAnswers, Lose, Tick, vars, client, history
  <2>2. QED
    BY <2>1, OtherStepHttp
<1>5. QED
  BY <1>1, <1>2, <1>3, <1>4 DEF Next

LEMMA HttpInvariant == Spec => []HttpInv
<1>1. Init => HttpInv
  <2> SUFFICES ASSUME Init PROVE HttpInv
    OBVIOUS
  <2>1. << >> \in Seq(Atoms) /\ << >> \in Seq(Addrs) /\ Len(<< >>) = 0
    BY EmptySeq
  <2>2. HttpTypes /\ InOrder
    BY <2>1 DEF Init, HttpInit, HttpTypes, InOrder
  <2>3. Blocking /\ Fresh /\ Room /\ NothingAdded /\ ExceptionHasCause /\ HttpAddressesGenuine
    BY DEF Init, HttpInit, TcpInit, Blocking, Fresh, Room, NothingAdded, ExceptionHasCause,
           HttpAddressesGenuine, Connecting, HttpPcs
  <2>4. QED
    BY <2>2, <2>3 DEF HttpInv
<1>2. QED
  BY <1>1, HttpInvStep, TypesInvariant, UdpInvariant, PTL DEF Spec

\* No receive of an http answer writes behind the end of m_data, for every size
\* of a receive and every way the answer is cut into pieces.
THEOREM RecvAlwaysInsideBuffer == Spec => []RecvInsideBuffer
<1>1. HttpInv => RecvInsideBuffer
  <2> SUFFICES ASSUME HttpInv, pc = "http_recv"
               PROVE  Len(received) + RecvSize <= m_data_size
    BY DEF RecvInsideBuffer
  <2>1. m_data_size = Len(received) + RecvSize /\ m_data_size \in Nat
    BY DEF HttpInv, HttpTypes, Room
  <2>2. QED
    BY <2>1
<1>2. QED
  BY <1>1, HttpInvariant, PTL

\* An exception ends the program only when the other side refused or reset the
\* connection, cut its answer, or answered without a list: never because of a
\* signal, a slow connection or the socket's own flags.
THEOREM ExceptionAlwaysHasCause == Spec => []ExceptionHasCause
<1>1. HttpInv => ExceptionHasCause
  BY DEF HttpInv
<1>2. QED
  BY <1>1, HttpInvariant, PTL

\* Every address a successful http announce adds is the tracker's, in its order,
\* but for the last one of an answer cut inside the list: for every list, every
\* MAX_PEERS and every place of the cut.
THEOREM HttpAddressesAlwaysGenuine == Spec => []HttpAddressesGenuine
<1>1. HttpInv => HttpAddressesGenuine
  BY DEF HttpInv
<1>2. QED
  BY <1>1, HttpInvariant, PTL
=============================================================================

------------------------------ MODULE Tracker ------------------------------
(***************************************************************************)
(* tracker::announce (network/tracker.cpp): the call the constructor of    *)
(* multiproc makes to learn its peers' addresses, over udp (two request    *)
(* and response transactions on a fresh socket) or http (module Http).  A  *)
(* failed call ends the program there (MUST); a tracker object may also be *)
(* asked again, which is what the state it keeps between calls is for.     *)
(*                                                                         *)
(* Datagrams can be lost, delayed, duplicated and reordered.  A datagram   *)
(* reaches only the socket that asked, and each udp call has its own: what *)
(* is under way when a call starts never arrives.                          *)
(***************************************************************************)
EXTENDS Http

CONSTANTS
  Protocols,     \* what the protocol of the tracker's url may be
  PeerLists,     \* the address lists the tracker may answer with
  NoAddress,     \* the all-zero entry that ends a list
  Garbage,       \* an address that no tracker sent
  MaxPeers,      \* MAX_PEERS
  ConnectionIds, \* the connection identifiers the tracker hands out
  MaxAnnounces,  \* bound: calls of announce
  MaxTime        \* bound: seconds that pass

ASSUME TrackerAssumption ==
  /\ MaxPeers \in Nat /\ MaxAnnounces \in Nat /\ MaxTime \in Nat \ {0}
  /\ 0 \notin ConnectionIds
ASSUME PeerListsAssumption ==
  \A list \in PeerLists : list \in Seq({list[i] : i \in DOMAIN list})

VARIABLES
  m_protocol,          \* the protocol of this tracker's url
  m_has_endpoint, m_announce_transaction_identifier,
  m_announce_connection_identifier, m_peer_addresses,
  call,                \* how many calls have been made
  tv_usec,             \* the uninitialised microseconds of SO_RCVTIMEO
  now,                 \* time(NULL)
  toTracker, fromTracker,  \* datagrams under way
  issued, answered,    \* history: what the tracker has answered to this call
  before               \* history: m_peer_addresses when the call began

client  == <<m_protocol, m_has_endpoint, m_announce_transaction_identifier,
             m_announce_connection_identifier, m_peer_addresses, call, tv_usec>>
network == <<toTracker, fromTracker>>
history == <<issued, answered, before>>
http    == <<tcpVars, httpVars, m_port>>
vars == <<pc, client, now, network, history, http>>

Init ==
  /\ m_protocol \in Protocols
  /\ pc = "idle" /\ m_has_endpoint = FALSE
  /\ m_announce_transaction_identifier = 0 /\ m_announce_connection_identifier = 0
  /\ m_peer_addresses = << >> /\ call = 0 /\ tv_usec = "zero" /\ now = 1
  /\ toTracker = {} /\ fromTracker = {}
  /\ issued = {} /\ answered = {} /\ before = << >>
  /\ TcpInit /\ HttpInit

-----------------------------------------------------------------------------
\* The addresses of a response: up to the first zero entry or MAX_PEERS.
Listed(list) ==
  LET ends == {k \in 1..Len(list) : list[k] = NoAddress}
      shown == {k \in 1..Len(list) : k <= MaxPeers /\ \A e \in ends : k < e}
  IN SubSeq(list, 1, IF shown = {} THEN 0 ELSE CHOOSE k \in shown : \A j \in shown : j <= k)

\* announce: resolve the url on the first call, then go by its protocol.
Announce ==
  /\ pc \in {"idle", "done", "failed"} /\ call < MaxAnnounces
  /\ call' = call + 1
  /\ \E resolved \in BOOLEAN :
       /\ m_has_endpoint' = (m_has_endpoint \/ resolved)
       /\ pc' = IF ~m_has_endpoint' THEN "failed"
                ELSE IF m_protocol \in {"http", "https"} THEN "http"
                ELSE IF m_protocol = "udp" THEN "connect" ELSE "failed"
  /\ UNCHANGED <<m_protocol, m_announce_transaction_identifier, m_announce_connection_identifier,
                 m_peer_addresses, tv_usec, now>>
  /\ toTracker' = {} /\ fromTracker' = {} /\ issued' = {} /\ answered' = {}
  /\ before' = m_peer_addresses
  /\ UNCHANGED http

-----------------------------------------------------------------------------
(* http_announce.  The body of the answer is the dictionary up to the      *)
(* bytes of its string "peers" (one atom, which holds that string's        *)
(* length), two atoms for each address, and the end.                       *)

Half(x, part) == IF x = NoAddress THEN ZeroByte ELSE [k |-> part, of |-> x]
Addresses(list) ==
  [i \in 1..(2 * Len(list)) |-> IF i % 2 = 1 THEN Half(list[(i + 1) \div 2], "ip")
                                ELSE Half(list[i \div 2], "port")]
Header == <<Text, NewLine, Text, NewLine, NewLine>>
Compact(list) == Header \o <<[k |-> "peers", length |-> 2 * Len(list)]>>
                        \o Addresses(list) \o <<[k |-> "end"]>>

\* A list, or an empty one; a dictionary without one (a failure reason); a
\* page of text.
Responses == {Compact(list) : list \in PeerLists \cup {<< >>}}
             \cup {Header \o <<[k |-> "failure"]>>, Header \o <<Text>>}

\* The bytes of the string: a cut answer goes on with the zeros that fill
\* m_data, and has no string if they are not enough.  Nor has an empty list,
\* the string of length 0 (module Bencode).
PeersString(body) ==
  [i \in 1..body[1].length |-> IF i < Len(body) THEN body[i + 1] ELSE ZeroByte]
StringEnds(body) == body[1].length \in 1..(Len(body) - 1 + RecvSize)

\* One entry of the array the string is copied to.
Entry(ip, port) == IF ip = ZeroByte /\ port = ZeroByte THEN NoAddress
                   ELSE IF "of" \in DOMAIN ip /\ "of" \in DOMAIN port THEN ip.of
                   ELSE Garbage
Entries(bytes) == [i \in 1..(Len(bytes) \div 2) |-> Entry(bytes[2 * i - 1], bytes[2 * i])]

\* The target of the request has no file hash, or the url no known host.
HttpAnnounce ==
  /\ HttpFromString("http")
  /\ UNCHANGED <<client, now, network, history, m_port>>

\* bencode["peers"] of a dictionary without that key throws.  Text, a header
\* without its end included, leaves no string, or one made of it, or runs into
\* an 'e' that pops an empty stack.  The list is appended to the addresses that
\* earlier calls left.
HttpAnnounceParses ==
  /\ pc = "http_parse"
  /\ LET body == Body(received) IN
     \/ /\ body = << >> /\ pc' = "failed" /\ UNCHANGED m_peer_addresses
     \/ /\ body # << >> /\ body[1].k = "peers" /\ StringEnds(body)
        /\ pc' = "done"
        /\ m_peer_addresses' = m_peer_addresses \o Listed(Entries(PeersString(body)))
     \/ /\ body # << >>
        /\ \/ body[1].k = "failure"
           \/ body[1].k = "peers" /\ ~StringEnds(body)
        /\ pc' = "terminated" /\ UNCHANGED m_peer_addresses
     \/ /\ body # << >> /\ body[1].k = "text"
        /\ pc' \in {"failed", "terminated", "done"}
        /\ m_peer_addresses' \in {m_peer_addresses} \cup
             (IF pc' = "done" THEN {Append(m_peer_addresses, Garbage)} ELSE {})
  /\ UNCHANGED <<m_protocol, m_has_endpoint, m_announce_transaction_identifier,
                 m_announce_connection_identifier, call, tv_usec, now, network, history, http>>

\* The steps of the connection and the server leave the announce alone.
HttpStep ==
  /\ \/ HttpRequest
     \/ ServerCloses \/ \E answer \in Responses : ServerAnswers(answer)
  /\ UNCHANGED <<client, now, network, history, m_port>>
ConnectStep == TcpStep /\ UNCHANGED <<client, now, network, history, httpVars, m_port>>

-----------------------------------------------------------------------------
(* udp_announce.                                                           *)

Datagram(kind, tid, cid, list) ==
  [kind |-> kind, tid |-> tid, cid |-> cid, list |-> list]

\* udp_connetion_transaction sends.  receive() sets the timeout from a timeval
\* whose tv_usec is uninitialised: setsockopt refuses a value of a second or
\* more, and what it was stays on the socket after the call.
ConnectSends ==
  /\ pc = "connect"
  /\ m_announce_transaction_identifier' = now
  /\ toTracker' = toTracker \cup {Datagram("connect", now, 0, << >>)}
  /\ tv_usec' \in {"zero", "some", "invalid"}
  /\ pc' = IF tv_usec' = "invalid" THEN "failed" ELSE "connect_wait"
  /\ UNCHANGED <<m_protocol, m_has_endpoint, m_announce_connection_identifier, m_peer_addresses,
                 call, now, fromTracker, history, http>>

\* socket(), sendto() or, in the announce, file_hash() fails.  The transaction
\* identifier is chosen before anything is sent.
UdpSendFails ==
  /\ pc \in {"connect", "announce"}
  /\ pc' = "failed"
  /\ m_announce_transaction_identifier' \in
       {now} \cup (IF pc = "connect" THEN {m_announce_transaction_identifier} ELSE {})
  /\ UNCHANGED <<m_protocol, m_has_endpoint, m_announce_connection_identifier,
                 m_peer_addresses, call, tv_usec, now, network, history, http>>

\* A datagram is received; the network may deliver it again.
Arrives(m) == /\ m \in fromTracker
              /\ fromTracker' \in {fromTracker, fromTracker \ {m}}

\* Mutants: the connection identifier is not stored; the field before it is.
ConnectionIdDropped(m) == m_announce_connection_identifier
ConnectionIdMisread(m) == m.tid
ConnectionIdStored(m) == m.cid

\* Only a connect response with our identifier is accepted; the identifier it
\* carries is stored.
ConnectReceives(m) ==
  /\ pc = "connect_wait" /\ Arrives(m)
  /\ IF m.kind = "connect" /\ m.tid = m_announce_transaction_identifier
     THEN /\ pc' = "announce"
          /\ m_announce_connection_identifier' = ConnectionIdStored(m)
     ELSE pc' = "failed" /\ UNCHANGED m_announce_connection_identifier
  /\ UNCHANGED <<m_protocol, m_has_endpoint, m_announce_transaction_identifier, m_peer_addresses,
                 call, tv_usec, now, toTracker, history, http>>

AnnounceSends ==
  /\ pc = "announce"
  /\ m_announce_transaction_identifier' = now
  /\ toTracker' = toTracker \cup
                  {Datagram("announce", now, m_announce_connection_identifier, << >>)}
  /\ pc' = "announce_wait"
  /\ UNCHANGED <<m_protocol, m_has_endpoint, m_announce_connection_identifier, m_peer_addresses,
                 call, tv_usec, now, fromTracker, history, http>>

\* Mutant: clear_peers is not called.
NewAddressesAppended(m) == m_peer_addresses \o Listed(m.list)
NewAddresses(m) == Listed(m.list)

\* A connect response (16 bytes) is too short, an error has another action.
AnnounceReceives(m) ==
  /\ pc = "announce_wait" /\ Arrives(m)
  /\ IF m.kind = "announce" /\ m.tid = m_announce_transaction_identifier
     THEN pc' = "done" /\ m_peer_addresses' = NewAddresses(m)
     ELSE pc' = "failed" /\ UNCHANGED m_peer_addresses
  /\ UNCHANGED <<m_protocol, m_has_endpoint, m_announce_transaction_identifier,
                 m_announce_connection_identifier, call, tv_usec, now, toTracker, history, http>>

\* The five seconds of the first receive pass; the second has no timeout, but
\* for the microseconds left on the socket.  Mutant: no timeout is set at all.
TimesOutNever == FALSE /\ UNCHANGED vars
TimesOut ==
  /\ pc = "connect_wait" \/ (pc = "announce_wait" /\ tv_usec = "some")
  /\ pc' = "failed"
  /\ UNCHANGED <<m_protocol, m_has_endpoint, m_announce_transaction_identifier,
                 m_announce_connection_identifier, m_peer_addresses, call, tv_usec,
                 now, network, history, http>>

Receive == \E m \in fromTracker : ConnectReceives(m) \/ AnnounceReceives(m)
Client == \/ Announce \/ HttpAnnounce \/ HttpAnnounceParses \/ ConnectSends \/ AnnounceSends \/ UdpSendFails
          \/ Receive \/ TimesOut

-----------------------------------------------------------------------------
(* The tracker and the network.                                            *)

Answer(m, kind, cid, list) ==
  fromTracker' = fromTracker \cup {Datagram(kind, m.tid, cid, list)}

\* A connect request gets a connection identifier, an announce with one issued
\* to this call a list; either may get an error.  The request may come again.
TrackerAnswers(m) ==
  /\ m \in toTracker
  /\ \/ /\ m.kind = "connect"
        /\ \E cid \in ConnectionIds :
             /\ Answer(m, "connect", cid, << >>)
             /\ issued' = issued \cup {cid}
        /\ UNCHANGED <<answered, before>>
     \/ /\ m.kind = "announce" /\ m.cid \in issued
        /\ \E list \in PeerLists :
             /\ Answer(m, "announce", m.cid, list)
             /\ answered' = answered \cup {list}
        /\ UNCHANGED <<issued, before>>
     \/ Answer(m, "error", 0, << >>) /\ UNCHANGED history
  /\ toTracker' \in {toTracker, toTracker \ {m}}
  /\ UNCHANGED <<pc, client, now, http>>

Lose == /\ \/ \E m \in toTracker : toTracker' = toTracker \ {m} /\ UNCHANGED fromTracker
           \/ \E m \in fromTracker : fromTracker' = fromTracker \ {m} /\ UNCHANGED toTracker
        /\ UNCHANGED <<pc, client, now, history, http>>

Tick == now < MaxTime /\ now' = now + 1 /\ UNCHANGED <<pc, client, network, history, http>>

Next == \/ Client \/ HttpStep \/ ConnectStep
        \/ (\E m \in toTracker : TrackerAnswers(m)) \/ Lose \/ Tick

Spec == Init /\ [][Next]_vars

\* The caller runs, and time passes for a socket with a timeout.  The kernel
\* gives a connection up, but only long after connect_with_timeout has.
\* Nothing is assumed of the tracker: it may never answer and never close.
FairSpec ==
  /\ Spec
  /\ WF_vars(ConnectSends \/ AnnounceSends \/ UdpSendFails)
  /\ WF_vars(Receive) /\ WF_vars(TimesOut)
  /\ WF_vars(HttpAnnounce \/ HttpAnnounceParses)
  /\ WF_vars(HttpRequest /\ UNCHANGED <<client, now, network, history, m_port>>)
  /\ WF_vars(TcpConnect /\ UNCHANGED <<client, now, network, history, httpVars, m_port>>)
  /\ WF_vars(Elapse /\ UNCHANGED <<client, now, network, history, httpVars, m_port>>)
  /\ WF_vars(/\ pc \notin Connecting /\ SockSettles
             /\ UNCHANGED <<client, now, network, history, httpVars, m_port>>)

-----------------------------------------------------------------------------
(* Properties.                                                             *)

\* Every variable keeps its type.
TypeOK ==
  /\ pc \in {"idle", "connect", "connect_wait", "announce", "announce_wait",
             "http", "done", "failed", "tcp_connect", "tcp_connected", "http_send",
             "http_recv", "http_parse", "terminated"} \cup Connecting
  /\ sock \in SockStates /\ nonblocking \in BOOLEAN /\ clock \in 0..ConnectTimeout + 1
  /\ m_has_endpoint \in BOOLEAN /\ call \in 0..MaxAnnounces
  /\ m_announce_transaction_identifier \in 0..MaxTime
  /\ m_announce_connection_identifier \in ConnectionIds \cup {0}
  /\ tv_usec \in {"zero", "some", "invalid"} /\ now \in 1..MaxTime
  /\ \A m \in toTracker \cup fromTracker : m.tid \in 1..MaxTime

\* The addresses a successful udp announce returns are exactly those of an
\* answer the tracker gave to this very call: no leftovers of an earlier call,
\* no duplicate or late datagram taken for it.
AddressesAnswerThisCall ==
  pc = "done" /\ m_protocol = "udp" =>
    \E list \in answered : m_peer_addresses = Listed(list)

\* An announce request carries a connection identifier that the tracker issued
\* to this call, never one of an earlier call that the object remembers.
ConnectionIdCurrent ==
  pc \in {"announce", "announce_wait"} =>
    m_announce_connection_identifier \in issued

\* A udp announce returns, unless its second receive has no timeout and no
\* datagram for it is left: one lost datagram then blocks the program for good.
AnnounceReturns ==
  pc = "connect" ~>
    \/ pc \in {"done", "failed"}
    \/ /\ pc = "announce_wait" /\ tv_usec = "zero"
       /\ fromTracker = {}

\* Every address a successful http announce adds is one of the tracker's list,
\* in its order and up to its end, as long as the answer came whole.  Of an
\* answer cut inside the list only the last address may be wrong.
HttpAddressesGenuine ==
  \A list \in PeerLists :
    pc = "done" /\ response = Compact(list) /\ Body(received) # received =>
      LET new == SubSeq(m_peer_addresses, Len(before) + 1, Len(m_peer_addresses))
      IN /\ before = SubSeq(m_peer_addresses, 1, Len(before))
         /\ IF received = response THEN new = Listed(list)
            ELSE /\ Len(new) <= Len(Listed(list))
                 /\ \A i \in 1..(Len(new) - 1) : new[i] = list[i]

\* An http announce returns or is terminated, unless the tracker neither
\* answers nor closes the connection: connecting takes bounded time however
\* many signals interrupt it, but no receive has a timeout.
HttpAnnounceReturns ==
  pc = "http" ~> \/ pc \in {"done", "failed", "terminated"}
                 \/ pc = "http_recv" /\ sock = "connected" /\ toClient = << >>
=============================================================================

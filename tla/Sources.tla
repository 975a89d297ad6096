------------------------------ MODULE Sources ------------------------------
(***************************************************************************)
(* Where a download comes from: torrent_file::from_path (torrent_file.cpp) *)
(* or magnet::from_string (uri/magnet.cpp), which both end in a validated  *)
(* bencode_map, a file hash and a tracker; and the url that http_announce  *)
(* makes of them.                                                          *)
(*                                                                         *)
(* The file, or the exact source (xs) of a magnet link, holds a document;  *)
(* it may be cut short anywhere, and what http delivers ends in zeros.  A  *)
(* magnet link is its sequence of parameters; a urn the sequence of its    *)
(* words.  A magnet object may be given a second link after a failure.     *)
(***************************************************************************)
EXTENDS Bencode, Url

CONSTANTS
  Documents,     \* what a file or a server may hold
  Uris,          \* magnet links
  Trackers,      \* trackers, by their parts and as the text of a url
  HashBytes,     \* the 20 bytes of a file hash
  Sha1,          \* the file hash that SHA1 computes
  Padding,       \* zeros behind the body of an http answer
  MaxCalls       \* bound: links given to one magnet object

\* Its words; what may be a hash is a text of character codes.
IsUrn(urn) ==
  /\ urn \in Seq({urn[j] : j \in DOMAIN urn})
  /\ \A j \in DOMAIN urn : "hash" \in DOMAIN urn[j] => urn[j].hash \in Seq(0..255)

ASSUME SourcesAssumption ==
  /\ \A d \in Documents : IsDocument(d) /\ Len(d.text) + Padding < SizeModulus
  /\ HashBytes \in Nat \ {0} /\ Padding \in Nat /\ MaxCalls \in Nat
  /\ \A u \in Uris : /\ u \in Seq({u[i] : i \in DOMAIN u})
                     /\ \A i \in DOMAIN u : u[i].name = "xt" => IsUrn(u[i].urn)

VARIABLES
  pc,
  source,              \* "torrent_file" or "magnet"
  document,            \* what the file or the server holds
  data, fed,           \* the argument of from_buffer, and how much was consumed
  m_file_hash, m_trackers, m_piece_length,
  hashed,              \* what SHA1 was computed of
  uri, left,           \* the link, and its parameters still to come
  calls,
  m_url,               \* the url of the request, parsed
  whole, feeds         \* history: nothing was cut; from_buffer calls

content == <<document, source>>
results == <<m_file_hash, m_trackers, m_piece_length, hashed>>
link    == <<uri, left, calls>>
reading == <<data, fed, whole, feeds>>
vars == <<pc, content, reading, bencode, results, link, m_url>>

NoUrl == << >>
announce     == <<"a">>
info         == <<"i">>
piece_length == <<"l">>
pieces       == <<"e">>
Zeros == [i \in 1..Padding |-> "NUL"]

Init ==
  /\ document \in Documents
  /\ source \in {"torrent_file", "magnet"}
  /\ pc = "start" /\ data = << >> /\ fed = 0 /\ NewBencodeMap
  /\ m_file_hash = << >> /\ m_trackers = << >> /\ m_piece_length = 0 /\ hashed = << >>
  /\ uri = << >> /\ left = << >> /\ calls = 0
  /\ m_url = NoUrl /\ whole = TRUE /\ feeds = 0

-----------------------------------------------------------------------------
(* torrent_file::from_path.                                                *)

\* from_buffer is called.
Feed(bytes) == data' = bytes /\ fed' = 0 /\ feeds' = feeds + 1 /\ UNCHANGED whole

\* The file cannot be opened, or it is read.
FromPath ==
  /\ source = "torrent_file" /\ pc = "start"
  /\ \/ pc' = "failed" /\ UNCHANGED <<reading, bencode>>
     \/ /\ pc' = "parse"
        /\ Feed(document.text)
        /\ m_store_raw_bencode' = TRUE
        /\ UNCHANGED <<m_state, element, tree, raw_bencode, m_bracket_root, fault>>
  /\ UNCHANGED <<content, results, link, m_url>>

-----------------------------------------------------------------------------
(* from_buffer, for both.                                                  *)

\* An exception nobody catches ends the program; so may undefined behaviour.
Faulted == CASE fault' = "threw" -> "terminated"
             [] fault' = "undefined" -> "undefined"
             [] OTHER -> pc

ConsumeByte ==
  /\ pc = "parse" /\ fed < Len(data)
  /\ consume_byte(data[fed + 1])
  /\ fed' = fed + 1
  /\ pc' = Faulted
  /\ UNCHANGED <<content, results, link, m_url, data, whole, feeds>>

\* The file or the connection ends early.
CutShort ==
  /\ pc = "parse" /\ whole /\ fed < Len(document.text)
  /\ whole' = FALSE
  /\ data' = SubSeq(data, 1, fed) \o (IF source = "magnet" THEN Zeros ELSE << >>)
  /\ UNCHANGED <<pc, content, bencode, results, link, m_url, fed, feeds>>

FromBufferReturns ==
  /\ pc = "parse" /\ fed = Len(data)
  /\ m_bracket_root' = "m_root"
  /\ pc' = IF source = "magnet" THEN "parameters" ELSE "validate"
  /\ UNCHANGED <<content, reading, m_state, element, tree, raw_bencode,
                 m_store_raw_bencode, fault, results, link, m_url>>

-----------------------------------------------------------------------------
(* magnet::from_string.                                                    *)

FromString ==
  /\ source = "magnet" /\ pc \in {"start", "failed"} /\ calls < MaxCalls
  /\ calls' = calls + 1
  /\ \E u \in Uris : uri' = u /\ left' = u
  /\ pc' = "parameters"
  /\ UNCHANGED <<content, reading, bencode, results, m_url>>

\* The parameter that is due, and how from_string goes on: TRY leaves it.
Parameter(name) == pc = "parameters" /\ left # << >> /\ Head(left).name = name
Proceed(next) ==
  /\ left' = Tail(left)
  /\ pc' = next
  /\ UNCHANGED <<content, uri, calls, m_url, m_piece_length, hashed>>

\* tr; dn, and any other parameter, changes nothing that matters here.
MagnetTracker ==
  /\ Parameter("tr")
  /\ m_trackers' = Append(m_trackers, Head(left).url)
  /\ Proceed("parameters")
  /\ UNCHANGED <<reading, bencode, m_file_hash>>

MagnetOther ==
  /\ Parameter("dn")
  /\ Proceed("parameters")
  /\ UNCHANGED <<reading, bencode, m_file_hash, m_trackers>>

\* A hexadecimal digit (its character code) as urn_to_file_hash reads it: an
\* upper-case letter is 32 too small, in an unsigned char.
Nibble(c) == IF c \in 48..57 THEN c - 48 ELSE (10 + c - 97) % 256
Bits(x) == {p \in {1, 2, 4, 8, 16, 32, 64, 128} : (x \div p) % 2 = 1}
HashByte(hi, lo) ==
  CHOOSE byte \in 0..255 : Bits(byte) = Bits(16 * Nibble(hi)) \cup Bits(Nibble(lo))
HashOf(hex) == [i \in 1..(Len(hex) \div 2) |-> HashByte(hex[2 * i - 1], hex[2 * i])]

\* The last word that is neither "urn" nor "btih".
HashWord(urn) ==
  LET words == {i \in DOMAIN urn : "hash" \in DOMAIN urn[i]}
  IN IF words = {} THEN << >> ELSE urn[CHOOSE i \in words : \A j \in words : j <= i].hash
SaysWord(urn, word) == \E i \in DOMAIN urn : urn[i] = [word |-> word]

\* Mutant: the length of the hash is not checked.
HashLengthUnchecked(hash) == TRUE
HashLengthRight(hash) == Len(hash) = HashBytes

\* urn_to_file_hash appends the bytes before it looks at anything else; of an
\* empty hash the loop counter starts below 0 and reads what is not there.
MagnetHash ==
  /\ Parameter("xt")
  /\ LET urn == Head(left).urn
     IN /\ m_file_hash' = m_file_hash \o HashOf(HashWord(urn))
        /\ Proceed(IF HashWord(urn) = << >> THEN "undefined"
                   ELSE IF /\ SaysWord(urn, "urn") /\ SaysWord(urn, "btih")
                           /\ HashLengthRight(m_file_hash')
                   THEN "parameters" ELSE "failed")
  /\ UNCHANGED <<reading, bencode, m_trackers>>

\* url_to_piece_hash: the request fails or throws (module Http), or its answer
\* is fed to the parser, on top of what an earlier one has left there.
MagnetSource ==
  /\ Parameter("xs")
  /\ \/ Proceed("failed") /\ UNCHANGED reading
     \/ Proceed("http_threw") /\ UNCHANGED reading
     \/ Proceed("parse") /\ Feed(document.text \o Zeros)
  /\ UNCHANGED <<bencode, m_file_hash, m_trackers>>

\* The checks behind the loop; the subscript of a map that was never fed
\* follows a null pointer.
MagnetChecks ==
  /\ pc = "parameters" /\ left = << >>
  /\ pc' = IF m_trackers = << >> \/ m_file_hash = << >> THEN "failed"
           ELSE IF m_bracket_root = "null" THEN "undefined"
           ELSE "validate"
  /\ UNCHANGED <<content, reading, bencode, results, link, m_url>>

-----------------------------------------------------------------------------
(* validate_torrent_bencode_map, and what is read after it.                *)

\* The first of the four checks that throws or fails decides.
Check(id, key, type, otherwise) ==
  IF ~HasKey(id, key) THEN "terminated"
  ELSE IF TypeOf(At(id, key)) # type THEN "failed" ELSE otherwise

info_target == At(m_root, info)
Validated ==
  Check(m_root, announce, "strings",
    Check(m_root, info, "dictionaries",
      Check(info_target, piece_length, "integers",
        Check(info_target, pieces, "strings", "done"))))

\* The text of info, with the byte that raw_bencode lacks.
InfoRaw == <<"d">> \o raw_bencode[info_target]

Validate ==
  /\ pc = "validate"
  /\ pc' = Validated
  /\ IF pc' # "done" THEN UNCHANGED results
     ELSE /\ m_piece_length' = targets[At(info_target, piece_length)].integer_value
          /\ IF source = "magnet" THEN UNCHANGED <<m_file_hash, m_trackers, hashed>>
             ELSE /\ hashed' = InfoRaw
                  /\ m_file_hash' = Sha1
                  /\ m_trackers' = Append(m_trackers, targets[At(m_root, announce)].string_value)
  /\ UNCHANGED <<content, reading, bencode, link, m_url>>

-----------------------------------------------------------------------------
\* http_announce: the tracker's url with the escaped hash (the parameters
\* behind it are constant).
AnnounceUrl(tracker) ==
  tracker \o <<"?", "info_hash", "=">> \o bytes_as_url_escaped_string(m_file_hash)

\* The first tracker is asked: string_to_endpoint parses its url for the
\* protocol, and http::from_string that of the request.
Announce ==
  /\ pc = "done" /\ m_url = NoUrl
  /\ LET tracker == m_trackers[1]
     IN m_url' = Parse(IF Parse(tracker).m_protocol = "udp" THEN tracker
                       ELSE AnnounceUrl(tracker))
  /\ UNCHANGED <<pc, content, reading, bencode, results, link>>

Next ==
  \/ FromPath \/ ConsumeByte \/ CutShort \/ FromBufferReturns
  \/ FromString \/ MagnetTracker \/ MagnetOther \/ MagnetHash \/ MagnetSource
  \/ MagnetChecks \/ Validate \/ Announce

Spec == Init /\ [][Next]_vars

-----------------------------------------------------------------------------
(* Properties.                                                             *)

\* A document that arrives whole is parsed into the very tree it encodes,
\* whatever its strings contain and whatever zeros follow, if none of its
\* strings is empty (bencode_map::from_buffer).
BencodeFaithful ==
  pc = "validate" /\ whole /\ feeds = 1 /\ NoEmptyString(document) =>
    m_root = 1 /\ targets = document.nodes

InfoClosed == \A i \in DOMAIN m_target_queue : m_target_queue[i] # info_target

\* The info hash of a torrent file is computed of exactly the bytes that encode
\* its info dictionary, nested containers included, once the parser has seen
\* its end (push_raw_bencode, and the 'd' that from_path adds).
HashIsOfInfo ==
  pc = "done" /\ source = "torrent_file" /\ InfoClosed =>
    \E n \in EntriesOf(document, 1, info) :
      hashed = SubSeq(document.text, document.first[n], document.last[n])

\* Hexadecimal digits by their definition, in both cases.
HexValue(c) == IF c \in 48..57 THEN c - 48 ELSE IF c \in 97..102 THEN c - 87 ELSE c - 55
HexBytes(hex) == [i \in 1..(Len(hex) \div 2) |-> 16 * HexValue(hex[2 * i - 1]) + HexValue(hex[2 * i])]
HexText(hex) == \A i \in DOMAIN hex : hex[i] \in (48..57) \cup (65..70) \cup (97..102)
LowDigitsLowerCase(hex) == \A i \in DOMAIN hex : i % 2 = 0 => hex[i] \notin 65..70

\* A link that is accepted and names a whole hash gives that hash, also when an
\* earlier link left bytes in the object; the second digit of a byte must not
\* be an upper-case letter (urn_to_file_hash).
MagnetHashRight ==
  pc = "done" /\ source = "magnet" =>
    \A i \in DOMAIN uri : uri[i].name = "xt" =>
      LET hex == HashWord(uri[i].urn)
      IN Len(hex) = 2 * HashBytes /\ HexText(hex) /\ LowDigitsLowerCase(hex)
           => m_file_hash = HexBytes(hex)

\* The announce goes to the tracker's host and port with its protocol and path,
\* and the tracker finds in it the hash that was loaded: what decode replaces
\* in the url, on the way to the host or inside the escaped hash, changes
\* nothing (url::from_string, bytes_as_url_escaped_string, http_announce).
AnnounceReachesTracker ==
  \A t \in Trackers : m_url # NoUrl /\ m_trackers[1] = t.text =>
    /\ m_url.m_protocol = t.protocol /\ m_url.m_host = t.host /\ m_url.m_port = t.port
    /\ t.protocol # "udp" =>
         Unescaped(m_url.m_path \o m_url.m_query) =
           Unescaped(t.path \o <<"?", "info_hash", "=">>)
             \o [i \in DOMAIN m_file_hash |-> [byte |-> m_file_hash[i]]]

\* The keys that are looked for are there.
Complete(d) ==
  /\ EntriesOf(d, 1, announce) # {} /\ EntriesOf(d, 1, info) # {}
  /\ \A n \in EntriesOf(d, 1, info) : InDictionary(d, n) =>
       EntriesOf(d, n, piece_length) # {} /\ EntriesOf(d, n, pieces) # {}
ParameterNames(u) == {u[i].name : i \in DOMAIN u}

\* Loading a source ends in an exception only if the document was cut, lacks a
\* key or has an empty string (a request that throws apart), and in undefined
\* behaviour only for a link without an exact source or with an empty hash:
\* however a first document is cut or padded, the parser never pops an empty
\* stack (consume_byte, validate_torrent_bencode_map).
CrashHasCause ==
  feeds <= 1 =>
    /\ pc = "terminated" => ~whole \/ ~NoEmptyString(document) \/ ~Complete(document)
    /\ pc = "undefined" =>
         \/ "xs" \notin ParameterNames(uri)
         \/ \E i \in DOMAIN uri : uri[i].name = "xt" /\ HashWord(uri[i].urn) = << >>
=============================================================================

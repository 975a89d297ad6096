---------------------------- MODULE SourcesProofs --------------------------
(***************************************************************************)
(* Proofs about Sources, for any documents, links, padding and hashes, and *)
(* for any place where a document is cut.                                  *)
(***************************************************************************)
EXTENDS Sources, BencodeProofs, ByteLemmas

-----------------------------------------------------------------------------
(* The inductive invariant of reading: while the first document is fed, the *)
(* parser follows it; behind its end come zeros only.                      *)

\* The bytes; that "NUL" is a string is more than the provers know.
Bytes == STRING \cup {"NUL"}

Returned == {"start", "failed", "parameters", "validate", "done", "http_threw"}

ReadTypes ==
  /\ document \in Documents /\ source \in {"torrent_file", "magnet"}
  /\ feeds \in Nat /\ whole \in BOOLEAN
  /\ data \in Seq(Bytes) /\ fed \in Nat /\ fed <= Len(data)

Unread ==
  feeds = 0 => NewBencodeMap /\ whole /\ pc \notin {"parse", "validate", "done"}

FileFed ==
  source = "torrent_file" => /\ feeds <= 1 /\ pc # "parameters"
                             /\ pc = "start" => feeds = 0
                             /\ feeds = 1 => m_store_raw_bencode

DataRight ==
  feeds = 1 =>
    /\ whole => data = document.text \o (IF source = "magnet" THEN Zeros ELSE << >>)
    /\ ~whole => \A j \in (fed + 1)..Len(data) : data[j] = "NUL"
    /\ ~whole /\ source = "torrent_file" => fed = Len(data) /\ fed <= Len(document.text)

Following ==
  feeds = 1 /\ ((whole /\ fed <= Len(document.text)) \/ source = "torrent_file") =>
    \A d \in {document}, f \in {fed} : Follows(d, f)

\* Behind the text the tree stays what it was at its end.
Padded ==
  feeds = 1 /\ whole /\ fed > Len(document.text) =>
    /\ m_state \in Idle \cup {"parsing_word"}
    /\ NoEmptyString(document) => m_state \in Idle /\ m_root = 1 /\ targets = document.nodes

Faults == feeds <= 1 => fault # "undefined" /\ (fault = "threw" => ~whole)

AllFed == pc \in Returned => fed = Len(data)

ReadInv ==
  ReadTypes /\ Unread /\ FileFed /\ DataRight /\ Following /\ Padded /\ Faults /\ AllFed

\* A document of this system.
LEMMA DocumentFacts ==
  ASSUME ReadTypes
  PROVE  /\ IsDocument(document) /\ Len(document.text) < SizeModulus
         /\ document.text \in Seq(Bytes) /\ Len(document.text) \in Nat
<1>1. document \in Documents
  BY DEF ReadTypes
<1>2. IsDocument(document) /\ Len(document.text) + Padding < SizeModulus /\ Padding \in Nat
  BY <1>1, SourcesAssumption
<1>3. document.text \in Seq(STRING) /\ Len(document.text) \in Nat
  BY <1>2, DocumentTypes
<1>4. document.text \in Seq(Bytes)
  BY <1>3 DEF Bytes
<1>5. Len(document.text) < SizeModulus
  BY <1>2, <1>3, BencodeAssumption
<1>6. QED
  BY <1>2, <1>3, <1>4, <1>5

LEMMA ZerosType ==
  /\ Zeros \in Seq(Bytes) /\ Len(Zeros) = Padding
  /\ \A i \in 1..Padding : Zeros[i] = "NUL"
<1>1. Zeros = [i \in 1..Padding |-> "NUL"] /\ Padding \in Nat
  BY SourcesAssumption DEF Zeros
<1>2. Zeros \in [1..Padding -> Bytes]
  BY <1>1 DEF Bytes
<1>3. Zeros \in Seq(Bytes) /\ Len(Zeros) = Padding
  BY <1>1, <1>2
<1>4. QED
  BY <1>1, <1>3

LEMMA ReadInvInit == Init => ReadInv
<1> SUFFICES ASSUME Init PROVE ReadInv
  OBVIOUS
<1>1. << >> \in Seq(Bytes) /\ Len(<< >>) = 0
  BY EmptySeq
<1>2. ReadTypes
  BY <1>1 DEF Init, ReadTypes
<1>3. Unread /\ FileFed /\ DataRight /\ Following /\ Padded /\ AllFed
  BY <1>1 DEF Init, Unread, FileFed, DataRight, Following, Padded, AllFed
<1>4. Faults
  BY DEF Init, NewBencodeMap, Faults
<1>5. QED
  BY <1>2, <1>3, <1>4 DEF ReadInv

\* Nothing is read and nothing parsed.
LEMMA QuietStep ==
  ASSUME ReadInv, UNCHANGED <<content, reading, bencode>>, pc \in Returned,
         pc' # "parse", pc' = "start" => pc = "start",
         source = "torrent_file" => pc' # "parameters",
         feeds = 0 => pc' \notin {"validate", "done"}
  PROVE  ReadInv'
<1>1. /\ UNCHANGED <<document, source, data, fed, whole, feeds>>
      /\ UNCHANGED <<m_state, m_element, m_element_length, m_element_length_string, m_store_raw_bencode,
                     m_target_queue, m_root, m_bracket_root, targets, latest_key, raw_bencode, fault>>
  BY DEF content, reading, bencode, element, tree
<1>2. ReadTypes'
  BY <1>1 DEF ReadInv, ReadTypes
<1>3. Unread'
  BY <1>1 DEF ReadInv, Unread, NewBencodeMap
<1>4. FileFed'
  BY <1>1 DEF ReadInv, FileFed
<1>5. DataRight'
  BY <1>1 DEF ReadInv, DataRight, Zeros
<1>6. Following'
  BY <1>1, FollowsUnchanged DEF ReadInv, Following, element, tree
<1>7. Padded'
  BY <1>1 DEF ReadInv, Padded
<1>8. Faults'
  BY <1>1 DEF ReadInv, Faults
<1>9. AllFed'
  BY <1>1 DEF ReadInv, AllFed
<1>10. QED
  BY <1>2, <1>3, <1>4, <1>5, <1>6, <1>7, <1>8, <1>9 DEF ReadInv

\* from_buffer is called with all of a document.
LEMMA FeedStep ==
  ASSUME ReadInv, pc' = "parse", UNCHANGED content,
         Feed(document.text \o (IF source = "magnet" THEN Zeros ELSE << >>)),
         UNCHANGED <<m_state, element, tree, raw_bencode, m_bracket_root, fault>>,
         source = "torrent_file" => feeds = 0 /\ m_store_raw_bencode'
  PROVE  ReadInv'
<1> DEFINE pad == IF source = "magnet" THEN Zeros ELSE << >>
<1>1. /\ data' = document.text \o pad /\ fed' = 0 /\ feeds' = feeds + 1
      /\ UNCHANGED <<whole, document, source>>
  BY DEF Feed, content
<1>2. UNCHANGED <<m_state, m_element, m_element_length_string, m_target_queue, m_root,
                  targets, latest_key, raw_bencode, fault>>
  BY DEF element, tree
<1>3. ReadTypes /\ feeds \in Nat /\ IsDocument(document) /\ document.text \in Seq(Bytes)
      /\ Len(document.text) \in Nat
  BY DocumentFacts DEF ReadInv, ReadTypes
<1>4. pad \in Seq(Bytes)
  <2>1. Zeros \in Seq(Bytes) /\ << >> \in Seq(Bytes)
    BY ZerosType, EmptySeq
  <2>2. QED
    BY <2>1
<1>5. data' \in Seq(Bytes) /\ Len(data') \in Nat
  BY <1>1, <1>3, <1>4, ConcatProperties, LenProperties
<1>6. ReadTypes'
  <2>1. /\ document' \in Documents /\ source' \in {"torrent_file", "magnet"} /\ whole' \in BOOLEAN
    BY <1>1, <1>3 DEF ReadTypes
  <2>2. feeds' \in Nat /\ fed' \in Nat /\ fed' <= Len(data')
    <3>1. feeds' \in Nat /\ fed' = 0
      BY <1>1, <1>3
    <3>2. QED
      BY <1>5, <3>1
  <2>3. QED
    BY <1>5, <2>1, <2>2 DEF ReadTypes
<1>7. Unread' /\ AllFed'
  BY <1>1, <1>3 DEF Unread, AllFed, Returned
<1>8. FileFed'
  BY <1>1, <1>3 DEF FileFed
<1>9. feeds' = 1 => feeds = 0 /\ NewBencodeMap /\ whole
  BY <1>1, <1>3 DEF ReadInv, Unread
<1>10. DataRight'
  BY <1>1, <1>9 DEF DataRight, Zeros
<1>11. Following'
  <2>1. SUFFICES ASSUME NEW d, d = document, feeds' = 1 PROVE Follows(d, 0)'
    BY <1>1 DEF Following
  <2>2. QED
    BY <1>2, <1>3, <1>9, <2>1, FollowStart DEF NewBencodeMap
<1>12. Padded'
  BY <1>1, <1>3 DEF Padded
<1>13. Faults'
  <2>1. feeds' <= 1 => feeds = 0 /\ feeds <= 1
    BY <1>1, <1>3
  <2>2. QED
    BY <1>1, <1>2, <2>1 DEF ReadInv, Faults
<1>14. QED
  BY <1>6, <1>7, <1>8, <1>10, <1>11, <1>12, <1>13 DEF ReadInv

\* What is fed behind the text, or after a cut, is zero.
LEMMA NextByte ==
  ASSUME ReadInv, feeds = 1, fed < Len(data)
  PROVE  /\ fed + 1 \in 1..Len(data) /\ Len(data) \in Nat
         /\ whole /\ fed < Len(document.text) => data[fed + 1] = document.text[fed + 1]
         /\ whole /\ fed >= Len(document.text) => data[fed + 1] = "NUL" /\ source = "magnet"
         /\ ~whole => data[fed + 1] = "NUL" /\ source = "magnet"
<1>1. /\ document.text \in Seq(Bytes) /\ Len(document.text) \in Nat
      /\ data \in Seq(Bytes) /\ Len(data) \in Nat /\ fed \in Nat /\ source \in {"torrent_file", "magnet"}
  BY DocumentFacts, LenProperties DEF ReadInv, ReadTypes
<1>2. fed + 1 \in 1..Len(data)
  BY <1>1
<1>3. ASSUME whole, source = "magnet"
      PROVE  /\ fed < Len(document.text) => data[fed + 1] = document.text[fed + 1]
             /\ fed >= Len(document.text) => data[fed + 1] = "NUL"
  <2>1. data = document.text \o Zeros
    BY <1>3 DEF ReadInv, DataRight
  <2>2. /\ Len(data) = Len(document.text) + Padding
        /\ \A i \in 1..Len(data) : data[i] = IF i <= Len(document.text) THEN document.text[i]
                                             ELSE Zeros[i - Len(document.text)]
    <3>1. /\ Len(document.text \o Zeros) = Len(document.text) + Len(Zeros)
          /\ \A i \in 1..(Len(document.text) + Len(Zeros)) :
               (document.text \o Zeros)[i] = IF i <= Len(document.text) THEN document.text[i]
                                             ELSE Zeros[i - Len(document.text)]
      BY <1>1, ZerosType, ConcatProperties
    <3>2. QED
      BY <2>1, <3>1, ZerosType
  <2>3. fed >= Len(document.text) => (fed + 1) - Len(document.text) \in 1..Padding
    BY <1>1, <2>2, SourcesAssumption
  <2>4. QED
    <3>1. /\ fed + 1 <= Len(document.text) => data[fed + 1] = document.text[fed + 1]
          /\ ~(fed + 1 <= Len(document.text)) => data[fed + 1] = Zeros[(fed + 1) - Len(document.text)]
      BY <1>2, <2>2
    <3>2. /\ fed < Len(document.text) => fed + 1 <= Len(document.text)
          /\ fed >= Len(document.text) => ~(fed + 1 <= Len(document.text))
      BY <1>1
    <3>3. QED
      BY <2>3, <3>1, <3>2, ZerosType
<1>4. ASSUME whole, source = "torrent_file"
      PROVE  data[fed + 1] = document.text[fed + 1] /\ fed < Len(document.text)
  <2>1. data = document.text \o << >>
    BY <1>4 DEF ReadInv, DataRight
  <2>2. data = document.text
    BY <1>1, <2>1, ConcatEmptySeq
  <2>3. QED
    BY <2>2
<1>5. ASSUME ~whole PROVE data[fed + 1] = "NUL" /\ source = "magnet"
  <2>1. /\ \A j \in (fed + 1)..Len(data) : data[j] = "NUL"
        /\ source = "torrent_file" => fed = Len(data)
    BY <1>5 DEF ReadInv, DataRight
  <2>2. fed + 1 \in (fed + 1)..Len(data) /\ fed # Len(data)
    BY <1>1
  <2>3. QED
    BY <1>1, <2>1, <2>2
<1>6. QED
  BY <1>1, <1>2, <1>3, <1>4, <1>5

LEMMA ConsumeStep ==
  ASSUME ReadInv, ConsumeByte
  PROVE  ReadInv'
<1>1. /\ pc = "parse" /\ fed < Len(data) /\ consume_byte(data[fed + 1]) /\ fed' = fed + 1
      /\ pc' = Faulted /\ UNCHANGED <<document, source, data, whole, feeds>>
  BY DEF ConsumeByte, content
<1>2. pc' \in {"parse", "terminated", "undefined"}
  BY <1>1 DEF Faulted
<1>3. feeds \in Nat /\ feeds # 0 /\ fed \in Nat
  BY <1>1 DEF ReadInv, ReadTypes, Unread
<1>4. ReadTypes'
  <2>1. data \in Seq(Bytes) /\ Len(data) \in Nat
    BY LenProperties DEF ReadInv, ReadTypes
  <2>2. fed' \in Nat /\ fed' <= Len(data)
    BY <1>1, <1>3, <2>1
  <2>3. QED
    BY <1>1, <2>2 DEF ReadInv, ReadTypes
<1>5. Unread' /\ AllFed'
  BY <1>1, <1>2, <1>3 DEF Unread, AllFed, Returned
<1>6. FileFed'
  <2>1. UNCHANGED m_store_raw_bencode
    BY <1>1 DEF consume_byte
  <2>2. QED
    BY <1>1, <1>2, <2>1 DEF ReadInv, FileFed
<1>7. CASE feeds # 1
  <2>1. ~(feeds <= 1)
    BY <1>3, <1>7
  <2>2. DataRight' /\ Following' /\ Padded' /\ Faults'
    BY <1>1, <1>7, <2>1 DEF DataRight, Following, Padded, Faults
  <2>3. QED
    BY <1>4, <1>5, <1>6, <2>2 DEF ReadInv
<1>8. CASE feeds = 1
  <2>1. PICK d, f : d = document /\ f = fed
    OBVIOUS
  <2>2. /\ IsDocument(d) /\ Len(d.text) < SizeModulus /\ Len(d.text) \in Nat /\ f \in Nat
    BY <1>3, <2>1, DocumentFacts DEF ReadInv
  <2>3. /\ whole /\ f < Len(d.text) => data[f + 1] = d.text[f + 1]
        /\ whole /\ f >= Len(d.text) => data[f + 1] = "NUL" /\ source = "magnet"
        /\ ~whole => data[f + 1] = "NUL" /\ source = "magnet"
        /\ Len(data) \in Nat
    BY <1>1, <1>8, <2>1, NextByte
  <2>4. DataRight'
    <3>1. \A j \in ((fed + 1) + 1)..Len(data) : j \in (fed + 1)..Len(data)
      BY <1>3, <2>3
    <3>2. /\ whole => data = document.text \o (IF source = "magnet" THEN Zeros ELSE << >>)
          /\ ~whole => \A j \in (fed + 1)..Len(data) : data[j] = "NUL"
      BY <1>8 DEF ReadInv, DataRight
    <3>3. ~whole => source # "torrent_file"
      BY <2>3
    <3>4. QED
      BY <1>1, <3>1, <3>2, <3>3 DEF DataRight, Zeros
  <2>5. fault # "undefined" /\ (fault = "threw" => ~whole)
    BY <1>8 DEF ReadInv, Faults
  <2>6. CASE whole /\ f < Len(d.text)
    <3>1. Follows(d, f)
      <4>1. f <= Len(d.text)
        BY <2>2, <2>6
      <4>2. QED
        BY <1>8, <2>1, <2>6, <4>1 DEF ReadInv, Following
    <3>2. consume_byte(d.text[f + 1])
      BY <1>1, <2>1, <2>3, <2>6
    <3>3. Follows(d, f + 1)' /\ UNCHANGED fault
      BY <2>2, <2>6, <3>1, <3>2, FollowStep
    <3>4. Following'
      BY <1>1, <2>1, <3>3 DEF Following
    <3>5. Padded'
      <4>1. ~(f + 1 > Len(d.text))
        BY <2>2, <2>6
      <4>2. QED
        BY <1>1, <2>1, <4>1 DEF Padded
    <3>6. Faults'
      BY <1>1, <2>5, <3>3 DEF Faults
    <3>7. QED
      BY <1>4, <1>5, <1>6, <2>4, <3>4, <3>5, <3>6 DEF ReadInv
  <2>7. CASE whole /\ f >= Len(d.text)
    <3>1. consume_byte("NUL") /\ source = "magnet"
      BY <1>1, <2>1, <2>3, <2>7
    <3>2. /\ m_state \in Idle \cup {"parsing_word"}
          /\ NoEmptyString(d) => m_state \in Idle /\ m_root = 1 /\ targets = d.nodes
      <4>1. CASE f = Len(d.text)
        <5>1. Follows(d, Len(d.text))
          BY <1>8, <2>1, <2>2, <2>7, <4>1 DEF ReadInv, Following
        <5>2. QED
          BY <2>2, <5>1, FollowEnd
      <4>2. CASE f > Len(d.text)
        BY <1>8, <2>1, <2>7, <4>2 DEF ReadInv, Padded
      <4>3. QED
        BY <2>2, <2>7, <4>1, <4>2
    <3>3. /\ m_state \in Idle => m_state' = "unknown" /\ UNCHANGED <<tree, fault>>
          /\ m_state = "parsing_word" => m_state' \in {"unknown", "parsing_word"} /\ UNCHANGED fault
      BY <3>1, NulByte
    <3>4. Following'
      <4>1. ~(f + 1 <= Len(d.text))
        BY <2>2, <2>7
      <4>2. QED
        BY <1>1, <2>1, <3>1, <4>1 DEF Following
    <3>5. Padded'
      BY <1>1, <2>1, <3>2, <3>3 DEF Padded, Idle, tree
    <3>6. Faults'
      BY <1>1, <2>5, <3>2, <3>3 DEF Faults
    <3>7. QED
      BY <1>4, <1>5, <1>6, <2>4, <3>4, <3>5, <3>6 DEF ReadInv
  <2>8. CASE ~whole
    <3>1. consume_byte("NUL") /\ source = "magnet"
      BY <1>1, <2>1, <2>3, <2>8
    <3>2. fault' \in {fault, "threw"}
      BY <3>1, NulByte
    <3>3. Following' /\ Padded' /\ Faults'
      BY <1>1, <2>5, <2>8, <3>1, <3>2 DEF Following, Padded, Faults
    <3>4. QED
      BY <1>4, <1>5, <1>6, <2>4, <3>3 DEF ReadInv
  <2>9. QED
    BY <2>2, <2>6, <2>7, <2>8
<1>9. QED
  BY <1>7, <1>8

LEMMA CutStep ==
  ASSUME ReadInv, CutShort
  PROVE  ReadInv'
<1> DEFINE pad == IF source = "magnet" THEN Zeros ELSE << >>
<1>1. /\ pc = "parse" /\ whole /\ fed < Len(document.text) /\ ~whole'
      /\ data' = SubSeq(data, 1, fed) \o pad
      /\ UNCHANGED <<pc, document, source, bencode, fed, feeds>>
  BY DEF CutShort, content
<1>2. /\ UNCHANGED m_store_raw_bencode /\ UNCHANGED fault
  BY <1>1 DEF bencode
<1>3. /\ feeds \in Nat /\ feeds # 0 /\ fed \in Nat /\ Len(document.text) \in Nat
      /\ data \in Seq(Bytes) /\ Len(data) \in Nat /\ fed <= Len(data)
      /\ source \in {"torrent_file", "magnet"}
  BY <1>1, DocumentFacts, LenProperties DEF ReadInv, ReadTypes, Unread
<1>4. pad \in Seq(Bytes) /\ Len(pad) \in Nat /\ \A i \in 1..Len(pad) : pad[i] = "NUL"
  <2>1. /\ Zeros \in Seq(Bytes) /\ Len(Zeros) \in Nat /\ \A i \in 1..Len(Zeros) : Zeros[i] = "NUL"
    BY ZerosType, SourcesAssumption
  <2>2. << >> \in Seq(Bytes) /\ Len(<< >>) = 0 /\ \A i \in 1..0 : << >>[i] = "NUL"
    BY EmptySeq
  <2>3. QED
    BY <2>1, <2>2
<1>5. SubSeq(data, 1, fed) \in Seq(Bytes) /\ Len(SubSeq(data, 1, fed)) = fed
  <2>1. /\ SubSeq(data, 1, fed) \in Seq(Bytes)
        /\ 1 <= fed => Len(SubSeq(data, 1, fed)) = fed - 1 + 1
        /\ fed < 1 => SubSeq(data, 1, fed) = << >>
    BY <1>3, SubSeqType
  <2>2. QED
    BY <1>3, <2>1, EmptySeq
<1> HIDE DEF pad
<1>6. /\ data' \in Seq(Bytes) /\ Len(data') = fed + Len(pad)
      /\ \A j \in 1..(fed + Len(pad)) : data'[j] = IF j <= fed THEN SubSeq(data, 1, fed)[j] ELSE pad[j - fed]
  BY <1>1, <1>4, <1>5, ConcatProperties
<1>7. fed <= Len(data') /\ \A j \in (fed + 1)..Len(data') : data'[j] = "NUL"
  <2>1. fed <= Len(data') /\ \A j \in (fed + 1)..Len(data') : j - fed \in 1..Len(pad) /\ ~(j <= fed)
                                                            /\ j \in 1..(fed + Len(pad))
    BY <1>3, <1>4, <1>6
  <2>2. QED
    BY <1>4, <1>6, <2>1
<1>8. source = "torrent_file" => fed = Len(data') /\ fed <= Len(document.text)
  BY <1>1, <1>3, <1>6, EmptySeq DEF pad
<1>9. ReadTypes'
  <2>1. whole' \in BOOLEAN
    BY DEF CutShort
  <2>2. QED
    BY <1>1, <1>6, <1>7, <2>1 DEF ReadInv, ReadTypes
<1>10. Unread' /\ FileFed' /\ AllFed'
  BY <1>1, <1>2, <1>3 DEF ReadInv, Unread, FileFed, AllFed, Returned
<1>11. DataRight'
  BY <1>1, <1>7, <1>8 DEF DataRight
<1>12. Following'
  <2>1. feeds = 1 => \A d \in {document}, f \in {fed} : Follows(d, f)
    <3>1. fed <= Len(document.text)
      BY <1>1, <1>3
    <3>2. QED
      BY <1>1, <3>1 DEF ReadInv, Following
  <2>2. QED
    BY <1>1, <2>1, FollowsUnchanged DEF Following, bencode
<1>13. Padded' /\ Faults'
  BY <1>1, <1>2 DEF ReadInv, Padded, Faults
<1>14. QED
  BY <1>9, <1>10, <1>11, <1>12, <1>13 DEF ReadInv

LEMMA ReturnStep ==
  ASSUME ReadInv, FromBufferReturns
  PROVE  ReadInv'
<1>1. /\ pc = "parse" /\ fed = Len(data) /\ pc' = (IF source = "magnet" THEN "parameters" ELSE "validate")
      /\ UNCHANGED <<document, source, data, fed, whole, feeds>>
      /\ UNCHANGED <<m_state, m_element, m_element_length, m_element_length_string, m_store_raw_bencode,
                     m_target_queue, m_root, targets, latest_key, raw_bencode, fault>>
  BY DEF FromBufferReturns, content, reading, element, tree
<1>2. feeds # 0
  BY <1>1 DEF ReadInv, Unread
<1>3. ReadTypes'
  BY <1>1 DEF ReadInv, ReadTypes
<1>4. Unread' /\ FileFed' /\ AllFed'
  BY <1>1, <1>2 DEF ReadInv, Unread, FileFed, AllFed
<1>5. DataRight'
  BY <1>1 DEF ReadInv, DataRight, Zeros
<1>6. Following'
  BY <1>1, FollowsUnchanged DEF ReadInv, Following, element, tree
<1>7. Padded' /\ Faults'
  BY <1>1 DEF ReadInv, Padded, Faults
<1>8. QED
  BY <1>3, <1>4, <1>5, <1>6, <1>7 DEF ReadInv

\* Every step keeps the invariant: it feeds a document, consumes a byte, cuts the
\* data, returns from from_buffer, or leaves all of that alone.
LEMMA ReadInvNext ==
  ASSUME ReadInv, [Next]_vars
  PROVE  ReadInv'
<1>1. CASE UNCHANGED vars
  <2>1. UNCHANGED <<pc, content, reading, bencode>>
    BY <1>1 DEF vars
  <2>2. /\ UNCHANGED <<pc, document, source, data, fed, whole, feeds>>
        /\ UNCHANGED <<m_state, m_element, m_element_length, m_element_length_string, m_store_raw_bencode,
                       m_target_queue, m_root, m_bracket_root, targets, latest_key, raw_bencode, fault>>
    BY <2>1 DEF content, reading, bencode, element, tree
  <2>3. ReadTypes' /\ Unread' /\ FileFed'
    BY <2>2 DEF ReadInv, ReadTypes, Unread, NewBencodeMap, FileFed
  <2>4. DataRight' /\ Padded' /\ Faults' /\ AllFed'
    BY <2>2 DEF ReadInv, DataRight, Zeros, Padded, Faults, AllFed
  <2>5. Following'
    BY <2>2, FollowsUnchanged DEF ReadInv, Following, element, tree
  <2>6. QED
    BY <2>3, <2>4, <2>5 DEF ReadInv
<1>2. CASE FromPath
  <2>1. source = "torrent_file" /\ pc = "start" /\ UNCHANGED content /\ feeds = 0
    BY <1>2 DEF FromPath, ReadInv, FileFed
  <2>2. CASE pc' = "failed" /\ UNCHANGED <<reading, bencode>>
    BY <2>1, <2>2, QuietStep DEF Returned
  <2>3. CASE /\ pc' = "parse" /\ Feed(document.text) /\ m_store_raw_bencode' = TRUE
             /\ UNCHANGED <<m_state, element, tree, raw_bencode, m_bracket_root, fault>>
    <3>1. document.text = document.text \o << >>
      <4>1. document.text \in Seq(Bytes)
        BY DocumentFacts DEF ReadInv
      <4>2. QED
        BY <4>1, ConcatEmptySeq
    <3>2. Feed(document.text \o (IF source = "magnet" THEN Zeros ELSE << >>))
      BY <2>1, <2>3, <3>1
    <3>3. QED
      BY <2>1, <2>3, <3>2, FeedStep
  <2>4. QED
    BY <1>2, <2>2, <2>3 DEF FromPath
<1>3. CASE ConsumeByte
  BY <1>3, ConsumeStep
<1>4. CASE CutShort
  BY <1>4, CutStep
<1>5. CASE FromBufferReturns
  BY <1>5, ReturnStep
<1>6. CASE FromString
  BY <1>6, QuietStep DEF FromString, Returned
<1>7. CASE MagnetTracker \/ MagnetOther \/ MagnetHash
  <2>1. /\ pc = "parameters" /\ pc' \in {"parameters", "undefined", "failed"}
        /\ UNCHANGED <<content, reading, bencode>>
    BY <1>7 DEF MagnetTracker, MagnetOther, MagnetHash, Parameter, Proceed
  <2>2. source # "torrent_file"
    BY <2>1 DEF ReadInv, FileFed
  <2>3. QED
    BY <2>1, <2>2, QuietStep DEF Returned
<1>8. CASE MagnetSource
  <2>1. pc = "parameters" /\ UNCHANGED <<content, bencode>>
    BY <1>8 DEF MagnetSource, Parameter, Proceed
  <2>2. source = "magnet"
    BY <2>1 DEF ReadInv, FileFed, ReadTypes
  <2>3. CASE pc' \in {"failed", "http_threw"} /\ UNCHANGED reading
    BY <2>1, <2>2, <2>3, QuietStep DEF Returned
  <2>4. CASE pc' = "parse" /\ Feed(document.text \o Zeros)
    BY <2>1, <2>2, <2>4, FeedStep DEF bencode
  <2>5. QED
    BY <1>8, <2>3, <2>4 DEF MagnetSource, Proceed
<1>9. CASE MagnetChecks
  <2>1. /\ pc = "parameters" /\ pc' \in {"failed", "undefined", "validate"}
        /\ pc' = "validate" => m_bracket_root # "null"
        /\ UNCHANGED <<content, reading, bencode>>
    BY <1>9 DEF MagnetChecks
  <2>2. feeds = 0 => pc' # "validate"
    BY <2>1 DEF ReadInv, Unread, NewBencodeMap
  <2>3. QED
    BY <2>1, <2>2, QuietStep DEF Returned
<1>10. CASE Validate
  <2>1. /\ pc = "validate" /\ pc' \in {"terminated", "failed", "done"}
        /\ UNCHANGED <<content, reading, bencode>>
    BY <1>10 DEF Validate, Validated, Check
  <2>2. feeds # 0
    BY <2>1 DEF ReadInv, Unread
  <2>3. QED
    BY <2>1, <2>2, QuietStep DEF Returned
<1>11. CASE Announce
  <2>1. pc = "done" /\ UNCHANGED <<pc, content, reading, bencode>>
    BY <1>11 DEF Announce
  <2>2. feeds # 0
    BY <2>1 DEF ReadInv, Unread
  <2>3. QED
    BY <2>1, <2>2, QuietStep DEF Returned
<1>12. QED
  BY <1>1, <1>2, <1>3, <1>4, <1>5, <1>6, <1>7, <1>8, <1>9, <1>10, <1>11 DEF Next

\* While the first document is read, the parser keeps the tree, the stack and
\* the texts that the bytes so far spell (bencode_map::consume_byte).
THEOREM ReadingCorrect == Spec => []ReadInv
<1>1. Init => ReadInv
  BY ReadInvInit
<1>2. ReadInv /\ [Next]_vars => ReadInv'
  BY ReadInvNext
<1>3. QED
  BY <1>1, <1>2, PTL DEF Spec

\* What a whole document without empty strings leaves, once it is read.
LEMMA WholeTree ==
  ASSUME ReadInv, feeds = 1, whole, fed = Len(data), NoEmptyString(document)
  PROVE  m_root = 1 /\ targets = document.nodes
<1>1. /\ document.text \in Seq(Bytes) /\ Len(document.text) \in Nat /\ IsDocument(document)
      /\ data \in Seq(Bytes) /\ Len(data) \in Nat /\ fed \in Nat
  BY DocumentFacts, LenProperties DEF ReadInv, ReadTypes
<1>2. Len(data) >= Len(document.text)
  <2> DEFINE pad == IF source = "magnet" THEN Zeros ELSE << >>
  <2>1. data = document.text \o pad
    BY DEF ReadInv, DataRight
  <2>2. pad \in Seq(Bytes) /\ Len(pad) \in Nat
    <3>1. Zeros \in Seq(Bytes) /\ << >> \in Seq(Bytes)
      BY ZerosType, EmptySeq
    <3>2. pad \in Seq(Bytes)
      BY <3>1
    <3>3. QED
      BY <3>2, LenProperties
  <2> HIDE DEF pad
  <2>3. Len(document.text \o pad) = Len(document.text) + Len(pad)
    BY <1>1, <2>2, ConcatProperties
  <2>4. QED
    BY <1>1, <2>1, <2>2, <2>3
<1>3. CASE fed > Len(document.text)
  BY <1>3 DEF ReadInv, Padded
<1>4. CASE fed = Len(document.text)
  <2>1. Follows(document, Len(document.text))
    BY <1>1, <1>4 DEF ReadInv, Following
  <2>2. QED
    BY <1>1, <2>1, FollowEnd
<1>5. QED
  BY <1>1, <1>2, <1>3, <1>4

\* A whole document is parsed into the very tree it encodes, for every document
\* and every padding (bencode_map::from_buffer).
THEOREM ParserFaithful == Spec => []BencodeFaithful
<1>1. ReadInv => BencodeFaithful
  <2>1. SUFFICES ASSUME ReadInv, pc = "validate", whole, feeds = 1, NoEmptyString(document)
                 PROVE  m_root = 1 /\ targets = document.nodes
    BY DEF BencodeFaithful
  <2>2. fed = Len(data)
    BY <2>1 DEF ReadInv, AllFed, Returned
  <2>3. QED
    BY <2>1, <2>2, WholeTree
<1>2. QED
  BY <1>1, ReadingCorrect, PTL

-----------------------------------------------------------------------------
(* The tree as validate_torrent_bencode_map reads it.                      *)

\* The targets are nodes of d, by their numbers.
PartOf(d) == /\ DOMAIN targets \subseteq DOMAIN d.nodes
             /\ \A n \in DOMAIN targets : targets[n] = d.nodes[n]

\* A dictionary has a key once, so map_container.at() finds the one entry.
LEMMA AtEntry ==
  ASSUME NEW d, IsDocument(d), PartOf(d), NEW id \in DOMAIN targets,
         targets[id].type = "dictionaries", NEW key, Entries(id, key) # {}
  PROVE  At(id, key) \in Entries(id, key)
<1>1. \A m, n \in Entries(id, key) : m = n
  <2>1. SUFFICES ASSUME NEW m \in Entries(id, key), NEW n \in Entries(id, key) PROVE m = n
    OBVIOUS
  <2>2. /\ m \in DOMAIN d.nodes /\ n \in DOMAIN d.nodes /\ InDictionary(d, id)
        /\ d.nodes[m].parent = id /\ d.nodes[n].parent = id
        /\ d.nodes[m].key = key /\ d.nodes[n].key = key
    BY DEF PartOf, Entries, InDictionary
  <2>3. \A i, j \in DOMAIN d.nodes :
          d.nodes[i].parent = d.nodes[j].parent /\ d.nodes[i].key = d.nodes[j].key
            /\ InDictionary(d, d.nodes[j].parent) => i = j
    BY DEF IsDocument
  <2>4. QED
    BY <2>2, <2>3
<1>2. \A m \in Entries(id, key) : m \in Nat
  BY DocumentTypes DEF Entries, PartOf
<1>3. \E n \in Entries(id, key) : \A m \in Entries(id, key) : m <= n
  BY <1>1, <1>2
<1>4. id # 0
  BY DocumentTypes DEF PartOf
<1>5. At(id, key) = CHOOSE n \in Entries(id, key) : \A m \in Entries(id, key) : m <= n
  BY <1>4 DEF At, TypeOf
<1>6. QED
  BY <1>3, <1>5

LEMMA CheckDone ==
  ASSUME NEW id, NEW key, NEW type, NEW otherwise, Check(id, key, type, otherwise) = "done"
  PROVE  HasKey(id, key) /\ TypeOf(At(id, key)) = type /\ otherwise = "done"
BY DEF Check

\* What passes validate_torrent_bencode_map has an info dictionary.
LEMMA ValidatedInfo ==
  ASSUME NEW d, IsDocument(d), PartOf(d), m_root \in {0, 1}, m_root = 1 => 1 \in DOMAIN targets,
         Validated = "done"
  PROVE  info_target \in EntriesOf(d, 1, info) \cap DOMAIN targets
         /\ d.nodes[info_target].type = "dictionaries"
<1>1. /\ HasKey(m_root, announce) /\ TypeOf(At(m_root, announce)) = "strings"
      /\ HasKey(m_root, info) /\ TypeOf(At(m_root, info)) = "dictionaries"
  <2>1. PICK more : Validated = Check(m_root, announce, "strings", Check(m_root, info, "dictionaries", more))
    BY DEF Validated
  <2>2. /\ HasKey(m_root, announce) /\ TypeOf(At(m_root, announce)) = "strings"
        /\ Check(m_root, info, "dictionaries", more) = "done"
    BY <2>1, CheckDone
  <2>3. QED
    BY <2>2, CheckDone
<1>2. TypeOf(m_root) = "dictionaries"
  BY <1>1 DEF At
<1>3. m_root = 1 /\ 1 \in DOMAIN targets /\ targets[1].type = "dictionaries"
  BY <1>2 DEF TypeOf
<1>4. Entries(1, info) # {}
  BY <1>1, <1>2, <1>3 DEF HasKey
<1>5. info_target \in Entries(1, info)
  BY <1>3, <1>4, AtEntry DEF info_target
<1>6. info_target # 0
  BY <1>5, DocumentTypes DEF Entries, PartOf
<1>7. targets[info_target].type = "dictionaries"
  BY <1>1, <1>6 DEF info_target, TypeOf
<1>8. QED
  BY <1>5, <1>7 DEF Entries, EntriesOf, PartOf

\* What is validated depends on the tree alone.
LEMMA SameTree ==
  ASSUME UNCHANGED <<m_root, targets>>
  PROVE  Validated' = Validated /\ info_target' = info_target
<1> DEFINE type(t, id) == IF id = 0 THEN "unknown" ELSE t[id].type
           entries(t, id, key) == {n \in DOMAIN t : t[n].parent = id /\ t[n].key = key}
           has(t, id, key) == type(t, id) = "dictionaries" => entries(t, id, key) # {}
           at(t, id, key) == IF type(t, id) # "dictionaries" THEN id
                             ELSE CHOOSE n \in entries(t, id, key) : \A m \in entries(t, id, key) : m <= n
           check(t, id, key, ty, more) == IF ~has(t, id, key) THEN "terminated"
                                          ELSE IF type(t, at(t, id, key)) # ty THEN "failed" ELSE more
           valid(t, r) == check(t, r, announce, "strings", check(t, r, info, "dictionaries",
                            check(t, at(t, r, info), piece_length, "integers",
                              check(t, at(t, r, info), pieces, "strings", "done"))))
<1>1. Validated = valid(targets, m_root) /\ info_target = at(targets, m_root, info)
  BY Zenon DEF Validated, Check, info_target, At, HasKey, Entries, TypeOf
<1>2. Validated' = valid(targets', m_root') /\ info_target' = at(targets', m_root', info)
  BY Zenon DEF Validated, Check, info_target, At, HasKey, Entries, TypeOf, announce, info, piece_length, pieces
<1> HIDE DEF valid, at
<1>3. QED
  BY <1>1, <1>2

FileDone == pc = "done" /\ source = "torrent_file" => Validated = "done" /\ hashed = InfoRaw

LEMMA FileDoneNext ==
  ASSUME FileDone, [Next]_vars
  PROVE  FileDone'
<1>1. SUFFICES ASSUME pc' = "done", source' = "torrent_file"
               PROVE  (Validated = "done" /\ hashed = InfoRaw)'
  BY DEF FileDone
<1>2. CASE Validate
  <2>1. /\ Validated = "done" /\ hashed' = InfoRaw
        /\ UNCHANGED <<m_root, targets, raw_bencode>>
    BY <1>1, <1>2 DEF Validate, content, bencode, tree
  <2>2. QED
    BY <2>1, SameTree DEF InfoRaw
<1>3. CASE Announce \/ UNCHANGED vars
  <2>1. pc = "done" /\ source = "torrent_file" /\ UNCHANGED <<hashed, m_root, targets, raw_bencode>>
    BY <1>1, <1>3 DEF Announce, vars, content, bencode, results, tree
  <2>2. Validated = "done" /\ hashed = InfoRaw
    BY <2>1 DEF FileDone
  <2>3. QED
    BY <2>1, <2>2, SameTree DEF InfoRaw
<1>4. QED
  <2>1. CASE FromPath \/ FromBufferReturns \/ FromString \/ MagnetTracker \/ MagnetOther
    BY <1>1, <2>1 DEF FromPath, FromBufferReturns, FromString, MagnetTracker, MagnetOther, Proceed
  <2>2. CASE ConsumeByte \/ CutShort
    BY <1>1, <2>2 DEF ConsumeByte, CutShort, Faulted
  <2>3. CASE MagnetHash \/ MagnetSource \/ MagnetChecks
    BY <1>1, <2>3 DEF MagnetHash, MagnetSource, MagnetChecks, Proceed
  <2>4. QED
    BY <1>2, <1>3, <2>1, <2>2, <2>3 DEF Next

\* The hash of a torrent file is computed of the very text of its info, for
\* every document and however the file is cut (push_raw_bencode, from_path).
THEOREM HashCorrect == Spec => []HashIsOfInfo
<1>1. Init => FileDone
  BY DEF Init, FileDone
<1>2. FileDone /\ [Next]_vars => FileDone'
  BY FileDoneNext
<1>3. ReadInv /\ FileDone => HashIsOfInfo
  <2>1. SUFFICES ASSUME ReadInv, FileDone, pc = "done", source = "torrent_file", InfoClosed
                 PROVE  \E n \in EntriesOf(document, 1, info) :
                          hashed = SubSeq(document.text, document.first[n], document.last[n])
    BY DEF HashIsOfInfo
  <2>2. PICK d, f : d = document /\ f = fed
    OBVIOUS
  <2>3. /\ feeds = 1 /\ m_store_raw_bencode /\ f \in Nat /\ whole \in BOOLEAN
    BY <2>1, <2>2 DEF ReadInv, ReadTypes, Unread, FileFed
  <2>4. IsDocument(d) /\ Follows(d, f)
    BY <2>1, <2>2, <2>3, DocumentFacts DEF ReadInv, Following
  <2>5. f <= Len(d.text)
    <3>1. CASE ~whole
      BY <2>1, <2>2, <2>3, <3>1 DEF ReadInv, DataRight
    <3>2. CASE whole
      <4>1. data = document.text \o << >> /\ document.text \in Seq(Bytes) /\ f = Len(data)
        BY <2>1, <2>2, <2>3, <3>2, DocumentFacts DEF ReadInv, DataRight, AllFed, Returned
      <4>2. data = document.text
        BY <4>1, ConcatEmptySeq
      <4>3. QED
        BY <2>2, <2>3, <4>1, <4>2
    <3>3. QED
      BY <3>1, <3>2
  <2>6. PartOf(d) /\ m_root \in {0, 1} /\ (m_root = 1 => 1 \in DOMAIN targets)
    BY <2>4, FollowsTree DEF PartOf
  <2>7. Validated = "done" /\ hashed = <<"d">> \o raw_bencode[info_target]
    BY <2>1 DEF FileDone, InfoRaw
  <2>8. /\ info_target \in EntriesOf(d, 1, info) /\ info_target \in DOMAIN targets
        /\ d.nodes[info_target].type = "dictionaries"
    BY <2>4, <2>6, <2>7, ValidatedInfo
  <2>9. ~OnStack(info_target)
    <3>1. m_target_queue \in Seq(Nat)
      BY <2>4 DEF Follows, FollowsAt, KeepsUp, StackRight
    <3>2. DOMAIN m_target_queue = 1..Len(m_target_queue)
      BY <3>1, LenProperties
    <3>3. QED
      BY <2>1, <3>2 DEF InfoClosed, OnStack
  <2>10. PICK n : n = info_target
    OBVIOUS
  <2>11. <<"d">> \o raw_bencode[n] = SubSeq(d.text, d.first[n], d.last[n])
    BY <2>3, <2>4, <2>5, <2>8, <2>9, <2>10, ClosedText
  <2>12. QED
    BY <2>2, <2>7, <2>8, <2>10, <2>11
<1>4. QED
  BY <1>1, <1>2, <1>3, ReadingCorrect, PTL DEF Spec

-----------------------------------------------------------------------------
(* The link of a magnet object and how far it is read.                     *)

\* The parameters that were handled, by their places.
Read == 1..(Len(uri) - Len(left))

\* What is left of the link is its end.
LinkInv ==
  /\ uri \in Seq({uri[i] : i \in DOMAIN uri}) /\ left \in Seq({uri[i] : i \in DOMAIN uri})
  /\ Len(left) <= Len(uri) /\ (uri # << >> => uri \in Uris)
  /\ \A i \in DOMAIN left : left[i] = uri[Len(uri) - Len(left) + i]

\* Handling a parameter makes the first that was left the last one read.
LEMMA LinkStep ==
  ASSUME LinkInv, left # << >>, uri' = uri, left' = Tail(left)
  PROVE  /\ LinkInv'
         /\ \A i \in Read' : i \in Read \/ uri[i] = Head(left)
         /\ \E i \in DOMAIN uri : uri[i] = Head(left)
<1> DEFINE S == {uri[i] : i \in DOMAIN uri}
           n == Len(uri) - Len(left)
<1>1. uri \in Seq(S) /\ left \in Seq(S) /\ Len(left) <= Len(uri)
  BY DEF LinkInv
<1>2. /\ DOMAIN uri = 1..Len(uri) /\ Len(uri) \in Nat
      /\ DOMAIN left = 1..Len(left) /\ Len(left) \in Nat /\ Len(left) # 0
  BY <1>1, LenProperties, EmptySeq
<1>3. /\ Tail(left) \in Seq(S) /\ Len(Tail(left)) = Len(left) - 1
      /\ \A i \in 1..Len(Tail(left)) : Tail(left)[i] = left[i + 1]
  BY <1>1, HeadTailProperties
<1>4. DOMAIN Tail(left) = 1..(Len(left) - 1)
  BY <1>3, LenProperties
<1>5. Head(left) = left[1] /\ 1 \in DOMAIN left
  <2> HIDE DEF S
  <2>1. QED
    BY <1>1, <1>2
<1>6. \A i \in DOMAIN left : left[i] = uri[n + i]
  BY DEF LinkInv
<1> HIDE DEF S
<1>7. Head(left) = uri[n + 1] /\ n + 1 \in DOMAIN uri /\ n \in Nat
  BY <1>1, <1>2, <1>5, <1>6
<1>8. \A i \in DOMAIN Tail(left) : Tail(left)[i] = uri[Len(uri) - Len(Tail(left)) + i]
  <2>1. SUFFICES ASSUME NEW i \in 1..(Len(left) - 1)
                 PROVE  Tail(left)[i] = uri[Len(uri) - Len(Tail(left)) + i]
    BY <1>4
  <2>2. Tail(left)[i] = left[i + 1] /\ i + 1 \in DOMAIN left
    BY <1>2, <1>3
  <2>3. left[i + 1] = uri[n + (i + 1)] /\ n + (i + 1) = Len(uri) - Len(Tail(left)) + i
    <3>1. left[i + 1] = uri[n + (i + 1)]
      BY <1>6, <2>2
    <3>2. n + (i + 1) = Len(uri) - Len(Tail(left)) + i
      BY <1>2, <1>3
    <3>3. QED
      BY <3>1, <3>2
  <2>4. QED
    BY <2>2, <2>3
<1>9. LinkInv'
  <2> USE DEF S
  <2>1. uri' \in Seq({uri'[i] : i \in DOMAIN uri'}) /\ left' \in Seq({uri'[i] : i \in DOMAIN uri'})
    BY <1>1, <1>3
  <2>2. Len(left') <= Len(uri') /\ (uri' # << >> => uri' \in Uris)
    BY <1>1, <1>2, <1>3 DEF LinkInv
  <2>3. QED
    BY <1>8, <2>1, <2>2 DEF LinkInv
<1>10. \A i \in Read' : i \in Read \/ i = n + 1
  BY <1>1, <1>2, <1>3 DEF Read
<1>11. QED
  BY <1>7, <1>9, <1>10

\* A link that is given is read from its beginning.
LEMMA LinkStart ==
  ASSUME NEW u \in Uris, uri' = u, left' = u
  PROVE  LinkInv' /\ Read' = {}
<1>1. u \in Seq({u[i] : i \in DOMAIN u})
  BY SourcesAssumption
<1>2. Len(u) \in Nat /\ DOMAIN u = 1..Len(u)
  BY <1>1, LenProperties
<1>3. \A i \in DOMAIN u : u[i] = u[Len(u) - Len(u) + i]
  BY <1>2
<1>4. QED
  BY <1>1, <1>2, <1>3 DEF LinkInv, Read

\* Nothing else touches the link.
LEMMA LinkSteps ==
  ASSUME [Next]_vars
  PROVE  \/ \E name \in {"tr", "dn", "xt", "xs"} :
              Parameter(name) /\ uri' = uri /\ left' = Tail(left)
         \/ pc' = "parameters" /\ \E u \in Uris : uri' = u /\ left' = u
         \/ UNCHANGED <<uri, left>>
<1>1. CASE MagnetTracker \/ MagnetOther
  BY <1>1 DEF MagnetTracker, MagnetOther, Proceed
<1>2. CASE MagnetHash
  BY <1>2 DEF MagnetHash, Proceed
<1>3. CASE MagnetSource
  BY <1>3 DEF MagnetSource, Proceed
<1>4. CASE FromString
  BY <1>4 DEF FromString
<1>5. CASE FromPath \/ ConsumeByte \/ CutShort \/ FromBufferReturns \/ MagnetChecks
  BY <1>5 DEF FromPath, ConsumeByte, CutShort, FromBufferReturns, MagnetChecks, link
<1>6. CASE Validate \/ Announce \/ UNCHANGED vars
  BY <1>6 DEF Validate, Announce, vars, link
<1>7. QED
  BY <1>1, <1>2, <1>3, <1>4, <1>5, <1>6 DEF Next

LEMMA LinkInvInit == Init => LinkInv /\ Read = {}
<1>1. << >> \in Seq({}) /\ Len(<< >>) = 0 /\ DOMAIN << >> = {}
  OBVIOUS
<1>2. QED
  BY <1>1 DEF Init, LinkInv, Read

LEMMA LinkInvNext ==
  ASSUME LinkInv, [Next]_vars
  PROVE  LinkInv'
<1>1. ASSUME NEW name, Parameter(name), uri' = uri, left' = Tail(left) PROVE LinkInv'
  BY <1>1, LinkStep DEF Parameter
<1>2. ASSUME NEW u \in Uris, uri' = u, left' = u PROVE LinkInv'
  BY <1>2, LinkStart
<1>3. ASSUME UNCHANGED <<uri, left>> PROVE LinkInv'
  BY <1>3 DEF LinkInv
<1>4. QED
  BY <1>1, <1>2, <1>3, LinkSteps

-----------------------------------------------------------------------------
(* How loading a source may end.                                           *)

\* A link whose exact source was read has a map to look into.
SeenSource ==
  pc = "parameters" /\ m_bracket_root = "null" => \A i \in Read : uri[i].name # "xs"

LEMMA SeenSourceNext ==
  ASSUME LinkInv, SeenSource, [Next]_vars
  PROVE  SeenSource'
<1>1. SUFFICES ASSUME pc' = "parameters", m_bracket_root' = "null"
               PROVE  \A i \in Read' : uri'[i].name # "xs"
  BY DEF SeenSource
<1>2. CASE MagnetTracker \/ MagnetOther \/ MagnetHash
  <2>1. /\ pc = "parameters" /\ left # << >> /\ Head(left).name # "xs"
        /\ uri' = uri /\ left' = Tail(left) /\ m_bracket_root' = m_bracket_root
    BY <1>2 DEF MagnetTracker, MagnetOther, MagnetHash, Parameter, Proceed, bencode
  <2>2. \A i \in Read' : i \in Read \/ uri[i] = Head(left)
    BY <2>1, LinkStep
  <2>3. \A i \in Read : uri[i].name # "xs"
    BY <1>1, <2>1 DEF SeenSource
  <2>4. QED
    BY <2>1, <2>2, <2>3
<1>3. CASE FromString
  <2>1. PICK u \in Uris : uri' = u /\ left' = u
    BY <1>3 DEF FromString
  <2>2. QED
    BY <2>1, LinkStart
<1>4. CASE UNCHANGED vars
  BY <1>1, <1>4 DEF SeenSource, vars, link, bencode, Read
<1>5. QED
  <2>1. CASE FromPath \/ CutShort \/ FromBufferReturns \/ MagnetChecks \/ Announce
    BY <1>1, <2>1 DEF FromPath, CutShort, FromBufferReturns, MagnetChecks, Announce
  <2>2. CASE MagnetSource
    BY <1>1, <2>2 DEF MagnetSource, Proceed
  <2>3. CASE ConsumeByte
    BY <1>1, <2>3 DEF ConsumeByte, Faulted
  <2>4. CASE Validate
    BY <1>1, <2>4 DEF Validate, Validated, Check
  <2>5. QED
    BY <1>2, <1>3, <1>4, <2>1, <2>2, <2>3, <2>4 DEF Next

\* A complete tree has every key that validate_torrent_bencode_map looks for.
LEMMA NoKeyMissing ==
  ASSUME NEW d, IsDocument(d), d.nodes = targets, m_root = 1, Complete(d)
  PROVE  Validated # "terminated"
<1> DEFINE rest == Check(info_target, piece_length, "integers",
                         Check(info_target, pieces, "strings", "done"))
<1>1. PartOf(d) /\ 1 \in DOMAIN targets
  BY FirstToken DEF PartOf
<1>2. \A n, key : Entries(n, key) = EntriesOf(d, n, key)
  BY DEF Entries, EntriesOf
<1>3. HasKey(m_root, announce) /\ HasKey(m_root, info)
  BY <1>2 DEF HasKey, Complete
<1>4. SUFFICES ASSUME TypeOf(At(m_root, announce)) = "strings", TypeOf(info_target) = "dictionaries"
               PROVE  rest # "terminated"
  <2> HIDE DEF rest
  <2>1. Validated = Check(m_root, announce, "strings", Check(m_root, info, "dictionaries", rest))
    BY DEF Validated, rest
  <2>2. QED
    BY <1>3, <1>4, <2>1 DEF Check, info_target
<1>5. TypeOf(1) = "dictionaries" /\ targets[1].type = "dictionaries"
  <2>1. CASE TypeOf(m_root) # "dictionaries"
    BY <1>4, <2>1 DEF At, info_target
  <2>2. QED
    BY <2>1 DEF TypeOf
<1>6. info_target \in EntriesOf(d, 1, info)
  BY <1>1, <1>2, <1>5, AtEntry DEF info_target, Complete
<1>7. info_target \in DOMAIN d.nodes /\ info_target # 0
  BY <1>6, DocumentTypes DEF EntriesOf
<1>8. InDictionary(d, info_target)
  BY <1>4, <1>7 DEF InDictionary, TypeOf
<1>9. HasKey(info_target, piece_length) /\ HasKey(info_target, pieces)
  BY <1>2, <1>6, <1>8 DEF HasKey, Complete
<1>10. QED
  BY <1>9 DEF Check

LEMMA CrashHasCauseNext ==
  ASSUME ReadInv, ReadInv', LinkInv, SeenSource, CrashHasCause, [Next]_vars
  PROVE  CrashHasCause'
<1>1. CASE FromPath \/ CutShort \/ FromBufferReturns \/ Announce
  BY <1>1 DEF FromPath, CutShort, FromBufferReturns, Announce, CrashHasCause
<1>2. CASE FromString \/ MagnetTracker \/ MagnetOther
  BY <1>2 DEF FromString, MagnetTracker, MagnetOther, Proceed, CrashHasCause
<1>3. CASE MagnetSource
  BY <1>3 DEF MagnetSource, Proceed, CrashHasCause
<1>4. CASE UNCHANGED vars
  <2>1. UNCHANGED <<pc, feeds, whole, document, uri>>
    BY <1>4 DEF vars, reading, content, link
  <2>2. QED
    BY <2>1 DEF CrashHasCause
<1>5. CASE ConsumeByte
  <2>1. SUFFICES ASSUME feeds' <= 1 PROVE pc' \notin {"terminated", "undefined"} \/ (pc' = "terminated" /\ ~whole')
    BY DEF CrashHasCause
  <2>2. fault' # "undefined" /\ (fault' = "threw" => ~whole')
    BY <2>1 DEF ReadInv, Faults
  <2>3. QED
    BY <1>5, <2>2 DEF ConsumeByte, Faulted
<1>6. CASE MagnetHash
  <2>1. /\ Parameter("xt") /\ left # << >> /\ Head(left).name = "xt" /\ uri' = uri /\ left' = Tail(left)
        /\ pc' # "terminated"
        /\ pc' = "undefined" => HashWord(Head(left).urn) = << >>
    BY <1>6 DEF MagnetHash, Parameter, Proceed
  <2>2. \E i \in DOMAIN uri : uri[i] = Head(left)
    BY <2>1, LinkStep
  <2>3. QED
    BY <2>1, <2>2 DEF CrashHasCause
<1>7. CASE MagnetChecks
  <2>1. /\ pc = "parameters" /\ left = << >> /\ uri' = uri /\ pc' # "terminated"
        /\ pc' = "undefined" => m_bracket_root = "null"
    BY <1>7 DEF MagnetChecks, link
  <2>2. Read = DOMAIN uri
    <3>1. uri \in Seq({uri[i] : i \in DOMAIN uri})
      BY DEF LinkInv
    <3>2. DOMAIN uri = 1..Len(uri) /\ Len(uri) \in Nat
      BY <3>1, LenProperties
    <3>3. Len(left) = 0
      BY <2>1
    <3>4. QED
      BY <3>2, <3>3 DEF Read
  <2>3. pc' = "undefined" => "xs" \notin ParameterNames(uri)
    BY <2>1, <2>2 DEF SeenSource, ParameterNames
  <2>4. QED
    BY <2>1, <2>3 DEF CrashHasCause, ParameterNames
<1>8. CASE Validate
  <2>1. /\ pc = "validate" /\ pc' = Validated /\ Validated # "undefined"
        /\ UNCHANGED <<document, feeds, whole>>
    BY <1>8 DEF Validate, content, reading, Validated, Check
  <2>2. SUFFICES ASSUME feeds <= 1, Validated = "terminated", whole, NoEmptyString(document), Complete(document)
                 PROVE  FALSE
    BY <2>1 DEF CrashHasCause, Complete
  <2>3. feeds = 1 /\ fed = Len(data)
    BY <2>1, <2>2 DEF ReadInv, ReadTypes, Unread, AllFed, Returned
  <2>4. m_root = 1 /\ targets = document.nodes
    BY <2>2, <2>3, WholeTree
  <2>5. IsDocument(document)
    BY DocumentFacts DEF ReadInv
  <2>6. QED
    BY <2>2, <2>4, <2>5, NoKeyMissing
<1>9. QED
  BY <1>1, <1>2, <1>3, <1>4, <1>5, <1>6, <1>7, <1>8 DEF Next

\* Loading a source crashes only for the causes that CrashHasCause names, for
\* every document, link and padding and every place where a document is cut
\* (consume_byte, validate_torrent_bencode_map, urn_to_file_hash).
THEOREM CrashesExplained == Spec => []CrashHasCause
<1>1. Init => LinkInv /\ SeenSource /\ CrashHasCause
  <2>1. Init => SeenSource /\ CrashHasCause
    BY DEF Init, SeenSource, CrashHasCause
  <2>2. QED
    BY <2>1, LinkInvInit
<1>2. LinkInv /\ SeenSource /\ CrashHasCause /\ ReadInv /\ ReadInv' /\ [Next]_vars
        => (LinkInv /\ SeenSource /\ CrashHasCause)'
  BY LinkInvNext, SeenSourceNext, CrashHasCauseNext
<1>3. QED
  BY <1>1, <1>2, ReadingCorrect, PTL DEF Spec

-----------------------------------------------------------------------------
(* The bytes of a hash, as urn_to_file_hash puts them together.            *)

Powers == {1, 2, 4, 8, 16, 32, 64, 128}

LEMMA BitsOfPowers ==
  ASSUME NEW x
  PROVE  Bits(x) = {p \in Powers : (x \div p) % 2 = 1}
BY DEF Bits, Powers

\* A byte is the sum of its bits.
LEMMA ByteSum ==
  ASSUME NEW b \in 0..255
  PROVE  b = ((b \div 1) % 2) + 2 * ((b \div 2) % 2) + 4 * ((b \div 4) % 2) + 8 * ((b \div 8) % 2)
            + 16 * ((b \div 16) % 2) + 32 * ((b \div 32) % 2)
            + 64 * ((b \div 64) % 2) + 128 * ((b \div 128) % 2)
OBVIOUS

LEMMA BitsInjective ==
  ASSUME NEW b \in 0..255, NEW c \in 0..255, Bits(b) = Bits(c)
  PROVE  b = c
<1>1. ASSUME NEW p \in Powers PROVE (b \div p) % 2 = (c \div p) % 2
  <2>1. p \in Nat \ {0}
    BY DEF Powers
  <2>2. (b \div p) \in Int /\ (c \div p) \in Int
    BY <2>1
  <2>3. (b \div p) % 2 \in {0, 1} /\ (c \div p) % 2 \in {0, 1}
    BY <2>2
  <2>4. (b \div p) % 2 = 1 <=> (c \div p) % 2 = 1
    <3>1. p \in Bits(b) <=> p \in Bits(c)
      OBVIOUS
    <3>2. QED
      BY <3>1, BitsOfPowers
  <2>5. QED
    BY <2>3, <2>4
<1>2. /\ (b \div 1) % 2 = (c \div 1) % 2 /\ (b \div 2) % 2 = (c \div 2) % 2
      /\ (b \div 4) % 2 = (c \div 4) % 2 /\ (b \div 8) % 2 = (c \div 8) % 2
      /\ (b \div 16) % 2 = (c \div 16) % 2 /\ (b \div 32) % 2 = (c \div 32) % 2
      /\ (b \div 64) % 2 = (c \div 64) % 2 /\ (b \div 128) % 2 = (c \div 128) % 2
  BY <1>1 DEF Powers
<1>3. QED
  BY <1>2, ByteSum

LEMMA SumBits ==
  ASSUME NEW x1 \in {0, 1}, NEW x2 \in {0, 1}, NEW x3 \in {0, 1}, NEW x4 \in {0, 1},
         NEW x5 \in {0, 1}, NEW x6 \in {0, 1}, NEW x7 \in {0, 1}, NEW x8 \in {0, 1}
  PROVE  \E y \in 0..255 :
           /\ (y \div 1) % 2 = x1 /\ (y \div 2) % 2 = x2 /\ (y \div 4) % 2 = x3 /\ (y \div 8) % 2 = x4
           /\ (y \div 16) % 2 = x5 /\ (y \div 32) % 2 = x6 /\ (y \div 64) % 2 = x7
           /\ (y \div 128) % 2 = x8
<1>1. PICK y \in 0..255 : y = x1 + 2 * x2 + 4 * x3 + 8 * x4 + 16 * x5 + 32 * x6 + 64 * x7 + 128 * x8
  OBVIOUS
<1>2. (y \div 1) % 2 = x1 /\ (y \div 2) % 2 = x2
  BY <1>1
<1>3. (y \div 4) % 2 = x3 /\ (y \div 8) % 2 = x4
  BY <1>1
<1>4. (y \div 16) % 2 = x5 /\ (y \div 32) % 2 = x6
  BY <1>1
<1>5. (y \div 64) % 2 = x7 /\ (y \div 128) % 2 = x8
  BY <1>1
<1>6. QED
  BY <1>2, <1>3, <1>4, <1>5

\* Every choice of bits is that of a byte.
LEMMA BitsOnto ==
  ASSUME NEW P \in SUBSET Powers
  PROVE  \E byte \in 0..255 : Bits(byte) = P
<1> DEFINE x(p) == IF p \in P THEN 1 ELSE 0
<1>1. \A p : x(p) \in {0, 1} /\ (x(p) = 1 <=> p \in P)
  OBVIOUS
<1> HIDE DEF x
<1>2. PICK y \in 0..255 :
           /\ (y \div 1) % 2 = x(1) /\ (y \div 2) % 2 = x(2)
           /\ (y \div 4) % 2 = x(4) /\ (y \div 8) % 2 = x(8)
           /\ (y \div 16) % 2 = x(16) /\ (y \div 32) % 2 = x(32)
           /\ (y \div 64) % 2 = x(64) /\ (y \div 128) % 2 = x(128)
  BY <1>1, SumBits
<1>3. \A p \in Powers : (y \div p) % 2 = 1 <=> p \in P
  BY <1>1, <1>2 DEF Powers
<1>4. Bits(y) = P
  BY <1>3, BitsOfPowers
<1>5. QED
  BY <1>4

LEMMA HashByteType ==
  ASSUME NEW hi, NEW lo
  PROVE  HashByte(hi, lo) \in 0..255 /\ Bits(HashByte(hi, lo)) = Bits(16 * Nibble(hi)) \cup Bits(Nibble(lo))
<1>1. Bits(16 * Nibble(hi)) \cup Bits(Nibble(lo)) \in SUBSET Powers
  BY DEF Bits, Powers
<1>2. \E byte \in 0..255 : Bits(byte) = Bits(16 * Nibble(hi)) \cup Bits(Nibble(lo))
  BY <1>1, BitsOnto
<1>3. QED
  BY <1>2 DEF HashByte

\* The two halves of a byte, the upper one of a number that was cut.
LEMMA HalvesOfByte ==
  ASSUME NEW n \in 0..255, NEW h \in 0..15, NEW l \in 0..15, n % 16 = h
  PROVE  Bits(16 * h + l) = Bits(16 * n) \cup Bits(l)
<1>1. /\ ((16 * h + l) \div 1) % 2 = (l \div 1) % 2 /\ ((16 * n) \div 1) % 2 = 0
      /\ ((16 * h + l) \div 2) % 2 = (l \div 2) % 2 /\ ((16 * n) \div 2) % 2 = 0
  OBVIOUS
<1>2. /\ ((16 * h + l) \div 4) % 2 = (l \div 4) % 2 /\ ((16 * n) \div 4) % 2 = 0
      /\ ((16 * h + l) \div 8) % 2 = (l \div 8) % 2 /\ ((16 * n) \div 8) % 2 = 0
  OBVIOUS
<1>3. ((16 * h + l) \div 16) % 2 = ((16 * n) \div 16) % 2 /\ (l \div 16) % 2 = 0
  OBVIOUS
<1>4. ((16 * h + l) \div 32) % 2 = ((16 * n) \div 32) % 2 /\ (l \div 32) % 2 = 0
  OBVIOUS
<1>5. ((16 * h + l) \div 64) % 2 = ((16 * n) \div 64) % 2 /\ (l \div 64) % 2 = 0
  OBVIOUS
<1>6. ((16 * h + l) \div 128) % 2 = ((16 * n) \div 128) % 2 /\ (l \div 128) % 2 = 0
  OBVIOUS
<1> DEFINE u(p) == ((16 * h + l) \div p) % 2
           v(p) == ((16 * n) \div p) % 2
           w(p) == (l \div p) % 2
<1>7. /\ u(1) = w(1) /\ v(1) = 0 /\ u(2) = w(2) /\ v(2) = 0
      /\ u(4) = w(4) /\ v(4) = 0 /\ u(8) = w(8) /\ v(8) = 0
      /\ u(16) = v(16) /\ w(16) = 0 /\ u(32) = v(32) /\ w(32) = 0
      /\ u(64) = v(64) /\ w(64) = 0 /\ u(128) = v(128) /\ w(128) = 0
  BY <1>1, <1>2, <1>3, <1>4, <1>5, <1>6
<1> HIDE DEF u, v, w
<1>8. \A p \in Powers : u(p) = 1 <=> v(p) = 1 \/ w(p) = 1
  BY <1>7 DEF Powers
<1>9. /\ Bits(16 * h + l) = {p \in Powers : u(p) = 1}
      /\ Bits(16 * n) = {p \in Powers : v(p) = 1} /\ Bits(l) = {p \in Powers : w(p) = 1}
  BY Zenon, BitsOfPowers DEF u, v, w
<1>10. QED
  BY <1>8, <1>9

\* A byte of the hash is that of its two digits, if the second is not an
\* upper-case letter: 32 too small is the same in the upper four bits.
LEMMA HashByteRight ==
  ASSUME NEW hi \in (48..57) \cup (65..70) \cup (97..102), NEW lo \in (48..57) \cup (97..102)
  PROVE  HashByte(hi, lo) = 16 * HexValue(hi) + HexValue(lo)
<1>1. /\ Nibble(hi) \in 0..255 /\ HexValue(hi) \in 0..15 /\ Nibble(hi) % 16 = HexValue(hi)
      /\ HexValue(lo) \in 0..15 /\ Nibble(lo) = HexValue(lo)
  BY DEF Nibble, HexValue
<1>2. PICK n \in 0..255, h \in 0..15, l \in 0..15 :
        n = Nibble(hi) /\ h = HexValue(hi) /\ l = HexValue(lo) /\ n % 16 = h
  BY <1>1
<1>3. Bits(16 * h + l) = Bits(16 * n) \cup Bits(l)
  <2>1. n % 16 = h
    BY <1>2
  <2>2. \A a \in 0..255, b \in 0..15, c \in 0..15 :
          a % 16 = b => Bits(16 * b + c) = Bits(16 * a) \cup Bits(c)
    BY HalvesOfByte, Zenon
  <2>3. n % 16 = h => Bits(16 * h + l) = Bits(16 * n) \cup Bits(l)
    <3>1. \A b \in 0..15, c \in 0..15 :
            n % 16 = b => Bits(16 * b + c) = Bits(16 * n) \cup Bits(c)
      BY <2>2, Zenon
    <3>2. QED
      BY <3>1, Zenon
  <2>4. QED
    BY <2>1, <2>3, Zenon
<1>4. HashByte(hi, lo) \in 0..255 /\ Bits(HashByte(hi, lo)) = Bits(16 * n) \cup Bits(l)
  BY <1>1, <1>2, HashByteType
<1>5. 16 * h + l \in 0..255
  BY <1>1, <1>2
<1>6. HashByte(hi, lo) = 16 * h + l
  BY <1>3, <1>4, <1>5, BitsInjective
<1>7. QED
  BY <1>2, <1>6

\* What is read of the right digits is the right hash.
LEMMA HashOfRight ==
  ASSUME NEW hex \in Seq(0..255), HexText(hex), LowDigitsLowerCase(hex)
  PROVE  HashOf(hex) = HexBytes(hex)
<1>1. Len(hex) \in Nat /\ DOMAIN hex = 1..Len(hex)
  BY LenProperties
<1>2. ASSUME NEW i \in 1..(Len(hex) \div 2)
      PROVE  HashByte(hex[2 * i - 1], hex[2 * i]) = 16 * HexValue(hex[2 * i - 1]) + HexValue(hex[2 * i])
  <2>1. 2 * i - 1 \in DOMAIN hex /\ 2 * i \in DOMAIN hex /\ (2 * i) % 2 = 0
    BY <1>1
  <2>2. hex[2 * i - 1] \in (48..57) \cup (65..70) \cup (97..102) /\ hex[2 * i] \in (48..57) \cup (97..102)
    BY <2>1 DEF HexText, LowDigitsLowerCase
  <2>3. QED
    BY <2>2, HashByteRight
<1>3. QED
  BY <1>2 DEF HashOf, HexBytes

LEMMA HashOfType ==
  ASSUME NEW hex \in Seq(0..255)
  PROVE  /\ HashOf(hex) \in Seq(0..255)
         /\ Len(hex) \in Nat /\ Len(HashOf(hex)) = Len(hex) \div 2
<1>1. Len(hex) \in Nat /\ Len(hex) \div 2 \in Nat
  BY LenProperties
<1>2. \A i \in 1..(Len(hex) \div 2) : HashByte(hex[2 * i - 1], hex[2 * i]) \in 0..255
  BY HashByteType
<1>3. HashOf(hex) \in [1..(Len(hex) \div 2) -> 0..255]
  BY <1>2 DEF HashOf
<1> DEFINE n == Len(hex) \div 2
<1>4. QED
  <2> HIDE DEF n
  <2>1. n \in Nat /\ HashOf(hex) \in [1..n -> 0..255]
    BY <1>1, <1>3 DEF n
  <2>2. HashOf(hex) \in Seq(0..255) /\ Len(HashOf(hex)) = n
    BY <2>1
  <2>3. QED
    BY <1>1, <2>2 DEF n

\* The hash of a urn is one of its words, or there is none.
LEMMA HashWordType ==
  ASSUME NEW urn, IsUrn(urn)
  PROVE  HashWord(urn) \in Seq(0..255)
<1> DEFINE words == {i \in DOMAIN urn : "hash" \in DOMAIN urn[i]}
           best == CHOOSE i \in words : \A j \in words : j <= i
<1>1. urn \in Seq({urn[j] : j \in DOMAIN urn})
  BY DEF IsUrn
<1>2. Len(urn) \in Nat /\ DOMAIN urn = 1..Len(urn)
  BY <1>1, LenProperties
<1>3. CASE words = {}
  BY <1>3, EmptySeq DEF HashWord
<1>4. CASE words # {}
  <2>1. best \in words
    BY <1>2, <1>4, Greatest
  <2>2. urn[best].hash \in Seq(0..255)
    BY <2>1 DEF IsUrn
  <2>3. HashWord(urn) = urn[best].hash
    BY <1>4 DEF HashWord
  <2>4. QED
    BY <2>2, <2>3
<1>5. QED
  BY <1>3, <1>4

-----------------------------------------------------------------------------
(* The hash of a magnet link.                                              *)

\* While a link is not refused, a whole hash that it has named is the hash.
HashRead ==
  source = "magnet" =>
    /\ m_file_hash \in Seq(0..255)
    /\ pc \in {"parameters", "parse", "validate", "done"} =>
         \A i \in Read : uri[i].name = "xt" /\ Len(HashWord(uri[i].urn)) = 2 * HashBytes
                           => HashOf(HashWord(uri[i].urn)) = m_file_hash
    /\ pc \in {"validate", "done"} => left = << >>

\* The hash of a parameter of a link is a text of character codes.
LEMMA UriHash ==
  ASSUME LinkInv, NEW i \in DOMAIN uri, uri[i].name = "xt"
  PROVE  HashWord(uri[i].urn) \in Seq(0..255)
<1>1. uri # << >>
  OBVIOUS
<1>2. uri \in Uris
  BY <1>1 DEF LinkInv
<1>3. QED
  BY <1>2, SourcesAssumption, HashWordType

\* Neither the link nor the hash changes, and nothing is accepted too early.
LEMMA HashReadQuiet ==
  ASSUME HashRead, UNCHANGED <<source, m_file_hash, uri, left>>,
         pc' \in {"parameters", "parse", "validate", "done"}
           => pc \in {"parameters", "parse", "validate", "done"},
         source = "magnet" /\ pc' \in {"validate", "done"} => left = << >>
  PROVE  HashRead'
<1>1. Read' = Read
  BY DEF Read
<1>2. QED
  BY <1>1 DEF HashRead

\* What bytes an earlier link has left make the hash of this one too long.
LEMMA HashReadAppend ==
  ASSUME LinkInv, HashRead, MagnetHash
  PROVE  HashRead'
<1>1. SUFFICES ASSUME source = "magnet" PROVE HashRead'
  BY DEF HashRead, MagnetHash, Proceed, content
<1> DEFINE word == HashWord(Head(left).urn)
<1>2. /\ pc = "parameters" /\ left # << >> /\ Head(left).name = "xt"
      /\ uri' = uri /\ left' = Tail(left) /\ source' = source
      /\ m_file_hash' = m_file_hash \o HashOf(word)
      /\ pc' \in {"undefined", "parameters", "failed"}
      /\ pc' = "parameters" => Len(m_file_hash') = HashBytes
  BY DEF MagnetHash, Parameter, Proceed, content, HashLengthRight
<1>3. m_file_hash \in Seq(0..255)
  BY <1>1 DEF HashRead
<1>4. word \in Seq(0..255)
  BY <1>2, LinkStep, UriHash
<1>5. HashOf(word) \in Seq(0..255) /\ Len(word) \in Nat /\ Len(HashOf(word)) = Len(word) \div 2
  BY <1>4, HashOfType
<1> HIDE DEF word
<1>6. /\ m_file_hash' \in Seq(0..255) /\ Len(m_file_hash') = Len(m_file_hash) + Len(HashOf(word))
      /\ Len(m_file_hash) \in Nat /\ Len(HashOf(word)) \in Nat
  <2>1. /\ m_file_hash \o HashOf(word) \in Seq(0..255)
        /\ Len(m_file_hash \o HashOf(word)) = Len(m_file_hash) + Len(HashOf(word))
    BY <1>3, <1>5, ConcatProperties
  <2>2. Len(m_file_hash) \in Nat /\ Len(HashOf(word)) \in Nat
    BY <1>3, <1>5, LenProperties
  <2>3. QED
    BY <1>2, <2>1, <2>2
<1>7. HashBytes \in Nat \ {0}
  BY SourcesAssumption
<1>8. ASSUME pc' = "parameters", NEW i \in Read', uri[i].name = "xt",
             Len(HashWord(uri[i].urn)) = 2 * HashBytes
      PROVE  HashOf(HashWord(uri[i].urn)) = m_file_hash'
  <2>1. Len(m_file_hash) + Len(HashOf(word)) = HashBytes
    BY <1>2, <1>6, <1>8
  <2>2. CASE i \in Read
    <3>1. HashOf(HashWord(uri[i].urn)) = m_file_hash
      BY <1>1, <1>2, <1>8, <2>2 DEF HashRead
    <3>2. HashWord(uri[i].urn) \in Seq(0..255)
      <4>1. i \in DOMAIN uri
        <5>1. /\ uri \in Seq({uri[j] : j \in DOMAIN uri}) /\ left \in Seq({uri[j] : j \in DOMAIN uri})
          BY DEF LinkInv
        <5>2. DOMAIN uri = 1..Len(uri) /\ Len(uri) \in Nat /\ Len(left) \in Nat
          BY <5>1, LenProperties
        <5>3. QED
          BY <2>2, <5>2 DEF Read
      <4>2. QED
        BY <1>8, <4>1, UriHash
    <3>3. Len(HashOf(HashWord(uri[i].urn))) = Len(HashWord(uri[i].urn)) \div 2
      BY <3>2, HashOfType
    <3>4. Len(m_file_hash) = HashBytes
      BY <1>7, <1>8, <3>1, <3>3
    <3>5. Len(HashOf(word)) = 0
      BY <1>6, <1>7, <2>1, <3>4
    <3>6. HashOf(word) = << >>
      BY <1>5, <3>5, EmptySeq
    <3>7. QED
      BY <1>2, <1>3, <3>1, <3>6, ConcatEmptySeq
  <2>3. CASE uri[i] = Head(left)
    <3>1. word = HashWord(uri[i].urn)
      BY <2>3 DEF word
    <3>2. Len(HashOf(word)) = HashBytes
      BY <1>5, <1>7, <1>8, <3>1
    <3>3. Len(m_file_hash) = 0
      BY <1>6, <1>7, <2>1, <3>2
    <3>4. m_file_hash = << >>
      BY <1>3, <3>3, EmptySeq
    <3>5. QED
      BY <1>2, <1>5, <3>1, <3>4, ConcatEmptySeq
  <2>4. i \in Read \/ uri[i] = Head(left)
    BY <1>2, <1>8, LinkStep
  <2>5. QED
    BY <2>2, <2>3, <2>4
<1>9. QED
  BY <1>2, <1>6, <1>8 DEF HashRead

LEMMA HashReadNext ==
  ASSUME LinkInv, HashRead, [Next]_vars
  PROVE  HashRead'
<1>1. CASE MagnetHash
  BY <1>1, HashReadAppend
<1>2. CASE MagnetTracker \/ MagnetOther \/ MagnetSource
  <2>1. /\ pc = "parameters" /\ left # << >> /\ Head(left).name # "xt"
        /\ uri' = uri /\ left' = Tail(left) /\ source' = source /\ m_file_hash' = m_file_hash
        /\ pc' \notin {"validate", "done"}
    <3>1. CASE MagnetTracker \/ MagnetOther
      BY <3>1 DEF MagnetTracker, MagnetOther, Parameter, Proceed, content
    <3>2. CASE MagnetSource
      BY <3>2 DEF MagnetSource, Parameter, Proceed, content
    <3>3. QED
      BY <1>2, <3>1, <3>2
  <2>2. \A i \in Read' : i \in Read \/ uri[i] = Head(left)
    BY <2>1, LinkStep
  <2>3. QED
    BY <2>1, <2>2 DEF HashRead
<1>3. CASE FromString
  <2>1. PICK u \in Uris : uri' = u /\ left' = u
    BY <1>3 DEF FromString
  <2>2. Read' = {}
    BY <2>1, LinkStart
  <2>3. pc' = "parameters" /\ UNCHANGED <<source, m_file_hash>>
    BY <1>3 DEF FromString, content, results
  <2>4. QED
    BY <2>2, <2>3 DEF HashRead
<1>4. CASE FromPath \/ Validate
  <2>1. CASE source = "magnet"
    <3>1. CASE Validate
      <4>1. pc = "validate" /\ UNCHANGED <<source, m_file_hash, uri, left>>
        BY <2>1, <3>1 DEF Validate, content, results, link
      <4>2. QED
        BY <4>1, HashReadQuiet DEF HashRead
    <3>2. QED
      BY <1>4, <2>1, <3>1 DEF FromPath
  <2>2. CASE source # "magnet"
    BY <1>4, <2>2 DEF FromPath, Validate, content, HashRead
  <2>3. QED
    BY <2>1, <2>2
<1>5. CASE ConsumeByte \/ CutShort \/ FromBufferReturns
  <2>1. pc = "parse" /\ UNCHANGED <<source, m_file_hash, uri, left>>
    BY <1>5 DEF ConsumeByte, CutShort, FromBufferReturns, content, results, link
  <2>2. source = "magnet" => pc' \notin {"validate", "done"}
    BY <1>5, <2>1 DEF ConsumeByte, CutShort, FromBufferReturns, Faulted
  <2>3. QED
    BY <2>1, <2>2, HashReadQuiet
<1>6. CASE MagnetChecks \/ Announce \/ UNCHANGED vars
  <2>1. CASE MagnetChecks
    <3>1. pc = "parameters" /\ left = << >> /\ UNCHANGED <<source, m_file_hash, uri, left>>
      BY <2>1 DEF MagnetChecks, content, results, link
    <3>2. QED
      BY <3>1, HashReadQuiet
  <2>2. CASE Announce \/ UNCHANGED vars
    <3>1. pc' = pc /\ UNCHANGED <<source, m_file_hash, uri, left>>
      BY <2>2 DEF Announce, vars, content, results, link
    <3>2. QED
      BY <3>1, HashReadQuiet DEF HashRead
  <2>3. QED
    BY <1>6, <2>1, <2>2
<1>7. QED
  BY <1>1, <1>2, <1>3, <1>4, <1>5, <1>6 DEF Next

\* A magnet link that is accepted gives the hash it names, for every link, also
\* after others that were refused (urn_to_file_hash, magnet::from_string).
THEOREM MagnetHashCorrect == Spec => []MagnetHashRight
<1>1. Init => LinkInv /\ HashRead
  <2>1. Init => LinkInv /\ Read = {}
    BY LinkInvInit
  <2>2. << >> \in Seq(0..255)
    BY EmptySeq
  <2>3. QED
    BY <2>1, <2>2 DEF Init, HashRead
<1>2. LinkInv /\ HashRead /\ [Next]_vars => (LinkInv /\ HashRead)'
  BY LinkInvNext, HashReadNext
<1>3. LinkInv /\ HashRead => MagnetHashRight
  <2>1. SUFFICES ASSUME LinkInv, HashRead, pc = "done", source = "magnet",
                        NEW i \in DOMAIN uri, uri[i].name = "xt",
                        Len(HashWord(uri[i].urn)) = 2 * HashBytes,
                        HexText(HashWord(uri[i].urn)), LowDigitsLowerCase(HashWord(uri[i].urn))
                 PROVE  m_file_hash = HexBytes(HashWord(uri[i].urn))
    BY DEF MagnetHashRight
  <2>2. i \in Read
    <3>1. uri \in Seq({uri[j] : j \in DOMAIN uri})
      BY <2>1 DEF LinkInv
    <3>2. DOMAIN uri = 1..Len(uri) /\ Len(uri) \in Nat
      BY <3>1, LenProperties
    <3>3. Len(left) = 0
      BY <2>1 DEF HashRead
    <3>4. QED
      BY <2>1, <3>2, <3>3 DEF Read
  <2>3. HashOf(HashWord(uri[i].urn)) = m_file_hash
    BY <2>1, <2>2 DEF HashRead
  <2>4. HashWord(uri[i].urn) \in Seq(0..255)
    BY <2>1, UriHash
  <2>5. QED
    BY <2>1, <2>3, <2>4, HashOfRight
<1>4. QED
  BY <1>1, <1>2, <1>3, PTL DEF Spec
=============================================================================

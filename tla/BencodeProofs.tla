--------------------------- MODULE BencodeProofs ---------------------------
(***************************************************************************)
(* Proofs about the parser: fed the text of any document byte by byte, it  *)
(* keeps the tree read so far, its stack is the chain of open containers,  *)
(* and each container has its own text.  No recursion over the tree is     *)
(* needed, because the tokens of the text say at every byte what the       *)
(* parser ought to have.                                                   *)
(***************************************************************************)
EXTENDS Bencode, SequenceTheorems, TLAPS

USE BencodeAssumption DEF BencodeAssumption

-----------------------------------------------------------------------------
(* Parts of a sequence.                                                    *)

LEMMA SubSeqLonger ==
  ASSUME NEW S, NEW s \in Seq(S), NEW a \in Nat \ {0}, NEW b \in Nat,
         a <= b + 1, b + 1 <= Len(s)
  PROVE  Append(SubSeq(s, a, b), s[b + 1]) = SubSeq(s, a, b + 1)
<1>1. Len(s) \in Nat
  BY LenProperties
<1>2. a \in 1..Len(s) /\ b + 1 \in a..Len(s) /\ (b + 1) - 1 = b
  BY <1>1
<1>3. SubSeq(s, a, b + 1) = SubSeq(s, a, (b + 1) - 1) \o <<s[b + 1]>>
  BY <1>2, SubSeqRecursiveSecond
<1>4. s[b + 1] \in S /\ \A j \in a..b : s[j] \in S
  BY <1>1, <1>2, ElementOfSeq
<1>5. SubSeq(s, a, b) \in Seq(S)
  BY <1>4, SubSeqProperties
<1>6. QED
  BY <1>2, <1>3, <1>4, <1>5, AppendIsConcat

LEMMA SubSeqType ==
  ASSUME NEW S, NEW s \in Seq(S), NEW a \in Nat \ {0}, NEW b \in Nat, b <= Len(s)
  PROVE  /\ SubSeq(s, a, b) \in Seq(S)
         /\ a <= b => Len(SubSeq(s, a, b)) = b - a + 1
         /\ b < a => SubSeq(s, a, b) = << >>
<1>1. Len(s) \in Nat
  BY LenProperties
<1>2. \A j \in a..b : s[j] \in S
  BY <1>1, ElementOfSeq
<1>3. QED
  BY <1>2, SubSeqProperties, SubSeqEmpty

-----------------------------------------------------------------------------
(* What the parser has when it has consumed f bytes of document d, and the *)
(* next token to come, or the one it is in, is the k-th.                   *)

AfterKey(d, k) == k > 1 /\ d.tokens[k - 1].kind = "key"
Known(d, k) == 1..(d.tokens[k].next - 1)
OnStack(n) == \E i \in 1..Len(m_target_queue) : m_target_queue[i] = n

\* The stack is the chain of the containers that are open.
StackRight(d, k) ==
  /\ m_target_queue \in Seq(Nat)
  /\ d.tokens[k].open = parent_target
  /\ \A i \in 1..Len(m_target_queue) :
       /\ m_target_queue[i] \in Known(d, k)
       /\ d.nodes[m_target_queue[i]].type \in Containers
       /\ d.nodes[m_target_queue[i]].parent = IF i = 1 THEN 0 ELSE m_target_queue[i - 1]
       /\ \A j \in 1..(i - 1) : m_target_queue[j] < m_target_queue[i]

\* The targets are the nodes of the tree up to the next one; the container that
\* waits for a value knows its key.
TreeRight(d, k) ==
  /\ d.tokens[k].next \in 1..(Len(d.nodes) + 1)
  /\ targets \in Seq(Nodes) /\ Len(targets) = d.tokens[k].next - 1
  /\ \A n \in Known(d, k) : targets[n] = d.nodes[n]
  /\ m_root = IF d.tokens[k].next = 1 THEN 0 ELSE 1
  /\ latest_key \in [Known(d, k) -> Seq(STRING)]
  /\ \A n \in Known(d, k) :
       latest_key[n] = IF n = d.tokens[k].open /\ AfterKey(d, k)
                       THEN d.nodes[d.tokens[k].next].key ELSE << >>
  /\ AfterKey(d, k) => d.nodes[d.tokens[k].next].key # << >>

\* An open container has its text up to here, a closed one all of it.
TextOf(d, n, f) ==
  d.nodes[n].type \in Containers =>
    /\ d.first[n] \in 1..f
    /\ d.text[d.first[n]] = IF d.nodes[n].type = "lists" THEN "l" ELSE "d"
    /\ ~OnStack(n) => d.last[n] \in d.first[n]..f
    /\ m_store_raw_bencode =>
         raw_bencode[n] = SubSeq(d.text, d.first[n] + 1, IF OnStack(n) THEN f ELSE d.last[n])
TextRight(d, k, f) ==
  /\ raw_bencode \in [Known(d, k) -> Seq(STRING)]
  /\ \A n \in Known(d, k) : TextOf(d, n, f)

Idle == {"unknown", "parsing_list", "parsing_dictionary"}

AtToken(d, k, f) ==
  /\ d.tokens[k].from = f + 1 /\ m_state \in Idle
  /\ m_element = << >> /\ m_element_length_string = << >>

InInteger(d, k, f) ==
  /\ d.tokens[k].kind = "integers"
  /\ d.tokens[k].from <= f /\ f < d.tokens[k + 1].from - 1
  /\ m_state = "parsing_integer" /\ m_element_length_string = << >>
  /\ m_element = SubSeq(d.text, d.tokens[k].from + 1, f)

InLength(d, k, f) ==
  /\ d.tokens[k].kind \in {"key", "strings"}
  /\ d.tokens[k].from <= f /\ f < d.tokens[k].colon
  /\ m_state = "parsing_word_length" /\ m_element = << >>
  /\ m_element_length_string = SubSeq(d.text, d.tokens[k].from, f)

InWord(d, k, f) ==
  /\ d.tokens[k].kind \in {"key", "strings"}
  /\ d.tokens[k].colon <= f /\ f < d.tokens[k + 1].from - 1
  /\ m_state = "parsing_word" /\ m_element_length_string = << >>
  /\ m_element = SubSeq(d.text, d.tokens[k].colon + 1, f)
  /\ m_element_length = d.tokens[k + 1].from - 1 - f

\* Behind an empty string everything is taken for its bytes.
Lost(d, k, f) ==
  /\ d.tokens[k].kind \in {"key", "strings"}
  /\ d.tokens[k].colon = d.tokens[k + 1].from - 1 /\ d.tokens[k].colon <= f
  /\ m_state = "parsing_word"
  /\ m_element_length = IF f = d.tokens[k].colon THEN 0
                        ELSE SizeModulus - (f - d.tokens[k].colon)

Inside(d, k, f) ==
  k < Len(d.tokens) /\ (InInteger(d, k, f) \/ InLength(d, k, f) \/ InWord(d, k, f) \/ Lost(d, k, f))

KeepsUp(d, k, f) == StackRight(d, k) /\ TreeRight(d, k) /\ TextRight(d, k, f)
FollowsAt(d, k, f) == KeepsUp(d, k, f) /\ (AtToken(d, k, f) \/ Inside(d, k, f))

Follows(d, f) == \E k \in 1..Len(d.tokens) : FollowsAt(d, k, f)

-----------------------------------------------------------------------------
(* Facts about a document.                                                 *)

LEMMA DocumentTypes ==
  ASSUME NEW d, IsDocument(d)
  PROVE  /\ d.text \in Seq(STRING) /\ Len(d.text) \in Nat
         /\ d.nodes \in Seq(Nodes) /\ Len(d.nodes) \in Nat /\ DOMAIN d.nodes = 1..Len(d.nodes)
         /\ d.tokens \in Seq(Tokens) /\ Len(d.tokens) \in Nat /\ Len(d.tokens) > 1
         /\ \A j \in 1..Len(d.text) : d.text[j] \in STRING
         /\ \A n \in 1..Len(d.nodes) : d.nodes[n] \in Nodes /\ d.first[n] \in Nat /\ d.last[n] \in Nat
         /\ \A k \in 1..Len(d.tokens) : d.tokens[k] \in Tokens
<1>1. /\ d.text \in Seq(STRING) /\ d.nodes \in Seq(Nodes) /\ d.tokens \in Seq(Tokens)
      /\ d.first \in [DOMAIN d.nodes -> Nat] /\ d.last \in [DOMAIN d.nodes -> Nat]
      /\ Len(d.tokens) > 1
  BY DEF IsDocument
<1>2. /\ Len(d.text) \in Nat /\ Len(d.tokens) \in Nat
      /\ Len(d.nodes) \in Nat /\ DOMAIN d.nodes = 1..Len(d.nodes)
  BY <1>1, LenProperties
<1>3. /\ \A j \in 1..Len(d.text) : d.text[j] \in STRING
      /\ \A n \in 1..Len(d.nodes) : d.nodes[n] \in Nodes
      /\ \A k \in 1..Len(d.tokens) : d.tokens[k] \in Tokens
  BY <1>1, <1>2, ElementOfSeq
<1>4. \A n \in 1..Len(d.nodes) : d.first[n] \in Nat /\ d.last[n] \in Nat
  BY <1>1, <1>2
<1>5. QED
  BY <1>1, <1>2, <1>3, <1>4

LEMMA TextLength ==
  ASSUME NEW d, IsDocument(d)
  PROVE  Len(d.text) \in Nat
BY DocumentTypes

LEMMA TokenFields ==
  ASSUME NEW t \in Tokens
  PROVE  t.from \in Nat /\ t.colon \in Nat /\ t.open \in Nat /\ t.next \in Nat
BY DEF Tokens

LEMMA NodeFields ==
  ASSUME NEW n \in Nodes
  PROVE  /\ n.type \in Types /\ n.string_value \in Seq(STRING) /\ n.integer_value \in Int
         /\ n.parent \in Nat /\ n.key \in Seq(STRING)
         /\ n = [type |-> n.type, string_value |-> n.string_value,
                 integer_value |-> n.integer_value, parent |-> n.parent, key |-> n.key]
BY DEF Nodes

\* Where a token lies.
LEMMA TokenPlaces ==
  ASSUME NEW d, IsDocument(d), NEW k \in 1..(Len(d.tokens) - 1)
  PROVE  /\ k \in 1..Len(d.tokens) /\ k + 1 \in 1..Len(d.tokens)
         /\ d.tokens[k].from \in 1..Len(d.text)
         /\ d.tokens[k + 1].from \in 1..(Len(d.text) + 1)
         /\ d.tokens[k].from \in Nat \ {0} /\ d.tokens[k + 1].from \in Nat \ {0}
         /\ d.tokens[k].from < d.tokens[k + 1].from
<1>1. k \in 1..Len(d.tokens) /\ k + 1 \in 1..Len(d.tokens) /\ 1 \in 1..Len(d.tokens)
      /\ Len(d.tokens) \in 1..Len(d.tokens)
  BY DocumentTypes
<1>2. \A j \in 1..Len(d.tokens) : d.tokens[j].from \in Nat
  BY DocumentTypes, TokenFields
<1>3. /\ d.tokens[1].from = 1 /\ d.tokens[Len(d.tokens)].from = Len(d.text) + 1
      /\ \A i, j \in 1..Len(d.tokens) : i < j => d.tokens[i].from < d.tokens[j].from
  BY DEF IsDocument
<1>4. /\ k = 1 \/ d.tokens[1].from < d.tokens[k].from
      /\ k + 1 = Len(d.tokens) \/ d.tokens[k + 1].from < d.tokens[Len(d.tokens)].from
      /\ d.tokens[k].from < d.tokens[k + 1].from
  <2>1. (k = 1 \/ 1 < k) /\ (k + 1 = Len(d.tokens) \/ k + 1 < Len(d.tokens)) /\ k < k + 1
    BY DocumentTypes
  <2>2. QED
    BY <1>1, <1>3, <2>1, Zenon
<1>5. d.tokens[k].from \in Nat /\ d.tokens[k + 1].from \in Nat /\ Len(d.text) \in Nat
  BY <1>1, <1>2, DocumentTypes
<1>6. 1 <= d.tokens[k].from /\ d.tokens[k + 1].from <= Len(d.text) + 1
  BY <1>3, <1>4, <1>5
<1>7. QED
  BY <1>1, <1>4, <1>5, <1>6

\* What a token is, by its kind.
LEMMA TokenKinds ==
  ASSUME NEW d, IsDocument(d), NEW k \in 1..(Len(d.tokens) - 1)
  PROVE  /\ d.tokens[k].kind = "key" => KeyToken(d, k)
         /\ d.tokens[k].kind \in Types => ValueToken(d, k)
         /\ d.tokens[k].kind = "end" => EndToken(d, k)
         /\ d.tokens[k].kind \in Types \cup {"key", "end"}
<1>1. KeyToken(d, k) \/ ValueToken(d, k) \/ EndToken(d, k)
  BY DEF IsDocument
<1>2. /\ KeyToken(d, k) => d.tokens[k].kind = "key"
      /\ ValueToken(d, k) => d.tokens[k].kind \in Types
      /\ EndToken(d, k) => d.tokens[k].kind = "end"
  BY DEF KeyToken, ValueToken, EndToken
<1>3. QED
  BY <1>1, <1>2 DEF Types, Containers

\* No container is open at the first token and at the end only.
LEMMA OpenBetween ==
  ASSUME NEW d, IsDocument(d), NEW k \in 1..(Len(d.tokens) - 1)
  PROVE  /\ d.tokens[k].open = 0 <=> k = 1
         /\ k = 1 => d.tokens[k].next = 1
         /\ d.tokens[k + 1].open = 0 <=> k + 1 = Len(d.tokens)
<1>1. /\ d.tokens[1].open = 0 /\ d.tokens[1].next = 1
      /\ \A j \in 1..(Len(d.tokens) - 1) : d.tokens[j + 1].open = 0 <=> j + 1 = Len(d.tokens)
  BY DEF IsDocument
<1>2. CASE k = 1
  BY <1>1, <1>2
<1>3. CASE k # 1
  <2>1. k - 1 \in 1..(Len(d.tokens) - 1) /\ (k - 1) + 1 = k /\ k # Len(d.tokens)
    BY <1>3, DocumentTypes
  <2>2. QED
    BY <1>1, <1>3, <2>1
<1>4. QED
  BY <1>2, <1>3

\* Only a value follows a key.
LEMMA AfterKeyValue ==
  ASSUME NEW d, IsDocument(d), NEW k \in 1..Len(d.tokens), AfterKey(d, k)
  PROVE  d.tokens[k].kind \in Types
<1>1. k - 1 \in 1..(Len(d.tokens) - 1) /\ (k - 1) + 1 = k
  BY DocumentTypes DEF AfterKey
<1>2. KeyToken(d, k - 1)
  BY <1>1, TokenKinds DEF AfterKey
<1>3. QED
  BY <1>1, <1>2 DEF KeyToken

-----------------------------------------------------------------------------
(* Pushing and popping.                                                    *)

\* parent_target is an open container the parser knows, or there is none.
LEMMA ParentKnown ==
  ASSUME NEW d, IsDocument(d), NEW k \in 1..(Len(d.tokens) - 1), StackRight(d, k), TreeRight(d, k)
  PROVE  /\ parent_target = d.tokens[k].open
         /\ Len(m_target_queue) \in Nat
         /\ d.tokens[k].next \in Nat /\ d.tokens[k].open \in Nat
         /\ d.tokens[k].open = 0 <=> m_target_queue = << >>
         /\ m_target_queue = << >> <=> Len(m_target_queue) = 0
         /\ d.tokens[k].open # 0 => /\ d.tokens[k].open \in Known(d, k)
                                    /\ targets[d.tokens[k].open] = d.nodes[d.tokens[k].open]
                                    /\ d.tokens[k].open = m_target_queue[Len(m_target_queue)]
                                    /\ d.tokens[k].next > 1
                                    /\ d.tokens[k].open \in DOMAIN d.nodes
<1>1. /\ m_target_queue \in Seq(Nat) /\ d.tokens[k].open = parent_target
      /\ \A i \in 1..Len(m_target_queue) : m_target_queue[i] \in Known(d, k)
  BY DEF StackRight
<1>2. Len(m_target_queue) \in Nat /\ (m_target_queue = << >> <=> Len(m_target_queue) = 0)
  BY <1>1, LenProperties, EmptySeq
<1>3. parent_target = IF Len(m_target_queue) = 0 THEN 0 ELSE m_target_queue[Len(m_target_queue)]
  BY <1>2 DEF parent_target, Last
<1>4. /\ d.tokens[k].next \in 1..(Len(d.nodes) + 1)
      /\ \A n \in Known(d, k) : targets[n] = d.nodes[n]
  BY DEF TreeRight
<1>5. d.tokens[k].next \in Nat /\ d.tokens[k].open \in Nat
  BY TokenPlaces, DocumentTypes, TokenFields
<1>6. Len(m_target_queue) # 0 => /\ parent_target \in Known(d, k) /\ parent_target # 0
                                 /\ parent_target \in 1..Len(d.nodes)
  <2>1. SUFFICES ASSUME Len(m_target_queue) # 0
                 PROVE  parent_target \in Known(d, k) /\ parent_target # 0
                        /\ parent_target \in 1..Len(d.nodes)
    OBVIOUS
  <2>2. Len(m_target_queue) \in 1..Len(m_target_queue)
    BY <1>2, <2>1
  <2>3. parent_target \in Known(d, k)
    BY <1>1, <1>3, <2>1, <2>2
  <2>4. parent_target \in 1..(d.tokens[k].next - 1)
    BY <2>3 DEF Known
  <2>5. Len(d.nodes) \in Nat /\ d.tokens[k].next \in 1..(Len(d.nodes) + 1)
    BY <1>4, DocumentTypes
  <2>6. parent_target # 0 /\ parent_target \in 1..Len(d.nodes)
    BY <2>4, <2>5
  <2>7. QED
    BY <2>3, <2>6
<1>7. Len(m_target_queue) # 0 => d.tokens[k].next > 1
  BY <1>5, <1>6 DEF Known
<1>8. QED
  BY <1>1, <1>2, <1>3, <1>4, <1>5, <1>6, <1>7, DocumentTypes

LEMMA PushValue ==
  ASSUME NEW d, IsDocument(d), NEW k \in 1..(Len(d.tokens) - 1), StackRight(d, k), TreeRight(d, k),
         ValueToken(d, k), NEW n, d.tokens[k].next = n,
         push_to_target(d.nodes[n].type, d.nodes[n].string_value, d.nodes[n].integer_value)
  PROVE  /\ targets' = Append(targets, d.nodes[n])
         /\ latest_key' = [m \in 1..n |-> << >>]
         /\ m_root' = 1
         /\ m_target_queue' = IF d.nodes[n].type \in Containers THEN Append(m_target_queue, n)
                              ELSE m_target_queue
<1> DEFINE open == d.tokens[k].open
           in_map == parent_target # 0 /\ targets[parent_target].type = "dictionaries"
<1>1. /\ n \in DOMAIN d.nodes /\ d.nodes[n].parent = open
      /\ IF InDictionary(d, open) THEN AfterKey(d, k) ELSE d.nodes[n].key = << >>
  BY DEF ValueToken, AfterKey
<1>2. in_map <=> InDictionary(d, open)
  <2>1. CASE open = 0
    BY <2>1, ParentKnown, DocumentTypes DEF InDictionary
  <2>2. CASE open # 0
    BY <2>2, ParentKnown DEF InDictionary
  <2>3. QED
    BY <2>1, <2>2
<1>3. in_map => latest_key[parent_target] = d.nodes[n].key /\ d.nodes[n].key # << >>
  BY <1>1, <1>2, ParentKnown DEF TreeRight
<1>4. n \in Nat \ {0} /\ Len(targets) + 1 = n
  BY <1>1, DocumentTypes DEF TreeRight
<1> DEFINE key == IF in_map THEN latest_key[parent_target] ELSE << >>
<1>5. key = d.nodes[n].key /\ ~(in_map /\ key = << >>)
  BY <1>1, <1>2, <1>3
<1>6. /\ targets' = Append(targets, [type |-> d.nodes[n].type, string_value |-> d.nodes[n].string_value,
                                     integer_value |-> d.nodes[n].integer_value,
                                     parent |-> parent_target, key |-> key])
      /\ latest_key' = [m \in 1..n |-> IF m \in {n, parent_target} THEN << >> ELSE latest_key[m]]
      /\ m_root' = IF parent_target = 0 THEN n ELSE m_root
      /\ m_target_queue' = IF can_have_children(d.nodes[n].type) THEN Append(m_target_queue, n)
                           ELSE m_target_queue
  <2> HIDE DEF in_map
  <2>1. QED
    BY <1>4, <1>5 DEF push_to_target, in_map
<1>7. targets' = Append(targets, d.nodes[n])
  <2>1. d.nodes[n] \in Nodes
    BY <1>1, DocumentTypes
  <2>2. /\ parent_target = d.nodes[n].parent
        /\ d.nodes[n] = [type |-> d.nodes[n].type, string_value |-> d.nodes[n].string_value,
                         integer_value |-> d.nodes[n].integer_value,
                         parent |-> d.nodes[n].parent, key |-> d.nodes[n].key]
    BY <1>1, <2>1, NodeFields, ParentKnown
  <2>3. QED
    BY <1>5, <1>6, <2>2
<1>8. latest_key' = [m \in 1..n |-> << >>]
  <2>1. \A m \in 1..n : m \notin {n, parent_target} => latest_key[m] = << >>
    <3>1. /\ \A m \in Known(d, k) : latest_key[m] = IF m = d.tokens[k].open /\ AfterKey(d, k)
                                                  THEN d.nodes[d.tokens[k].next].key ELSE << >>
          /\ parent_target = d.tokens[k].open
      BY ParentKnown DEF TreeRight
    <3>2. \A m \in 1..n : m # n => m \in Known(d, k)
      BY <1>4 DEF Known
    <3>3. QED
      BY <3>1, <3>2
  <2>2. QED
    BY <1>6, <2>1
<1>9. m_root' = 1
  <2>1. CASE open = 0
    <3>1. parent_target = 0 /\ n = 1
      BY <2>1, OpenBetween, ParentKnown
    <3>2. QED
      BY <1>6, <3>1
  <2>2. CASE open # 0
    <3>1. m_root = (IF d.tokens[k].next = 1 THEN 0 ELSE 1)
      BY DEF TreeRight
    <3>2. parent_target # 0 /\ d.tokens[k].next # 1
      BY <2>2, ParentKnown
    <3>3. QED
      BY <1>6, <3>1, <3>2
  <2>3. QED
    BY <2>1, <2>2
<1>10. QED
  BY <1>6, <1>7, <1>8, <1>9 DEF can_have_children, Containers

\* The stack with one more container on it, where there is one.
LEMMA AppendStack ==
  ASSUME NEW s \in Seq(Nat), NEW n \in Nat
  PROVE  /\ Append(s, n) \in Seq(Nat) /\ Len(s) \in Nat /\ Len(Append(s, n)) = Len(s) + 1
         /\ \A i \in 1..Len(s) : Append(s, n)[i] = s[i]
         /\ Append(s, n)[Len(s) + 1] = n
         /\ Append(s, n) # << >>
<1>1. /\ Append(s, n) \in Seq(Nat) /\ Len(s) \in Nat /\ Len(Append(s, n)) = Len(s) + 1
      /\ \A i \in 1..Len(s) : Append(s, n)[i] = s[i]
      /\ Append(s, n)[Len(s) + 1] = n
  BY LenProperties, AppendProperties
<1>2. QED
  BY <1>1, EmptySeq

LEMMA ValuePushed ==
  ASSUME NEW d, IsDocument(d), NEW k \in 1..(Len(d.tokens) - 1), StackRight(d, k), TreeRight(d, k),
         ValueToken(d, k), NEW n, d.tokens[k].next = n,
         push_to_target(d.nodes[n].type, d.nodes[n].string_value, d.nodes[n].integer_value)
  PROVE  /\ StackRight(d, k + 1)' /\ TreeRight(d, k + 1)'
         /\ \A m \in Known(d, k) : OnStack(m)' <=> OnStack(m)
         /\ d.nodes[n].type \in Containers => OnStack(n)'
<1> DEFINE u == d.tokens[k + 1]
<1>1. /\ targets' = Append(targets, d.nodes[n])
      /\ latest_key' = [m \in 1..n |-> << >>]
      /\ m_root' = 1
      /\ m_target_queue' = IF d.nodes[n].type \in Containers THEN Append(m_target_queue, n)
                           ELSE m_target_queue
  BY PushValue
<1>2. /\ n \in 1..Len(d.nodes) /\ d.nodes[n].type = d.tokens[k].kind /\ d.nodes[n].parent = d.tokens[k].open
      /\ u.open = (IF d.nodes[n].type \in Containers THEN n ELSE d.tokens[k].open) /\ u.next = n + 1
      /\ d.tokens[k].kind \in Types /\ d.nodes[n] \in Nodes
  BY DocumentTypes DEF ValueToken
<1>3. /\ Known(d, k) = 1..(n - 1) /\ Known(d, k + 1) = 1..n /\ ~AfterKey(d, k + 1)
  <2>1. (k + 1) - 1 = k /\ (n + 1) - 1 = n
    BY <1>2, DocumentTypes
  <2>2. QED
    BY <1>2, <2>1 DEF Known, AfterKey, Types, Containers
<1>4. TreeRight(d, k + 1)'
  <2>1. /\ targets \in Seq(Nodes) /\ Len(targets) = n - 1 /\ \A m \in 1..(n - 1) : targets[m] = d.nodes[m]
    BY <1>3 DEF TreeRight
  <2>2. /\ targets' \in Seq(Nodes) /\ Len(targets') = n
        /\ \A m \in 1..(n - 1) : targets'[m] = d.nodes[m]
        /\ targets'[n] = d.nodes[n]
    BY <1>1, <1>2, <2>1, LenProperties, AppendProperties
  <2>3. \A m \in 1..n : targets'[m] = d.nodes[m]
    BY <1>2, <2>2
  <2>4. latest_key' \in [1..n -> Seq(STRING)] /\ \A m \in 1..n : latest_key'[m] = << >>
    <3>1. << >> \in Seq(STRING)
      BY EmptySeq
    <3>2. QED
      BY <1>1, <3>1
  <2>5. u.next \in 1..(Len(d.nodes) + 1) /\ n = u.next - 1 /\ u.next # 1
    BY <1>2, DocumentTypes
  <2>6. QED
    BY <1>1, <1>3, <2>2, <2>3, <2>4, <2>5 DEF TreeRight
<1>5. CASE d.nodes[n].type \in Containers
  <2>1. m_target_queue' = Append(m_target_queue, n) /\ m_target_queue \in Seq(Nat) /\ n \in Nat
    BY <1>1, <1>2, <1>5 DEF StackRight
  <2>2. /\ m_target_queue' \in Seq(Nat) /\ Len(m_target_queue) \in Nat
        /\ Len(m_target_queue') = Len(m_target_queue) + 1
        /\ \A i \in 1..Len(m_target_queue) : m_target_queue'[i] = m_target_queue[i]
        /\ m_target_queue'[Len(m_target_queue) + 1] = n /\ m_target_queue' # << >>
    BY <2>1, AppendStack
  <2>3. parent_target' = n
    BY <2>2 DEF parent_target, Last
  <2>4. ASSUME NEW i \in 1..Len(m_target_queue')
        PROVE  /\ m_target_queue'[i] \in Known(d, k + 1)
               /\ d.nodes[m_target_queue'[i]].type \in Containers
               /\ d.nodes[m_target_queue'[i]].parent = IF i = 1 THEN 0 ELSE m_target_queue'[i - 1]
               /\ \A j \in 1..(i - 1) : m_target_queue'[j] < m_target_queue'[i]
    <3>1. CASE i \in 1..Len(m_target_queue)
      <4>1. /\ m_target_queue[i] \in Known(d, k)
            /\ d.nodes[m_target_queue[i]].type \in Containers
            /\ d.nodes[m_target_queue[i]].parent = IF i = 1 THEN 0 ELSE m_target_queue[i - 1]
            /\ \A j \in 1..(i - 1) : m_target_queue[j] < m_target_queue[i]
        BY <3>1 DEF StackRight
      <4>2. /\ \A j \in 1..(i - 1) : m_target_queue'[j] = m_target_queue[j]
            /\ m_target_queue'[i] = m_target_queue[i]
            /\ i # 1 => m_target_queue'[i - 1] = m_target_queue[i - 1]
        <5>1. /\ \A j \in 1..(i - 1) : j \in 1..Len(m_target_queue)
              /\ i # 1 => i - 1 \in 1..(i - 1)
          BY <2>2, <3>1
        <5>2. QED
          BY <2>2, <3>1, <5>1, Zenon
      <4>3. m_target_queue[i] \in Known(d, k + 1)
        BY <1>2, <1>3, <4>1
      <4>4. QED
        BY <4>1, <4>2, <4>3
    <3>2. CASE i = Len(m_target_queue) + 1
      <4>1. m_target_queue'[i] = n /\ n \in Known(d, k + 1)
        BY <1>2, <1>3, <2>2, <3>2
      <4>2. \A j \in 1..(i - 1) : m_target_queue'[j] < n
        <5>1. \A j \in 1..(i - 1) : m_target_queue'[j] \in 1..(n - 1)
          <6>1. \A j \in 1..(i - 1) : j \in 1..Len(m_target_queue)
            BY <2>2, <3>2
          <6>2. \A j \in 1..Len(m_target_queue) : m_target_queue[j] \in 1..(n - 1)
            BY <1>3 DEF StackRight
          <6>3. QED
            BY <2>2, <6>1, <6>2, Zenon
        <5>2. QED
          BY <1>2, <5>1
      <4>3. d.nodes[n].parent = IF i = 1 THEN 0 ELSE m_target_queue'[i - 1]
        <5>1. /\ Len(m_target_queue) \in Nat
              /\ d.nodes[n].parent = IF Len(m_target_queue) = 0 THEN 0
                                     ELSE m_target_queue[Len(m_target_queue)]
          BY <1>2, ParentKnown
        <5>2. /\ Len(m_target_queue) = 0 <=> i = 1
              /\ i - 1 = Len(m_target_queue)
              /\ i # 1 => i - 1 \in 1..Len(m_target_queue)
          BY <3>2, <5>1
        <5>3. i # 1 => m_target_queue'[i - 1] = m_target_queue[i - 1]
          BY <2>2, <5>2
        <5>4. QED
          BY <5>1, <5>2, <5>3
      <4>4. QED
        BY <1>5, <4>1, <4>2, <4>3
    <3>3. QED
      BY <2>2, <3>1, <3>2
  <2>5. StackRight(d, k + 1)'
    BY <1>2, <1>5, <2>2, <2>3, <2>4 DEF StackRight
  <2>6. OnStack(n)'
    <3>1. Len(m_target_queue) + 1 \in 1..Len(m_target_queue')
      BY <2>2
    <3>2. QED
      BY <2>2, <3>1 DEF OnStack
  <2>7. ASSUME NEW m \in Known(d, k) PROVE OnStack(m)' <=> OnStack(m)
    <3>1. m # n
      BY <1>2, <1>3
    <3>2. \A i \in 1..Len(m_target_queue') : i \in 1..Len(m_target_queue) \/ m_target_queue'[i] = n
      BY <2>2
    <3>3. \A i \in 1..Len(m_target_queue) : i \in 1..Len(m_target_queue')
      BY <2>2
    <3>4. QED
      BY <2>2, <3>1, <3>2, <3>3 DEF OnStack
  <2>8. QED
    BY <1>4, <2>5, <2>6, <2>7
<1>6. CASE d.nodes[n].type \notin Containers
  <2>1. m_target_queue' = m_target_queue /\ u.open = d.tokens[k].open
    BY <1>1, <1>2, <1>6
  <2>2. parent_target' = parent_target
    BY <2>1 DEF parent_target
  <2>3. \A i \in Known(d, k) : i \in Known(d, k + 1)
    BY <1>2, <1>3
  <2>4. StackRight(d, k + 1)'
    BY <2>1, <2>2, <2>3 DEF StackRight
  <2>5. \A m : OnStack(m)' <=> OnStack(m)
    BY <2>1 DEF OnStack
  <2>6. QED
    BY <1>4, <1>6, <2>4, <2>5
<1>7. QED
  BY <1>5, <1>6

LEMMA KeyPushed ==
  ASSUME NEW d, IsDocument(d), NEW k \in 1..(Len(d.tokens) - 1), StackRight(d, k), TreeRight(d, k),
         KeyToken(d, k), d.nodes[d.tokens[k].next].key # << >>,
         push_to_target("strings", d.nodes[d.tokens[k].next].key, 0)
  PROVE  /\ StackRight(d, k + 1)' /\ TreeRight(d, k + 1)'
         /\ UNCHANGED <<targets, m_target_queue>> /\ Known(d, k + 1) = Known(d, k)
<1> DEFINE open == d.tokens[k].open
           key == d.nodes[d.tokens[k].next].key
<1>1. /\ d.tokens[k].kind = "key" /\ d.tokens[k].kind \notin Types
      /\ InDictionary(d, open) /\ d.tokens[k].next \in 1..Len(d.nodes)
      /\ d.tokens[k + 1].open = open /\ d.tokens[k + 1].next = d.tokens[k].next
  BY DocumentTypes DEF KeyToken, Types, Containers
<1>2. ~AfterKey(d, k) /\ AfterKey(d, k + 1)
  <2>1. k \in 1..Len(d.tokens) /\ (k + 1) - 1 = k /\ k + 1 > 1
    BY DocumentTypes
  <2>2. QED
    BY <1>1, <2>1, AfterKeyValue DEF AfterKey
<1>3. open # 0
  BY <1>1, DocumentTypes DEF InDictionary
<1>4. /\ parent_target = open /\ parent_target \in Known(d, k)
      /\ targets[parent_target] = d.nodes[open]
  BY <1>3, ParentKnown
<1>5. /\ latest_key \in [Known(d, k) -> Seq(STRING)]
      /\ \A n \in Known(d, k) : latest_key[n] = << >>
  BY <1>2 DEF TreeRight
<1>6. /\ latest_key' = [latest_key EXCEPT ![open] = key]
      /\ m_target_queue' = m_target_queue /\ m_root' = m_root /\ targets' = targets
  BY <1>1, <1>3, <1>4, <1>5 DEF push_to_target, InDictionary
<1>7. key \in Seq(STRING)
  BY <1>1, DocumentTypes, NodeFields
<1>8. Known(d, k + 1) = Known(d, k)
  BY <1>1 DEF Known
<1>9. /\ latest_key' \in [Known(d, k) -> Seq(STRING)]
      /\ \A n \in Known(d, k) : latest_key'[n] = IF n = open THEN key ELSE << >>
  BY <1>4, <1>5, <1>6, <1>7
<1>10. TreeRight(d, k + 1)'
  BY <1>1, <1>2, <1>6, <1>8, <1>9 DEF TreeRight
<1>11. StackRight(d, k + 1)'
  <2>1. parent_target' = parent_target
    BY <1>6 DEF parent_target
  <2>2. QED
    BY <1>1, <1>6, <1>8, <2>1 DEF StackRight
<1>12. QED
  BY <1>6, <1>8, <1>10, <1>11

\* The container that ends is the last one on the stack.
LEMMA EndPopped ==
  ASSUME NEW d, IsDocument(d), NEW k \in 1..(Len(d.tokens) - 1), StackRight(d, k), TreeRight(d, k),
         EndToken(d, k), end_target
  PROVE  /\ StackRight(d, k + 1)' /\ TreeRight(d, k + 1)'
         /\ UNCHANGED <<targets, fault>> /\ Known(d, k + 1) = Known(d, k)
         /\ OnStack(d.tokens[k].open) /\ ~OnStack(d.tokens[k].open)'
         /\ \A m : m # d.tokens[k].open => (OnStack(m)' <=> OnStack(m))
<1> DEFINE open == d.tokens[k].open
           size == Len(m_target_queue)
<1>1. /\ d.tokens[k].kind = "end" /\ d.tokens[k].kind \notin Types /\ open \in 1..Len(d.nodes)
      /\ d.tokens[k + 1].open = d.nodes[open].parent /\ d.tokens[k + 1].next = d.tokens[k].next
  BY DocumentTypes DEF EndToken, Types, Containers
<1>2. ~AfterKey(d, k) /\ ~AfterKey(d, k + 1)
  <2>1. k \in 1..Len(d.tokens) /\ (k + 1) - 1 = k
    BY DocumentTypes
  <2>2. QED
    BY <1>1, <2>1, AfterKeyValue DEF AfterKey
<1>3. /\ open # 0 /\ m_target_queue # << >> /\ size \in Nat /\ size # 0
      /\ m_target_queue[size] = open /\ m_target_queue \in Seq(Nat)
  <2>1. open # 0
    BY <1>1
  <2>2. /\ size \in Nat /\ (open = 0 <=> m_target_queue = << >>) /\ (m_target_queue = << >> <=> size = 0)
        /\ open # 0 => open = m_target_queue[size]
    BY ParentKnown
  <2>3. m_target_queue \in Seq(Nat)
    BY DEF StackRight
  <2>4. QED
    BY <2>1, <2>2, <2>3
<1>4. m_target_queue' = Front(m_target_queue) /\ UNCHANGED <<fault, m_root, targets, latest_key>>
  BY <1>3 DEF end_target
<1>5. /\ m_target_queue' \in Seq(Nat) /\ Len(m_target_queue') = size - 1
      /\ \A i \in 1..(size - 1) : m_target_queue'[i] = m_target_queue[i]
      /\ m_target_queue' = << >> <=> size = 1
  <2>1. m_target_queue' = SubSeq(m_target_queue, 1, size - 1)
    BY <1>4 DEF Front
  <2>2. m_target_queue' \in Seq(Nat) /\ Len(m_target_queue') = size - 1
    <3>1. size - 1 \in Nat /\ size - 1 <= Len(m_target_queue) /\ 1 \in Nat \ {0}
      BY <1>3
    <3>2. /\ m_target_queue' \in Seq(Nat)
          /\ 1 <= size - 1 => Len(m_target_queue') = (size - 1) - 1 + 1
          /\ size - 1 < 1 => m_target_queue' = << >>
      BY <1>3, <2>1, <3>1, SubSeqType
    <3>3. QED
      BY <1>3, <3>2, EmptySeq
  <2>3. \A i \in 1..(size - 1) : m_target_queue'[i] = m_target_queue[i]
    BY <1>3, <2>1
  <2>4. m_target_queue' = << >> <=> Len(m_target_queue') = 0
    BY <2>2, EmptySeq
  <2>5. size - 1 = 0 <=> size = 1
    BY <1>3
  <2>6. QED
    BY <2>2, <2>3, <2>4, <2>5
<1>6. Known(d, k + 1) = Known(d, k)
  BY <1>1 DEF Known
<1>7. TreeRight(d, k + 1)'
  BY <1>1, <1>2, <1>4, <1>6 DEF TreeRight
<1>8. size \in 1..size /\ \A i \in 1..(size - 1) : i \in 1..size
  BY <1>3
<1>9. /\ d.nodes[open].parent = IF size = 1 THEN 0 ELSE m_target_queue[size - 1]
      /\ \A j \in 1..(size - 1) : m_target_queue[j] < open
  BY <1>3, <1>8 DEF StackRight
<1>10. StackRight(d, k + 1)'
  <2>1. parent_target' = IF size = 1 THEN 0 ELSE m_target_queue[size - 1]
    <3>1. parent_target' = IF m_target_queue' = << >> THEN 0 ELSE m_target_queue'[Len(m_target_queue')]
      BY DEF parent_target, Last
    <3>2. size # 1 => size - 1 \in 1..(size - 1)
      <4>1. size \in Nat /\ size # 0
        BY <1>3
      <4> HIDE DEF size
      <4>2. QED
        BY <4>1
    <3>3. size # 1 => m_target_queue'[size - 1] = m_target_queue[size - 1]
      BY <1>5, <3>2
    <3>4. QED
      BY <1>5, <3>1, <3>3
  <2>2. ASSUME NEW i \in 1..Len(m_target_queue')
        PROVE  /\ m_target_queue'[i] \in Known(d, k + 1)
               /\ d.nodes[m_target_queue'[i]].type \in Containers
               /\ d.nodes[m_target_queue'[i]].parent = IF i = 1 THEN 0 ELSE m_target_queue'[i - 1]
               /\ \A j \in 1..(i - 1) : m_target_queue'[j] < m_target_queue'[i]
    <3>1. i \in 1..(size - 1)
      BY <1>5
    <3>2. /\ m_target_queue[i] \in Known(d, k)
          /\ d.nodes[m_target_queue[i]].type \in Containers
          /\ d.nodes[m_target_queue[i]].parent = IF i = 1 THEN 0 ELSE m_target_queue[i - 1]
          /\ \A j \in 1..(i - 1) : m_target_queue[j] < m_target_queue[i]
      BY <1>8, <3>1 DEF StackRight
    <3>3. (\A j \in 1..(i - 1) : j \in 1..(size - 1)) /\ (i # 1 => i - 1 \in 1..(size - 1))
      BY <1>3, <3>1
    <3>4. QED
      BY <1>5, <1>6, <3>1, <3>2, <3>3, Zenon
  <2>3. QED
    BY <1>1, <1>5, <1>9, <2>1, <2>2 DEF StackRight
<1>11. OnStack(open)
  BY <1>3, <1>8 DEF OnStack
<1>12. ~OnStack(open)'
  <2>1. \A j \in 1..(size - 1) : m_target_queue'[j] < open /\ m_target_queue'[j] # open
    <3>1. \A j \in 1..(size - 1) : m_target_queue[j] \in Nat
      BY <1>3, <1>8, ElementOfSeq
    <3>2. open \in Nat
      BY <1>1, DocumentTypes
    <3>3. QED
      BY <1>5, <1>9, <3>1, <3>2
  <2>2. QED
    BY <1>5, <2>1 DEF OnStack
<1>13. ASSUME NEW m, m # open PROVE OnStack(m)' <=> OnStack(m)
  <2>1. \A i \in 1..size : i = size \/ i \in 1..(size - 1)
    BY <1>3
  <2>2. QED
    BY <1>3, <1>5, <1>8, <1>13, <2>1 DEF OnStack
<1>14. QED
  BY <1>4, <1>6, <1>7, <1>10, <1>11, <1>12, <1>13

-----------------------------------------------------------------------------
(* The text of the containers.                                             *)

LEMMA KnownNodes ==
  ASSUME NEW d, IsDocument(d), NEW k \in 1..Len(d.tokens), TreeRight(d, k)
  PROVE  /\ DOMAIN targets = Known(d, k)
         /\ \A n \in Known(d, k) : /\ n \in 1..Len(d.nodes) /\ d.nodes[n] \in Nodes
                                   /\ d.first[n] \in Nat /\ d.last[n] \in Nat
<1>1. /\ d.tokens[k].next \in 1..(Len(d.nodes) + 1)
      /\ targets \in Seq(Nodes) /\ Len(targets) = d.tokens[k].next - 1
  BY DEF TreeRight
<1>2. DOMAIN targets = Known(d, k)
  BY <1>1, LenProperties DEF Known
<1>3. \A n \in Known(d, k) : n \in 1..Len(d.nodes)
  BY <1>1, DocumentTypes DEF Known
<1>4. QED
  BY <1>2, <1>3, DocumentTypes

\* What push_raw_bencode does to the text of one container.
LEMMA RawPushed ==
  ASSUME NEW d, IsDocument(d), NEW k \in 1..Len(d.tokens), NEW f \in Nat, f < Len(d.text),
         StackRight(d, k), TreeRight(d, k), TextRight(d, k, f), push_raw_bencode(d.text[f + 1]),
         Known(d, k) \subseteq DOMAIN targets'
  PROVE  /\ raw_bencode' \in [DOMAIN targets' -> Seq(STRING)]
         /\ \A n \in Known(d, k) :
              raw_bencode'[n] = IF m_store_raw_bencode /\ OnStack(n)
                                THEN Append(raw_bencode[n], d.text[f + 1]) ELSE raw_bencode[n]
         /\ \A n \in DOMAIN targets' \ Known(d, k) : raw_bencode'[n] = << >>
<1>1. m_target_queue \in Seq(Nat) /\ DOMAIN m_target_queue = 1..Len(m_target_queue)
  BY LenProperties DEF StackRight
<1>2. /\ raw_bencode \in [Known(d, k) -> Seq(STRING)] /\ DOMAIN targets = Known(d, k)
      /\ d.text[f + 1] \in STRING
  BY KnownNodes, DocumentTypes DEF TextRight
<1>3. raw_bencode' = [n \in DOMAIN targets' |->
        IF n \notin Known(d, k) THEN << >>
        ELSE IF m_store_raw_bencode /\ OnStack(n) THEN Append(raw_bencode[n], d.text[f + 1])
        ELSE raw_bencode[n]]
  BY <1>1, <1>2 DEF push_raw_bencode, OnStack
<1>4. << >> \in Seq(STRING) /\ \A n \in Known(d, k) : Append(raw_bencode[n], d.text[f + 1]) \in Seq(STRING)
  BY <1>2, EmptySeq, AppendProperties
<1>5. QED
  BY <1>2, <1>3, <1>4

LEMMA TextKept ==
  ASSUME NEW d, IsDocument(d), NEW k \in 1..Len(d.tokens), NEW f \in Nat, f < Len(d.text),
         StackRight(d, k), TreeRight(d, k), TextRight(d, k, f), push_raw_bencode(d.text[f + 1]),
         UNCHANGED m_store_raw_bencode, Known(d, k) \subseteq DOMAIN targets',
         NEW n \in Known(d, k), OnStack(n)' <=> OnStack(n)
  PROVE  TextOf(d, n, f + 1)'
<1>1. SUFFICES ASSUME d.nodes[n].type \in Containers
               PROVE  /\ d.first[n] \in 1..(f + 1)
                      /\ d.text[d.first[n]] = IF d.nodes[n].type = "lists" THEN "l" ELSE "d"
                      /\ ~OnStack(n) => d.last[n] \in d.first[n]..(f + 1)
                      /\ m_store_raw_bencode =>
                           raw_bencode'[n] = SubSeq(d.text, d.first[n] + 1,
                                                    IF OnStack(n) THEN f + 1 ELSE d.last[n])
  BY DEF TextOf
<1>2. /\ d.first[n] \in 1..f
      /\ d.text[d.first[n]] = IF d.nodes[n].type = "lists" THEN "l" ELSE "d"
      /\ ~OnStack(n) => d.last[n] \in d.first[n]..f
      /\ m_store_raw_bencode =>
           raw_bencode[n] = SubSeq(d.text, d.first[n] + 1, IF OnStack(n) THEN f ELSE d.last[n])
  BY <1>1 DEF TextRight, TextOf
<1>3. d.first[n] \in 1..(f + 1) /\ (~OnStack(n) => d.last[n] \in d.first[n]..(f + 1))
  BY <1>2
<1>4. ASSUME m_store_raw_bencode
      PROVE  raw_bencode'[n] = SubSeq(d.text, d.first[n] + 1, IF OnStack(n) THEN f + 1 ELSE d.last[n])
  <2>1. raw_bencode'[n] = IF m_store_raw_bencode /\ OnStack(n)
                          THEN Append(raw_bencode[n], d.text[f + 1]) ELSE raw_bencode[n]
    BY RawPushed
  <2>2. CASE OnStack(n)
    <3>1. d.first[n] + 1 \in Nat \ {0} /\ d.first[n] + 1 <= f + 1 /\ f + 1 <= Len(d.text)
      BY <1>2, DocumentTypes
    <3>2. Append(SubSeq(d.text, d.first[n] + 1, f), d.text[f + 1]) = SubSeq(d.text, d.first[n] + 1, f + 1)
      BY <3>1, DocumentTypes, SubSeqLonger
    <3>3. QED
      BY <1>2, <1>4, <2>1, <2>2, <3>2
  <2>3. CASE ~OnStack(n)
    BY <1>2, <1>4, <2>1, <2>3
  <2>4. QED
    BY <2>2, <2>3
<1>5. QED
  BY <1>2, <1>3, <1>4

LEMMA TextEnded ==
  ASSUME NEW d, IsDocument(d), NEW k \in 1..(Len(d.tokens) - 1), NEW f \in Nat, f < Len(d.text),
         StackRight(d, k), TreeRight(d, k), TextRight(d, k, f), push_raw_bencode(d.text[f + 1]),
         UNCHANGED m_store_raw_bencode, Known(d, k) \subseteq DOMAIN targets',
         EndToken(d, k), d.tokens[k].from = f + 1,
         NEW n \in Known(d, k), d.tokens[k].open = n, OnStack(n), ~OnStack(n)'
  PROVE  TextOf(d, n, f + 1)'
<1>1. SUFFICES ASSUME d.nodes[n].type \in Containers
               PROVE  /\ d.first[n] \in 1..(f + 1)
                      /\ d.text[d.first[n]] = IF d.nodes[n].type = "lists" THEN "l" ELSE "d"
                      /\ d.last[n] \in d.first[n]..(f + 1)
                      /\ m_store_raw_bencode => raw_bencode'[n] = SubSeq(d.text, d.first[n] + 1, d.last[n])
  BY DEF TextOf
<1>2. /\ d.first[n] \in 1..f
      /\ d.text[d.first[n]] = IF d.nodes[n].type = "lists" THEN "l" ELSE "d"
      /\ m_store_raw_bencode => raw_bencode[n] = SubSeq(d.text, d.first[n] + 1, f)
  BY <1>1 DEF TextRight, TextOf
<1>3. k \in 1..Len(d.tokens)
  BY TokenPlaces
<1>4. d.last[n] = f + 1
  <2>1. d.last[n] = d.tokens[k].from
    BY DEF EndToken
  <2>2. d.tokens[k].from \in Nat
    BY <1>3, DocumentTypes, TokenFields
  <2>3. QED
    BY <2>1, <2>2
<1>5. ASSUME m_store_raw_bencode PROVE raw_bencode'[n] = SubSeq(d.text, d.first[n] + 1, d.last[n])
  <2>1. raw_bencode'[n] = Append(raw_bencode[n], d.text[f + 1])
    <3>1. \A m \in Known(d, k) :
            raw_bencode'[m] = IF m_store_raw_bencode /\ OnStack(m)
                              THEN Append(raw_bencode[m], d.text[f + 1]) ELSE raw_bencode[m]
      BY <1>3, RawPushed
    <3>2. QED
      BY <1>5, <3>1, Zenon
  <2>2. d.first[n] + 1 \in Nat \ {0} /\ d.first[n] + 1 <= f + 1 /\ f + 1 <= Len(d.text)
    BY <1>2, TextLength
  <2>3. Append(SubSeq(d.text, d.first[n] + 1, f), d.text[f + 1]) = SubSeq(d.text, d.first[n] + 1, f + 1)
    BY <2>2, DocumentTypes, SubSeqLonger
  <2>4. QED
    BY <1>2, <1>4, <1>5, <2>1, <2>3
<1>6. QED
  BY <1>2, <1>4, <1>5

LEMMA TextBegun ==
  ASSUME NEW d, IsDocument(d), NEW k \in 1..(Len(d.tokens) - 1), NEW f \in Nat, f < Len(d.text),
         StackRight(d, k), TreeRight(d, k), TextRight(d, k, f), push_raw_bencode(d.text[f + 1]),
         ValueToken(d, k), d.tokens[k].from = f + 1,
         NEW n, d.tokens[k].next = n, DOMAIN targets' = 1..n,
         d.nodes[n].type \in Containers => OnStack(n)'
  PROVE  TextOf(d, n, f + 1)'
<1>1. SUFFICES ASSUME d.nodes[n].type \in Containers
               PROVE  /\ d.first[n] \in 1..(f + 1)
                      /\ d.text[d.first[n]] = IF d.nodes[n].type = "lists" THEN "l" ELSE "d"
                      /\ OnStack(n)'
                      /\ raw_bencode'[n] = SubSeq(d.text, d.first[n] + 1, f + 1)
  BY DEF TextOf
<1>2. k \in 1..Len(d.tokens)
  BY TokenPlaces
<1>3. d.first[n] = f + 1 /\ f + 1 = d.tokens[k].from
  <2>1. d.first[n] = d.tokens[k].from
    BY DEF ValueToken
  <2>2. d.tokens[k].from \in Nat
    BY <1>2, DocumentTypes, TokenFields
  <2>3. QED
    BY <2>1, <2>2
<1>4. d.text[f + 1] = IF d.nodes[n].type = "lists" THEN "l" ELSE "d"
  BY <1>1, <1>3 DEF ValueToken, ByteAt, Containers
<1>5. n \in 1..Len(d.nodes) /\ Known(d, k) = 1..(n - 1)
  BY DocumentTypes DEF ValueToken, Known
<1>6. n \in DOMAIN targets' \ Known(d, k) /\ Known(d, k) \subseteq DOMAIN targets'
  BY <1>5
<1>7. raw_bencode'[n] = << >>
  BY <1>2, <1>6, RawPushed
<1>8. SubSeq(d.text, (f + 1) + 1, f + 1) = << >>
  <2>1. (f + 1) + 1 \in Nat \ {0} /\ f + 1 \in Nat /\ f + 1 <= Len(d.text) /\ f + 1 < (f + 1) + 1
    BY DocumentTypes
  <2>2. QED
    BY <2>1, DocumentTypes, SubSeqType
<1>9. QED
  BY <1>1, <1>3, <1>4, <1>7, <1>8

-----------------------------------------------------------------------------
(* A byte keeps the tree, or completes a token.                            *)

LEMMA KeptStep ==
  ASSUME NEW d, IsDocument(d), NEW k \in 1..(Len(d.tokens) - 1), NEW f \in Nat, f < Len(d.text),
         KeepsUp(d, k, f), UNCHANGED <<tree, m_store_raw_bencode>>, push_raw_bencode(d.text[f + 1])
  PROVE  KeepsUp(d, k, f + 1)'
<1>1. StackRight(d, k) /\ TreeRight(d, k) /\ TextRight(d, k, f) /\ k \in 1..Len(d.tokens)
  BY TokenPlaces DEF KeepsUp
<1>2. UNCHANGED <<m_target_queue, m_root, targets, latest_key>>
  BY DEF tree
<1>3. StackRight(d, k)' /\ \A n : OnStack(n)' <=> OnStack(n)
  BY <1>1, <1>2 DEF StackRight, parent_target, OnStack
<1>4. TreeRight(d, k)'
  BY <1>1, <1>2 DEF TreeRight
<1>5. DOMAIN targets' = Known(d, k)
  BY <1>1, <1>2, KnownNodes
<1>6. raw_bencode' \in [Known(d, k) -> Seq(STRING)]
  BY <1>1, <1>5, RawPushed
<1>7. \A n \in Known(d, k) : TextOf(d, n, f + 1)'
  BY <1>1, <1>3, <1>5, TextKept
<1>8. QED
  BY <1>3, <1>4, <1>6, <1>7 DEF KeepsUp, TextRight

LEMMA ValueStep ==
  ASSUME NEW d, IsDocument(d), NEW k \in 1..(Len(d.tokens) - 1), NEW f \in Nat, f < Len(d.text),
         KeepsUp(d, k, f), UNCHANGED m_store_raw_bencode, push_raw_bencode(d.text[f + 1]),
         ValueToken(d, k), NEW n, d.tokens[k].next = n,
         push_to_target(d.nodes[n].type, d.nodes[n].string_value, d.nodes[n].integer_value),
         d.nodes[n].type \in Containers => d.tokens[k].from = f + 1
  PROVE  KeepsUp(d, k + 1, f + 1)'
<1>1. /\ StackRight(d, k) /\ TreeRight(d, k) /\ TextRight(d, k, f)
      /\ k \in 1..Len(d.tokens) /\ k + 1 \in 1..Len(d.tokens)
  BY TokenPlaces DEF KeepsUp
<1>2. /\ StackRight(d, k + 1)' /\ TreeRight(d, k + 1)'
      /\ \A m \in Known(d, k) : OnStack(m)' <=> OnStack(m)
      /\ d.nodes[n].type \in Containers => OnStack(n)'
  BY <1>1, ValuePushed
<1>3. /\ n \in 1..Len(d.nodes) /\ d.tokens[k + 1].next = n + 1
  BY DocumentTypes DEF ValueToken
<1>4. Known(d, k) = 1..(n - 1) /\ Known(d, k + 1) = 1..n
  BY <1>3 DEF Known
<1>5. DOMAIN targets' = 1..n
  <2>1. /\ targets' \in Seq(Nodes) /\ Len(targets') = d.tokens[k + 1].next - 1
    BY <1>2 DEF TreeRight
  <2>2. QED
    BY <1>3, <2>1, LenProperties
<1>6. Known(d, k) \subseteq DOMAIN targets' /\ \A m \in 1..n : m = n \/ m \in Known(d, k)
  BY <1>3, <1>4, <1>5
<1>7. raw_bencode' \in [Known(d, k + 1) -> Seq(STRING)]
  BY <1>1, <1>4, <1>5, <1>6, RawPushed
<1>8. \A m \in Known(d, k) : TextOf(d, m, f + 1)'
  BY <1>1, <1>2, <1>6, TextKept
<1>9. TextOf(d, n, f + 1)'
  <2>1. CASE d.nodes[n].type \in Containers
    BY <1>1, <1>2, <1>5, <2>1, TextBegun
  <2>2. CASE d.nodes[n].type \notin Containers
    BY <2>2 DEF TextOf
  <2>3. QED
    BY <2>1, <2>2
<1>10. \A m \in Known(d, k + 1) : TextOf(d, m, f + 1)'
  BY <1>4, <1>6, <1>8, <1>9
<1>11. QED
  BY <1>2, <1>7, <1>10 DEF KeepsUp, TextRight

LEMMA KeyStep ==
  ASSUME NEW d, IsDocument(d), NEW k \in 1..(Len(d.tokens) - 1), NEW f \in Nat, f < Len(d.text),
         KeepsUp(d, k, f), UNCHANGED m_store_raw_bencode, push_raw_bencode(d.text[f + 1]),
         KeyToken(d, k), d.nodes[d.tokens[k].next].key # << >>,
         push_to_target("strings", d.nodes[d.tokens[k].next].key, 0)
  PROVE  KeepsUp(d, k + 1, f + 1)'
<1>1. /\ StackRight(d, k) /\ TreeRight(d, k) /\ TextRight(d, k, f)
      /\ k \in 1..Len(d.tokens) /\ k + 1 \in 1..Len(d.tokens)
  BY TokenPlaces DEF KeepsUp
<1>2. /\ StackRight(d, k + 1)' /\ TreeRight(d, k + 1)'
      /\ UNCHANGED <<targets, m_target_queue>> /\ Known(d, k + 1) = Known(d, k)
  BY <1>1, KeyPushed
<1>3. DOMAIN targets' = Known(d, k) /\ \A m : OnStack(m)' <=> OnStack(m)
  BY <1>1, <1>2, KnownNodes DEF OnStack
<1>4. raw_bencode' \in [Known(d, k) -> Seq(STRING)]
  BY <1>1, <1>3, RawPushed
<1>5. \A m \in Known(d, k) : TextOf(d, m, f + 1)'
  BY <1>1, <1>3, TextKept
<1>6. QED
  BY <1>2, <1>4, <1>5 DEF KeepsUp, TextRight

LEMMA EndStep ==
  ASSUME NEW d, IsDocument(d), NEW k \in 1..(Len(d.tokens) - 1), NEW f \in Nat, f < Len(d.text),
         KeepsUp(d, k, f), UNCHANGED m_store_raw_bencode, push_raw_bencode(d.text[f + 1]),
         EndToken(d, k), d.tokens[k].from = f + 1, end_target
  PROVE  KeepsUp(d, k + 1, f + 1)' /\ UNCHANGED fault
<1>1. /\ StackRight(d, k) /\ TreeRight(d, k) /\ TextRight(d, k, f)
      /\ k \in 1..Len(d.tokens) /\ k + 1 \in 1..Len(d.tokens)
  BY TokenPlaces DEF KeepsUp
<1> DEFINE open == d.tokens[k].open
<1>2. /\ StackRight(d, k + 1)' /\ TreeRight(d, k + 1)'
      /\ UNCHANGED <<targets, fault>> /\ Known(d, k + 1) = Known(d, k)
      /\ OnStack(open) /\ ~OnStack(open)'
      /\ \A m : m # open => (OnStack(m)' <=> OnStack(m))
  BY <1>1, EndPopped
<1>3. DOMAIN targets' = Known(d, k)
  BY <1>1, <1>2, KnownNodes
<1>4. raw_bencode' \in [Known(d, k) -> Seq(STRING)]
  BY <1>1, <1>3, RawPushed
<1>5. ASSUME NEW m \in Known(d, k) PROVE TextOf(d, m, f + 1)'
  <2>1. CASE m = open
    BY <1>1, <1>2, <1>3, <2>1, TextEnded
  <2>2. CASE m # open
    BY <1>1, <1>2, <1>3, <2>2, TextKept
  <2>3. QED
    BY <2>1, <2>2
<1>6. QED
  BY <1>2, <1>4, <1>5 DEF KeepsUp, TextRight

-----------------------------------------------------------------------------
(* The bytes of a token.                                                   *)

LEMMA NoDigits ==
  /\ ~isdigit("i") /\ ~isdigit("l") /\ ~isdigit("d") /\ ~isdigit("e")
  /\ ~isdigit(":") /\ ~isdigit("-") /\ ~isdigit("NUL")
BY DEF isdigit, Digits

\* The string that a key or a string token spells.
Spelled(d, k) ==
  IF d.tokens[k].kind = "key" THEN d.nodes[d.tokens[k].next].key
  ELSE d.nodes[d.tokens[k].next].string_value

\* Every token but the last has an end.
LEMMA TokenEnd ==
  ASSUME NEW d, IsDocument(d), NEW k \in 1..(Len(d.tokens) - 1)
  PROVE  \E to \in Nat : d.tokens[k + 1].from = to + 1
<1>1. d.tokens[k + 1].from \in Nat \ {0}
  BY TokenPlaces
<1>2. d.tokens[k + 1].from - 1 \in Nat /\ d.tokens[k + 1].from = (d.tokens[k + 1].from - 1) + 1
  BY <1>1
<1>3. QED
  BY <1>2

LEMMA StringToken ==
  ASSUME NEW d, IsDocument(d), NEW k \in 1..(Len(d.tokens) - 1), d.tokens[k].kind \in {"key", "strings"}
  PROVE  \E to \in Nat :
         /\ d.tokens[k + 1].from = to + 1 /\ to <= Len(d.text)
         /\ d.tokens[k].from \in Nat \ {0} /\ d.tokens[k].colon \in Nat
         /\ d.tokens[k].from < d.tokens[k].colon /\ d.tokens[k].colon <= to
         /\ \A j \in d.tokens[k].from..(d.tokens[k].colon - 1) : isdigit(d.text[j])
         /\ d.text[d.tokens[k].colon] = ":"
         /\ stol(SubSeq(d.text, d.tokens[k].from, d.tokens[k].colon - 1)) = to - d.tokens[k].colon
         /\ Spelled(d, k) = SubSeq(d.text, d.tokens[k].colon + 1, to)
         /\ d.tokens[k].colon = to => Spelled(d, k) = << >>
         /\ d.tokens[k].colon < to => Spelled(d, k) # << >>
<1>0. PICK to \in Nat : d.tokens[k + 1].from = to + 1
  BY TokenEnd
<1> DEFINE from == d.tokens[k].from
           colon == d.tokens[k].colon
<1>1. StringAt(d, k, Spelled(d, k))
  BY TokenKinds DEF KeyToken, ValueToken, Spelled, Types, Containers
<1>2. from \in Nat \ {0} /\ colon \in Nat /\ to + 1 \in 1..(Len(d.text) + 1)
  BY <1>0, TokenPlaces, DocumentTypes, TokenFields
<1>3. (to + 1) - 1 = to /\ to \in Nat /\ to <= Len(d.text)
  BY <1>2, DocumentTypes
<1>4. /\ from < colon /\ colon <= to
      /\ \A j \in from..(colon - 1) : isdigit(d.text[j])
      /\ d.text[colon] = ":"
      /\ stol(SubSeq(d.text, from, colon - 1)) = Len(Spelled(d, k))
      /\ Spelled(d, k) = SubSeq(d.text, colon + 1, to)
  BY <1>0, <1>1, <1>3 DEF StringAt
<1> HIDE DEF from, colon
<1>5. /\ colon + 1 <= to => Len(Spelled(d, k)) = to - (colon + 1) + 1
      /\ to < colon + 1 => Spelled(d, k) = << >>
  BY <1>2, <1>3, <1>4, DocumentTypes, SubSeqType
<1>6. /\ colon = to => Spelled(d, k) = << >> /\ Len(Spelled(d, k)) = to - colon
      /\ colon < to => Spelled(d, k) # << >> /\ Len(Spelled(d, k)) = to - colon
  BY <1>2, <1>3, <1>5, EmptySeq
<1>7. stol(SubSeq(d.text, from, colon - 1)) = to - colon
  <2>1. colon = to \/ colon < to
    BY <1>2, <1>3, <1>4
  <2>2. QED
    BY <1>4, <1>6, <2>1, Zenon
<1>8. QED
  BY <1>0, <1>2, <1>3, <1>4, <1>6, <1>7 DEF from, colon

LEMMA IntegerToken ==
  ASSUME NEW d, IsDocument(d), NEW k \in 1..(Len(d.tokens) - 1), d.tokens[k].kind = "integers"
  PROVE  \E to \in Nat :
         /\ d.tokens[k + 1].from = to + 1 /\ to <= Len(d.text)
         /\ d.tokens[k].from \in Nat \ {0} /\ d.tokens[k].from < to
         /\ d.text[d.tokens[k].from] = "i" /\ d.text[to] = "e"
         /\ \A j \in (d.tokens[k].from + 1)..(to - 1) : isdigit(d.text[j]) \/ d.text[j] = "-"
         /\ ~stolThrows(SubSeq(d.text, d.tokens[k].from + 1, to - 1))
         /\ d.nodes[d.tokens[k].next].integer_value = stol(SubSeq(d.text, d.tokens[k].from + 1, to - 1))
<1>0. PICK to \in Nat : d.tokens[k + 1].from = to + 1
  BY TokenEnd
<1> DEFINE from == d.tokens[k].from
<1>1. IntegerAt(d, k, d.nodes[d.tokens[k].next].integer_value)
  BY TokenKinds DEF ValueToken, Types, Containers
<1>2. from \in Nat \ {0} /\ to + 1 \in 1..(Len(d.text) + 1)
  BY <1>0, TokenPlaces
<1>3. (to + 1) - 1 = to /\ to \in Nat /\ to <= Len(d.text)
  BY <1>2, DocumentTypes
<1>4. /\ from < to /\ d.text[from] = "i" /\ d.text[to] = "e"
      /\ \A j \in (from + 1)..(to - 1) : isdigit(d.text[j]) \/ d.text[j] = "-"
      /\ ~stolThrows(SubSeq(d.text, from + 1, to - 1))
      /\ d.nodes[d.tokens[k].next].integer_value = stol(SubSeq(d.text, from + 1, to - 1))
  BY <1>0, <1>1, <1>3 DEF IntegerAt
<1>5. QED
  BY <1>0, <1>2, <1>3, <1>4

LEMMA FirstByte ==
  ASSUME NEW d, IsDocument(d), NEW k \in 1..(Len(d.tokens) - 1), NEW f \in Nat, f < Len(d.text),
         KeepsUp(d, k, f), AtToken(d, k, f), consume_byte(d.text[f + 1])
  PROVE  /\ FollowsAt(d, k, f + 1)' \/ FollowsAt(d, k + 1, f + 1)'
         /\ UNCHANGED fault
<1> DEFINE c == d.text[f + 1]
<1>1. /\ d.tokens[k].from = f + 1 /\ m_state \in Idle
      /\ m_element = << >> /\ m_element_length_string = << >>
  BY DEF AtToken
<1>2. consume_state(c) /\ push_raw_bencode(c) /\ UNCHANGED m_store_raw_bencode
  BY <1>1 DEF consume_byte, Idle
<1>3. k < Len(d.tokens) /\ k + 1 \in 1..Len(d.tokens)
  BY DocumentTypes
<1>4. CASE d.tokens[k].kind \in {"key", "strings"}
  <2> DEFINE colon == d.tokens[k].colon
  <2>1. colon \in Nat /\ f + 1 < colon /\ isdigit(c)
    <3>1. /\ colon \in Nat /\ d.tokens[k].from < colon
          /\ \A j \in d.tokens[k].from..(colon - 1) : isdigit(d.text[j])
      BY <1>4, StringToken
    <3> HIDE DEF colon
    <3>2. f + 1 < colon /\ f + 1 \in (f + 1)..(colon - 1)
      BY <1>1, <3>1
    <3>3. QED
      BY <1>1, <3>1, <3>2
  <2>2. /\ m_state' = "parsing_word_length"
        /\ m_element_length_string' = Append(m_element_length_string, c)
        /\ UNCHANGED <<m_element, m_element_length, tree, fault>>
    BY <1>2, <2>1, NoDigits DEF consume_state
  <2>3. KeepsUp(d, k, f + 1)'
    BY <1>2, <2>2, KeptStep
  <2>4. m_element_length_string' = SubSeq(d.text, f + 1, f + 1)
    <3>1. SubSeq(d.text, f + 1, f) = << >>
      BY DocumentTypes, SubSeqType
    <3>2. Append(SubSeq(d.text, f + 1, f), d.text[f + 1]) = SubSeq(d.text, f + 1, f + 1)
      BY DocumentTypes, SubSeqLonger
    <3>3. QED
      BY <1>1, <2>2, <3>1, <3>2
  <2>5. InLength(d, k, f + 1)'
    BY <1>1, <1>4, <2>1, <2>2, <2>4 DEF InLength
  <2>6. QED
    BY <1>3, <2>2, <2>3, <2>5 DEF FollowsAt, Inside
<1>5. CASE d.tokens[k].kind = "integers"
  <2>1. PICK to \in Nat : /\ d.tokens[k + 1].from = to + 1 /\ d.tokens[k].from < to
                          /\ d.text[d.tokens[k].from] = "i"
    BY <1>5, IntegerToken
  <2>2. m_state' = "parsing_integer" /\ UNCHANGED <<element, tree, fault>>
    BY <1>1, <1>2, <2>1, NoDigits DEF consume_state
  <2>3. KeepsUp(d, k, f + 1)'
    BY <1>2, <2>2, KeptStep
  <2>4. m_element' = SubSeq(d.text, (f + 1) + 1, f + 1) /\ m_element_length_string' = << >>
    <3>1. SubSeq(d.text, (f + 1) + 1, f + 1) = << >>
      BY DocumentTypes, SubSeqType
    <3>2. QED
      BY <1>1, <2>2, <3>1 DEF element
  <2>5. InInteger(d, k, f + 1)'
    <3>1. f + 1 < d.tokens[k + 1].from - 1
      BY <1>1, <2>1
    <3>2. QED
      BY <1>1, <1>5, <2>2, <2>4, <3>1 DEF InInteger
  <2>6. QED
    BY <1>3, <2>2, <2>3, <2>5 DEF FollowsAt, Inside
<1>6. CASE d.tokens[k].kind \in Containers
  <2> DEFINE n == d.tokens[k].next
  <2>1. ValueToken(d, k)
    BY <1>6, TokenKinds DEF Types
  <2>2. /\ d.nodes[n].type = d.tokens[k].kind
        /\ d.nodes[n].string_value = << >> /\ d.nodes[n].integer_value = 0
        /\ c = IF d.tokens[k].kind = "lists" THEN "l" ELSE "d"
        /\ d.tokens[k + 1].from = d.tokens[k].from + 1
    BY <1>1, <1>6, <2>1 DEF ValueToken, ByteAt, Containers
  <2>3. /\ m_state' \in Idle
        /\ push_to_target(d.nodes[n].type, d.nodes[n].string_value, d.nodes[n].integer_value)
        /\ UNCHANGED <<element, fault>>
    BY <1>2, <1>6, <2>2, NoDigits DEF consume_state, Idle, Containers
  <2>4. KeepsUp(d, k + 1, f + 1)'
    <3> HIDE DEF n
    <3>1. QED
      BY <1>1, <1>2, <2>1, <2>3, ValueStep DEF n
  <2>5. AtToken(d, k + 1, f + 1)'
    BY <1>1, <2>2, <2>3 DEF AtToken, element
  <2>6. QED
    BY <2>3, <2>4, <2>5 DEF FollowsAt
<1>7. CASE d.tokens[k].kind = "end"
  <2>1. EndToken(d, k)
    BY <1>7, TokenKinds
  <2>2. c = "e" /\ d.tokens[k + 1].from = d.tokens[k].from + 1
    BY <1>1, <2>1 DEF EndToken, ByteAt
  <2>3. m_state' = "unknown" /\ end_target /\ UNCHANGED element
    BY <1>2, <2>2, NoDigits DEF consume_state
  <2>4. KeepsUp(d, k + 1, f + 1)' /\ UNCHANGED fault
    BY <1>1, <1>2, <2>1, <2>3, EndStep
  <2>5. AtToken(d, k + 1, f + 1)'
    BY <1>1, <2>2, <2>3 DEF AtToken, element, Idle
  <2>6. QED
    BY <2>4, <2>5 DEF FollowsAt
<1>8. QED
  BY <1>4, <1>5, <1>6, <1>7, TokenKinds DEF Types

\* size_t arithmetic: nothing happens below the modulus, and 0 - 1 wraps.
LEMMA SmallMod ==
  ASSUME NEW m \in Nat \ {0}, NEW x \in Nat, x < m
  PROVE  x % m = x
<1>1. x = m * (x \div m) + (x % m) /\ x \div m \in Nat /\ x % m \in 0..(m - 1)
  OBVIOUS
<1>2. x \div m = 0
  <2> DEFINE q == x \div m
  <2>1. ASSUME q >= 1 PROVE FALSE
    <3> HIDE DEF q
    <3>1. m * q = m + m * (q - 1) /\ q - 1 \in Nat
      BY <1>1, <2>1 DEF q
    <3>2. m * (q - 1) \in Nat
      BY <3>1
    <3>3. QED
      BY <1>1, <3>1, <3>2 DEF q
  <2>2. QED
    BY <1>1, <2>1
<1>3. QED
  BY <1>1, <1>2

LEMMA WrapMod ==
  ASSUME NEW m \in Nat \ {0}
  PROVE  (0 - 1) % m = m - 1
<1> DEFINE q == (0 - 1) \div m
           r == (0 - 1) % m
<1>1. 0 - 1 = m * q + r /\ q \in Int /\ r \in 0..(m - 1)
  OBVIOUS
<1> HIDE DEF q, r
<1>2. ASSUME q >= 0 PROVE FALSE
  <2>1. m * q \in Nat
    BY <1>1, <1>2
  <2>2. QED
    BY <1>1, <2>1
<1>3. ASSUME q <= -2 PROVE FALSE
  <2>1. m * q = (-2) * m - m * ((-2) - q) /\ (-2) - q \in Nat
    BY <1>1, <1>3
  <2>2. m * ((-2) - q) \in Nat
    BY <2>1
  <2>3. QED
    BY <1>1, <2>1, <2>2
<1>4. q = -1
  BY <1>1, <1>2, <1>3
<1>5. QED
  BY <1>1, <1>4 DEF r

LEMMA IntegerByte ==
  ASSUME NEW d, IsDocument(d), NEW k \in 1..(Len(d.tokens) - 1), NEW f \in Nat, f < Len(d.text),
         KeepsUp(d, k, f), InInteger(d, k, f), consume_byte(d.text[f + 1])
  PROVE  /\ FollowsAt(d, k, f + 1)' \/ FollowsAt(d, k + 1, f + 1)'
         /\ UNCHANGED fault
<1> DEFINE c == d.text[f + 1]
           from == d.tokens[k].from
           n == d.tokens[k].next
<1>1. /\ d.tokens[k].kind = "integers" /\ from <= f /\ f < d.tokens[k + 1].from - 1
      /\ m_state = "parsing_integer" /\ m_element_length_string = << >>
      /\ m_element = SubSeq(d.text, from + 1, f)
  BY DEF InInteger
<1>2. PICK to \in Nat :
        /\ d.tokens[k + 1].from = to + 1 /\ to <= Len(d.text)
        /\ from \in Nat \ {0} /\ from < to
        /\ d.text[to] = "e"
        /\ \A j \in (from + 1)..(to - 1) : isdigit(d.text[j]) \/ d.text[j] = "-"
        /\ ~stolThrows(SubSeq(d.text, from + 1, to - 1))
        /\ d.nodes[n].integer_value = stol(SubSeq(d.text, from + 1, to - 1))
  BY <1>1, IntegerToken
<1>3. consume_integer(c) /\ push_raw_bencode(c) /\ UNCHANGED m_store_raw_bencode
  BY <1>1 DEF consume_byte
<1>4. k < Len(d.tokens)
  BY DocumentTypes
<1> HIDE DEF from
<1>5. CASE f + 1 < to
  <2>1. isdigit(c) \/ c = "-"
    <3>1. f + 1 \in (from + 1)..(to - 1)
      BY <1>1, <1>2, <1>5
    <3>2. QED
      BY <1>2, <3>1
  <2>2. /\ m_element' = Append(m_element, c)
        /\ UNCHANGED <<m_state, m_element_length, m_element_length_string, tree, fault>>
    BY <1>3, <2>1 DEF consume_integer
  <2>3. KeepsUp(d, k, f + 1)'
    BY <1>3, <2>2, KeptStep
  <2>4. m_element' = SubSeq(d.text, from + 1, f + 1)
    <3>1. from + 1 \in Nat \ {0} /\ from + 1 <= f + 1 /\ f + 1 <= Len(d.text)
      BY <1>1, <1>2, DocumentTypes
    <3>2. Append(SubSeq(d.text, from + 1, f), d.text[f + 1]) = SubSeq(d.text, from + 1, f + 1)
      BY <3>1, DocumentTypes, SubSeqLonger
    <3>3. QED
      BY <1>1, <2>2, <3>2
  <2>5. from <= f + 1 /\ f + 1 < d.tokens[k + 1].from - 1
    BY <1>1, <1>2, <1>5
  <2>6. InInteger(d, k, f + 1)'
    BY <1>1, <2>2, <2>4, <2>5 DEF InInteger, from
  <2>7. QED
    BY <1>4, <2>2, <2>3, <2>6 DEF FollowsAt, Inside
<1>6. CASE f + 1 = to
  <2>1. c = "e" /\ ~isdigit(c) /\ c # "-"
    BY <1>2, <1>6, NoDigits
  <2>2. m_element = SubSeq(d.text, from + 1, to - 1)
    BY <1>1, <1>2, <1>6
  <2>3. ValueToken(d, k)
    BY <1>1, TokenKinds DEF Types
  <2>4. d.nodes[n].type = "integers" /\ d.nodes[n].string_value = << >>
    BY <1>1, <2>3 DEF ValueToken
  <2>5. /\ m_state' = "unknown" /\ m_element' = << >> /\ UNCHANGED <<m_element_length_string, fault>>
        /\ push_to_target(d.nodes[n].type, d.nodes[n].string_value, d.nodes[n].integer_value)
    BY <1>2, <1>3, <2>1, <2>2, <2>4 DEF consume_integer, switch_state_integer
  <2>6. KeepsUp(d, k + 1, f + 1)'
    <3>1. d.nodes[n].type \notin Containers
      BY <2>4 DEF Containers
    <3> HIDE DEF n
    <3>2. QED
      BY <1>3, <2>3, <2>5, <3>1, ValueStep DEF n
  <2>7. AtToken(d, k + 1, f + 1)'
    BY <1>1, <1>2, <1>6, <2>5 DEF AtToken, Idle
  <2>8. QED
    BY <2>5, <2>6, <2>7 DEF FollowsAt
<1>7. QED
  BY <1>1, <1>2, <1>5, <1>6

LEMMA LengthByte ==
  ASSUME NEW d, IsDocument(d), NEW k \in 1..(Len(d.tokens) - 1), NEW f \in Nat, f < Len(d.text),
         KeepsUp(d, k, f), InLength(d, k, f), consume_byte(d.text[f + 1])
  PROVE  FollowsAt(d, k, f + 1)' /\ UNCHANGED fault
<1> DEFINE c == d.text[f + 1]
           from == d.tokens[k].from
           colon == d.tokens[k].colon
<1>1. /\ d.tokens[k].kind \in {"key", "strings"} /\ from <= f /\ f < colon
      /\ m_state = "parsing_word_length" /\ m_element = << >>
      /\ m_element_length_string = SubSeq(d.text, from, f)
  BY DEF InLength
<1>2. PICK to \in Nat :
        /\ d.tokens[k + 1].from = to + 1 /\ to <= Len(d.text)
        /\ from \in Nat \ {0} /\ colon \in Nat
        /\ from < colon /\ colon <= to
        /\ \A j \in from..(colon - 1) : isdigit(d.text[j])
        /\ d.text[colon] = ":"
        /\ stol(SubSeq(d.text, from, colon - 1)) = to - colon
  BY <1>1, StringToken
<1>3. consume_word_length(c) /\ push_raw_bencode(c) /\ UNCHANGED m_store_raw_bencode
  BY <1>1 DEF consume_byte
<1>4. k < Len(d.tokens)
  BY DocumentTypes
<1> HIDE DEF from, colon
<1>5. UNCHANGED <<tree, fault>>
  BY <1>3 DEF consume_word_length, switch_state_word_length
<1>6. KeepsUp(d, k, f + 1)'
  BY <1>3, <1>5, KeptStep
<1>7. CASE f + 1 < colon
  <2>1. f + 1 \in from..(colon - 1)
    <3>1. from \in Nat /\ colon \in Nat /\ from <= f
      BY <1>1, <1>2
    <3>2. QED
      BY <1>7, <3>1
  <2>2. /\ m_element_length_string' = Append(m_element_length_string, c)
        /\ UNCHANGED <<m_state, m_element>>
    BY <1>2, <1>3, <2>1 DEF consume_word_length
  <2>3. Append(SubSeq(d.text, from, f), d.text[f + 1]) = SubSeq(d.text, from, f + 1)
    <3>1. from \in Nat \ {0} /\ from <= f /\ Len(d.text) \in Nat
      BY <1>1, <1>2, TextLength
    <3>2. from <= f + 1 /\ f + 1 <= Len(d.text)
      BY <3>1
    <3>3. QED
      BY <3>1, <3>2, DocumentTypes, SubSeqLonger
  <2>4. from <= f + 1
    BY <1>1, <1>2
  <2>5. InLength(d, k, f + 1)'
    BY <1>1, <1>7, <2>2, <2>3, <2>4 DEF InLength, from, colon
  <2>6. QED
    BY <1>4, <1>5, <1>6, <2>5 DEF FollowsAt, Inside
<1>8. CASE f + 1 = colon
  <2>1. c = ":" /\ ~isdigit(c) /\ f = colon - 1
    BY <1>2, <1>8, NoDigits
  <2>2. /\ m_state' = "parsing_word" /\ m_element_length' = to - colon
        /\ m_element_length_string' = << >> /\ m_element' = << >>
    BY <1>1, <1>2, <1>3, <2>1 DEF consume_word_length, switch_state_word_length
  <2>3. CASE colon < to
    <3>1. SubSeq(d.text, colon + 1, f + 1) = << >>
      <4>1. colon + 1 \in Nat \ {0} /\ f + 1 < colon + 1 /\ f + 1 <= Len(d.text) /\ f + 1 \in Nat
        <5>1. colon \in Nat /\ Len(d.text) \in Nat
          BY <1>2, TextLength
        <5>2. QED
          BY <1>8, <5>1
      <4>2. QED
        BY <4>1, DocumentTypes, SubSeqType
    <3>2. /\ colon <= f + 1 /\ f + 1 < d.tokens[k + 1].from - 1
          /\ m_element_length' = d.tokens[k + 1].from - 1 - (f + 1)
      BY <1>2, <1>8, <2>2, <2>3
    <3>3. InWord(d, k, f + 1)'
      BY <1>1, <2>2, <3>1, <3>2 DEF InWord, colon
    <3>4. QED
      BY <1>4, <1>5, <1>6, <3>3 DEF FollowsAt, Inside
  <2>4. CASE colon = to
    <3>1. colon = d.tokens[k + 1].from - 1 /\ m_element_length' = 0 /\ colon <= f + 1
      BY <1>2, <1>8, <2>2, <2>4
    <3>2. Lost(d, k, f + 1)'
      BY <1>1, <1>8, <2>2, <3>1 DEF Lost, colon
    <3>3. QED
      BY <1>4, <1>5, <1>6, <3>2 DEF FollowsAt, Inside
  <2>5. QED
    BY <1>2, <2>3, <2>4
<1>9. QED
  BY <1>1, <1>2, <1>7, <1>8

LEMMA WordByte ==
  ASSUME NEW d, IsDocument(d), NEW k \in 1..(Len(d.tokens) - 1), NEW f \in Nat, f < Len(d.text),
         Len(d.text) < SizeModulus,
         KeepsUp(d, k, f), InWord(d, k, f), consume_byte(d.text[f + 1])
  PROVE  /\ FollowsAt(d, k, f + 1)' \/ FollowsAt(d, k + 1, f + 1)'
         /\ UNCHANGED fault
<1> DEFINE c == d.text[f + 1]
           colon == d.tokens[k].colon
           n == d.tokens[k].next
<1>1. /\ d.tokens[k].kind \in {"key", "strings"} /\ colon <= f /\ f < d.tokens[k + 1].from - 1
      /\ m_state = "parsing_word" /\ m_element_length_string = << >>
      /\ m_element = SubSeq(d.text, colon + 1, f)
      /\ m_element_length = d.tokens[k + 1].from - 1 - f
  BY DEF InWord
<1>2. PICK to \in Nat :
        /\ d.tokens[k + 1].from = to + 1 /\ to <= Len(d.text) /\ colon \in Nat
        /\ Spelled(d, k) = SubSeq(d.text, colon + 1, to)
        /\ colon < to => Spelled(d, k) # << >>
  BY <1>1, StringToken
<1>3. consume_word(c) /\ push_raw_bencode(c) /\ UNCHANGED m_store_raw_bencode
  BY <1>1 DEF consume_byte
<1>4. k < Len(d.tokens)
  BY DocumentTypes
<1> HIDE DEF colon
<1>5. f < to /\ m_element_length = to - f /\ colon < to
  BY <1>1, <1>2
<1>6. (m_element_length - 1) % SizeModulus = to - f - 1
  <2>1. to - f - 1 \in Nat /\ to - f - 1 < SizeModulus
    <3>1. to <= Len(d.text) /\ Len(d.text) \in Nat /\ f < to
      BY <1>2, <1>5, TextLength
    <3>2. QED
      BY <3>1
  <2>2. QED
    BY <1>5, <2>1, SmallMod
<1>7. Append(m_element, c) = SubSeq(d.text, colon + 1, f + 1)
  <2>1. colon + 1 \in Nat \ {0} /\ colon + 1 <= f + 1 /\ f + 1 <= Len(d.text)
    <3>1. colon \in Nat /\ colon <= f /\ Len(d.text) \in Nat
      BY <1>1, <1>2, TextLength
    <3>2. QED
      BY <3>1
  <2>2. QED
    BY <1>1, <2>1, DocumentTypes, SubSeqLonger
<1>8. CASE f + 1 < to
  <2>1. WordLeft(m_element_length)
    BY <1>2, <1>6, <1>8 DEF WordLeft
  <2>2. /\ m_element' = Append(m_element, c) /\ m_element_length' = to - f - 1
        /\ UNCHANGED <<m_state, tree, m_element_length_string, fault>>
    BY <1>3, <1>6, <2>1 DEF consume_word
  <2>3. KeepsUp(d, k, f + 1)'
    BY <1>3, <2>2, KeptStep
  <2>4. /\ colon <= f + 1 /\ f + 1 < d.tokens[k + 1].from - 1
        /\ m_element_length' = d.tokens[k + 1].from - 1 - (f + 1)
    BY <1>1, <1>2, <1>8, <2>2
  <2>5. InWord(d, k, f + 1)'
    BY <1>1, <1>7, <2>2, <2>4 DEF InWord, colon
  <2>6. QED
    BY <1>4, <2>2, <2>3, <2>5 DEF FollowsAt, Inside
<1>9. CASE f + 1 = to
  <2>1. ~WordLeft(m_element_length)
    BY <1>2, <1>6, <1>9 DEF WordLeft
  <2>2. /\ m_state' = "unknown" /\ push_to_target("strings", Spelled(d, k), 0)
        /\ m_element' = << >> /\ UNCHANGED <<m_element_length_string, fault>>
    BY <1>2, <1>3, <1>7, <1>9, <2>1 DEF consume_word, switch_state_word
  <2>3. ASSUME d.tokens[k].kind = "key" PROVE KeepsUp(d, k + 1, f + 1)'
    <3>1. KeyToken(d, k) /\ Spelled(d, k) = d.nodes[n].key
      BY <2>3, TokenKinds DEF Spelled
    <3>2. QED
      BY <1>2, <1>3, <1>5, <2>2, <3>1, KeyStep
  <2>4. ASSUME d.tokens[k].kind = "strings" PROVE KeepsUp(d, k + 1, f + 1)'
    <3>1. ValueToken(d, k) /\ Spelled(d, k) = d.nodes[n].string_value
      BY <2>4, TokenKinds DEF Spelled, Types
    <3>2. d.nodes[n].type = "strings" /\ d.nodes[n].integer_value = 0
      BY <2>4, <3>1 DEF ValueToken
    <3>3. d.nodes[n].type \notin Containers
      BY <3>2 DEF Containers
    <3>4. push_to_target(d.nodes[n].type, d.nodes[n].string_value, d.nodes[n].integer_value)
      BY <2>2, <3>1, <3>2
    <3> HIDE DEF n
    <3>5. QED
      BY <1>3, <3>1, <3>3, <3>4, ValueStep DEF n
  <2>5. KeepsUp(d, k + 1, f + 1)'
    BY <1>1, <2>3, <2>4
  <2>6. AtToken(d, k + 1, f + 1)'
    BY <1>1, <1>2, <1>9, <2>2 DEF AtToken, Idle
  <2>7. QED
    BY <2>2, <2>5, <2>6 DEF FollowsAt
<1>10. QED
  BY <1>2, <1>5, <1>8, <1>9

LEMMA LostByte ==
  ASSUME NEW d, IsDocument(d), NEW k \in 1..(Len(d.tokens) - 1), NEW f \in Nat, f < Len(d.text),
         Len(d.text) < SizeModulus,
         KeepsUp(d, k, f), Lost(d, k, f), consume_byte(d.text[f + 1])
  PROVE  FollowsAt(d, k, f + 1)' /\ UNCHANGED fault
<1> DEFINE c == d.text[f + 1]
           colon == d.tokens[k].colon
<1>1. /\ d.tokens[k].kind \in {"key", "strings"} /\ colon = d.tokens[k + 1].from - 1 /\ colon <= f
      /\ m_state = "parsing_word"
      /\ m_element_length = IF f = colon THEN 0 ELSE SizeModulus - (f - colon)
  BY DEF Lost
<1>2. colon \in Nat
  BY <1>1, StringToken
<1>3. consume_word(c) /\ push_raw_bencode(c) /\ UNCHANGED m_store_raw_bencode
  BY <1>1 DEF consume_byte
<1>4. k < Len(d.tokens)
  BY DocumentTypes
<1> HIDE DEF colon
<1>5. (m_element_length - 1) % SizeModulus = SizeModulus - ((f + 1) - colon)
  <2>1. CASE f = colon
    <3>1. m_element_length = 0 /\ SizeModulus - ((f + 1) - colon) = SizeModulus - 1
      BY <1>1, <1>2, <2>1
    <3>2. QED
      BY <3>1, WrapMod
  <2>2. CASE f # colon
    <3>1. /\ m_element_length = SizeModulus - (f - colon) /\ Len(d.text) \in Nat
          /\ SizeModulus \in Nat /\ colon <= f
      BY <1>1, <2>2, TextLength
    <3>2. /\ m_element_length - 1 \in Nat /\ m_element_length - 1 < SizeModulus
          /\ m_element_length - 1 = SizeModulus - ((f + 1) - colon)
      BY <1>2, <2>2, <3>1
    <3>3. QED
      BY <3>2, SmallMod
  <2>3. QED
    BY <2>1, <2>2
<1>6. SizeModulus - ((f + 1) - colon) # 0 /\ colon <= f + 1 /\ f + 1 # colon
  <2>1. colon \in Nat /\ colon <= f /\ Len(d.text) \in Nat
    BY <1>1, <1>2, TextLength
  <2>2. QED
    BY <2>1
<1>7. /\ UNCHANGED <<m_state, tree, fault>>
      /\ m_element_length' = SizeModulus - ((f + 1) - colon)
  BY <1>3, <1>5, <1>6 DEF consume_word, WordLeft
<1>8. KeepsUp(d, k, f + 1)'
  BY <1>3, <1>7, KeptStep
<1>9. Lost(d, k, f + 1)'
  BY <1>1, <1>6, <1>7 DEF Lost, colon
<1>10. QED
  BY <1>4, <1>7, <1>8, <1>9 DEF FollowsAt, Inside

\* The parser keeps up with a document byte by byte.
LEMMA FollowStep ==
  ASSUME NEW d, IsDocument(d), Len(d.text) < SizeModulus, NEW f \in Nat, f < Len(d.text),
         Follows(d, f), consume_byte(d.text[f + 1])
  PROVE  Follows(d, f + 1)' /\ UNCHANGED fault
<1>1. PICK k \in 1..Len(d.tokens) : FollowsAt(d, k, f)
  BY DEF Follows
<1>2. k \in 1..(Len(d.tokens) - 1)
  <2>1. CASE k = Len(d.tokens)
    <3>1. d.tokens[k].from = Len(d.text) + 1
      BY <2>1 DEF IsDocument
    <3>2. AtToken(d, k, f)
      BY <1>1, <2>1, DocumentTypes DEF FollowsAt, Inside
    <3>3. QED
      BY <3>1, <3>2, DocumentTypes DEF AtToken
  <2>2. CASE k # Len(d.tokens)
    BY <2>2, DocumentTypes
  <2>3. QED
    BY <2>1, <2>2
<1>3. KeepsUp(d, k, f)
  BY <1>1 DEF FollowsAt
<1>4. (FollowsAt(d, k, f + 1)' \/ FollowsAt(d, k + 1, f + 1)') /\ UNCHANGED fault
  <2>1. CASE AtToken(d, k, f)
    BY <1>2, <1>3, <2>1, FirstByte
  <2>2. CASE InInteger(d, k, f)
    BY <1>2, <1>3, <2>2, IntegerByte
  <2>3. CASE InLength(d, k, f)
    BY <1>2, <1>3, <2>3, LengthByte
  <2>4. CASE InWord(d, k, f)
    BY <1>2, <1>3, <2>4, WordByte
  <2>5. CASE Lost(d, k, f)
    BY <1>2, <1>3, <2>5, LostByte
  <2>6. QED
    BY <1>1, <2>1, <2>2, <2>3, <2>4, <2>5 DEF FollowsAt, Inside
<1>5. k + 1 \in 1..Len(d.tokens)
  BY <1>2, DocumentTypes
<1>6. QED
  BY <1>4, <1>5 DEF Follows

\* The first token is the outermost value.
LEMMA FirstToken ==
  ASSUME NEW d, IsDocument(d)
  PROVE  Len(d.nodes) >= 1 /\ 1 \in DOMAIN d.nodes /\ d.nodes[1].parent = 0
<1>1. 1 \in 1..(Len(d.tokens) - 1)
  BY DocumentTypes
<1>2. d.tokens[1].open = 0 /\ d.tokens[1].next = 1
  BY DEF IsDocument
<1>3. 0 \notin DOMAIN d.nodes
  BY DocumentTypes
<1>4. ~KeyToken(d, 1) /\ ~EndToken(d, 1)
  BY <1>2, <1>3 DEF KeyToken, EndToken, InDictionary
<1>5. ValueToken(d, 1)
  BY <1>1, <1>4 DEF IsDocument
<1>6. 1 \in DOMAIN d.nodes /\ d.nodes[1].parent = 0
  BY <1>2, <1>5 DEF ValueToken
<1>7. QED
  BY <1>6, DocumentTypes

\* A parser that has seen nothing follows every document.
LEMMA FollowStart ==
  ASSUME NEW d, IsDocument(d), m_state' = "unknown", m_element' = << >>,
         m_element_length_string' = << >>, m_target_queue' = << >>, m_root' = 0,
         targets' = << >>, latest_key' = << >>, raw_bencode' = << >>
  PROVE  Follows(d, 0)'
<1>1. /\ d.tokens[1].from = 1 /\ d.tokens[1].open = 0 /\ d.tokens[1].next = 1
      /\ 1 \in 1..Len(d.tokens) /\ Len(d.nodes) \in Nat
  BY DocumentTypes DEF IsDocument
<1>2. /\ << >> \in Seq(Nat) /\ << >> \in Seq(Nodes) /\ Len(<< >>) = 0
  BY EmptySeq
<1>3. Known(d, 1) = {} /\ ~AfterKey(d, 1)
  BY <1>1 DEF Known, AfterKey
<1>4. StackRight(d, 1)'
  BY <1>1, <1>2 DEF StackRight, parent_target
<1>5. << >> \in [{} -> Seq(STRING)]
  OBVIOUS
<1>6. TreeRight(d, 1)'
  BY <1>1, <1>2, <1>3, <1>5 DEF TreeRight
<1>7. TextRight(d, 1, 0)'
  BY <1>3, <1>5 DEF TextRight
<1>8. AtToken(d, 1, 0)'
  BY <1>1 DEF AtToken, Idle
<1>9. QED
  BY <1>1, <1>4, <1>6, <1>7, <1>8 DEF Follows, FollowsAt, KeepsUp

\* Only an empty string makes the parser lose its place.
LEMMA LostHasCause ==
  ASSUME NEW d, IsDocument(d), NEW k \in 1..(Len(d.tokens) - 1), NEW f, Lost(d, k, f)
  PROVE  ~NoEmptyString(d)
<1> DEFINE n == d.tokens[k].next
<1>1. /\ d.tokens[k].kind \in {"key", "strings"} /\ d.tokens[k].colon = d.tokens[k + 1].from - 1
  BY DEF Lost
<1>2. Spelled(d, k) = << >>
  <2>1. PICK to \in Nat : /\ d.tokens[k + 1].from = to + 1
                          /\ d.tokens[k].colon = to => Spelled(d, k) = << >>
    BY <1>1, StringToken
  <2>2. QED
    BY <1>1, <2>1
<1>3. CASE d.tokens[k].kind = "key"
  <2>1. KeyToken(d, k)
    BY <1>3, TokenKinds
  <2>2. /\ n \in DOMAIN d.nodes /\ d.nodes[n].key = << >> /\ InDictionary(d, d.tokens[k].open)
        /\ d.tokens[k + 1].kind \in Types /\ d.tokens[k + 1].open = d.tokens[k].open
        /\ d.tokens[k + 1].next = n
    BY <1>2, <1>3, <2>1 DEF KeyToken, Spelled
  <2>3. k + 1 \in 1..(Len(d.tokens) - 1)
    <3>1. d.tokens[Len(d.tokens)].kind = "eof"
      BY DEF IsDocument
    <3>2. k + 1 # Len(d.tokens)
      BY <2>2, <3>1 DEF Types, Containers
    <3>3. QED
      BY <3>2, DocumentTypes
  <2>4. ValueToken(d, k + 1)
    BY <2>2, <2>3, TokenKinds
  <2>5. d.nodes[n].parent = d.tokens[k].open
    BY <2>2, <2>4 DEF ValueToken
  <2>6. QED
    BY <2>2, <2>5 DEF NoEmptyString
<1>4. CASE d.tokens[k].kind = "strings"
  <2>1. ValueToken(d, k) /\ d.nodes[n].string_value = << >>
    BY <1>2, <1>4, TokenKinds DEF Types, Spelled
  <2>2. n \in DOMAIN d.nodes /\ d.nodes[n].type = "strings"
    BY <1>4, <2>1 DEF ValueToken
  <2>3. QED
    BY <2>1, <2>2 DEF NoEmptyString
<1>5. QED
  BY <1>1, <1>3, <1>4

\* At the end of the text the parser has the whole tree, or it has met an
\* empty string.
LEMMA FollowEnd ==
  ASSUME NEW d, IsDocument(d), Follows(d, Len(d.text))
  PROVE  \/ m_state \in Idle /\ m_root = 1 /\ targets = d.nodes
         \/ m_state = "parsing_word" /\ ~NoEmptyString(d)
<1> DEFINE f == Len(d.text)
<1>1. PICK k \in 1..Len(d.tokens) : FollowsAt(d, k, f)
  BY DEF Follows
<1>2. CASE AtToken(d, k, f)
  <2>1. d.tokens[k].from = Len(d.text) + 1 /\ m_state \in Idle
    BY <1>2 DEF AtToken
  <2>2. k = Len(d.tokens)
    <3>1. k \in 1..(Len(d.tokens) - 1) => d.tokens[k].from \in 1..Len(d.text)
      BY TokenPlaces
    <3>2. QED
      BY <2>1, <3>1, DocumentTypes
  <2>3. d.tokens[k].next = Len(d.nodes) + 1
    BY <2>2 DEF IsDocument
  <2>4. /\ targets \in Seq(Nodes) /\ Len(targets) = d.tokens[k].next - 1
        /\ \A n \in Known(d, k) : targets[n] = d.nodes[n]
        /\ m_root = IF d.tokens[k].next = 1 THEN 0 ELSE 1
    BY <1>1 DEF FollowsAt, KeepsUp, TreeRight
  <2>5. Len(targets) = Len(d.nodes) /\ Known(d, k) = 1..Len(d.nodes) /\ m_root = 1
    BY <2>3, <2>4, DocumentTypes, FirstToken DEF Known
  <2>6. targets = d.nodes
    BY <2>4, <2>5, DocumentTypes, SeqEqual
  <2>7. QED
    BY <2>1, <2>5, <2>6
<1>3. CASE Inside(d, k, f)
  <2>1. k \in 1..(Len(d.tokens) - 1)
    BY <1>3, DocumentTypes DEF Inside
  <2>2. ~InInteger(d, k, f)
    <3>1. SUFFICES ASSUME InInteger(d, k, f) PROVE FALSE
      OBVIOUS
    <3>2. d.tokens[k].kind = "integers" /\ f < d.tokens[k + 1].from - 1
      BY <3>1 DEF InInteger
    <3>3. PICK to \in Nat : d.tokens[k + 1].from = to + 1 /\ to <= Len(d.text)
      BY <2>1, <3>2, IntegerToken
    <3>4. QED
      BY <3>2, <3>3, DocumentTypes
  <2>3. ~InLength(d, k, f) /\ ~InWord(d, k, f)
    <3>1. SUFFICES ASSUME InLength(d, k, f) \/ InWord(d, k, f) PROVE FALSE
      OBVIOUS
    <3>2. /\ d.tokens[k].kind \in {"key", "strings"}
          /\ f < d.tokens[k].colon \/ f < d.tokens[k + 1].from - 1
      BY <3>1 DEF InLength, InWord
    <3>3. PICK to \in Nat : /\ d.tokens[k + 1].from = to + 1 /\ to <= Len(d.text)
                            /\ d.tokens[k].colon \in Nat /\ d.tokens[k].colon <= to
      BY <2>1, <3>2, StringToken
    <3>4. QED
      BY <3>2, <3>3, DocumentTypes
  <2>4. Lost(d, k, f)
    BY <1>3, <2>2, <2>3 DEF Inside
  <2>5. QED
    BY <2>1, <2>4, LostHasCause DEF Lost
<1>4. QED
  BY <1>1, <1>2, <1>3 DEF FollowsAt

\* The zeros behind an http answer: none of them ends a container, and an idle
\* parser ignores them.
LEMMA NulByte ==
  ASSUME consume_byte("NUL")
  PROVE  /\ fault' \in {fault, "threw"}
         /\ m_state \in Idle => m_state' = "unknown" /\ UNCHANGED <<tree, fault>>
         /\ m_state = "parsing_word" => m_state' \in {"unknown", "parsing_word"} /\ UNCHANGED fault
<1>1. CASE m_state = "parsing_integer"
  <2>1. consume_integer("NUL")
    BY <1>1 DEF consume_byte
  <2>2. fault' \in {fault, "threw"}
    BY <2>1, NoDigits DEF consume_integer, switch_state_integer
  <2>3. QED
    BY <1>1, <2>2 DEF Idle
<1>2. CASE m_state = "parsing_word"
  <2>1. consume_word("NUL")
    BY <1>2 DEF consume_byte
  <2>2. m_state' \in {"unknown", "parsing_word"} /\ UNCHANGED fault
    BY <1>2, <2>1 DEF consume_word, switch_state_word
  <2>3. QED
    BY <1>2, <2>2 DEF Idle
<1>3. CASE m_state = "parsing_word_length"
  <2>1. consume_word_length("NUL")
    BY <1>3 DEF consume_byte
  <2>2. UNCHANGED fault
    BY <2>1 DEF consume_word_length, switch_state_word_length
  <2>3. QED
    BY <1>3, <2>2 DEF Idle
<1>4. CASE m_state \notin {"parsing_integer", "parsing_word", "parsing_word_length"}
  <2>1. consume_state("NUL")
    BY <1>4 DEF consume_byte
  <2>2. m_state' = "unknown" /\ UNCHANGED <<tree, fault>>
    BY <2>1, NoDigits DEF consume_state
  <2>3. QED
    BY <1>4, <2>2
<1>5. QED
  BY <1>1, <1>2, <1>3, <1>4

-----------------------------------------------------------------------------
(* What a reader of the tree may rely on.                                  *)

LEMMA FollowsUnchanged ==
  ASSUME NEW d, NEW f, Follows(d, f),
         UNCHANGED <<m_state, element, tree, raw_bencode, m_store_raw_bencode>>
  PROVE  Follows(d, f)'
<1>1. UNCHANGED <<m_state, m_element, m_element_length, m_element_length_string, m_store_raw_bencode,
                  m_target_queue, m_root, targets, latest_key, raw_bencode>>
  BY DEF element, tree
<1>2. PICK k \in 1..Len(d.tokens) : FollowsAt(d, k, f)
  BY DEF Follows
<1>3. StackRight(d, k)' /\ TreeRight(d, k)' /\ TextRight(d, k, f)'
  <2>1. StackRight(d, k) /\ TreeRight(d, k) /\ TextRight(d, k, f)
    BY <1>2 DEF FollowsAt, KeepsUp
  <2>2. StackRight(d, k)'
    BY <1>1, <2>1 DEF StackRight, parent_target
  <2>3. TreeRight(d, k)'
    BY <1>1, <2>1 DEF TreeRight
  <2>4. \A n \in Known(d, k) : TextOf(d, n, f)'
    <3>1. \A n : OnStack(n)' <=> OnStack(n)
      BY <1>1 DEF OnStack
    <3>2. QED
      BY <1>1, <2>1, <3>1 DEF TextRight, TextOf
  <2>5. QED
    BY <1>1, <2>1, <2>2, <2>3, <2>4 DEF TextRight
<1>4. AtToken(d, k, f)' \/ Inside(d, k, f)'
  BY <1>1, <1>2 DEF FollowsAt, AtToken, Inside, InInteger, InLength, InWord, Lost
<1>5. QED
  BY <1>3, <1>4 DEF Follows, FollowsAt, KeepsUp

LEMMA FollowsTree ==
  ASSUME NEW d, IsDocument(d), NEW f, Follows(d, f)
  PROVE  /\ DOMAIN targets \subseteq DOMAIN d.nodes
         /\ \A n \in DOMAIN targets : targets[n] = d.nodes[n] /\ targets[n] \in Nodes
         /\ m_root \in {0, 1} /\ (m_root = 1 => 1 \in DOMAIN targets)
<1>1. PICK k \in 1..Len(d.tokens) : TreeRight(d, k)
  BY DEF Follows, FollowsAt, KeepsUp
<1>2. /\ DOMAIN targets = Known(d, k)
      /\ \A n \in Known(d, k) : n \in 1..Len(d.nodes) /\ d.nodes[n] \in Nodes
  BY <1>1, KnownNodes
<1>3. /\ \A n \in Known(d, k) : targets[n] = d.nodes[n]
      /\ m_root = IF d.tokens[k].next = 1 THEN 0 ELSE 1
      /\ d.tokens[k].next \in 1..(Len(d.nodes) + 1)
  BY <1>1 DEF TreeRight
<1>4. m_root = 1 => 1 \in Known(d, k)
  BY <1>3, DocumentTypes DEF Known
<1>5. QED
  BY <1>2, <1>3, <1>4, DocumentTypes

\* A container that is closed has its text, but for the first byte.
LEMMA ClosedText ==
  ASSUME NEW d, IsDocument(d), NEW f, Follows(d, f), f \in Nat, f <= Len(d.text), m_store_raw_bencode,
         NEW n \in DOMAIN targets, d.nodes[n].type = "dictionaries", ~OnStack(n)
  PROVE  <<"d">> \o raw_bencode[n] = SubSeq(d.text, d.first[n], d.last[n])
<1> DEFINE a == d.first[n]
           b == d.last[n]
<1>1. PICK k \in 1..Len(d.tokens) : TreeRight(d, k) /\ TextRight(d, k, f)
  BY DEF Follows, FollowsAt, KeepsUp
<1>2. DOMAIN targets = Known(d, k)
  BY <1>1, KnownNodes
<1>3. TextOf(d, n, f)
  BY <1>1, <1>2 DEF TextRight
<1>4. a \in 1..f /\ d.text[a] = "d" /\ b \in a..f /\ raw_bencode[n] = SubSeq(d.text, a + 1, b)
  BY <1>3 DEF TextOf, Containers
<1> HIDE DEF a, b
<1>5. a \in 1..Len(d.text) /\ b \in a..Len(d.text)
  BY <1>4, DocumentTypes
<1>6. SubSeq(d.text, a, b) = <<d.text[a]>> \o SubSeq(d.text, a + 1, b)
  <2>1. d.text \in Seq(STRING)
    BY DocumentTypes
  <2>2. QED
    BY <1>5, <2>1, SubSeqRecursiveFirst, Zenon
<1>7. QED
  BY <1>4, <1>6 DEF a, b
=============================================================================

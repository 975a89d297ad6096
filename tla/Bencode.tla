------------------------------ MODULE Bencode ------------------------------
(***************************************************************************)
(* bencode_map (generic/bencode_map.hpp), the parser behind torrent files, *)
(* exact sources of magnet links and http tracker answers.  It is fed      *)
(* bytes, keeps what it has of the current element and a stack of the      *)
(* containers that are still open, and never reports an error: a malformed *)
(* input leaves some tree, throws (stol, at) or is undefined (pop_back of  *)
(* an empty stack).                                                        *)
(*                                                                         *)
(* Targets are numbered as they are created, and the program's pointers to *)
(* them are their numbers; 0 is the default m_root.  A target knows its    *)
(* parent and its key: list_container is the targets with that parent in   *)
(* the order of their numbers, and map_container[key] the latest of those  *)
(* with that key.                                                          *)
(***************************************************************************)
EXTENDS Bencoding

CONSTANT SizeModulus   \* 2^64, or anything no input is long enough to reach

ASSUME BencodeAssumption == SizeModulus \in Nat \ {0}

VARIABLES
  m_state, m_element, m_element_length, m_element_length_string,
  m_store_raw_bencode, m_target_queue, m_root, m_bracket_root,
  targets,
  latest_key, raw_bencode,   \* of every target
  fault                      \* "threw", "undefined" or "none"

element == <<m_element, m_element_length, m_element_length_string>>
tree    == <<m_target_queue, m_root, targets, latest_key>>
bencode == <<m_state, element, tree, raw_bencode, m_store_raw_bencode, m_bracket_root, fault>>

NewBencodeMap ==
  /\ m_state = "unknown" /\ m_element = << >> /\ m_element_length = 0
  /\ m_element_length_string = << >> /\ m_store_raw_bencode = FALSE
  /\ m_target_queue = << >> /\ m_root = 0 /\ m_bracket_root = "null"
  /\ targets = << >> /\ latest_key = << >> /\ raw_bencode = << >> /\ fault = "none"

\* Mutant: a list is not opened.
only_dictionaries_open(type) == type = "dictionaries"
can_have_children(type) == type \in {"dictionaries", "lists"}

\* The innermost open container.
parent_target == IF m_target_queue = << >> THEN 0 ELSE Last(m_target_queue)

\* The child becomes the root, an element of parent_target, or the key of its
\* next entry; a container is opened.  A container or a number where a key is
\* due is dropped.
push_to_target(type, string_value, integer_value) ==
  LET id == Len(targets) + 1
      in_map == parent_target # 0 /\ targets[parent_target].type = "dictionaries"
      key == IF in_map THEN latest_key[parent_target] ELSE << >>
  IN IF in_map /\ key = << >>
     THEN /\ latest_key' = IF type = "strings"
                           THEN [latest_key EXCEPT ![parent_target] = string_value]
                           ELSE latest_key
          /\ UNCHANGED <<m_target_queue, m_root, targets>>
     ELSE /\ targets' = Append(targets,
               [type |-> type, string_value |-> string_value, integer_value |-> integer_value,
                parent |-> parent_target, key |-> key])
          /\ latest_key' = [n \in 1..id |-> IF n \in {id, parent_target} THEN << >> ELSE latest_key[n]]
          /\ m_root' = IF parent_target = 0 THEN id ELSE m_root
          /\ m_target_queue' = IF can_have_children(type) THEN Append(m_target_queue, id)
                               ELSE m_target_queue

\* pop_back.
end_target ==
  /\ IF m_target_queue = << >>
     THEN fault' = "undefined" /\ UNCHANGED m_target_queue
     ELSE m_target_queue' = Front(m_target_queue) /\ UNCHANGED fault
  /\ UNCHANGED <<m_root, targets, latest_key>>

\* switch_state: the element is complete.  The string is pushed with the byte
\* that ends it, the number without.
switch_state_word_length ==
  /\ m_state' = "parsing_word"
  /\ m_element_length' = stol(m_element_length_string)
  /\ m_element_length_string' = << >>
  /\ UNCHANGED <<m_element, tree, fault>>

switch_state_word(word) ==
  /\ m_state' = "unknown"
  /\ push_to_target("strings", word, 0)
  /\ m_element' = << >>

switch_state_integer ==
  /\ m_state' = "unknown"
  /\ IF stolThrows(m_element)
     THEN fault' = "threw" /\ UNCHANGED <<tree, m_element>>
     ELSE /\ push_to_target("integers", << >>, stol(m_element))
          /\ m_element' = << >> /\ UNCHANGED fault
  /\ UNCHANGED <<m_element_length, m_element_length_string>>

\* The first byte of an element, or the last one of a container.
consume_state(c) ==
  \/ /\ c = "i" /\ m_state' = "parsing_integer"
     /\ UNCHANGED <<element, tree, fault>>
  \/ /\ c = "l" /\ m_state' = "parsing_list" /\ push_to_target("lists", << >>, 0)
     /\ UNCHANGED <<element, fault>>
  \/ /\ c = "d" /\ m_state' = "parsing_dictionary" /\ push_to_target("dictionaries", << >>, 0)
     /\ UNCHANGED <<element, fault>>
  \/ /\ c = "e" /\ m_state' = "unknown" /\ end_target
     /\ UNCHANGED element
  \/ /\ isdigit(c) /\ m_state' = "parsing_word_length"
     /\ m_element_length_string' = Append(m_element_length_string, c)
     /\ UNCHANGED <<m_element, m_element_length, tree, fault>>
  \/ /\ c \notin {"i", "l", "d", "e"} /\ ~isdigit(c) /\ m_state' = "unknown"
     /\ UNCHANGED <<element, tree, fault>>

\* Every open container keeps its own text, but for the byte that opened it.
\* Mutant: only the innermost one does.
push_raw_to_innermost(c) ==
  raw_bencode' = [n \in DOMAIN targets' |->
    IF n \notin DOMAIN targets THEN << >>
    ELSE IF m_store_raw_bencode /\ n = parent_target THEN Append(raw_bencode[n], c)
    ELSE raw_bencode[n]]
push_raw_bencode(c) ==
  raw_bencode' = [n \in DOMAIN targets' |->
    IF n \notin DOMAIN targets THEN << >>
    ELSE IF m_store_raw_bencode /\ \E i \in DOMAIN m_target_queue : m_target_queue[i] = n
    THEN Append(raw_bencode[n], c)
    ELSE raw_bencode[n]]

consume_integer(c) ==
  IF isdigit(c) \/ c = "-"
  THEN /\ m_element' = Append(m_element, c)
       /\ UNCHANGED <<m_state, m_element_length, m_element_length_string, tree, fault>>
  ELSE switch_state_integer

\* m_element_length--, then the comparison with 0: a word of length 0 wraps
\* around and swallows the rest.  Mutant: it stops one byte late.
WordGoesOn(length) == length # 0
WordLeft(length) == (length - 1) % SizeModulus # 0

consume_word(c) ==
  /\ m_element_length' = (m_element_length - 1) % SizeModulus
  /\ IF WordLeft(m_element_length)
     THEN m_element' = Append(m_element, c) /\ UNCHANGED <<m_state, tree>>
     ELSE switch_state_word(Append(m_element, c))
  /\ UNCHANGED <<m_element_length_string, fault>>

consume_word_length(c) ==
  IF isdigit(c)
  THEN /\ m_element_length_string' = Append(m_element_length_string, c)
       /\ UNCHANGED <<m_state, m_element, m_element_length, tree, fault>>
  ELSE switch_state_word_length

consume_byte(c) ==
  /\ CASE m_state = "parsing_integer" -> consume_integer(c)
       [] m_state = "parsing_word" -> consume_word(c)
       [] m_state = "parsing_word_length" -> consume_word_length(c)
       [] OTHER -> consume_state(c)
  /\ push_raw_bencode(c)
  /\ UNCHANGED <<m_store_raw_bencode, m_bracket_root>>

\* b[key]: at() throws without the key; on anything but a dictionary the
\* subscript does nothing.
TypeOf(id) == IF id = 0 THEN "unknown" ELSE targets[id].type
Entries(id, key) == {n \in DOMAIN targets : targets[n].parent = id /\ targets[n].key = key}
HasKey(id, key) == TypeOf(id) = "dictionaries" => Entries(id, key) # {}
At(id, key) == IF TypeOf(id) # "dictionaries" THEN id
               ELSE CHOOSE n \in Entries(id, key) : \A m \in Entries(id, key) : m <= n
=============================================================================

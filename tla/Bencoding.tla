----------------------------- MODULE Bencoding -----------------------------
(***************************************************************************)
(* Bencoding by its definition, to hold the parser against.  A document d  *)
(* is a tree and its text:                                                 *)
(*   nodes    the values in the order of the text, each with its type, its *)
(*            parent (0 for the outermost) and its key in a dictionary     *)
(*   text     the bytes                                                    *)
(*   first    where in the text each value begins; last, where the         *)
(*            containers end                                               *)
(*   tokens   the text cut into keys, numbers, strings and brackets, each  *)
(*            with the container that is open there, the number of the     *)
(*            next value and, in a string, the place of the colon          *)
(* A byte is a one-character string, or "NUL".                             *)
(***************************************************************************)
EXTENDS Integers, SequencesExt

Digits == <<"0", "1", "2", "3", "4", "5", "6", "7", "8", "9">>
isdigit(c) == \E i \in DOMAIN Digits : Digits[i] = c

\* std::stol of digits with an optional sign in front; it throws without digits.
Magnitude(s) == IF s # << >> /\ s[1] = "-" THEN Tail(s) ELSE s
stolThrows(s) == Magnitude(s) = << >>
stol(s) == FoldLeft(LAMBDA n, c : 10 * n + (CHOOSE i \in DOMAIN Digits : Digits[i] = c) - 1,
                    0, Magnitude(s))
           * (IF Magnitude(s) = s THEN 1 ELSE -1)

Containers == {"lists", "dictionaries"}
Types == {"integers", "strings"} \cup Containers
Nodes == [type : Types, string_value : Seq(STRING), integer_value : Int,
          parent : Nat, key : Seq(STRING)]
Tokens == [kind : Types \cup {"key", "end", "eof"}, from : Nat, colon : Nat, open : Nat, next : Nat]

\* Token k is the string s: its length, a colon, its bytes.
StringAt(d, k, s) ==
  LET from == d.tokens[k].from  colon == d.tokens[k].colon  to == d.tokens[k + 1].from - 1
  IN /\ from < colon /\ colon <= to
     /\ \A j \in from..(colon - 1) : isdigit(d.text[j])
     /\ stol(SubSeq(d.text, from, colon - 1)) = Len(s)
     /\ d.text[colon] = ":" /\ s = SubSeq(d.text, colon + 1, to)

\* Token k is the number i between its letters.
IntegerAt(d, k, i) ==
  LET from == d.tokens[k].from  to == d.tokens[k + 1].from - 1
      spelled == SubSeq(d.text, from + 1, to - 1)
  IN /\ from < to /\ d.text[from] = "i" /\ d.text[to] = "e"
     /\ \A j \in (from + 1)..(to - 1) : isdigit(d.text[j]) \/ (j = from + 1 /\ d.text[j] = "-")
     /\ ~stolThrows(spelled) /\ stol(spelled) = i

\* Token k is the single byte c.
ByteAt(d, k, c) ==
  d.tokens[k + 1].from = d.tokens[k].from + 1 /\ d.text[d.tokens[k].from] = c

InDictionary(d, n) == n \in DOMAIN d.nodes /\ d.nodes[n].type = "dictionaries"

KeyToken(d, k) ==
  LET t == d.tokens[k]  u == d.tokens[k + 1]
  IN /\ t.kind = "key" /\ InDictionary(d, t.open) /\ t.next \in DOMAIN d.nodes
     /\ StringAt(d, k, d.nodes[t.next].key)
     /\ u.kind \in Types /\ u.open = t.open /\ u.next = t.next

\* A value in a dictionary follows its key; a container is open behind its
\* first byte.
ValueToken(d, k) ==
  LET t == d.tokens[k]  u == d.tokens[k + 1]  n == t.next  node == d.nodes[n]
  IN /\ t.kind \in Types /\ n \in DOMAIN d.nodes
     /\ node.type = t.kind /\ node.parent = t.open /\ d.first[n] = t.from
     /\ IF InDictionary(d, t.open) THEN k > 1 /\ d.tokens[k - 1].kind = "key"
                                   ELSE node.key = << >>
     /\ CASE t.kind = "strings"  -> StringAt(d, k, node.string_value)
          [] t.kind = "integers" -> IntegerAt(d, k, node.integer_value)
          [] t.kind = "lists"    -> ByteAt(d, k, "l")
          [] OTHER               -> ByteAt(d, k, "d")
     /\ t.kind # "strings" => node.string_value = << >>
     /\ t.kind # "integers" => node.integer_value = 0
     /\ u.open = (IF t.kind \in Containers THEN n ELSE t.open) /\ u.next = n + 1

EndToken(d, k) ==
  LET t == d.tokens[k]  u == d.tokens[k + 1]
  IN /\ t.kind = "end" /\ t.open \in DOMAIN d.nodes
     /\ ByteAt(d, k, "e") /\ d.last[t.open] = t.from
     /\ u.open = d.nodes[t.open].parent /\ u.next = t.next

\* The text of d is the encoding of its tree.
IsDocument(d) ==
  LET end == Len(d.tokens)
  IN /\ d.text \in Seq(STRING) /\ d.nodes \in Seq(Nodes) /\ d.tokens \in Seq(Tokens)
     /\ d.first \in [DOMAIN d.nodes -> Nat] /\ d.last \in [DOMAIN d.nodes -> Nat]
     /\ end > 1 /\ d.tokens[1].from = 1 /\ d.tokens[1].open = 0 /\ d.tokens[1].next = 1
     /\ \A k \in 1..(end - 1) :
          /\ KeyToken(d, k) \/ ValueToken(d, k) \/ EndToken(d, k)
          /\ d.tokens[k + 1].open = 0 <=> k + 1 = end
     /\ \A j, k \in 1..end : j < k => d.tokens[j].from < d.tokens[k].from
     /\ d.tokens[end].kind = "eof" /\ d.tokens[end].from = Len(d.text) + 1
     /\ d.tokens[end].next = Len(d.nodes) + 1
     /\ \A m, n \in DOMAIN d.nodes :
          d.nodes[m].parent = d.nodes[n].parent /\ d.nodes[m].key = d.nodes[n].key
            /\ InDictionary(d, d.nodes[n].parent) => m = n

EntriesOf(d, n, key) == {m \in DOMAIN d.nodes : d.nodes[m].parent = n /\ d.nodes[m].key = key}

NoEmptyString(d) ==
  \A n \in DOMAIN d.nodes : /\ d.nodes[n].type = "strings" => d.nodes[n].string_value # << >>
                            /\ InDictionary(d, d.nodes[n].parent) => d.nodes[n].key # << >>
=============================================================================

----------------------------- MODULE MCSources -----------------------------
(***************************************************************************)
(* An instance of Sources for TLC.  The strings of the documents contain   *)
(* bytes that mean something to the parser; keys are one byte long.        *)
(***************************************************************************)
EXTENDS Sources

MCNames == {"http", "https", "udp", "wss", "ann", "tracker", "info_hash"}
MCLetters == {"a", "b", "c", "d", "e", "f", "x", "0", "1", "2", "3", "5", "9", "A", "F"}
MCNumerals == {"80", "6969"}

\* A plain url, one with its punctuation escaped as in a magnet link, one with
\* a short file name and no port, and one for udp.
Plain   == <<"http", ":", "/", "/", "tracker", ":", "6969", "/", "ann">>
Quoted  == <<"http", "%", "3", "A", "%", "2", "F", "%", "2", "f", "tracker", "%", "3", "a",
             "80", "%", "2", "F", "x", "%", "2", "F", "ann">>
Short   == <<"https", ":", "/", "/", "tracker", "/", "x">>
UdpText == <<"udp", ":", "/", "/", "tracker", ":", "80">>
Tracker(text, protocol, port, path) ==
  [text |-> text, protocol |-> protocol, host |-> <<"tracker">>, port |-> port, path |-> path]
MCTrackers == {
  Tracker(Plain, "http", "6969", <<"/", "ann">>),
  Tracker(Quoted, "http", "80", <<"/", "x", "/", "ann">>),
  Tracker(Short, "https", "443", <<"/", "x">>),
  Tracker(UdpText, "udp", "80", << >>)}

\* A document is written from a nested value: node after node, token after
\* token, the text growing at its end.
RECURSIVE Decimal(_)
Decimal(n) == IF n < 10 THEN <<Digits[n + 1]>>
              ELSE Append(Decimal(n \div 10), Digits[(n % 10) + 1])

Token(d, kind, open, colon, bytes) ==
  [d EXCEPT !.text = @ \o bytes,
            !.tokens = Append(@, [kind |-> kind, from |-> Len(d.text) + 1, colon |-> colon,
                                  open |-> open, next |-> Len(d.nodes) + 1])]
StringToken(d, kind, open, s) ==
  LET length == Decimal(Len(s))
  IN Token(d, kind, open, Len(d.text) + Len(length) + 1, length \o <<":">> \o s)
Node(d, type, s, i, parent, key) ==
  [d EXCEPT !.nodes = Append(@, [type |-> type, string_value |-> s, integer_value |-> i,
                                 parent |-> parent, key |-> key]),
            !.first = Append(@, Last(d.tokens).from), !.last = Append(@, 0)]

RECURSIVE Write(_, _, _, _)
Write(before, v, parent, key) ==
  LET d == IF key = << >> /\ ~(parent # 0 /\ before.nodes[parent].type = "dictionaries") THEN before
           ELSE StringToken(before, "key", parent, key)
      n == Len(d.nodes) + 1
      Open(type, byte) == Node(Token(d, type, parent, 0, <<byte>>), type, << >>, 0, parent, key)
      Close(e) == [Token(e, "end", n, 0, <<"e">>) EXCEPT !.last[n] = Len(e.text) + 1]
  IN CASE DOMAIN v = {"int"} ->
            Node(Token(d, "integers", parent, 0,
                       <<"i">> \o (IF v.int < 0 THEN <<"-">> \o Decimal(-v.int) ELSE Decimal(v.int))
                         \o <<"e">>),
                 "integers", << >>, v.int, parent, key)
       [] DOMAIN v = {"str"} ->
            Node(StringToken(d, "strings", parent, v.str), "strings", v.str, 0, parent, key)
       [] DOMAIN v = {"list"} ->
            Close(FoldLeft(LAMBDA e, x : Write(e, x, n, << >>), Open("lists", "l"), v.list))
       [] OTHER ->
            Close(FoldLeft(LAMBDA e, x : Write(e, x[2], n, x[1]), Open("dictionaries", "d"), v.dict))

Document(v) ==
  Token(Write([text |-> << >>, nodes |-> << >>, tokens |-> << >>, first |-> << >>, last |-> << >>],
              v, 0, << >>),
        "eof", 0, 0, << >>)

Str(s)  == [str |-> s]
Num(n)  == [int |-> n]
Dict(d) == [dict |-> d]
Files   == [list |-> <<Dict(<< <<<<"l">>, Num(0)>>, <<<<"p">>, [list |-> <<Str(<<"e", "1">>)>>]>> >>),
                       Num(-20)>>]
Hashes  == Str(<<"e", "i", "1", "e", "l", "d", ":", "3", "e", "0", "e", "e">>)
InfoDict == Dict(<< <<pieces, Hashes>>, <<<<"f">>, Files>>, <<piece_length, Num(12)>> >>)

MCDocuments == {Document(v) : v \in {
  Dict(<< <<announce, Str(Plain)>>, <<info, InfoDict>> >>),
  Dict(<< <<announce, Str(Quoted)>>, <<info, InfoDict>>, <<<<"z">>, Str(<<"d">>)>> >>),
  Dict(<< <<announce, Str(Short)>>, <<<<"c">>, Str(<< >>)>>, <<info, InfoDict>> >>),
  Dict(<< <<announce, Num(7)>>, <<info, InfoDict>> >>),
  Dict(<< <<announce, Str(UdpText)>>, <<info, Dict(<< <<piece_length, Num(1)>> >>)>> >>),
  Dict(<< <<announce, Str(UdpText)>>, <<info, Str(<<"d", "e">>)>> >>),
  Dict(<< <<announce, Str(Plain)>>, << << >>, Num(3)>>, <<info, InfoDict>> >>),
  [list |-> <<Str(<<"a">>), Files>>]}}

\* Hexadecimal texts by their character codes.
Lower == <<50, 102, 51, 97>>      \* 2f3a
Mixed == <<65, 48, 57, 99>>       \* A09c
Upper == <<48, 65, 48, 49>>       \* 0A01
Half  == <<50, 53>>               \* 25

Urn(hex) == <<[word |-> "urn"], [word |-> "btih"], [hash |-> hex]>>
Xt(urn) == [name |-> "xt", urn |-> urn]
Tr(text) == [name |-> "tr", url |-> text]
Xs == [name |-> "xs"]
Dn == [name |-> "dn"]

\* SHA1: a percent sign and a byte below 16.
MCSha1 == <<37, 5>>

MCUris == {
  <<Xt(Urn(Lower)), Dn, Tr(Plain), Tr(Short), Xs>>,
  <<Xs, Tr(Quoted), Xt(Urn(Mixed))>>,
  <<Tr(Short), Xs, Xt(Urn(Upper))>>,
  <<Xt(Urn(Half)), Tr(UdpText), Xs>>,
  <<Xt(<<[word |-> "urn"], [word |-> "md5"], [hash |-> Lower]>>), Tr(Plain), Xs>>,
  <<Xt(<<[word |-> "urn"], [word |-> "btih"]>>), Tr(Plain), Xs>>,
  <<Xt(Urn(Lower)), Xs>>,
  <<Xs, Tr(UdpText)>>,
  <<Xt(Urn(Lower)), Tr(Plain)>>}
=============================================================================

-------------------------------- MODULE Url --------------------------------
(***************************************************************************)
(* url (uri/url.cpp): decode, the split by URL_REGEX_PATTERN, protocol and *)
(* port, and the escaping of bytes for a query.                            *)
(*                                                                         *)
(* A text is a sequence of tokens: a punctuation character, a word of      *)
(* several letters or digits, or a single one of them.  The regular        *)
(* expression is modelled by what it matches in a text with a host; every  *)
(* percent sign is followed by two hexadecimal digits, so sscanf always    *)
(* sets as_hex.                                                            *)
(***************************************************************************)
EXTENDS Integers, Sequences

CONSTANTS
  Names,      \* words of several letters or digits
  Letters,    \* words of one, hexadecimal digits included
  Numerals    \* the words that are all digits

HexDigits == <<"0", "1", "2", "3", "4", "5", "6", "7", "8", "9",
               "a", "b", "c", "d", "e", "f">>
Word == Names \cup Letters \cup Numerals      \* \w

\* Escapes of ':' and of '/'; sscanf reads both cases.
Colon == {<<"3", "A">>, <<"3", "a">>}
Slash == {<<"2", "F">>, <<"2", "f">>}

\* decode: only those two escapes are replaced.  Mutant: the digits of a
\* replaced escape are not skipped.
decodeKeepsDigits(s) ==
  LET hex(i) == SubSeq(s, i + 1, i + 2)
      from[i \in 1..(Len(s) + 3)] ==
        IF i > Len(s) THEN << >>
        ELSE IF s[i] = "%" /\ hex(i) \in Colon THEN <<":">> \o from[i + 1]
        ELSE IF s[i] = "%" /\ hex(i) \in Slash THEN <<"/">> \o from[i + 1]
        ELSE <<s[i]>> \o from[i + 1]
  IN from[1]
decode(s) ==
  LET hex(i) == SubSeq(s, i + 1, i + 2)
      from[i \in 1..(Len(s) + 3)] ==
        IF i > Len(s) THEN << >>
        ELSE IF s[i] = "%" /\ hex(i) \in Colon THEN <<":">> \o from[i + 3]
        ELSE IF s[i] = "%" /\ hex(i) \in Slash THEN <<"/">> \o from[i + 3]
        ELSE <<s[i]>> \o from[i + 1]
  IN from[1]

\* bytes_as_url_escaped_string: "%02x" for every byte.
Escaped(byte) == <<"%", HexDigits[(byte \div 16) + 1], HexDigits[(byte % 16) + 1]>>

bytes_as_url_escaped_string(bytes) ==
  [i \in 1..(3 * Len(bytes)) |-> Escaped(bytes[((i - 1) \div 3) + 1])[((i - 1) % 3) + 1]]

\* The position behind the run of tokens from i on that are not in stop.
RunEnd(s, i, stop) ==
  CHOOSE j \in i..(Len(s) + 1) :
    /\ \A k \in i..(j - 1) : s[k] \notin stop
    /\ j <= Len(s) => s[j] \in stop

\* Group 6, (\/\w+)*\/ : the position behind the last slash it can reach.
DirectoryEnd(s, i) ==
  LET ends == {j \in i..Len(s) : /\ s[i] = "/" /\ s[j] = "/"
                                 /\ \A k \in i..j : s[k] \in Word \cup {"/"}
                                 /\ \A k \in i..(j - 1) : s[k] # "/" \/ s[k + 1] # "/"}
  IN IF ends = {} THEN i ELSE (CHOOSE j \in ends : \A k \in ends : k <= j) + 1

\* Group 8, [\w\-\.]+[^#?\s]+ : at least two characters.
FileEnd(s, i) ==
  LET j == RunEnd(s, i, {"?", "#", " "})
  IN IF i <= Len(s) /\ s[i] \in Word \cup {"-", "."}
        /\ (j > i + 1 \/ s[i] \in Names) THEN j ELSE i

determine_port(text, protocol) ==
  IF Len(text) = 1 /\ text[1] \in Numerals THEN text[1]
  ELSE CASE protocol = "https" -> "443" [] protocol = "http" -> "80" [] OTHER -> "none"

\* from_string.  A protocol the expression does not know is taken for the
\* host, and the url for one of http.
Parse(url_string) ==
  LET s == decode(url_string)
      scheme == Len(s) > 2 /\ s[1] \in {"http", "https", "ftp", "udp"} /\ s[2] = ":" /\ s[3] = "/"
      afterScheme == IF scheme THEN 4 ELSE 1
      host == IF afterScheme <= Len(s) /\ s[afterScheme] = "/" THEN afterScheme + 1 ELSE afterScheme
      hostEnd == RunEnd(s, host, {":", "/", " "})
      portEnd == IF hostEnd <= Len(s) /\ s[hostEnd] = ":" THEN RunEnd(s, hostEnd, {"/"}) ELSE hostEnd
      fileEnd == FileEnd(s, DirectoryEnd(s, portEnd))
      protocol == IF scheme /\ s[1] # "ftp" THEN s[1] ELSE "http"
  IN [m_protocol |-> protocol,
      m_host |-> SubSeq(s, host, hostEnd - 1),
      m_port |-> determine_port(SubSeq(s, hostEnd + 1, portEnd - 1), protocol),
      m_path |-> SubSeq(s, portEnd, fileEnd - 1),
      m_query |-> SubSeq(s, fileEnd, Len(s))]

-----------------------------------------------------------------------------
\* What a server makes of a request target: every escape is its byte.
Unescaped(s) ==
  LET value(d) == (CHOOSE i \in DOMAIN HexDigits : HexDigits[i] = d) - 1
      from[i \in 1..(Len(s) + 3)] ==
        IF i > Len(s) THEN << >>
        ELSE IF s[i] = "%" THEN <<[byte |-> 16 * value(s[i + 1]) + value(s[i + 2])]>> \o from[i + 3]
        ELSE <<IF s[i] = ":" THEN [byte |-> 58] ELSE IF s[i] = "/" THEN [byte |-> 47]
               ELSE [token |-> s[i]]>> \o from[i + 1]
  IN from[1]
=============================================================================

-------------------------------- MODULE Uris --------------------------------
(***************************************************************************)
(* RFC 2396 URIs, libdank/utils/rfc2396.c: the parts of a text, and the text *)
(* of the parts.  A failed allocation gives up like a text that is refused.  *)
(***************************************************************************)
EXTENDS Lexers

CONSTANTS PortBits,   \* width of a port, 16 in the code
          Addresses   \* the texts that inet_pton() takes for IPv6 addresses

None == <<"none">>   \* no string
Alnum == HexDigits \cup {"g", "u", "x"}

rfc2396_reserved_char == {";", "/", "?", ":", "@", "&", "=", "+", "$", ","}
rfc2396_unreserved_char == Alnum \cup {"-", "_", ".", "!", "~", "*", "'", "(", ")"}
rfc2396_unwise_char == {"{", "}", "|", "^", "[", "]", "backquote", "backslash"}

\* How many characters from i are an escape sequence.
rfc2396_escape_sequence(s, i) ==
  LET hex(a, b) == \A k \in i + a .. i + b : At(s, k) \in HexDigits
  IN IF At(s, i) # "%" THEN 0
     ELSE IF At(s, i + 1) = "u" THEN (IF hex(2, 5) THEN 6 ELSE 0)
     ELSE IF hex(1, 2) THEN 3 ELSE 0

\* The place after the characters of C and the escape sequences from i.
PastEscaped(s, i, C) ==
  LET next[k \in i .. Len(s) + 1] ==
        LET l == IF At(s, k) \in C THEN 1 ELSE rfc2396_escape_sequence(s, k)
        IN IF l = 0 THEN k ELSE next[k + l]
  IN next[i]

rfc2396_pchar == rfc2396_unreserved_char \cup rfc2396_unwise_char
                   \cup {"/", ":", "@", "&", "=", "+", "$", ",", ";"}
rfc2396_qchar == rfc2396_unreserved_char \cup rfc2396_reserved_char \cup rfc2396_unwise_char

Empty == [scheme |-> None, userinfo |-> None, host |-> None, port |-> 0, path |-> None,
          query |-> None, fragment |-> None, opaque |-> None]
No == [ok |-> FALSE, at |-> 1, uri |-> Empty]
Yes(at, uri) == [ok |-> TRUE, at |-> at, uri |-> uri]
Part(s, i, j) == SubSeq(s, i, j - 1)

\* A port after ':' is a number as lex_u16() takes it, blanks before it and all.  It
\* takes no bare ':', which rfc2396.c:159 says must be supported.
Port(s, i, u) ==
  IF At(s, i) # ":" THEN Yes(i, u)
  ELSE LET p == lex_uint(SubSeq(s, i + 1, Len(s)), PortBits, 0)
       IN IF p.ok THEN Yes(i + p.at, [u EXCEPT !.port = p.val]) ELSE No

\* An address in brackets, with its brackets.
Literal(s, i, u) ==
  LET j == Past(s, i + 1, HexDigits \cup {".", ":"})
  IN IF At(s, j) # "]" \/ j = i + 1 \/ Part(s, i + 1, j) \notin Addresses THEN No
     ELSE Port(s, j + 1, [u EXCEPT !.host = Part(s, i, j + 1)])

\* Who, where and which port.  A ':' belongs to what comes before '@', or to the
\* host when no '@' comes.
parse_uri_authority(s, i, u) ==
  LET j == PastEscaped(s, i, rfc2396_unreserved_char \cup {":"})
      v == [u EXCEPT !.userinfo = Part(s, i, j)]
      h == j + 1
      k == PastEscaped(s, h, rfc2396_unreserved_char)
      host(a, b, w) == IF a = b THEN No ELSE Port(s, b, [w EXCEPT !.host = Part(s, a, b)])
  IN IF At(s, i) = "[" THEN Literal(s, i, u)
     ELSE IF At(s, j) # "@" THEN host(i, j, u)
     ELSE IF i = j THEN No
     ELSE IF At(s, h) = "[" THEN Literal(s, h, v) ELSE host(h, k, v)

\* A part after a mark, empty or not.
Marked(s, i, mark, C) == IF At(s, i) = mark THEN PastEscaped(s, i + 1, C) ELSE i

\* The parts that end at p, at q and at f.
WithPath(s, i, p, q, f, u) ==
  Yes(f, [u EXCEPT !.path = IF p = i THEN @ ELSE Part(s, i, p),
                   !.query = IF q = p THEN @ ELSE Part(s, p + 1, q),
                   !.fragment = IF f = q THEN @ ELSE Part(s, q + 1, f)])

parse_uri_path(s, i, u) ==
  LET p == PastEscaped(s, i, rfc2396_pchar)
      q == Marked(s, p, "?", rfc2396_qchar)
  IN WithPath(s, i, p, q, Marked(s, q, "#", rfc2396_pchar), u)

parse_uri_opaque(s, i, u) ==
  LET j == CHOOSE j \in i .. Len(s) + 1 :
             At(s, j) \in Space \cup {""} /\ \A k \in i .. j - 1 : s[k] \notin Space
  IN Yes(j, [u EXCEPT !.opaque = Part(s, i, j)])

AfterAuthority(s, a) == IF a.ok THEN parse_uri_path(s, a.at, a.uri) ELSE No

AfterScheme(s, j, u) ==
  IF At(s, j) # "/" THEN parse_uri_opaque(s, j, u)
  ELSE IF At(s, j + 1) # "/" THEN parse_uri_path(s, j, u)
  ELSE AfterAuthority(s, parse_uri_authority(s, j + 2, u))

\* A scheme that is asked for need only begin the one that is there.
extract_uri_internal(scheme, s) ==
  LET i == Past(s, 1, Space)
      c == Past(s, i, Alnum \cup {"-"})
      named == c # i /\ At(s, c) = ":"
  IN IF named /\ scheme # None /\ ~IsPrefix(scheme, Part(s, i, c)) THEN No
     ELSE IF named THEN AfterScheme(s, c + 1, [Empty EXCEPT !.scheme = Part(s, i, c)])
     ELSE AfterScheme(s, i, Empty)

uri_has_authority_section(u) == u.host # None \/ u.userinfo # None \/ u.port # 0

\* Decimal digits, no zero in front.
Decimals(n) ==
  LET d[k \in 0 .. n] == IF k < 10 THEN <<Decimal[k + 1]>> ELSE Append(d[k \div 10], Decimal[(k % 10) + 1])
  IN d[n]

\* RFC 2396, 5.2.7.
stringize_uri(u) ==
  LET opt(before, x, after) == IF x = None THEN <<>> ELSE before \o x \o after
  IN opt(<<>>, u.scheme, <<":">>) \o
     IF u.opaque # None THEN u.opaque
     ELSE (IF uri_has_authority_section(u)
           THEN <<"/", "/">> \o opt(<<>>, u.userinfo, <<"@">>) \o opt(<<>>, u.host, <<>>)
                  \o (IF u.port = 0 THEN <<>> ELSE <<":">> \o Decimals(u.port))
           ELSE <<>>)
          \o opt(<<>>, u.path, <<>>) \o opt(<<"?">>, u.query, <<>>) \o opt(<<"#">>, u.fragment, <<>>)

-------------------------------------------------------------------------------
(* Properties. *)

\* What was taken is taken again from the text t of its parts.
TakenAgain(v, t, u) == v.ok /\ v.uri = u.uri /\ v.at = Len(t) + 1
Survives(u) == u.ok => LET t == stringize_uri(u.uri) IN TakenAgain(extract_uri_internal(None, t), t, u)

\* The text of the parts of a URI that was taken is taken again, to its end, and
\* gives the same parts.  Which URIs are taken is not promised: a bare ':' after the
\* host is refused, against the comment at rfc2396.c:159.
UrisSurvive == For("uris") => Survives(extract_uri_internal(None, text))
===============================================================================

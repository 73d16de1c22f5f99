----------------------------- MODULE Handshake -----------------------------
(***************************************************************************)
(* What the two ends of a websocket read from each other before they are   *)
(* ready: the client's request, its headers and the cookies.  A header     *)
(* line is a record: its name, its value and the length of the line, CRLF  *)
(* included; the blank line ends the request.  Cookies are sequences of    *)
(* characters, the name that is looked for (nbdl_auth, or NBDL_SESS) being *)
(* one of them, "n".                                                       *)
(***************************************************************************)
EXTENDS Integers, Sequences, FiniteSetsExt

BufferSize == 256   \* of read_headers: asio::dynamic_buffer(buffer, 256)

---------------------------------------------------------------------------
(* Characters of a cookie header.  An iterator, or what is left of a view, is a
   position; the end is the one behind the last character. *)

space == " "
semicolon == ";"
equals == "="

\* The first place from i on at which c is, or the end.
find(text, i, c) ==
    CHOOSE j \in i..Len(text) + 1 :
        /\ j <= Len(text) => text[j] = c
        /\ \A k \in i..j - 1 : text[k] # c

HasName(text, i) == i < Len(text) /\ text[i] = "n" /\ text[i + 1] = equals

take_cookie_value(text, i) == SubSeq(text, i, find(text, i, semicolon) - 1)

check_auth_cookie(text, i) == IF HasName(text, i) THEN i + 2 ELSE find(text, i, semicolon)

\* At the end of a string the code reads its terminator, which is no semicolon.
get_auth_token(cookies) ==
    LET end == Len(cookies) + 1
        token[i \in 1..end] ==
            LET current == check_auth_cookie(cookies, i)
            IN  IF i = end THEN <<>>
                ELSE IF current = end \/ cookies[current] # semicolon THEN take_cookie_value(cookies, current)
                ELSE IF end - current > 2 THEN token[current + 2]   \* past semicolon and space
                ELSE <<>>
    IN  token[1]

remove_leading_whitespace(text, i) ==
    CHOOSE j \in i..Len(text) + 1 :
        /\ j <= Len(text) => text[j] # space
        /\ \A k \in i..j - 1 : text[k] = space

skip_past(text, i, c) ==
    IF find(text, i, c) <= Len(text) THEN find(text, i, c) + 1 ELSE Len(text) + 1

get_session_cookie(cookies) ==
    LET end == Len(cookies) + 1
        cookie[i \in 1..end] ==
            LET x == remove_leading_whitespace(cookies, i)
            IN  IF i = end THEN <<>>
                ELSE IF HasName(cookies, x) THEN take_cookie_value(cookies, skip_past(cookies, x, equals))
                ELSE cookie[skip_past(cookies, skip_past(cookies, x, equals), semicolon)]
    IN  cookie[1]

---------------------------------------------------------------------------
(* The request. *)

Line(name, value) == [name |-> name, value |-> value, size |-> 0]
Blank == Line("", <<>>)

\* Lines of the request whose length matters to nobody have size 0.
send_handshake_request(origin, auth_token) ==
    << Line("Host", <<>>), Line("Origin", origin), Line("Upgrade", <<>>),
       Line("Connection", <<>>), Line("Sec-WebSocket-Key", <<"sample_key">>),
       Line("Sec-WebSocket-Version", <<>>),
       Line("Cookies", <<"n", equals>> \o auth_token \o <<semicolon>>), Blank >>

tolower(name) ==
    CASE name = "Sec-WebSocket-Key" -> "sec-websocket-key"
      [] name = "Cookies" -> "cookies"
      [] OTHER -> name

\* What is behind the colon, the spaces left out.
value_of(header) ==
    SubSeq(header.value, remove_leading_whitespace(header.value, 1), Len(header.value))

\* (bug: the names are compared as they were sent)
parse_header_Case(info, header) ==
    CASE header.name = "sec-websocket-key" ->
            [info EXCEPT !.websocket_key = value_of(header)]
      [] header.name = "cookies" ->
            [info EXCEPT !.cookies = value_of(header)]
      [] OTHER -> info

parse_header(info, header) ==
    CASE tolower(header.name) = "sec-websocket-key" ->
            [info EXCEPT !.websocket_key = value_of(header)]
      [] tolower(header.name) = "cookies" ->
            [info EXCEPT !.cookies = value_of(header)]
      [] OTHER -> info

\* One turn per line until the blank one; "rejected" when the buffer is full and
\* no line ends in it, or the client goes before the blank line.
IsEnd(lines, k) == lines[k] = Blank /\ \A j \in 1..k - 1 : lines[j] # Blank
read_headers(lines) ==
    LET Read[k \in 0..Len(lines)] ==
            IF k = 0 THEN [websocket_key |-> <<>>, cookies |-> <<>>]
            ELSE parse_header(Read[k - 1], lines[k])
        Ends == {k \in DOMAIN lines : IsEnd(lines, k)}
    IN  IF \E k \in Ends : \A j \in 1..k : lines[j].size <= BufferSize
        THEN [result |-> "resolved", info |-> Read[(CHOOSE k \in Ends : TRUE) - 1]]
        ELSE [result |-> "rejected"]

\* The ready handler of the server is given the token of the cookies, once the
\* answer to the key is written.
Serve(lines) ==
    LET read == read_headers(lines)
    IN  IF read.result = "rejected" THEN read
        ELSE [result |-> "ready", key |-> read.info.websocket_key,
              auth_token |-> get_auth_token(read.info.cookies)]

---------------------------------------------------------------------------
(* The cookies as RFC 6265 writes them: pairs with "; " between them. *)

Semicolons(text) == {i \in DOMAIN text : text[i] = semicolon}

\* Where a pair begins, and the place behind its end; a last semicolon begins none.
Begins(text) ==
    {p \in {1} : text # <<>>} \cup {i + 2 : i \in {j \in Semicolons(text) : j < Len(text)}}
End(text, p) == Min({i \in Semicolons(text) : i >= p} \cup {Len(text) + 1})

AreCookies(text) ==
    /\ \A i \in Semicolons(text) : i < Len(text) => text[i + 1] = space
    /\ \A p \in Begins(text) :
         /\ p < End(text, p) /\ text[p] \notin {space, equals}
         /\ \E i \in p..End(text, p) - 1 : text[i] = equals

\* The pairs with the name that is looked for.
Ours(text) == {p \in Begins(text) : HasName(text, p)}
ValueAt(text, p) == SubSeq(text, p + 2, End(text, p) - 1)
FirstValue(text, begins) == IF begins = {} THEN <<>> ELSE ValueAt(text, Min(begins))

\* What is behind the spaces.
Trimmed(text) ==
    SubSeq(text, Min({i \in DOMAIN text : text[i] # space} \cup {Len(text) + 1}), Len(text))

\* The value of the last line with one of the names, above the blank one.
LastOf(lines, names) ==
    LET above == {i \in DOMAIN lines : \A j \in 1..i : lines[j] # Blank}
        ours == {i \in above : lines[i].name \in names}
    IN  IF ours = {} THEN <<>> ELSE Trimmed(lines[Max(ours)].value)
============================================================================

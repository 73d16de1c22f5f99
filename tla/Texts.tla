------------------------------- MODULE Texts -------------------------------
(***************************************************************************)
(* What the library reads, given one token after the other: an address for *)
(* the routes' parser, the moves of a game, bytes and the text that stands *)
(* for them, cookies, the headers of a handshake; and the requests to a    *)
(* store, one at a time.                                                   *)
(***************************************************************************)
EXTENDS RouteMap

CONSTANTS
    Alphabet,   \* per kind of input: the tokens it is made of
    MaxLength   \* per kind of input: how many

Tiles == INSTANCE Tiles
Base64 == INSTANCE Base64
Messages == INSTANCE Messages
Handshake == INSTANCE Handshake

\* A request is for one of a store's keys, and may bring a uid of its own.
IsRequest(r) ==
    /\ r.action \in {"create", "read", "update", "delete"}
    /\ r.parent \in Seq(ToSet(r.parent))
    /\ Messages!IsKeyFor(r.key_type, r.key)

\* A header's value is what is behind the colon.
IsHeader(line) ==
    /\ line.size \in Nat
    /\ line.value \in Seq(ToSet(line.value))

\* A byte and a move are unsigned chars, the elements of a string are signed ones; a
\* character of a text is what it is looked up as.
ASSUME TextsAssumption ==
    /\ Alphabet["routes"] \subseteq Char
    /\ Alphabet["moves"] \subseteq 0..255
    /\ Alphabet["bytes"] \subseteq 0..255
    /\ Alphabet["chars"] \subseteq -128..127
    /\ Alphabet["base64"] \subseteq 0..Base64!PADDING
    /\ \A r \in Alphabet["requests"] : IsRequest(r)
    /\ \A line \in Alphabet["headers"] : IsHeader(line)

VARIABLES kind, text
texts == <<kind, text>>

TextInit == kind \in DOMAIN Alphabet /\ text = <<>>
Type == /\ Len(text) < MaxLength[kind]
        /\ \E token \in Alphabet[kind] : text' = Append(text, token)
        /\ UNCHANGED kind
TextSpec == TextInit /\ [][Type]_texts

---------------------------------------------------------------------------
(* Bytes come back from their text, which is the one their bits spell.  So do the
   chars of a string, as bytes, if none is negative; a negative one costs exactly
   those before it among the same three, which come back as 255.  A text is decoded
   if and only if it is well-formed, into its symbols' bits; the overload that fills
   a buffer differs only where there is nothing to fill (base64_encode,
   base64_decode). *)
TextsStandForBytes ==
    /\ kind \in {"bytes", "chars"} =>
         LET encoded == Base64!base64_encode(text)
             spelt == IF kind = "bytes" THEN text ELSE Base64!Spelt(text)
         IN  /\ Base64!Encodes(encoded, spelt)
             /\ Base64!base64_decode(encoded) = spelt
             /\ Base64!base64_decode_into(encoded, Len(text)) = [ok |-> TRUE, output |-> spelt]
    /\ kind = "base64" =>
         LET into == Base64!base64_decode_into(text, Base64!Dynamic)
             Stands(bytes) == IF Base64!WellFormed(text) THEN Base64!Decodes(text, bytes) ELSE bytes = <<>>
         IN  /\ Stands(Base64!base64_decode(text))
             /\ into.ok => Stands(into.output)
             /\ Base64!target_decoded_length(text) > 0 => (into.ok <=> Base64!WellFormed(text))

(* An address is taken for a route if and only if it spells it: its name, as many
   words as it has members, numbers that are not zero and words that are not
   empty, with at most one slash behind; and what is then put into the address
   bar leads back to that route (route_map::from_string, to_string). *)
AddressesAreRoutes ==
    kind = "routes" =>
        LET route == from_string(text)
        IN  IF route = NotFound
            THEN \A r \in Routes : ~IsSpelling(text, r) /\ text # to_string(r)
            ELSE /\ IsSpelling(text, route)
                 /\ from_string(to_string(route)) = route

(* A game that everybody plays by sending moves stays a puzzle: each move slides
   the tile beside the hole and tells the consumers, or changes nothing and tells
   nobody, as long as none takes the tile in the corner off the board
   (get_tile_swap_index, apply_foreign_message). *)
Board(n) == Tiles!Play(SubSeq(text, 1, n))
MovesAreSlides ==
    kind = "moves" =>
        \/ \E n \in DOMAIN text : Tiles!AtTheCorner(Board(n - 1).board, text[n])
        \/ text # <<>> =>
             LET before == Board(Len(text) - 1)
                 after == Board(Len(text))
             IN  /\ after.board = Tiles!Slid(before.board, Last(text))
                 /\ after.told = before.told + (IF after.board = before.board THEN 0 ELSE 1)

(* Each answer to a request is for the same thing: the same action, uid and payload,
   under the path of the store that the request was pushed to, with the key that was
   given or that the uid is.  What is private to the request makes no difference to
   any (message.hpp). *)
PathOf(r) == Messages!PathOf(Append(r.parent, Messages!AsKey(r.key_type, r.key)))
Requested(r, private) ==
    LET path == IF r.action = "create" /\ ~Messages!IsEmpty(r.key_type)
                THEN Messages!make_create_path(r.key_type, Messages!PathOf(r.parent))
                ELSE PathOf(r)
    IN  CASE r.action = "create" -> Messages!make_upstream_create(path, r.uid, r.payload, private)
          [] r.action = "read" -> Messages!make_upstream_read(path, r.uid)
          [] r.action = "update" -> Messages!make_upstream_update(path, r.uid, r.payload)
          [] r.action = "delete" -> Messages!make_upstream_delete(path, r.uid)
Keyed(r, m) ==
    IF r.action = "create" /\ Messages!IsCreatePath(Messages!get_path(m))
    THEN {Messages!to_downstream_with_key(m, r.key),
          Messages!to_downstream_with_key_confirmed(m, r.key)}
    ELSE {}
Unkeyed(r, m) ==
    IF r.action = "read" THEN {Messages!to_downstream_read(m, r.payload)}
    ELSE IF Messages!requires_key_for_downstream(m) THEN {}
    ELSE {Messages!to_downstream(m, c) : c \in {Messages!no_is_confirmed, Messages!Confirmed(FALSE)}}
Answers(r, m) == Keyed(r, m) \cup Unkeyed(r, m)
AnswersMatchRequests ==
    kind = "requests" /\ text # <<>> =>
        LET r == text[1]
            m == Requested(r, r.private)
        IN  /\ \A a \in Answers(r, m) :
                 /\ ~Messages!is_upstream(a) /\ a.action = m.action
                 /\ Messages!get_uid(a) = r.uid
                 /\ a.action # "delete" => Messages!get_payload(a) = r.payload
                 /\ Messages!is_path_normalizable(a)
                 /\ Messages!get_path_type(a) = Messages!get_path_type(m)
                 /\ Messages!get_normalized_path(a) =
                      IF a \in Keyed(r, m) THEN PathOf(r) ELSE Messages!get_normalized_path(m)
            /\ Answers(r, m) = Answers(r, Requested(r, Messages!no_impl))

\* Whoever has no semicolon in the token it was given gets it to the server's ready
\* handler, and a cookie is found wherever it is among well-formed ones.
TokenArrives ==
    /\ (\A i \in DOMAIN text : text[i] # Handshake!semicolon) =>
         Handshake!Serve(Handshake!send_handshake_request(<<>>, text))
             = [result |-> "ready", key |-> <<"sample_key">>, auth_token |-> text]
    /\ Handshake!AreCookies(text) =>
         LET ours == Handshake!Ours(text)
         IN  /\ Handshake!get_session_cookie(text) = Handshake!FirstValue(text, ours)
             /\ Handshake!get_auth_token(text)
                  = Handshake!FirstValue(text, {p \in ours : Handshake!ValueAt(text, p) # <<>>})

HeadersAreRead ==
    LET blanks == {i \in DOMAIN text : text[i] = Handshake!Blank}
        fits == \A i \in DOMAIN text :
                    text[i].size > 256 => \E j \in blanks : j < i
        read == Handshake!read_headers(text)
    IN  IF blanks = {} \/ ~fits THEN read.result = "rejected"
        ELSE read.info = [websocket_key |-> Handshake!LastOf(text,
                              {"Sec-WebSocket-Key", "sec-websocket-key"}),
                          cookies |-> Handshake!LastOf(text, {"Cookies", "cookies"})]

(* What a client was given as its token is what the server's ready handler gets, and
   a cookie is found wherever it is among well-formed ones: the first that has a
   value by get_auth_token, the first by get_session_cookie.  A request is read up
   to its blank line whatever the order and the case of its headers, the last of
   two wins, and it is refused if a line does not fit the buffer or no blank line
   comes (read_headers, parse_header). *)
HandshakeIsRead ==
    /\ kind = "cookies" => TokenArrives
    /\ kind = "headers" => HeadersAreRead
=============================================================================

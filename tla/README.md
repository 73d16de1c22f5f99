# Verification of nbdl

nbdl is a header-only C++ library for applications whose state lives in several places: a
*context* owns *stores*, *producers* and *consumers*, messages flow through it upstream and
downstream, and endpoints carry them between processes over websockets; a web renderer shows
what is in the stores. This directory holds TLA+ models of the parts of it that have behaviour
at run time, the TLC runs that check them and the proofs TLAPS checks. Paths below are relative
to `src/include/nbdl/` unless they begin with `src/`.

## 1. Inventory

### Message dispatch: `context.hpp`, `context_store.hpp`, `null_store.hpp`, `store_compose.hpp`
* State: the stores, keyed by path type; the lists of producers, consumers and listeners.
* Operations: `push_message` (apply to the store, notify the state consumers, propagate upstream
  to the path's producer or downstream to every consumer, hand it to the listening stores),
  `match` on a path, construction and initialisation of the actors.
* Interaction: everything is a synchronous call on one thread, so calls nest. A producer's
  `send_upstream` may push a downstream message before the outer call has returned; a consumer
  may push again while it is notified.
* Hard: the order in which nested pushes reach the stores, the consumers and the listeners; a
  read request that must be sent once, and whose answer may come before the call that asked returns.
* Correct when: state consumers show what the stores hold, consumers and listening stores can
  follow the store, and what is missing is asked for.

### Messages and definitions: `message.hpp`, `def/`, `mpdef`
* No state. A definition is a tree of access points and actors from which the context's tables
  (message types, stores, producers, listeners) are made, each found by its place in a list.
* Correct when: an answer is about what was requested, and an index is the place in the text.

### Stores: `map_store.hpp`, `ext/std/unordered_map.hpp`
* State: a map from path to value, `unresolved` or `not_found`.
* Operations: `apply_message` for the four message kinds in both directions, `match`.
* Hard: an answer to a read that is overtaken by a create, update or delete.
* Correct when: a late read never replaces what a newer message wrote.

### Producers: `echo_producer.hpp`
* State: one key counter per path type. Operation: `send_upstream`, which turns an upstream
  message into the downstream one and pushes it while the upstream push is still under way.
* Correct when: the key of a create is new, whoever updated and deleted what before.

### Optimistic versions: `local_version.hpp`, `delta.hpp`
* State: the value shown, the pending delta, the uids of messages sent and not confirmed.
* Operations: apply an unconfirmed message, a confirmed one of our own, one of somebody else.
* Hard: confirmations interleave with new local changes and with changes made elsewhere.
* Correct when: local changes show at once and are not undone by confirmations, and everybody
  ends with the value the root producer's order gives.

### Websocket endpoint: `websocket/detail/endpoint_impl.hpp`
* State: the send queue, the pending control frame, four flags, the read loop and the send loop.
* Operations: `send_message`, `send_close`, `start_messaging`, `stop`; completion handlers of
  `async_read` and `async_write`.
* Hard: user calls, write completions and read completions interleave; both ends may close at
  once; a write fails half way; the connection is reset.
* Correct when: messages arrive once and in order, no wake-up is lost, nothing follows a close
  frame, and both ends learn of a close.

### Framing: `websocket/detail/message_sender.hpp`, `message_reader.hpp`
* State: the fragment being sent, the payload being collected, the control frame to answer.
* Hard: sizes at the fragment boundary, three codes of a length, control frames between
  fragments, masks.
* Correct when: the payload the reader hands on is the payload that was sent.

### Handshake: `websocket/server_endpoint.hpp`, `client_endpoint.hpp`, `detail/*`, `detail/beast_sha1.hpp`
* Reads and writes of an HTTP upgrade, then the ready handler. Parsing of headers and cookies,
  the accept token with its SHA-1 and base64.

### Promises: `promise.hpp`, `run_async*.hpp`, `run_sync.hpp`, `catch.hpp`, `try.hpp`, `detail/promise_join.hpp`
* State: a heap-allocated chain that deletes itself when it ends.
* Hard: every path through a chain must resolve, reject or terminate exactly once; a loop's end
  calls its beginning.

### Application layer: `app/server.hpp`, `app/client.hpp`, `server_connection.hpp`, `ext/beast_ws.hpp`
* State: the server's list of connections, the accept loop, the client's connection and queue.
* Interaction: connections push into the context what they read; the server is a consumer that
  broadcasts.
* Hard: connections that drop while a broadcast runs or in their handshake.

### In the browser: `app/server_js.hpp`, `app/client_connection_js.hpp`, `websocket_api/`, `js.hpp`
* State: listeners of a socket that are exchanged for each message; a table of JavaScript values
  keyed by the addresses of C++ objects.
* Hard: messages that arrive while the listeners are exchanged; errors followed by a close;
  values that are moved by a vector.

### Binders and serializer: `binder/jsoncpp.hpp`, `binder/js.hpp`, `app/serializer.hpp`, `variant.hpp`
* No state; two writers and two readers of the same documents, with different widths and strings.

### Web UI: `webui/nav_route.hpp`, `webui/route_map.hpp`, `webui/renderer.hpp`, `webui/detail/dom_manips.hpp`, `ui_spec.hpp`, `ui_helper/*`
* State: the document, the indices of the branches shown, the listeners; the browser's history.
* Hard: incremental updates of nested branches and lists; the browser's history events against
  the application's own.

### The rest
* `sql_db/`: statements against a relational database. `util/base64_*`, the cookie parser: text.
* `src/example/tiles/game.hpp`: a sliding puzzle as a store.

## 2. Plan

What comes first is what every application of the library rests on: the websocket endpoint, then
what is sent over it and what becomes of it in the stores, then what is built on these.

| Order | Module | Models | Composes | State |
|---|---|---|---|---|
| 1 | `MessagePipe` | what two connected endpoints promise their users | | done |
| 1 | `WsEndpoint` | `websocket/detail/endpoint_impl.hpp`, two ends | implements `MessagePipe` | done, proved |
| 2 | `WsReader`, `WsFraming`, `WsForeign`, `WsStream` | `message_sender.hpp`, `message_reader.hpp` | `WsStream` puts either writer before the reader | done, proved |
| 3 | `MapStore` | `map_store.hpp` as operators | | done |
| 3 | `ServerClient` | `echo_producer.hpp`, `app/server.hpp`, `app/client.hpp`, the accept loop | `MapStore` | done, safety proved |
| 4 | `LocalVersion` | `local_version.hpp`, `delta.hpp` | | done, proved |
| 5 | `Context` | listeners, nested pushes, several producers | | done, proved |
| 6 | `Promises` | chains, their ends, loops | | done, safety proved |
| 7 | `JsValues`, `BrowserLink` | events and listeners of both browser clients, the JavaScript server | `JsValues` | done, proved |
| 8 | `RouteMap`, `NavRoute`, `Renderer`, `WebApp` | routes, history, the document | `WebApp` has all three | done, routes and history proved |
| 9 | `Base64`, `Tiles`, `Messages`, `Handshake` | functions with reference definitions | `Texts`, with `RouteMap` | done, proved |
| 10 | `AcceptToken`, `Sha1`, `Binders`, `Definitions`, `UiSpec`, `Sql` | functions with reference definitions | `Algorithms`, on `Texts` | done |

Left to do: the views of UIKit (`ui_view`), `unsafe_set_inner_html`, `store_compose`; proofs
about what is recursive over trees or bits (section 7, "Only model-checked").

## 3. The models

### `WsEndpoint`
Each variable is a function of the two peers and has the name of the member it stands for:
`pending_control_frame`, `send_queue`, `is_send_queue_running`, `is_started`, `is_stopped`,
`is_close_received`. `writer` and `reader` say where the two loops are, which the code keeps in
the promise chain and in the operations it has handed to asio; `wire[p]` is what `p` has written
and its peer has not read. `sent`, `received`, `closes` and `errors` are histories of calls.

An executor runs one handler at a time, so a handler is one action; what lies between an
asynchronous operation and its completion is not.

| Code | Action |
|---|---|
| `send_message`, `send_close`, `start_messaging`, `stop` | the same names |
| `start_send_queue` and one turn of its loop | `start_send_queue`, `EnterLoop`, `LoopTurn`, part of the action that calls it |
| `async_write` completes at the peer, its handler runs | `Transmit`, then `MessageSent` or `CloseSent` |
| the `catch_` of the loop | `LoopCatch` in `MessageWriteFails`, `CloseWriteFails` |
| the handlers of `make_reader_handler` | `ReadMessage`, `ReadClose`, `ReadFails` |
| `server_endpoint_init`, the init function of the client | `HandshakeReady`, `HandshakeFail` |

Two choices of the build are left open. The loop's first `catch_` takes a
`boost::system::error_code` and what is rejected is a `std::error_code`: whether a reset after
`send_close` counts as the expected close depends on the conversion, so `LoopCatch` is given
either error. The failure of the close frame's write rejects into a chain that
`resolver.terminate()` has deleted: `CloseWriteFails` lets it find the handler or not.

A message is its number. Its fragments have no handlers of their own, which is why a message
is one frame here; `WsStream` has the fragments.

### `MessagePipe`
The promise: what a user sends, the other is given in order, once, and nothing after `on_close`.
`WsEndpoint` maps `closed` to the peers with `closes[p] > 0`. The queue, the two loops, the wire and
the faults have no counterpart: all their steps stutter except a `send_message`, the read of a message
at an endpoint that is not stopped, and a call of `on_close`.

### `WsReader`, `WsFraming`, `WsForeign`, `WsStream`
`WsReader` has the state of `message_reader` and an action per opcode (`keep_reading`). A byte is
an origin (message, position) with the set of mask bytes it is XORed with, so that masking twice is
seen and no value has to be chosen. Lengths are written by `encoded_length` and read back by
`get_payload_length` in bytes of `ByteValues` values, with all three codes. `WsFraming` is the
sender of this library, which does not mask; `WsForeign` a peer that fragments at will, masks, and
sends control frames in between. `WsStream` puts one of them (`writer`, chosen at the start) before
the reader and adds the user's `send_close`, whose pending frame a ping must not replace.

### `MapStore`, `ServerClient`
A store is a function from paths to entities, `absent` or `unresolved`. `ApplyDownstream`,
`ApplyUpstreamRead` and `DidStateChange` are `apply_message`. In `ServerClient` a push is one
action with every push nested in it: `PushChange` and `PushRead` at a client, `ServerReads` at the
server (the echo and the broadcast included), `ClientReads` for the message that comes back.
`Accept`, `ParseRequest`, `Open` and `HandshakeFails` are the accept loop, which takes one
connection after the other; `Break` and `Unregister` end a connection, be it in its handshake.
Clients update and delete only entities they have in their store: this is an assumption on the
application. `AskingClients` have a store without placeholders, as the test of
`context_match.cpp` has; with a `map_store` no read is ever sent, since `match` finds the
placeholder that the read itself has left (`map_store.hpp:38`). `Settled` applies what is on its way to a
client, one message after the other.

### `LocalVersion`
`value`, `pending_delta` and `local_uids` are the members of `local_version`; `Request` is the
unconfirmed message, `Confirm` the confirmed one. A delta is a function on some of the fields.
The root producer is not in the repository: it takes changes in any order and sends them to all
replicas in that order, the uid with them, as the test does. `shown` and `overtaken` are histories
of what the user saw and of the fields that foreign changes set while own ones waited.

### `Context`
All calls of a push are a stack, `todo`, with the innermost call first: `push_message` puts the
calls of its body on it in their order (`apply` or `trigger`, `propagate`, `listen`), and an action
takes the first of them. So what an actor pushes while it is called runs before the rest of the
outer push, as it does in the code. Points are of the kinds of stores there are:
`Kept` (`context_store`), `Asking` (no value of its own, `match` says `trigger_read`), `Placing`
(those of `Asking` that leave a placeholder for an upstream read, as `map_store`) and
`Listening` (`apply_foreign_message` only). `placeholders` is the set of points that have one.

`Trigger` is the `match` in `push_message`, after `apply_message` has seen the upstream read: a value
goes downstream, what is `Unset` goes to the producer, and where the store leaves a placeholder
`match` says `unresolved`, whether the read in progress is another or this one, and nothing is sent.
`match` is the `match` of the context, which asks itself where a point is `Missing` and says
`unresolved` afterwards. `Upstream` is a producer that is called: it answers at once or leaves the
message `waiting`. An update may be answered either way at any time; a read within the call only at
the points in `prompt`. No producer of the repository answers a read within the call, but nothing
forbids it, and what becomes of the asker then is another thing than where none does. `busy` is the
set of consumers that push in reaction. Both `busy` and `prompt` are chosen at the start, in all
ways; payloads are numbered in the order in which they are made. Two assumptions on
the constants are the code's: each actor has one place in the order and each point one producer
(`ActorAssumption`), and a listening store derives its value from one point, as `nav_route_store`
does (`SourceAssumption`).

### `Promises`
A pipe is a sequence of steps, of the kinds `fn`, `try`, `async` and `catch` with the errors
they throw or take; `Compiles` is the compile-time check of unhandled rejections. `signal` is the
call under way (`resolve`, `reject`, `terminate`), `at` the step it is made to, `depth` the frames on
the stack, which an asynchronous step gives back. `ending` is `run_async`, `run_async_loop` or
`run_sync`. Two pipes nested at any place are joined by `promise_join`.

### `JsValues`, `BrowserLink`
`JsValues` is the table behind `js::val` and what `std::vector` does to it: `push_back` with a
reallocation, `erase_if` with its moves. `BrowserLink` has the events of each client's socket in
order; an action is one task of the browser or the server with all the callbacks it leads to.
The listeners that a promise adds together are a group, under the number of its callbacks, and live
until the callbacks are emptied or removed. `Dispatch` calls those that were there when the event
was fired and have not been removed, as the DOM does. Loops (`relocated`, `loop`, `called`) are
functions on the numbers of their turns. Client connections listen anew for every message, endpoints of `websocket_api`
once. `SendThrows` chooses between two versions of node's `ws`.

### `RouteMap`, `NavRoute`, `Renderer`, `WebApp`
`RouteMap` has `to_string` and `from_string`, and what a spelling of a route is, said without the
parser. The parser's calls are one pass that begins a segment at every slash; its loop of at most
`MaxParams` turns (10 in the code, `route_map.hpp:132`) is the number of segments it takes. With that
many words a slash behind is refused, with fewer it is allowed (`IsAllRead`). An integral member has
`Modulus` values and overflows as it is read. `RoutesFit` says which routes an application may set:
those whose members have a spelling at all, no zero and no empty string, no slash in a word, and a
nameless one only without parameters. `NavRoute` keeps the browser's `entries` and `position` and the two access points;
`SetRoute`, `SetString`, `SetNotFound` are upstream messages, `PopState` is the user's. `Renderer`
renders a flattened spec into a document of nodes and updates it in place, like the
`mut_action_fn` overloads, with `heap` and `registry` for the receivers of events. `WebApp` puts a
renderer, a list and what was clicked on a context with a `nav_route`. `NavSpec` is the producer
alone: routes, strings and steps through the history in any order; it is what the proofs are about.
`PushStateFires` is TRUE, as the test's `onpopstate` has it.

### `Texts`, `Algorithms`
A behaviour types one input, token by token, and what the input is for is chosen at the start. The
modules `Base64`, `Sha1`, `AcceptToken`, `Handshake`, `Tiles`, `Binders`, `RouteMap`, `Messages`,
`Definitions`, `UiSpec` and `Sql` each have the functions of the code and, apart from them, what they should
compute: bits, well-formedness, spelling, a puzzle, the meaning of a path. `Texts` has the inputs of
those of them that are proved about: bytes and symbols for `Base64`, addresses for `RouteMap`, moves
for `Tiles`, requests for `Messages`, cookies and header lines for `Handshake`. `Algorithms` adds
the others.

* `Base64`: what the encoder and the decoder put at a place is given by the place, in the round it is
  written in. The reference speaks of bits: bit `j` of the text is bit `j` of the bytes. The encoder
  takes any container of one-byte elements, and `Gather` shifts them as the code does, after their
  promotion to `int`: elements of kind `bytes` are unsigned, those of kind `chars` signed, as a
  `std::string`'s are. `Spelt` says which bytes the elements are encoded as.
* `Tiles`: a game is the fold of its moves over the board; the reference is a grid with distances.
* `Messages`: a message is its members with their types. A request is one of the four actions with a
  path, a key, a uid, a payload and what is private to it; `Answers` are all that the functions of
  `message.hpp` can make of it.
* `Handshake`: an iterator into the cookies, or what is left of a view, is a position, and both
  parsers are recursive functions over positions. The reference divides the cookies into pairs, as
  RFC 6265 writes them, and takes the first pair with the name. A header line is its name, its value
  and its length; `read_headers` goes through the lines one by one, the reference takes the last line
  with the name, from its first character that is no space on. The key and what the server makes of it are in `AcceptToken`.

## 4. The runs

| Run | What it shows | Bounds, and why they are enough |
|---|---|---|
| `endpoint_safety` | types, `NoLostWakeup`, `CloseIsFinal`, `CloseAfterMessages`, the refinement of `MessagePipe` | two messages a side, so that one waits while one is written; `MaxEvents` 0: a user may call `send_close` any number of times until it is told of a close or an error; stop and reset at any time |
| `endpoint_live` | `EveryMessageArrives`, `CloseCompletes` | two messages a side, no faults; `MaxEvents` 1: a user may also call `send_close` after the first close or error it was told of |
| `framing` | `DeliveredAsSent`, `NothingHeldBack`, `CloseRequestStays` for both writers | frames of 3 bytes and sizes 0, 1, 2, 4, 5, 7: empty, one frame, two, three; foreign bodies of 0 and 5 bytes, more than the four of a mask; two messages, so that there is one behind another; bytes of two values and short lengths up to 2, so that all three codes of a length occur |
| `framing_fin` | finding: no FIN bit on a last frame that is full | size 3 in addition |
| `foreign_masked` | finding: a masked continuation frame | the continuation has a key |
| `server_client` | `Replicated`, `CreateIsFresh`, `Converge`, `EveryClientIsServed` | three clients: one that is registered and two that the accept loop takes one after the other, one of them asking for what it lacks; two keys, three pushes: a create, a change and an answer or a delete that race; one connection breaks, be it in its handshake |
| `local_version` | `Converged`, `NotReverted` | two replicas, two fields, three values, three changes: two own ones with a foreign one between |
| `promises` | `TakenByTheFirst`, `StackIsBounded`, `EndsAsItShould`, `Settles` | pipes of up to three steps: one that rejects, one that may take it and one behind; two kinds of errors; two turns of a loop are told apart and more are made |
| `context` | `ViewIsCurrent`, `FollowersAgree`, `ListenerFollows`, `MissingIsAsked` | two producers, three consumers, two of them state consumers as well, so that one can show what another missed; two points that listen to each other and two that are asked for, one with placeholders; producers that answer reads within the call and others; three pushes, so that a push can nest in one that nests |
| `web_app` | `DomIsCurrent`, `ListenersAreLive`, `StoresFollowLocation`, `BackShowsTheSame` | three pages that have between them matches, nested ones, lists within matches and matches within rows; lists of up to two rows of two kinds; integers of 4 bits; a history of three, so that one can go back and write over what was ahead |
| `browser_link` | `DeliveredOnce`, `ConnectionsAreHeld` | two client connections and an endpoint, so that the vector grows twice and one is erased from its middle; two messages, good or bad; refusals, losses with and without an error event |
| `algorithms` | comparisons of functions with what they should compute, one per group of them | inputs of every kind up to a length that passes the boundaries: 5 bytes, 5 signed chars and 6 symbols (two groups of base64; -128, -1 and a positive char in every order), chunks that meet a block of 64 bytes in every way, 7 tokens of a cookie, 4 header lines, 5 moves, 7 characters of an address with up to three words, so that one has as many as the parser takes and a slash behind, requests of each action with every kind of key, 4 lines of a definition, 7 steps of a path, 2 rows, every message of the listed types; integers of 3 or 4 bits, so that they wrap |

Deadlock is not checked: in every model users may have nothing more to do and the program waits.

Symmetry is used for the two ends of a connection (they run the same code), replicas, fields and
values, and only in runs without liveness properties.

`FollowersAgree` and `ListenerFollows` are about consumers that push nothing while they are called
(`busy = {}`); with others both fail in this model, and so they would in the code: the consumers
behind one that pushes are sent its message first, and a listening store is given a message after
all that was pushed while it was propagated. `ViewIsCurrent` holds with them. It makes one
exception, for points whose producer answers a read within the call, and the exception is used:
without it the run finds a state consumer that shows nothing of a value it was told.

**Fairness.** `FairSpec` of `WsEndpoint` has weak fairness on `Completion(p)`: the executor runs
every handler that is ready and the kernel finishes what it can. It asks for nothing of the users:
nobody has to start, to send or to close. One weak fairness condition for all completions of a peer
is enough since each of them ends a thing under way and no cycle of them exists. `ServerClient` has
it for the read loops of both sides and for each step of the accept loop: the `io_context` runs the
handlers that are ready. `ParseRequest` is among them, which says that a client that has connected
sends its request; without it a silent client keeps the loop for ever, there being no timeout
(`ext/beast_ws.hpp:51`). Nobody has to connect, to push or to break. `Promises` has weak fairness of
`Next`: a call returns, and an operation that was started completes.

## 5. Findings

1. **`NothingHeldBack`** (`framing_fin`). A payload of exactly one or more full frames is sent
   without a FIN bit (`message_sender.hpp:143`), so that the reader joins the next message to it.
2. **`DeliveredAsSent`** (`foreign_masked`). Masked continuation frames are unmasked over the
   beginning of the payload (`message_reader.hpp:190`).

Met while modelling, described here and not checked by a run:

* With both ends closing, `on_close` can be called twice at one end: by the reader's handler and
  by the completion of the close frame's write (`endpoint_impl.hpp:223`). `CloseCompletes` says
  that it is called, not how often.
* A `send_close` before `start_messaging` with an empty queue stays a mark that makes the reader's
  handler believe that the close frame is out (`endpoint_impl.hpp:185`). `CloseCompletes` is about
  endpoints that were started.
* A store that leaves a placeholder for an upstream read never has it sent: `match` finds the
  placeholder (`context.hpp:162`, `map_store.hpp:50`). The comment at `context.hpp:169` wants stores to
  leave one. `MissingIsAsked` says of these stores that the placeholder is there, and of the others
  that the read was sent.
* A producer that answers a read within the call has the asker told `unresolved` over the value it
  was just told: `match` pushes the read first and says `unresolved` then (`context.hpp:325`).
  `ViewIsCurrent` says that this is the only one left behind.
* The base64 encoder loses bytes of a `std::string` that is not ASCII: of a negative `char` the sign
  goes over those before it in the same three (`util/base64_encode.hpp:64`, `:74`), so that `"A\xFF"`
  is encoded as two bytes 255. The tests encode such bytes as unsigned ones only. `TextsStandForBytes`
  says which bytes are lost.
* A `catch_` within a nested pipe takes a rejection of the outer one, the two being one chain
  (`detail/promise_join.hpp:26`).
* A string that is set upstream reaches the stores only where `pushState` calls `onpopstate`, which
  the tests' document does and a browser does not (`webui/nav_route.hpp:167`).
* `send` of `ws` 3 throws on a socket that is closed; the connections behind it in the vector are
  not sent the message (`app/server_js.hpp:80`). `DeliveredOnce` counts only what was sent.
* A tile in the corner changes places with the byte behind the board
  (`src/example/tiles/game.hpp:42`). `MovesAreSlides` ends with a game in which this happens.

## 6. Hazards without a property of their own

* Which operations of an endpoint hold a reference to it: the write of the close frame does not
  (`endpoint_impl.hpp:214`).
* The body of a ping, which the reader does not read, is taken for the next frame
  (`message_reader.hpp:238`): the peers of the model send control frames without bodies.
* Lengths of 2^31 and more do not fit the `int` they are read into (`message_reader.hpp:136`).
* The vector of connections is iterated while a failing send may unregister one
  (`app/server.hpp:179`): with Boost.Beast the error arrives later, which is what is modelled.
* The overload of the decoder that fills a buffer says yes to an invalid text that would decode to
  nothing (`util/base64_decode.hpp:172`); `TextsStandForBytes` leaves this case out.
* The buffer behind a request persists over handshakes (`ext/beast_ws.hpp:46`).
* A change that the root producer refuses: its uid and its delta stay for ever
  (`local_version.hpp:46`); the code has no message for it.
* A match that is the whole of another's case: the outer one remembers an element that the inner
  one has exchanged (`webui/detail/dom_manips.hpp:356`), which the code says it does not handle.

## 7. The proofs

Eight modules of proofs, each on top of the module it is about. The assumptions are those on the
constants, named in the modules, unless it says otherwise. Every safety property that a run checks
is a theorem, but for two of the run `web_app` and five of `algorithms`.

Some models have loops within an action: the messages that are still to be read, the elements a
vector moves, the listeners an event calls. These are recursive functions on `0..n`, and what holds
of them is shown by induction over the turns. The induction theorems of the library take the
predicate as a parameter, which the provers cannot instantiate, so the induction is one of sets: a
set of turns that has an element has a least one (`WFMin`), and the least turn at which an invariant
of the loop fails is not the first and has a turn before it. `UpTo` in `BrowserLinkProofs` is that
argument as a lemma about the set of turns at which the invariant holds.

### `WsEndpointProofs`
For any set of peers paired by `Other` (`PeerAssumption`), any number of messages, with or without
stops and resets:

* `TypeCorrect`: `Spec => []TypeOK`, by one step per action. `TypeOK` says more than types: a loop
  that is writing a message has that message at the front of the queue. The lemmas `Transfer...`
  show that part, since every action that moves a message or the writer has to keep it.
* `WakeupsAreKept`: `Spec => []NoLostWakeup`. Given `TypeOK` the property is inductive by itself:
  each call of `start_send_queue` leaves a loop behind if there is something to send
  (`WakeupStart`), the loop ends only with the queue empty, and a write fails only after a stop or a
  reset.
* `CloseEndsTheStream`: `Spec => []CloseIsFinal`. This needs to be strengthened, because nothing
  in the property says why a writer does not go on after the close frame. The inductive invariant is
  `TypeOK /\ LoopInv /\ FrameInv`: the flag is set exactly while the writer is not idle
  (`LoopInv`), and a close frame on the wire or handled means that its writer is in one of the two
  states after it (`FrameInv`). `WrittenStays` shows that a writer never leaves them, for every loop
  is begun with the flag clear; `WireStep` sums up what one step can do to the wire, so that the
  argument about frames is made once and not per action.
* `Invariance`: `Spec => []IInv`, which adds two parts. `ReportInv`: a close is reported only by an
  endpoint that has read it and ended, or after a reset. `OrderInv` is the argument about delivery:
  the numbers in the queue end with the last one sent (`QueueAt`), those on the wire go on from what
  the reader was given (`Numbered`), and `Len(received) + Messages(wire) = Gone`, what was given and
  what is on its way is what has left the queue, a message whose write is done and that is not popped
  yet included. The equation is kept only while the reader is not stopped and the wire was not lost.
  Its proof is one of cases: `QueueStep` and `WireStep` say what a step can do to the queue and to the
  wire of a peer, and `StreamStep` goes through the pairs that occur.
* `CloseComesLast`: `Spec => []CloseAfterMessages`. Where a close was handled the wire is empty
  (`FrameInv`), so the equation leaves nothing between the queue and the reader.
* `Refinement`: `Spec => Pipe!Spec`. The step that needs the invariant is the delivery
  (`PipeDeliver`): the message at the head of the wire is the next one by `Numbered`, it was sent
  because `Gone` is at most `sent` (`GoneBound`), and no close was reported before it by `ReportInv`.

### `WsStreamProofs`
For any sizes of messages, any sizes of frames and bodies that an `int` holds (`IntEnd`: the reader
keeps a frame's length in one), any number of fragments and control frames, either writer. Two
assumptions are part of the theorems, `NoneFillsItsFrames` and `OnlyFirstAreMasked`: they exclude the
two findings and nothing else.

* `LengthsAreUnderstood`: `get_payload_length(encoded_length(n)) = n`. Of a length in two or eight
  bytes, what is shifted out (`Shifts`) and what is put together (`Values`) are two recursive
  functions; the bytes put together up to one of them are the length shifted by those that are left
  (`BytesStandForLength`), and nothing is left behind as many bytes as the code chosen by the length
  has (`ShiftedOut`).
* `Invariance`: what has been delivered, what the reader holds and what is on the wire, put
  together in this order, are the messages as far as they were written, and the frames on the wire
  begin and end where messages do.
* `DeliveryIsFaithful`, `DeliveryIsComplete`: `DeliveredAsSent` and `NothingHeldBack` from it.
* `CloseIsKept`: `CloseRequestStays`, without the two assumptions.

### `LocalVersionProofs`
For any number of replicas, fields, values and changes:

* `ReplicasConverge`: `Spec => []Converged`. The property says nothing while changes are on their
  way, so the invariant says, field by field, to what a replica owes its agreement later: a field
  that a confirmed change on its way sets will be what the last such change says (`Told`); one that
  nothing on its way sets is right already (`Settled`), in `pending_delta` or, where that is silent,
  in `value`; and when nothing waits, the two agree (`NothingWaits`).
* `NothingIsReverted`: `Spec => []NotReverted`. A replica's own changes keep their order through
  both queues (`Ordered` over `Stream`, what is confirmed and what is requested), and for a field
  that no foreign change has overtaken, the latest of them says what is shown (`ShowsLatest`).

### `ServerClientProofs`
For any number of clients, entities, pushes and broken connections:

* `KeysAreNew`: `Spec => CreateIsFresh`. The server alone does not see to it: an update puts an
  entity wherever its path says, and paths come from clients. The invariant follows a key around the
  circle (`IInv`, by `Invariance`): entities in the server's store and in the clients', paths of
  messages going down and of updates coming up are all keys that were handed out.
  `PayloadAssumption` says that the placeholders are no entities.
* `ClientsAreOnlyBehind`: `Spec => []Replicated`. The property looks ahead, at the store a client
  will have when it has read everything. The invariant says it of any `Chain` of stores that begins
  with the client's and takes one message on its way per step: its last agrees with the server's
  store (`CatchesUp`), path by path, but for a client that was registered late and may lack what
  was created before. Only what others see of a store matters, its entities and not its placeholders
  (`Entities`): `SettledIsAChain` says that what others see of the client's store while it reads is
  such a chain. A broadcast adds the last message of a chain (`ChainOfMore`), a client that reads
  takes the first (`ChainOfRest`). A client whose connection is not open yet has nothing and is told
  nothing (`Behind`), so the first broadcast finds it with no past.

### `ContextProofs`
For any points, listeners, actors, consumers that push in reaction, and number of pushes. What a
context promises holds when all calls have returned; in between the stack of calls says what is
still owed. Each invariant is about that stack: which calls may stand before which, and what will
have been done when they are made. `Typed` (`TypesAreKept`) says that messages go only where they
fit.

* `ViewsAreCurrent`: `Spec => []ViewIsCurrent`, whoever pushes in return and whether producers answer
  reads later or within the call. Who does not show what a store has is about to read or be told it;
  or else the point is in `prompt`, it is the one that asked, it shows nothing, and nobody else is
  about to be told nothing (`ViewsFollow`). What is told is what the store has, or `unresolved` at
  such a point; of the calls that say `unresolved` about a point there is one at most, since as long as
  one waits, all that is called before it is the read that it pushed (`Quiet`) or the answer that has
  come meanwhile (`TellsAreTrue`).
* `MissingAsked`: `Spec => []MissingIsAsked`. What is missing in a view is awaited from its producer,
  has a placeholder, or is in the store because the producer answered within the call (`Held`), or
  a call that will ask for it is still on the stack (`MissingFollows`).
* `ListenersAreNotBehind`: `Spec => []ListenerFollows`, and `FollowersAlwaysAgree`:
  `Spec => []FollowersAgree`. Where nobody pushes in return (the properties say so themselves) one
  update at a time is applied and brought to those that listen (`OneAtATime`), and one message at a
  time is sent (`OneIsSent`), so that who is behind is so by one message that is about to reach it
  (`ListenersFollow`, `FollowersFollow`; the latter names one history that all consumers have heard).
  `SourceAssumption` is needed here: with two sources the later one would win.

### `TextProofs`
About `NavSpec`, for any prefix, routes, strings and length of the history, and about `TextSpec`, for
inputs of any length. What is typed is a sequence of tokens (`TextInv`), and the rest is about the
functions. They fold a sequence or fill it by index, never by a recursive operator; a fold exists and
is unique by induction over its turns (`FoundExists` and `FoundAgrees` for one), and its last turn is
the one before it with one more element (`SegmentsOfMore`, `NumberOfMore`, `BoardByBoard`). Induction
over numbers and over sequences is that of sets again (`EveryNat`, `EverySeq`).

* `RoutesAreSpelled`: `TextSpec => []AddressesAreRoutes`. The segments of a string without slashes are
  one word (`WordIsSegment`), a decimal numeral is read as its number modulo the width, whether the
  modulus is taken at the end or at each digit (`ReadsNumbers`), `std::to_string` writes one that is
  read as the number (`DecimalSpells`), and a string is read as a route if and only if its segments
  spell it (`WordsAreRead`, `ReadIfSpelled`). `RoutesComeBack` puts them together: a route of
  `RoutesFit` is what its string is taken for.
* `LocationIsFollowed` (`StoresFollowLocation`) and `HistoryShowsTheSame` (`BackShowsTheSame`), from
  `NavInv`: the history that the user was shown is the browser's read entry by entry
  (`HistoryIsShown`), and the stores follow the entry that is shown. A route that is set takes the
  detour through its string, hence `RoutesComeBack`. Both are proved where
  `PushStateFires \/ Strings = {}`. In the tests' document `pushState` calls `onpopstate`, which is
  the first case; a browser's does not, and then a string that is sent to `(nav_route, string)`
  changes the address and no store (section 5), so that the page must not send any, which is the
  second. Of the two only the first is run.
* `PuzzleStays`: `TextSpec => []MovesAreSlides`. A board is a puzzle if one cell is the hole and
  what is behind the board is 0 (`Puzzle`); the neighbour that `get_tile_swap_index` finds is then the
  hole or the tile itself (`HoleIsFound`), but for the tile in the corner, which the property leaves
  out; a move is a slide and leaves a puzzle (`MoveIsSlide`).
* `AnswersAreForRequests`: `TextSpec => []AnswersMatchRequests`. `RequestReads` and `AnswerReads` say
  what the accessors give for each action, `AnswersForPaths` and `AnswersForKeys` compare the path of
  an answer with that of its request, with the key that was given or that the uid is. That nothing
  private is in an answer is said of two requests that differ in it alone (`PrivateIsPrivate`).
* `BytesComeBack`: `TextSpec => []TextsStandForBytes`. Three bytes and four symbols are a group if
  they have the same 24 bits, equation by equation (`GroupBits`); a text and bytes that are groups
  throughout, filled up with zeros at the end, have the same bits (`BitsOfGroups`). The encoder writes
  groups (`EncoderSpells`), the decoder reads them (`DecoderReads`), and bytes with the same bits are
  the same (`DecodedIsSource`). Signed chars have the text of the bytes that they are spelt as
  (`SpeltText`, fragment by fragment by `SpeltFragment`), and unsigned ones are spelt as themselves
  (`SpeltBytes`). `ValidTexts` shows `validate` and `WellFormed` to be the same test.
* `TokensAndHeadersArrive`: `TextSpec => []HandshakeIsRead`. The two parsers of cookies jump ahead in
  their text; that such a function exists is shown by induction from the end (`ChainExists`). Where a
  pair ends the next begins or nothing does (`PairByPair`), so a function that gives the value of a
  pair or what it gives at the next one gives the first value (`FirstIsFound`); `get_auth_token` and
  `get_session_cookie` both are one (`TokenIsFound`, `CookieIsFound`), though the one stands at the
  beginning of a pair and the other at the space before it. The cookie that a client sends is one
  pair (`SentCookie`). For the headers the turns of the loop are counted up: what has been read is the
  last value so far (`LinesAreRead`), and nothing is answered but what is above the first blank line
  (`RequestIsRead`).

The assumptions are `RouteMapAssumption`, `RoutesFit`, `NavRouteAssumption`, `AddressesAreStrings` and
`TextsAssumption`, which says that a byte and a move are unsigned chars, a char is a signed one, a
character of a route is one of `Char`, a symbol is what the reverse lookup gives, a request is well-
typed, as the compiler sees to, and a header line has a value and a length. The length of what is
encoded is one whose four-fold is an `int` (`base64_encode.hpp:39`).

### `BrowserLinkProofs`
For any numbers of connections, endpoints and messages, with either version of `ws`:

* `MessagesAreDeliveredOnce`: `Spec => []DeliveredOnce`. The invariant `LinkInv` is one of each
  client (`Link`): how events stand in the queue (`InTurn`: an open first, a close last, an error
  right before it), what the two ends and the queue say of each other (`Phases`), that the listeners
  of one promise can be called, those of the read that waits (`OneReads`), that the end was told
  when it was reached (`Told`), and that what was given and what is on its way is what was sent.
  Of all groups of listeners only the last can be called, so an event calls it or nothing
  (`LastIsCalled`, by the turns of the dispatch), and what it does leaves one group again that can
  be called, or none after the end (`OpenReads`, `MessageReads`, `EndIsTold`).
* `ConnectionsStayHeld`: `Spec => []ConnectionsAreHeld`. `HeldBy(held, v, conn)` names the values `v`
  that the vector should have: each is a client that was accepted, none twice, and all that are open
  are among them. Reallocation and erasure keep it by the invariants of their loops: what has moved
  is at its new address, what has not is at its old one, and no other address has an entry.

### `PromisesProofs`
For pipes of any length and any errors, nested at any place:

* `OneHandlerTakesIt`: `Spec => []TakenByTheFirst`. A rejection on its way has passed only those
  `catch_` that have no handler for it (`Pursued`), and since the pipe compiles it is before one that
  has (`RejectionIsCaught`).
* `DeletedAtTheEnd`: `Spec => []EndsAsItShould`, since nothing is signalled after the end (`EndInv`).
* `LoopsKeepTheStack`: `Spec => []StackIsBounded`. A pass that began on top of another still has the
  asynchronous step before it at which the stack is given back (`StackInv`).

### Only model-checked
* All liveness (`EveryMessageArrives`, `CloseCompletes`, `Converge`, `EveryClientIsServed`,
  `Settles`): fairness and ENABLED are beyond the prover.
* `DomIsCurrent` and `ListenersAreLive`: `Renderer` walks trees with recursive operators, which the
  prover does not accept.
* `DigestIsStandard`: SHA-1 and the accept token work on bits by `Bitwise`, which the prover does not
  accept.
* `MessagesComeBack`, `IndexIsPlace`, `PathsAreFollowed`, `RowsComeBack`: schemas, definitions, keys
  and entities are trees that the code walks while it compiles, and so do the models, with recursive
  operators.

## 8. Not modelled

* The translator plugin under `src/tool/heavy_plugins`: a compiler.
* `mpdef` beyond what definitions use, `concept`, `macros`, the reflection of entities, building
  of strings: they work in the compiler and leave no state.
* `src/example/pipes`: the use of promises with raw sockets, nothing that `Promises` lacks.
* `ui_view`: views of UIKit, whose renderer is by its own comment a duplicate of the web renderer.
* `unsafe_set_inner_html`, `get_element_by_id`: calls into JavaScript without state of the library.
* The conversion of a binary payload in `websocket_api/detail/convert_payload.hpp:37`, which clears
  the vector it has just resized and which no test uses.
* `store_compose`: a store for each of two paths, chosen in the compiler.
* Executors with several threads: `beast_ws.hpp` gives every connection a strand, while the
  context is shared by all of them; the tests run one thread.
* Widths of the endpoint's lengths and of the echo producer's counter.

---------------------------- MODULE ServerClient ----------------------------
(***************************************************************************)
(* A server's context with its echo_producer and the app::server consumer, *)
(* and the contexts of its clients, each with app::client for its producer *)
(* (context.hpp, echo_producer.hpp, app/server.hpp, app/client.hpp), all   *)
(* keeping the same access point in a store.                               *)
(*                                                                         *)
(* An upstream message pushed by a client goes to the server, whose        *)
(* producer answers it with a downstream message; that goes to every       *)
(* registered connection and each client pushes it into its own context.   *)
(* A push is one synchronous call, the nested push of the echo included.   *)
(* The connections are FIFO (full_duplex and Boost.Beast).                 *)
(***************************************************************************)
EXTENDS Naturals, FiniteSets, Sequences

CONSTANTS
    Client,
    FirstClients,   \* those registered before anything is sent
    AskingClients,  \* those whose store has no placeholders, as the one of
                    \* test/nbdl/core/context_match.cpp: their reads go on
    Payload,
    MaxKey,         \* bound on the keys make_unique_key hands out
    MaxPushes,      \* bound on the messages that clients push
    MaxBreaks       \* bound on the connections that break

Path == 1..MaxKey

INSTANCE MapStore

ASSUME ClientAssumption ==
    /\ FirstClients \cup AskingClients \subseteq Client
    /\ {MaxKey, MaxPushes, MaxBreaks} \subseteq Nat
ASSUME PayloadAssumption == {"absent", "unresolved"} \cap Payload = {}

VARIABLES
    server_store,
    key,            \* the static key of make_unique_key
    connections,    \* server_impl::connections
    accepting,      \* the client the accept loop is busy with, or Idle
    link,           \* per client: "connecting", "asking", "upgrading", "open" or "lost"
    client_store,
    view,           \* what a client's state consumer read when last notified
    up,             \* upstream messages on their way, per client
    down,           \* downstream messages on their way, per client
    pushes,         \* number of messages pushed so far
    creates         \* and of the creates among them

Idle == "idle"
bounds == <<pushes, creates>>
vars == <<server_store, key, connections, accepting, link, client_store, view, up, down,
          bounds>>

TypeOK ==
    /\ server_store \in Store
    /\ key \in 0..MaxKey
    /\ connections \subseteq Client
    /\ accepting \in Client \cup {Idle, "ended"}
    /\ link \in [Client -> {"connecting", "asking", "upgrading", "open", "lost"}]
    /\ client_store \in [Client -> Store]
    /\ view \in [Client -> Store]
    /\ up \in [Client -> Seq(UpstreamMessage)]
    /\ down \in [Client -> Seq(DownstreamMessage)]
    /\ creates \in 0..MaxKey
    /\ pushes \in creates..MaxPushes

Init ==
    /\ server_store = EmptyStore
    /\ key = 0
    /\ connections = FirstClients
    /\ accepting = Idle
    /\ link = [c \in Client |-> IF c \in FirstClients THEN "open" ELSE "connecting"]
    /\ client_store = [c \in Client |-> EmptyStore]
    /\ view = [c \in Client |-> EmptyStore]
    /\ up = [c \in Client |-> <<>>]
    /\ down = [c \in Client |-> <<>>]
    /\ pushes = 0
    /\ creates = 0

---------------------------------------------------------------------------
(* The client *)

\* client_impl::send_message: what is sent before the connection is open waits
\* in its queue, what is sent after its end goes nowhere.
SendUpstream(c, m) ==
    up' = IF link[c] = "lost" THEN up ELSE [up EXCEPT ![c] = Append(@, m)]

CountPush(action) ==
    /\ pushes < MaxPushes
    /\ pushes' = pushes + 1
    /\ creates' = IF action = "create" THEN creates + 1 ELSE creates
    /\ creates' <= MaxKey

\* An upstream create, update or delete does not touch the client's store.  A
\* client updates and deletes entities it has seen.
PushChange(c, m) ==
    /\ CountPush(m.action)
    /\ m.action \in {"update", "delete"} => client_store[c][m.path] \in Payload
    /\ SendUpstream(c, m)
    /\ UNCHANGED <<server_store, key, connections, accepting, link, client_store, view, down>>

\* push_message of an upstream read: the store is given the message first, so
\* a map_store's match finds its own placeholder or the entity, and nothing
\* more happens; a store that has no placeholders triggers the read.
PushRead(c, p) ==
    /\ CountPush("read")
    /\ IF c \in AskingClients
       THEN /\ IF client_store[c][p] \in Payload
               THEN UNCHANGED up
               ELSE SendUpstream(c, [action |-> "read", path |-> p])
            /\ UNCHANGED client_store
       ELSE /\ client_store' = [client_store EXCEPT ![c] = ApplyUpstreamRead(@, p)]
            /\ UNCHANGED up
    /\ UNCHANGED <<server_store, key, connections, accepting, link, view, down>>

\* apply_read: the downstream message is pushed into the client's context and
\* its state consumer, when notified, reads the path again.
ClientReads(c) ==
    /\ link[c] = "open"
    /\ down[c] # <<>>
    /\ LET m     == Head(down[c])
           store == ApplyDownstream(client_store[c], m)
       IN  /\ client_store' = [client_store EXCEPT ![c] = store]
           /\ view' = IF DidStateChange(client_store[c], m)
                      THEN [view EXCEPT ![c][m.path] = store[m.path]]
                      ELSE view
    /\ down' = [down EXCEPT ![c] = Tail(@)]
    /\ UNCHANGED <<server_store, key, connections, accepting, link, up, bounds>>

---------------------------------------------------------------------------
(* The server *)

\* (bug: the message is not sent back to where it came from)
Broadcast_NotToSender(c, m) ==
    down' = [d \in Client |-> IF d \in connections \ {c} /\ link[d] = "open"
                              THEN Append(down[d], m)
                              ELSE down[d]]

\* server_impl::send_message, for a message caused by one of client c: to all
\* connections; what is written to one that broke is lost.
Broadcast(c, m) ==
    down' = [d \in Client |-> IF d \in connections /\ link[d] = "open"
                              THEN Append(down[d], m)
                              ELSE down[d]]

\* (bug: the counter is not static, and every call begins anew)
make_unique_key_Local == 1

\* ++key
make_unique_key == key + 1

\* The push of a downstream message into the server's context.
PushDownstream(c, m) ==
    /\ server_store' = ApplyDownstream(server_store, m)
    /\ Broadcast(c, m)

\* The echo of a create puts it at a new key.
EchoCreate(c, m) ==
    /\ key' = key + 1
    /\ PushDownstream(c, [action  |-> "create", path |-> make_unique_key,
                          payload |-> m.payload])

Echo(c, m) ==
    /\ m.action \in {"update", "delete"}
    /\ PushDownstream(c, m)
    /\ UNCHANGED key

\* push_message of an upstream read at the server: an entity there is answered
\* to all consumers, a placeholder ends it.
AnswerRead(c, m) ==
    /\ m.action = "read"
    /\ server_store' = ApplyUpstreamRead(server_store, m.path)
    /\ IF server_store[m.path] \in Payload
       THEN Broadcast(c, [action  |-> "read", path |-> m.path,
                          payload |-> server_store[m.path]])
       ELSE UNCHANGED down
    /\ UNCHANGED key

\* The read loop of one connection takes the next message to the context.
ServerReads(c) ==
    /\ c \in connections
    /\ up[c] # <<>>
    /\ up' = [up EXCEPT ![c] = Tail(@)]
    /\ LET m == Head(up[c])
       IN  \/ m.action = "create" /\ EchoCreate(c, m)
           \/ Echo(c, m)
           \/ AnswerRead(c, m)
    /\ UNCHANGED <<connections, accepting, link, client_store, view, bounds>>

---------------------------------------------------------------------------
(* The accept loop, which has one handshake after the other. *)

unrelated == <<server_store, key, client_store, view, up, down, bounds>>

\* tcp_accept takes a connection from those that are waiting.
Accept(c) ==
    /\ accepting = Idle
    /\ link[c] = "connecting"
    /\ accepting' = c
    /\ link' = [link EXCEPT ![c] = "asking"]
    /\ UNCHANGED <<connections, unrelated>>

\* parse_request has read what the client's async_handshake has sent.
ParseRequest(c) ==
    /\ accepting = c
    /\ link[c] = "asking"
    /\ link' = [link EXCEPT ![c] = "upgrading"]
    /\ UNCHANGED <<connections, accepting, unrelated>>

\* ws_accept has answered: connection_open registers the connection when it is
\* made, and the loop begins again.
Open(c) ==
    /\ accepting = c
    /\ link[c] = "upgrading"
    /\ link' = [link EXCEPT ![c] = "open"]
    /\ connections' = connections \cup {c}
    /\ accepting' = Idle
    /\ UNCHANGED unrelated

\* (bug: an error is not taken, and ends the loop)
AfterError_Ends == "ended"

\* map_any takes the error, so that the loop begins again.
AfterError == Idle

\* Any of the three promises resolves with an error.
HandshakeFails(c) ==
    /\ accepting = c
    /\ link[c] = "lost"
    /\ accepting' = AfterError
    /\ UNCHANGED <<connections, link, unrelated>>

---------------------------------------------------------------------------
\* A connection breaks, be it in the handshake: the client never gets the rest, the
\* server some of it.  A request that asks for no upgrade ends like this, too.
Break(c) ==
    /\ link[c] # "lost"
    /\ Cardinality({d \in Client : link[d] = "lost"}) < MaxBreaks
    /\ link' = [link EXCEPT ![c] = "lost"]
    /\ down' = [down EXCEPT ![c] = <<>>]
    /\ \E n \in 0..(IF link[c] = "open" THEN Len(up[c]) ELSE 0) :
           up' = [up EXCEPT ![c] = SubSeq(@, 1, n)]
    /\ UNCHANGED <<server_store, key, connections, accepting, client_store, view, bounds>>

\* unregister_connection: the read loop has come to the error.
Unregister(c) ==
    /\ c \in connections
    /\ link[c] = "lost"
    /\ up[c] = <<>>
    /\ connections' = connections \ {c}
    /\ UNCHANGED <<server_store, key, accepting, link, client_store, view, up, down, bounds>>

---------------------------------------------------------------------------
Push(c) ==
    \/ \E v \in Payload : PushChange(c, [action |-> "create", payload |-> v])
    \/ \E p \in Path, v \in Payload :
           PushChange(c, [action |-> "update", path |-> p, payload |-> v])
    \/ \E p \in Path : PushChange(c, [action |-> "delete", path |-> p])
    \/ \E p \in Path : PushRead(c, p)

Next ==
    \E c \in Client :
        \/ Push(c)
        \/ ClientReads(c)
        \/ ServerReads(c)
        \/ Accept(c)
        \/ ParseRequest(c)
        \/ Open(c)
        \/ HandshakeFails(c)
        \/ Break(c)
        \/ Unregister(c)

Spec == Init /\ [][Next]_vars

\* The io_context runs the handlers that are ready, and a client that has connected
\* sends its request.
FairSpec ==
    /\ Spec
    /\ WF_vars(\E c \in Client : Accept(c))
    /\ \A c \in Client :
          /\ WF_vars(ClientReads(c)) /\ WF_vars(ServerReads(c))
          /\ WF_vars(ParseRequest(c)) /\ WF_vars(Open(c)) /\ WF_vars(HandshakeFails(c))

---------------------------------------------------------------------------
\* What a client's store will be when it has read what is on its way.
Settled(c) ==
    LET after[i \in 0..Len(down[c])] ==
            IF i = 0 THEN client_store[c] ELSE ApplyDownstream(after[i - 1], down[c][i])
    IN  after[Len(down[c])]

(* A client is never wrong, only behind: once it has applied what is on its
   way, each entity it has is the server's, and one that was registered from
   the start has all of them.  Answers to the reads of others, which go to
   everybody, and deletes that race with updates do not break this.  And its
   state consumers show what its store holds: no change goes unannounced. *)
Replicated ==
    /\ \A c \in Client, p \in Path : Entity(view[c], p) = Entity(client_store[c], p)
    /\ \A c \in Client : link[c] = "open" =>
           \A p \in Path :
               \/ Entity(Settled(c), p) = Entity(server_store, p)
               \/ c \notin FirstClients /\ Entity(Settled(c), p) = "absent"

(* A create never replaces an entity, whoever updated or deleted what before:
   the key of the echo producer is new. *)
CreateIsFresh ==
    [][\A c \in Client, p \in Path :
           (/\ ServerReads(c)
            /\ Head(up[c]).action = "create"
            /\ server_store'[p] # server_store[p])
           => server_store[p] \notin Payload]_vars

(* When clients stop pushing, all the replicas of those that stay end up with the
   same entities and stay so. *)
Converge ==
    <>[](\A c \in FirstClients, p \in Path :
             link[c] = "open" => Entity(client_store[c], p) = Entity(server_store, p))

(* Whatever happens to the handshakes before, a client that has connected is
   registered or has its connection broken: the accept loop goes on after an error. *)
EveryClientIsServed ==
    \A c \in Client : link[c] = "connecting" ~> c \in connections \/ link[c] = "lost"
=============================================================================

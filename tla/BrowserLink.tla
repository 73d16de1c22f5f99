---------------------------- MODULE BrowserLink ----------------------------
(***************************************************************************)
(* The JavaScript server (app/server_js.hpp) and its clients in browsers:  *)
(* the application's connection (app/client_connection_js.hpp), which      *)
(* listens anew for every message, and the endpoint of websocket_api,      *)
(* which listens once.  An action is one task: an event with all the       *)
(* callbacks it leads to.                                                  *)
(***************************************************************************)
EXTENDS JsValues, Sequences

CONSTANTS
    Connections,  \* clients that are client connections
    Endpoints,    \* clients that are websocket_api endpoints
    Bad,          \* a message that the server cannot deserialize
    MaxSends,     \* bound on the messages of all clients
    SendThrows    \* send() on a closed socket throws (ws 3), or does nothing

ASSUME BrowserLinkAssumption ==
    /\ Connections \cap Endpoints = {}
    /\ Bad \notin Nat
    /\ MaxSends \in Nat
    /\ SendThrows \in BOOLEAN

Clients == Connections \cup Endpoints

VARIABLES
    socket,     \* readyState of a client's socket
    events,     \* events on their way to a client, in order
    listeners,  \* of a client's socket: [on, live] of those that a promise adds
                \* together, by the number of its callbacks
    callback,   \* number of a client's callbacks; those before it are destroyed
    received,   \* messages that a client's application was given
    ended,      \* how often it was told of the end
    conn,       \* readyState of the server's end
    requests,   \* messages on their way to the server
    held,       \* connections: the vector and the table of values
    sends,      \* number of messages that clients sent; each is its number
    sent        \* history: messages that were sent to a client

clientVars == <<socket, events, listeners, callback, received, ended>>
serverVars == <<conn, requests, held>>
vars == <<clientVars, serverVars, sends, sent>>

Init ==
    /\ socket = [c \in Clients |-> "none"]
    /\ events = [c \in Clients |-> <<>>]
    /\ listeners = [c \in Clients |-> <<>>]
    /\ callback = [c \in Clients |-> 0]
    /\ received = [c \in Clients |-> <<>>]
    /\ ended = [c \in Clients |-> 0]
    /\ conn = [c \in Clients |-> "none"]
    /\ requests = [c \in Clients |-> <<>>]
    /\ held = [vec |-> EmptyVector, table |-> <<>>]
    /\ sends = 0
    /\ sent = [c \in Clients |-> <<>>]

---------------------------------------------------------------------------
(* The client *)

Event(e) == [on |-> e, message |-> Bad]

\* The listeners that a promise adds use the callbacks it has just made.
Listen(state, ons) ==
    LET n == state.callback + 1
    IN  [state EXCEPT !.callback = n,
                      !.listeners = Put(@, n, [on |-> ons, live |-> TRUE])]

init(state) == Listen(state, {"open", "error", "close"})
read_message(state) == Listen(state, {"error", "close", "message"})

\* close_out: the callbacks of the first listeners become empty functions.
close_out(state, n) == [state EXCEPT !.listeners[n].live = FALSE]

\* (bug: all listeners for messages are removed)
clean_up_listeners_All(state, n) ==
    LET left == {k \in DOMAIN state.listeners \ {n} : "message" \notin state.listeners[k].on}
    IN  [state EXCEPT !.listeners = [k \in left |-> @[k]]]

\* clean_up_listeners of one read.
clean_up_listeners(state, n) ==
    [state EXCEPT !.listeners = [k \in DOMAIN state.listeners \ {n} |-> @[k]]]

\* What the listener with the callbacks n does.
CallListener(state, n, e) ==
    CASE e.on = "open"    -> close_out(read_message(state), n)
      [] e.on = "message" ->
           clean_up_listeners(read_message([state EXCEPT !.received = Append(@, e.message)]), n)
      [] OTHER ->
           LET told == [state EXCEPT !.ended = @ + 1]
           IN  IF n = 1 THEN close_out(told, n) ELSE clean_up_listeners(told, n)

\* The listeners there are when the event is fired, in the order they were
\* added, unless one before has removed them.
Dispatch(state, e) ==
    LET called[n \in 0..state.callback] ==
            IF n = 0 THEN state
            ELSE LET s == called[n - 1]
                 IN  IF /\ n \in DOMAIN s.listeners
                        /\ s.listeners[n].live
                        /\ e.on \in s.listeners[n].on
                     THEN CallListener(s, n, e)
                     ELSE s
    IN  called[state.callback]

\* The endpoint of websocket_api: ready, message and close, and no error.
Trigger(state, e) ==
    CASE e.on = "message" -> [state EXCEPT !.received = Append(@, e.message)]
      [] e.on = "close"   -> [state EXCEPT !.ended = @ + 1]
      [] OTHER            -> state

StateOf(c) == [listeners |-> listeners[c], callback |-> callback[c],
               received |-> received[c], ended |-> ended[c]]

Become(c, state) ==
    /\ listeners' = [listeners EXCEPT ![c] = state.listeners]
    /\ callback' = [callback EXCEPT ![c] = state.callback]
    /\ received' = [received EXCEPT ![c] = state.received]
    /\ ended' = [ended EXCEPT ![c] = state.ended]

Connect(c) ==
    /\ socket[c] = "none"
    /\ socket' = [socket EXCEPT ![c] = "connecting"]
    /\ Become(c, IF c \in Connections THEN init(StateOf(c)) ELSE StateOf(c))
    /\ UNCHANGED <<events, serverVars, sends, sent>>

\* An event is fired at the client's socket.
Fire(c) ==
    /\ events[c] # <<>>
    /\ events' = [events EXCEPT ![c] = Tail(@)]
    /\ LET e == Head(events[c])
       IN  /\ socket' = [socket EXCEPT ![c] = CASE e.on = "open" -> "open"
                                                [] e.on = "message" -> @
                                                [] OTHER -> "closed"]
           /\ Become(c, IF c \in Connections THEN Dispatch(StateOf(c), e)
                                             ELSE Trigger(StateOf(c), e))
    /\ UNCHANGED <<serverVars, sends, sent>>

\* Messages are sent while the socket is open: write_message, send_message.
Send(c) ==
    /\ socket[c] = "open" /\ conn[c] = "open"
    /\ sends < MaxSends
    /\ sends' = sends + 1
    /\ \E m \in {sends', Bad} : requests' = [requests EXCEPT ![c] = Append(@, m)]
    /\ UNCHANGED <<clientVars, conn, held, sent>>

---------------------------------------------------------------------------
(* The network *)

Refuse(c) ==
    /\ socket[c] = "connecting" /\ conn[c] = "none" /\ events[c] = <<>>
    /\ events' = [events EXCEPT ![c] = <<Event("error"), Event("close")>>]
    /\ UNCHANGED <<socket, listeners, callback, received, ended, serverVars, sends, sent>>

Lose(c) ==
    /\ conn[c] = "open"
    /\ conn' = [conn EXCEPT ![c] = "closed"]
    /\ requests' = [requests EXCEPT ![c] = <<>>]
    /\ \E before \in {<<>>, <<Event("error")>>} :
         events' = [events EXCEPT ![c] = @ \o before \o <<Event("close")>>]
    /\ UNCHANGED <<socket, listeners, callback, received, ended, held, sends, sent>>

---------------------------------------------------------------------------
(* The server *)

\* add_connection: the argument is copied and then moved into the vector.
Accept(c) ==
    /\ socket[c] = "connecting" /\ conn[c] = "none" /\ events[c] = <<>>
    /\ conn' = [conn EXCEPT ![c] = "open"]
    /\ events' = [events EXCEPT ![c] = <<Event("open")>>]
    /\ held' = push_back([held EXCEPT !.table = Put(@, Argument, c)], Argument)
    /\ UNCHANGED <<socket, listeners, callback, received, ended, requests, sends, sent>>

\* server_impl::send_message: a send that throws ends the loop.
send_message(m) ==
    LET all == ValuesOf(held.table, held.vec)
        closed == {i \in DOMAIN all : conn[all[i]] # "open"}
        reached == {i \in DOMAIN all : SendThrows => \A j \in closed : i < j}
        to == {all[i] : i \in reached \ closed}
    IN  /\ events' = [c \in Clients |->
              IF c \in to THEN Append(events[c], [on |-> "message", message |-> m]) ELSE events[c]]
        /\ sent' = [c \in Clients |-> IF c \in to THEN Append(sent[c], m) ELSE sent[c]]

drop_connection(c) ==
    /\ conn' = [conn EXCEPT ![c] = "closed"]
    /\ requests' = [requests EXCEPT ![c] = <<>>]
    /\ events' = [events EXCEPT ![c] = Append(@, Event("close"))]
    /\ held' = erase_if(held, c)

\* deserializer_fn: what leaves the variant unresolved is an error.
Deserializes(m) == m # Bad

\* receive_message: what cannot be deserialized is an error, which drops the
\* connection; an echo producer makes a downstream message of what can.
receive_message(c) ==
    /\ conn[c] = "open" /\ requests[c] # <<>>
    /\ LET m == Head(requests[c])
       IN  IF ~Deserializes(m)
           THEN drop_connection(c) /\ UNCHANGED sent
           ELSE /\ requests' = [requests EXCEPT ![c] = Tail(@)]
                /\ send_message(m)
                /\ UNCHANGED <<conn, held>>
    /\ UNCHANGED <<socket, listeners, callback, received, ended, sends>>

---------------------------------------------------------------------------
Next ==
    \E c \in Clients :
        \/ Connect(c)
        \/ Refuse(c)
        \/ Accept(c)
        \/ Fire(c)
        \/ Send(c)
        \/ receive_message(c)
        \/ Lose(c)

Spec == Init /\ [][Next]_vars

---------------------------------------------------------------------------
MessagesOf(es) ==
    LET upTo[i \in 0..Len(es)] ==
            IF i = 0 THEN <<>>
            ELSE IF es[i].on = "message" THEN Append(upTo[i - 1], es[i].message)
            ELSE upTo[i - 1]
    IN  upTo[Len(es)]

Pending(c) == MessagesOf(events[c])

(* Although the listeners are exchanged for each message ("The callbacks aren't
   guaranteed to have the same address so we reset the event listeners each time",
   client_connection_js.hpp:100), the application is given every message that was
   sent to it, once and in order, however many arrive before it reads; and then
   its end once, be it a refusal, an error followed by a close, or a close. *)
DeliveredOnce ==
    \A c \in Clients :
        /\ received[c] \o Pending(c) = sent[c]
        /\ ended[c] <= 1
        /\ (socket[c] = "closed" /\ events[c] = <<>>) => ended[c] = 1

(* The server's vector holds the connections that were accepted and not
   dropped, and the table has an entry for each of its elements and no other,
   through reallocations and erasures. *)
ConnectionsAreHeld ==
    /\ DOMAIN held.table = Slots(held.vec)
    /\ \A i, j \in 1..held.vec.size :
         i # j => Get(held.table, Slot(held.vec, i)) # Get(held.table, Slot(held.vec, j))
    /\ \A c \in Clients :
         conn[c] = "open" => \E i \in 1..held.vec.size : Get(held.table, Slot(held.vec, i)) = c
=============================================================================

------------------------------ MODULE Context ------------------------------
(***************************************************************************)
(* context.hpp: the dispatch of a message to a store, to the producer or   *)
(* the consumers of its path and to the stores that listen to the path.    *)
(* All of it is one tree of calls in which any actor may push again: todo  *)
(* is what of it is still to be called, the innermost call first.          *)
(*                                                                         *)
(* Payloads are numbered in the order in which they are made.              *)
(***************************************************************************)
EXTENDS Naturals, FiniteSets, Sequences, SequencesExt

CONSTANTS
    Point,       \* the access points, by the kind of their stores:
    Kept,        \*   context_store, which keeps what comes downstream;
    Asking,      \*   one without a value of its own: match says trigger_read;
    Placing,     \*   of those, the ones that leave a placeholder for a read, as
                 \*   map_store: match then says unresolved;
    Listening,   \*   one with apply_foreign_message only, as nav_route_store
    Listeners,   \* ListenerLookup: for each point, those that listen to it
    Actors,      \* the actors in their order
    Producers, Consumers, StateConsumers,
    ProducerOf,  \* ProducerLookup
    MaxPushes    \* bound on the payloads and reads that are pushed

\* A point has one kind of store; it is told which other points listen to it.
ASSUME PointAssumption ==
    /\ IsFiniteSet(Point) /\ Kept \cup Asking \cup Listening \subseteq Point
    /\ Kept \cap Asking = {} /\ (Kept \cup Asking) \cap Listening = {}
    /\ Placing \subseteq Asking
    /\ Listeners \in [Point -> Seq(Point)]

\* Each actor has one place in the order, and each point a producer.
ASSUME ActorAssumption ==
    /\ Actors \in Seq(Range(Actors)) /\ IsInjective(Actors)
    /\ Producers \cup Consumers \cup StateConsumers \subseteq Range(Actors)
    /\ ProducerOf \in [Point -> Producers]

\* The points that are updated; the rest of those that are asked for are read.
Updated == Kept \cup Placing

\* A listening store takes its value from one point, as nav_route_store does.
ASSUME SourceAssumption ==
    \A p, q \in Updated :
        Range(Listeners[p]) \cap Range(Listeners[q]) \cap Listening # {} => p = q

ASSUME BoundAssumption == MaxPushes \in Nat

VARIABLES
    store,
    todo,        \* the calls that are still to be made
    waiting,     \* per producer, the upstream messages it has not answered
    heard,       \* per consumer, the messages it was sent
    view,        \* what a state consumer saw when it last read a point
    pushed,      \* number of the last payload
    busy,        \* consumers that push in reaction to what they are told
    prompt,      \* points whose producer may answer a read while it is asked
    placeholders \* points whose store has a placeholder

vars == <<store, todo, waiting, heard, view, pushed, busy, prompt, placeholders>>

NoValue == 0
Found == MaxPushes + 1  \* what a producer reads

Message == [way : {"up", "down"}, action : {"update", "read"}, point : Point,
            payload : 0..Found]

\* What goes down in answer to a message: it, or what is found.
Down(m, payload) ==
    [way |-> "down", action |-> m.action, point |-> m.point, payload |-> payload]

\* What can be called.
Calls ==
    [do : {"producer_init"}, actor : Producers]
        \cup [do : {"consumer_init"}, actor : Consumers]
        \cup [do : {"apply", "trigger", "upstream"}, m : Message]
        \cup [do : {"listen"}, point : Point, m : Message]
        \cup [do : {"send"}, actor : Consumers, m : Message]
        \cup [do : {"notify"}, actor : StateConsumers, point : Point]
        \cup [do : {"tell"}, actor : StateConsumers, point : Point, value : 0..Found]

\* The actors of a set, in the order of all actors.
InOrder(set) ==
    LET upto[i \in 0..Len(Actors)] ==
            IF i = 0 THEN <<>>
            ELSE IF Actors[i] \in set THEN Append(upto[i - 1], Actors[i]) ELSE upto[i - 1]
    IN  upto[Len(Actors)]

\* Each actor of a sequence of them is initialised, sent a message or told of
\* a change.
InitOf(to, do) == [i \in DOMAIN to |-> [do |-> do, actor |-> to[i]]]
SendTo(to, m) == [i \in DOMAIN to |-> [do |-> "send", actor |-> to[i], m |-> m]]
NotifyOf(to, p) == [i \in DOMAIN to |-> [do |-> "notify", actor |-> to[i], point |-> p]]

init_actors ==
    InitOf(InOrder(Producers), "producer_init") \o InitOf(InOrder(Consumers), "consumer_init")

Init ==
    /\ store = [p \in Point |-> NoValue]
    /\ todo = init_actors
    /\ waiting = [a \in Producers |-> <<>>]
    /\ heard = [a \in Consumers |-> <<>>]
    /\ view = [a \in StateConsumers |-> [p \in Point |-> NoValue]]
    /\ pushed = 0
    /\ busy \in SUBSET (Consumers \cup StateConsumers)
    /\ prompt \in SUBSET (Asking \ Placing)
    /\ placeholders = {}

---------------------------------------------------------------------------
Call == Head(todo)
Then(calls) == todo' = calls \o Tail(todo)

\* (bug: only those that are not state consumers are sent messages)
propagate_downstream_Else(m) == SendTo(InOrder(Consumers \ StateConsumers), m)

propagate_downstream(m) == SendTo(InOrder(Consumers), m)

notify_state_consumers(p) == NotifyOf(InOrder(StateConsumers), p)

propagate(m) == IF m.way = "up" THEN <<[do |-> "upstream", m |-> m]>>
                                ELSE propagate_downstream(m)

listen(m) == [i \in DOMAIN Listeners[m.point] |->
                  [do |-> "listen", point |-> Listeners[m.point][i], m |-> m]]

\* push_message: an upstream read looks for a value, all the rest is applied
\* and propagated; and then the listening stores hear of it.
push_message(m) ==
    (IF m.way = "up" /\ m.action = "read"
     THEN <<[do |-> "trigger", m |-> m]>>
     ELSE <<[do |-> "apply", m |-> m]>> \o propagate(m))
    \o listen(m)

\* What apply_message makes of the store: it is changed only by what comes
\* downstream, and a listening store by nothing that is its own.
Applies(m) == m.way = "down" /\ m.point \in Kept \cup Asking

Apply ==
    /\ Call.do = "apply"
    /\ IF Applies(Call.m)
       THEN /\ store' = [store EXCEPT ![Call.m.point] = Call.m.payload]
            /\ placeholders' = placeholders \ {Call.m.point}
            /\ Then(notify_state_consumers(Call.m.point))
       ELSE /\ UNCHANGED <<store, placeholders>>
            /\ Then(<<>>)
    /\ UNCHANGED <<waiting, heard, view, pushed, busy, prompt>>

\* There is nothing at p but, at most, a placeholder; or not even that, and
\* match says trigger_read.
Unset(p) == p \in Asking /\ store[p] = NoValue
Missing(p) == Unset(p) /\ p \notin placeholders

\* An upstream read is answered with the value there is.  If there is none it
\* goes to the producer; but where the store leaves a placeholder for it, match
\* finds that, as if the read were in progress, and it goes nowhere.
Trigger ==
    /\ Call.do = "trigger"
    /\ LET p == Call.m.point
       IN  /\ placeholders' = placeholders \cup {q \in {p} \cap Placing : Unset(q)}
           /\ Then(IF Unset(p)
                   THEN IF p \in Placing THEN <<>> ELSE <<[do |-> "upstream", m |-> Call.m]>>
                   ELSE propagate_downstream(Down(Call.m, store[p])))
    /\ UNCHANGED <<store, waiting, heard, view, pushed, busy, prompt>>

\* (bug: apply_foreign_message takes what only was asked for)
Listen_Upstream ==
    /\ Call.do = "listen"
    /\ IF Call.m.action = "update" /\ Call.point \in Listening
       THEN /\ store' = [store EXCEPT ![Call.point] = Call.m.payload]
            /\ Then(notify_state_consumers(Call.point))
       ELSE UNCHANGED store /\ Then(<<>>)
    /\ UNCHANGED <<waiting, heard, view, pushed, busy, prompt, placeholders>>

\* (bug: it does not say which path it changed)
Listen_Silent ==
    /\ Call.do = "listen"
    /\ store' = IF Call.m.way = "down" /\ Call.m.action = "update" /\ Call.point \in Listening
                THEN [store EXCEPT ![Call.point] = Call.m.payload]
                ELSE store
    /\ Then(<<>>)
    /\ UNCHANGED <<waiting, heard, view, pushed, busy, prompt, placeholders>>

\* apply_foreign_message: a listening store derives its value from the payload
\* of a downstream update; the default does nothing.
Listen ==
    /\ Call.do = "listen"
    /\ IF Call.m.way = "down" /\ Call.m.action = "update" /\ Call.point \in Listening
       THEN /\ store' = [store EXCEPT ![Call.point] = Call.m.payload]
            /\ Then(notify_state_consumers(Call.point))
       ELSE UNCHANGED store /\ Then(<<>>)
    /\ UNCHANGED <<waiting, heard, view, pushed, busy, prompt, placeholders>>

---------------------------------------------------------------------------
(* What the actors do when they are called *)

Update(way, p) == [way |-> way, action |-> "update", point |-> p, payload |-> pushed + 1]

\* A call to a consumer, with what it pushes in return.
React(calls) ==
    \/ Then(calls) /\ UNCHANGED pushed
    \/ /\ Call.actor \in busy /\ pushed < MaxPushes
       /\ pushed' = pushed + 1
       /\ \E p \in Updated : Then(calls \o push_message(Update("up", p)))

\* (bug: it is only said that there is no value)
match_NoTrigger(a, p) == <<[do |-> "tell", actor |-> a, point |-> p, value |-> store[p]]>>

\* match: the value there is; a trigger_read pushes an upstream read and then
\* says unresolved.
match(a, p) ==
    (IF Missing(p)
     THEN push_message([way |-> "up", action |-> "read", point |-> p, payload |-> NoValue])
     ELSE <<>>)
    \o <<[do |-> "tell", actor |-> a, point |-> p, value |-> store[p]]>>

\* A state consumer reads the point it is notified of.
Notify ==
    /\ Call.do = "notify"
    /\ React(match(Call.actor, Call.point))
    /\ UNCHANGED <<store, waiting, heard, view, busy, prompt, placeholders>>

\* The function given to match is called.
Tell ==
    /\ Call.do = "tell"
    /\ view' = [view EXCEPT ![Call.actor][Call.point] = Call.value]
    /\ Then(<<>>)
    /\ UNCHANGED <<store, waiting, heard, pushed, busy, prompt, placeholders>>

Send ==
    /\ Call.do = "send"
    /\ heard' = [heard EXCEPT ![Call.actor] = Append(@, Call.m)]
    /\ React(<<>>)
    /\ UNCHANGED <<store, waiting, view, busy, prompt, placeholders>>

\* What the producer has for a message.
Reply(m) == Down(m, IF m.action = "read" THEN Found ELSE m.payload)

\* A producer answers while it is called, an update as the echo_producer and the
\* one of nav_route do, or later, as app::client.
Upstream ==
    /\ Call.do = "upstream"
    /\ \/ /\ Call.m.action = "update" \/ Call.m.point \in prompt
          /\ Then(push_message(Reply(Call.m)))
          /\ UNCHANGED waiting
       \/ /\ waiting' = [waiting EXCEPT ![ProducerOf[Call.m.point]] = Append(@, Call.m)]
          /\ Then(<<>>)
    /\ UNCHANGED <<store, heard, view, pushed, busy, prompt, placeholders>>

\* producer_init may push what the producer starts with.
ProducerInit ==
    /\ Call.do = "producer_init"
    /\ \/ Then(<<>>) /\ UNCHANGED pushed
       \/ \E p \in Updated : /\ ProducerOf[p] = Call.actor
                             /\ pushed < MaxPushes
                             /\ pushed' = pushed + 1
                             /\ Then(push_message(Update("down", p)))
    /\ UNCHANGED <<store, waiting, heard, view, busy, prompt, placeholders>>

\* consumer_init of a state consumer reads all that it shows.
ConsumerInit ==
    /\ Call.do = "consumer_init"
    /\ Then(IF Call.actor \in StateConsumers
            THEN SetToSeq({[do |-> "notify", actor |-> Call.actor, point |-> p] : p \in Point})
            ELSE <<>>)
    /\ UNCHANGED <<store, waiting, heard, view, pushed, busy, prompt, placeholders>>

---------------------------------------------------------------------------
Idle == todo = <<>>

\* A user, or a connection, pushes a message into the context.
Push ==
    /\ Idle /\ pushed < MaxPushes
    /\ pushed' = pushed + 1
    /\ \E p \in Point :
         \/ p \in Updated /\ todo' = push_message(Update("up", p))
         \/ p \in Asking /\ todo' = push_message([way |-> "up", action |-> "read",
                                                  point |-> p, payload |-> NoValue])
    /\ UNCHANGED <<store, waiting, heard, view, busy, prompt, placeholders>>

\* The producer's answer arrives.
Answer(a) ==
    /\ Idle /\ waiting[a] # <<>>
    /\ todo' = push_message(Reply(Head(waiting[a])))
    /\ waiting' = [waiting EXCEPT ![a] = Tail(@)]
    /\ UNCHANGED <<store, heard, view, pushed, busy, prompt, placeholders>>

Step == todo # <<>> /\ (Apply \/ Trigger \/ Listen \/ Notify \/ Tell \/ Send \/ Upstream
                          \/ ProducerInit \/ ConsumerInit)
Next == Step \/ Push \/ \E a \in Producers : Answer(a)

Spec == Init /\ [][Next]_vars

---------------------------------------------------------------------------
TypeOK ==
    /\ store \in [Point -> 0..Found]
    /\ todo \in Seq(Calls)
    /\ waiting \in [Producers -> Seq(Message)]
    /\ heard \in [Consumers -> Seq(Message)]
    /\ view \in [StateConsumers -> [Point -> 0..Found]]
    /\ pushed \in 0..MaxPushes
    /\ busy \in SUBSET (Consumers \cup StateConsumers)
    /\ prompt \in SUBSET (Asking \ Placing)
    /\ placeholders \in SUBSET Placing

\* The last message of a sequence about its point.
IsLast(messages, i) ==
    \A j \in DOMAIN messages : j > i => messages[j].point # messages[i].point

(* Whatever actors push while they are called: when the calls have returned
   each state consumer shows what the stores hold, the ones that only listen to
   other points included (push_message, match, init_actors).  So it is where
   producers answer a read after the call.  One that answers within it has the
   asker told the value first and unresolved then (match_impl of the context):
   of all that show the point at most this one is left behind, and it shows
   nothing, not an old value. *)
ViewIsCurrent ==
    Idle => \A p \in Point :
        LET behind == {a \in StateConsumers : view[a][p] # store[p]}
        IN  \/ behind = {}
            \/ p \in prompt /\ \E a \in StateConsumers : behind = {a} /\ view[a][p] = NoValue

(* Consumers that push nothing while they are called are sent the same
   messages in the same order, and one that keeps what it is sent has what the
   store has: it can replicate the context (app/server.hpp). *)
FollowersAgree ==
    (busy = {} /\ Idle) =>
        /\ \A a, b \in Consumers : heard[a] = heard[b]
        /\ \A a \in Consumers : \A i \in DOMAIN heard[a] :
             IsLast(heard[a], i) => heard[a][i].payload = store[heard[a][i].point]

(* A listening store is never left behind: it holds what it derives from the
   value of the point it listens to. *)
ListenerFollows ==
    (busy = {} /\ Idle) =>
        \A p \in Updated : \A l \in Range(Listeners[p]) \cap Listening : store[l] = store[p]

(* What a state consumer shows nothing of is asked for: its read is on its way,
   unless the answer has been and gone while it was asked.  Where the store
   leaves a placeholder there is that, and the read was not sent at all. *)
MissingIsAsked ==
    Idle => \A a \in StateConsumers \cap Consumers, p \in Asking :
        view[a][p] = NoValue =>
            IF p \in Placing
            THEN p \in placeholders
            ELSE \/ \E m \in Range(waiting[ProducerOf[p]]) : m.action = "read" /\ m.point = p
                 \/ p \in prompt /\ store[p] # NoValue
=============================================================================

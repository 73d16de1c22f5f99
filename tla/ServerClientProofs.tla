------------------------- MODULE ServerClientProofs -------------------------
(***************************************************************************)
(* Two results, for any number of clients, entities, pushes and broken     *)
(* connections: keys are new, and clients are never wrong but behind.      *)
(*                                                                         *)
(* Keys (IInv).  That an entity is never at a key that is still to be      *)
(* handed out follows from nothing the server does alone: an update puts   *)
(* an entity wherever its path says, and paths come from clients.  So IInv *)
(* follows a key around the whole circle: from the server's store to the   *)
(* messages that go down, the clients' stores, what clients update there   *)
(* and the messages that go up.                                            *)
(***************************************************************************)
EXTENDS ServerClient, SequenceTheorems, WellFoundedInduction, NaturalsInduction, TLAPS

\* The key of a create is not known to be one of Path; that is a matter of bounds.
Down ==
    [action : {"create", "update", "read"}, path : Nat, payload : Payload]
        \cup [action : {"delete"}, path : Nat]

Types ==
    /\ key \in Nat
    /\ server_store \in Store
    /\ client_store \in [Client -> Store]
    /\ up \in [Client -> Seq(UpstreamMessage)]
    /\ down \in [Client -> Seq(Down)]

\* Entities only at keys that were handed out.
Within(store) == \A p \in Path : store[p] \in Payload => p <= key

KeysGoUp(c) ==
    \A i \in 1..Len(up[c]) :
        up[c][i].action \in {"update", "delete"} => up[c][i].path <= key

KeysGoDown(c) == \A i \in 1..Len(down[c]) : down[c][i].path <= key

IInv ==
    /\ Types
    /\ Within(server_store)
    /\ \A c \in Client : Within(client_store[c]) /\ KeysGoUp(c) /\ KeysGoDown(c)

---------------------------------------------------------------------------
(* Stores *)

LEMMA PathIsNat == Path \subseteq Nat
  BY ClientAssumption DEF Path

LEMMA DownIsMessage ==
    /\ \A m \in Down : /\ m.action \in {"create", "update", "read", "delete"}
                       /\ m.path \in Nat
                       /\ m.action # "delete" => m.payload \in Payload
    /\ \A m \in UpstreamMessage :
         /\ m.action \in {"create", "update", "read", "delete"}
         /\ m.action # "create" => m.path \in Path /\ m.path \in Nat
         /\ m.action \in {"create", "update"} => m.payload \in Payload
  BY ClientAssumption DEF Down, UpstreamMessage, Path

\* A downstream message changes a store at its path at most.
LEMMA DownstreamStep ==
    ASSUME NEW store \in Store, NEW m \in Down
    PROVE  /\ ApplyDownstream(store, m) \in Store
           /\ \A p \in Path : p # m.path => ApplyDownstream(store, m)[p] = store[p]
  <1>1. /\ m.action \in {"create", "update", "read", "delete"}
        /\ m.action # "delete" => m.payload \in Payload
    BY DownIsMessage
  <1>2. CASE m.action = "delete"
    BY <1>2 DEF ApplyDownstream, Store
  <1>3. CASE m.action \in {"create", "update"}
    BY <1>1, <1>3 DEF ApplyDownstream, Store
  <1>4. CASE m.action = "read"
    BY <1>1, <1>4 DEF ApplyDownstream, Store, IsReadStored
  <1> QED BY <1>1, <1>2, <1>3, <1>4

\* An upstream read adds no entity.
LEMMA UpstreamReadStep ==
    ASSUME NEW store \in Store, NEW p \in Path
    PROVE  /\ ApplyUpstreamRead(store, p) \in Store
           /\ \A q \in Path : ApplyUpstreamRead(store, p)[q] \in Payload
                                 => store[q] \in Payload
  BY PayloadAssumption DEF ApplyUpstreamRead, Store

---------------------------------------------------------------------------
(* Messages on their way *)

LEMMA AppendKeeps ==
    ASSUME NEW S, NEW s \in Seq(S), NEW x \in S
    PROVE  /\ Append(s, x) \in Seq(S)
           /\ \A i \in 1..Len(Append(s, x)) :
                \/ i \in 1..Len(s) /\ Append(s, x)[i] = s[i]
                \/ Append(s, x)[i] = x
  OBVIOUS

LEMMA TailKeeps ==
    ASSUME NEW S, NEW s \in Seq(S), s # <<>>
    PROVE  /\ Tail(s) \in Seq(S)
           /\ \A i \in 1..Len(Tail(s)) : i + 1 \in 1..Len(s) /\ Tail(s)[i] = s[i + 1]
           /\ Head(s) \in S /\ Head(s) = s[1] /\ 1 \in 1..Len(s)
  OBVIOUS

LEMMA PrefixKeeps ==
    ASSUME NEW S, NEW s \in Seq(S), NEW n \in 0..Len(s)
    PROVE  /\ SubSeq(s, 1, n) \in Seq(S)
           /\ \A i \in 1..Len(SubSeq(s, 1, n)) :
                i \in 1..Len(s) /\ SubSeq(s, 1, n)[i] = s[i]
  OBVIOUS

\* What a client sends is about an entity it has.
LEMMA SendKeeps ==
    ASSUME IInv, NEW c \in Client, NEW m \in UpstreamMessage,
           m.action \in {"update", "delete"} => m.path <= key,
           SendUpstream(c, m), key' = key
    PROVE  /\ up' \in [Client -> Seq(UpstreamMessage)]
           /\ \A d \in Client : KeysGoUp(d)'
  <1>1. /\ up' \in [Client -> Seq(UpstreamMessage)]
        /\ \A d \in Client : up'[d] = up[d] \/ up'[d] = Append(up[d], m)
    BY AppendKeeps DEF IInv, Types, SendUpstream
  <1>2. ASSUME NEW d \in Client PROVE KeysGoUp(d)'
    <2>1. CASE up'[d] = up[d] BY <2>1 DEF IInv, KeysGoUp
    <2>2. CASE up'[d] = Append(up[d], m)
      <3>1. up[d] \in Seq(UpstreamMessage) BY DEF IInv, Types
      <3>2. \A i \in 1..Len(up'[d]) :
               \/ i \in 1..Len(up[d]) /\ up'[d][i] = up[d][i]
               \/ up'[d][i] = m
        BY <2>2, <3>1, AppendKeeps
      <3> QED BY <3>2 DEF IInv, KeysGoUp
    <2> QED BY <1>1, <2>1, <2>2
  <1> QED BY <1>1, <1>2

\* What goes to all is about a key that was handed out.
LEMMA BroadcastKeeps ==
    ASSUME IInv, NEW c \in Client, NEW m \in Down,
           Broadcast(c, m), key' \in Nat, key' >= key, m.path <= key'
    PROVE  /\ down' \in [Client -> Seq(Down)]
           /\ \A d \in Client : KeysGoDown(d)'
  <1>1. /\ down' \in [Client -> Seq(Down)]
        /\ \A d \in Client : down'[d] = down[d] \/ down'[d] = Append(down[d], m)
    BY AppendKeeps DEF IInv, Types, Broadcast
  <1>2. ASSUME NEW d \in Client PROVE KeysGoDown(d)'
    <2>1. /\ down[d] \in Seq(Down)
          /\ \A i \in 1..Len(down[d]) : down[d][i].path <= key'
      <3>1. down[d] \in Seq(Down) BY DEF IInv, Types
      <3>2. ASSUME NEW i \in 1..Len(down[d]) PROVE down[d][i].path <= key'
        <4>1. down[d][i] \in Down BY <3>1
        <4>2. down[d][i].path \in Nat BY <4>1, DownIsMessage
        <4> QED BY <4>2 DEF IInv, Types, KeysGoDown
      <3> QED BY <3>1, <3>2
    <2>2. CASE down'[d] = down[d] BY <2>1, <2>2 DEF KeysGoDown
    <2>3. CASE down'[d] = Append(down[d], m)
      <3>1. \A i \in 1..Len(down'[d]) :
               \/ i \in 1..Len(down[d]) /\ down'[d][i] = down[d][i]
               \/ down'[d][i] = m
        BY <2>1, <2>3, AppendKeeps
      <3> QED BY <2>1, <3>1 DEF KeysGoDown
    <2> QED BY <1>1, <2>2, <2>3
  <1> QED BY <1>1, <1>2

---------------------------------------------------------------------------
(* The steps *)

LEMMA InitStep == Init => IInv
  BY PayloadAssumption
  DEF Init, IInv, Types, Store, EmptyStore, Within, KeysGoUp, KeysGoDown

LEMMA PushChangeStep ==
    ASSUME IInv, NEW c \in Client, NEW m \in UpstreamMessage, m.action # "read",
           PushChange(c, m)
    PROVE  IInv'
  <1>1. m.action \in {"update", "delete"} => m.path <= key
    BY DownIsMessage DEF PushChange, IInv, Within
  <1>2. /\ up' \in [Client -> Seq(UpstreamMessage)]
        /\ \A d \in Client : KeysGoUp(d)'
    BY <1>1, SendKeeps DEF PushChange
  <1> QED BY <1>2 DEF PushChange, IInv, Types, Within, KeysGoDown

LEMMA PushReadStep ==
    ASSUME IInv, NEW c \in Client, NEW p \in Path, PushRead(c, p)
    PROVE  IInv'
  <1>1. /\ up' \in [Client -> Seq(UpstreamMessage)]
        /\ \A d \in Client : KeysGoUp(d)'
    <2>1. CASE up' = up BY <2>1 DEF PushRead, IInv, Types, KeysGoUp
    <2>2. CASE SendUpstream(c, [action |-> "read", path |-> p])
      <3> DEFINE m == [action |-> "read", path |-> p]
      <3>1. m \in UpstreamMessage /\ m.action = "read" BY DEF UpstreamMessage
      <3> HIDE DEF m
      <3>2. SendUpstream(c, m) BY <2>2 DEF m
      <3> QED BY <3>1, <3>2, SendKeeps DEF PushRead
    <2> QED BY <2>1, <2>2 DEF PushRead
  <1>2. /\ client_store' \in [Client -> Store]
        /\ \A d \in Client : Within(client_store[d])'
    <2>1. \/ client_store' = client_store
          \/ client_store' =
               [client_store EXCEPT ![c] = ApplyUpstreamRead(client_store[c], p)]
      BY DEF PushRead
    <2>2. client_store[c] \in Store BY DEF IInv, Types
    <2>3. /\ ApplyUpstreamRead(client_store[c], p) \in Store
          /\ \A q \in Path : ApplyUpstreamRead(client_store[c], p)[q] \in Payload
                                => client_store[c][q] \in Payload
      BY <2>2, UpstreamReadStep
    <2>4. key' = key BY DEF PushRead
    <2> QED BY <2>1, <2>3, <2>4 DEF IInv, Types, Within
  <1> QED BY <1>1, <1>2 DEF PushRead, IInv, Types, KeysGoDown, Within

LEMMA ClientReadsStep ==
    ASSUME IInv, NEW c \in Client, ClientReads(c)
    PROVE  IInv'
  <1> DEFINE m == Head(down[c])
  <1>1. /\ down[c] \in Seq(Down)
        /\ m \in Down
        /\ m.path <= key
    BY TailKeeps DEF ClientReads, IInv, Types, KeysGoDown
  <1>2. /\ client_store' \in [Client -> Store]
        /\ \A d \in Client : Within(client_store[d])'
    <2>1. client_store' = [client_store EXCEPT ![c] = ApplyDownstream(client_store[c], m)]
      BY DEF ClientReads
    <2>2. client_store[c] \in Store BY DEF IInv, Types
    <2> HIDE DEF m
    <2>3. /\ ApplyDownstream(client_store[c], m) \in Store
          /\ \A p \in Path :
               p # m.path => ApplyDownstream(client_store[c], m)[p] = client_store[c][p]
      BY <1>1, <2>2, DownstreamStep
    <2>4. key' = key BY DEF ClientReads
    <2> QED BY <1>1, <2>1, <2>3, <2>4 DEF IInv, Types, Within
  <1>3. /\ down' \in [Client -> Seq(Down)]
        /\ \A d \in Client : KeysGoDown(d)'
    BY <1>1, TailKeeps DEF ClientReads, IInv, Types, KeysGoDown
  <1> QED BY <1>2, <1>3 DEF ClientReads, IInv, Types, Within, KeysGoUp

\* The rest of what has come up, whatever becomes of the key.
LEMMA TakeKeeps ==
    ASSUME IInv, NEW c \in Client, up[c] # <<>>, up' = [up EXCEPT ![c] = Tail(@)],
           key' \in Nat, key' >= key
    PROVE  /\ up' \in [Client -> Seq(UpstreamMessage)]
           /\ \A d \in Client : KeysGoUp(d)'
  <1>1. ASSUME NEW d \in Client
        PROVE  \A i \in 1..Len(up[d]) :
                  up[d][i].action \in {"update", "delete"} => up[d][i].path <= key'
    <2>1. ASSUME NEW i \in 1..Len(up[d]), up[d][i].action \in {"update", "delete"}
          PROVE  up[d][i].path <= key'
      <3>1. up[d][i] \in UpstreamMessage BY DEF IInv, Types
      <3>2. up[d][i].path \in Nat BY <2>1, <3>1, DownIsMessage
      <3> QED BY <2>1, <3>2 DEF IInv, Types, KeysGoUp
    <2> QED BY <2>1
  <1>2. up[c] \in Seq(UpstreamMessage) BY DEF IInv, Types
  <1>3. up' \in [Client -> Seq(UpstreamMessage)]
    BY <1>2, TailKeeps DEF IInv, Types
  <1>4. ASSUME NEW d \in Client PROVE KeysGoUp(d)'
    <2>1. CASE d = c
      <3>1. up'[d] = Tail(up[d]) BY <2>1 DEF IInv, Types
      <3>2. \A i \in 1..Len(up'[d]) : i + 1 \in 1..Len(up[d]) /\ up'[d][i] = up[d][i + 1]
        <4>1. up[d] \in Seq(UpstreamMessage) /\ up[d] # <<>> BY <1>2, <2>1
        <4> HIDE DEF UpstreamMessage
        <4> QED BY <3>1, <4>1, TailKeeps
      <3> QED BY <1>1, <3>2 DEF KeysGoUp
    <2>2. CASE d # c BY <1>1, <2>2 DEF IInv, Types, KeysGoUp
    <2> QED BY <2>1, <2>2
  <1> QED BY <1>3, <1>4

\* What the server pushes into its own context is about a key it has handed out.
LEMMA PushDownstreamKeeps ==
    ASSUME IInv, NEW c \in Client, NEW m \in Down, PushDownstream(c, m),
           key' \in Nat, key' >= key, m.path <= key'
    PROVE  /\ server_store' \in Store
           /\ Within(server_store)'
           /\ down' \in [Client -> Seq(Down)]
           /\ \A d \in Client : KeysGoDown(d)'
  <1>1. /\ server_store' \in Store
        /\ \A p \in Path : p # m.path => server_store'[p] = server_store[p]
    BY DownstreamStep DEF PushDownstream, IInv, Types
  <1>2. Within(server_store)'
    <2>1. ASSUME NEW p \in Path, server_store'[p] \in Payload PROVE p <= key'
      <3>1. p \in Nat BY PathIsNat
      <3>2. CASE p = m.path BY <3>2
      <3>3. CASE p # m.path
        <4>1. p <= key BY <1>1, <2>1, <3>3 DEF IInv, Within
        <4> QED BY <3>1, <4>1 DEF IInv, Types
      <3> QED BY <3>2, <3>3
    <2> QED BY <2>1 DEF Within
  <1> QED BY <1>1, <1>2, BroadcastKeeps DEF PushDownstream

LEMMA ServerReadsStep ==
    ASSUME IInv, NEW c \in Client, ServerReads(c)
    PROVE  IInv'
  <1> DEFINE m == Head(up[c])
  <1>1. /\ m \in UpstreamMessage
        /\ m.action \in {"update", "delete"} => m.path <= key
    <2>1. up[c] \in Seq(UpstreamMessage) /\ up[c] # <<>> BY DEF ServerReads, IInv, Types
    <2>2. /\ m \in UpstreamMessage /\ m = up[c][1] /\ 1 \in 1..Len(up[c])
      BY <2>1, TailKeeps
    <2> QED BY <2>2 DEF IInv, KeysGoUp
  <1>2. \/ m.action = "create" /\ EchoCreate(c, m)
        \/ Echo(c, m)
        \/ AnswerRead(c, m)
    BY DEF ServerReads
  <1>3. key \in Nat /\ up[c] # <<>> /\ up' = [up EXCEPT ![c] = Tail(@)]
    BY DEF ServerReads, IInv, Types
  <1> HIDE DEF m
  <1>4. /\ key' \in Nat /\ key' >= key
        /\ server_store' \in Store
        /\ Within(server_store)'
        /\ down' \in [Client -> Seq(Down)]
        /\ \A d \in Client : KeysGoDown(d)'
    <2>1. CASE m.action = "create" /\ EchoCreate(c, m)
      <3> DEFINE n == [action |-> "create", path |-> make_unique_key, payload |-> m.payload]
      <3>1. n \in Down /\ n.path = key + 1
        BY <1>1, <1>3, <2>1, DownIsMessage DEF Down, make_unique_key
      <3>2. PushDownstream(c, n) /\ key' = key + 1 BY <2>1 DEF EchoCreate
      <3> HIDE DEF n
      <3> QED BY <1>3, <3>1, <3>2, PushDownstreamKeeps
    <2>2. CASE Echo(c, m)
      <3>1. m.action \in {"update", "delete"} /\ PushDownstream(c, m) /\ key' = key
        BY <2>2 DEF Echo
      <3>2. m \in Down
        BY <1>1, <3>1, ClientAssumption DEF UpstreamMessage, Down, Path
      <3> QED BY <1>1, <1>3, <3>1, <3>2, PushDownstreamKeeps
    <2>3. CASE AnswerRead(c, m)
      <3>1. m.path \in Path /\ m.path \in Nat
        BY <1>1, <2>3, DownIsMessage DEF AnswerRead
      <3>2. server_store' \in Store /\ Within(server_store)' /\ key' = key
        BY <2>3, <3>1, UpstreamReadStep DEF AnswerRead, IInv, Types, Within
      <3>3. CASE server_store[m.path] \in Payload
        <4> DEFINE n == [action |-> "read", path |-> m.path,
                         payload |-> server_store[m.path]]
        <4>1. n \in Down /\ n.path <= key
          BY <3>1, <3>3 DEF Down, IInv, Within
        <4>2. Broadcast(c, n) BY <2>3, <3>3 DEF AnswerRead
        <4> HIDE DEF n
        <4>3. key' >= key /\ n.path <= key' BY <1>3, <3>2, <4>1
        <4> QED BY <1>3, <3>2, <4>1, <4>2, <4>3, BroadcastKeeps
      <3>4. CASE server_store[m.path] \notin Payload
        BY <1>3, <2>3, <3>2, <3>4 DEF AnswerRead, IInv, Types, KeysGoDown
      <3> QED BY <3>3, <3>4
    <2> QED BY <1>2, <2>1, <2>2, <2>3
  <1>5. /\ up' \in [Client -> Seq(UpstreamMessage)]
        /\ \A d \in Client : KeysGoUp(d)'
    BY <1>3, <1>4, TakeKeeps
  <1>6. /\ client_store' \in [Client -> Store]
        /\ \A d \in Client : Within(client_store[d])'
    BY <1>3, <1>4, ClientAssumption DEF ServerReads, IInv, Types, Within, Path
  <1> QED BY <1>4, <1>5, <1>6 DEF IInv, Types

LEMMA BreakStep ==
    ASSUME IInv, NEW c \in Client, Break(c)
    PROVE  IInv'
  <1>1. /\ down' \in [Client -> Seq(Down)]
        /\ \A d \in Client : KeysGoDown(d)'
    BY DEF Break, IInv, Types, KeysGoDown
  <1>2. up[c] \in Seq(UpstreamMessage) BY DEF IInv, Types
  <1>3. PICK n \in 0..Len(up[c]) : up' = [up EXCEPT ![c] = SubSeq(up[c], 1, n)]
    <2>1. PICK n \in 0..(IF link[c] = "open" THEN Len(up[c]) ELSE 0) :
             up' = [up EXCEPT ![c] = SubSeq(@, 1, n)]
      BY DEF Break
    <2>2. n \in 0..Len(up[c]) BY <1>2
    <2> QED BY <2>1, <2>2
  <1>4. /\ up' \in [Client -> Seq(UpstreamMessage)]
        /\ \A d \in Client : KeysGoUp(d)'
    BY <1>2, <1>3, PrefixKeeps DEF Break, IInv, Types, KeysGoUp
  <1> QED BY <1>1, <1>4 DEF Break, IInv, Types, Within

LEMMA NextStep == IInv /\ [Next]_vars => IInv'
  <1> SUFFICES ASSUME IInv, [Next]_vars PROVE IInv' OBVIOUS
  <1>1. CASE UNCHANGED vars
    BY <1>1 DEF vars, bounds, IInv, Types, Within, KeysGoUp, KeysGoDown
  <1>2. ASSUME NEW c \in Client, Push(c) PROVE IInv'
    <2>1. ASSUME NEW v \in Payload,
                 PushChange(c, [action |-> "create", payload |-> v])
          PROVE  IInv'
      <3>1. [action |-> "create", payload |-> v] \in UpstreamMessage
        BY DEF UpstreamMessage
      <3> QED BY <2>1, <3>1, PushChangeStep
    <2>2. ASSUME NEW p \in Path, NEW v \in Payload,
                 PushChange(c, [action |-> "update", path |-> p, payload |-> v])
          PROVE  IInv'
      <3>1. [action |-> "update", path |-> p, payload |-> v] \in UpstreamMessage
        BY DEF UpstreamMessage
      <3> QED BY <2>2, <3>1, PushChangeStep
    <2>3. ASSUME NEW p \in Path, PushChange(c, [action |-> "delete", path |-> p])
          PROVE  IInv'
      <3>1. [action |-> "delete", path |-> p] \in UpstreamMessage
        BY DEF UpstreamMessage
      <3> QED BY <2>3, <3>1, PushChangeStep
    <2> QED BY <1>2, <2>1, <2>2, <2>3, PushReadStep DEF Push
  <1>3. ASSUME NEW c \in Client,
               \/ Accept(c) \/ ParseRequest(c) \/ Open(c) \/ HandshakeFails(c)
               \/ Unregister(c)
        PROVE  IInv'
    <2>1. UNCHANGED <<server_store, key, client_store, up, down>>
      BY <1>3 DEF Accept, ParseRequest, Open, HandshakeFails, Unregister, unrelated
    <2> QED BY <2>1 DEF IInv, Types, Within, KeysGoUp, KeysGoDown
  <1> QED
    BY <1>1, <1>2, <1>3, ClientReadsStep, ServerReadsStep, BreakStep DEF Next

(* Wherever an entity is, in whichever store or message, its key is one that the
   echo producer has handed out. *)
THEOREM Invariance == Spec => []IInv
  <1> QED BY InitStep, NextStep, PTL DEF Spec

\* A create goes to the key behind all of these.
LEMMA CreateStep ==
    ASSUME IInv, NEW c \in Client, NEW p \in Path, ServerReads(c),
           Head(up[c]).action = "create", server_store'[p] # server_store[p]
    PROVE  server_store[p] \notin Payload
  <1> DEFINE m == Head(up[c])
             n == [action |-> "create", path |-> key + 1, payload |-> m.payload]
  <1>1. EchoCreate(c, m)
    BY DEF ServerReads, Echo, AnswerRead
  <1>2. m \in UpstreamMessage /\ m.payload \in Payload
    <2>1. up[c] \in Seq(UpstreamMessage) /\ up[c] # <<>> BY DEF ServerReads, IInv, Types
    <2>2. m \in UpstreamMessage BY <2>1, TailKeeps
    <2> QED BY <2>2, DownIsMessage
  <1>3. server_store' = ApplyDownstream(server_store, n)
    BY <1>1 DEF EchoCreate, PushDownstream, make_unique_key
  <1>4. n \in Down /\ n.path = key + 1 BY <1>2 DEF Down, IInv, Types
  <1> HIDE DEF n
  <1>5. p = key + 1 BY <1>3, <1>4, DownstreamStep DEF IInv, Types
  <1> QED BY <1>5 DEF IInv, Types, Within

(* A create never replaces an entity, whatever was created, updated and deleted
   before, by however many clients (make_unique_key, echo_producer.hpp). *)
THEOREM KeysAreNew == Spec => CreateIsFresh
  <1> DEFINE Fresh ==
        \A c \in Client, p \in Path :
           (/\ ServerReads(c)
            /\ Head(up[c]).action = "create"
            /\ server_store'[p] # server_store[p])
           => server_store[p] \notin Payload
  <1>1. IInv => Fresh BY CreateStep
  <1>2. [](IInv) => [][Fresh]_vars BY <1>1, PTL
  <1> QED BY <1>2, Invariance, PTL DEF CreateIsFresh

---------------------------------------------------------------------------
(* Replication.  What a client will have seen depends on all the messages that
   are on their way to it.  So the invariant is about any chain of what is seen
   message by message (Chain): it ends in what the server has.  Placeholders
   make no difference, since a read is stored where there is no entity. *)

\* A set of numbers has a least element.
LEMMA LeastElement ==
    ASSUME NEW T, T \subseteq Nat, T # {}
    PROVE  \E x \in T : \A y \in T : ~ (y < x)
  <1>1. \E x \in T : \A y \in T : <<y, x>> \notin OpToRel(<, Nat)
    BY NatLessThanWellFounded, WFMin, Zenon
  <1> QED BY <1>1 DEF OpToRel

\* Induction over the numbers, for sets.
LEMMA EveryNat ==
    ASSUME NEW T, 0 \in T, \A n \in Nat : n \in T => n + 1 \in T
    PROVE  Nat \subseteq T
  <1> SUFFICES ASSUME Nat \ T # {} PROVE FALSE
    OBVIOUS
  <1>1. PICK x \in Nat \ T : \A y \in Nat \ T : ~ (y < x)
    BY LeastElement
  <1>2. x # 0 /\ x - 1 \in Nat
    BY SMT
  <1>3. x - 1 \in T
    BY <1>1, <1>2, SMT
  <1>4. x \in T
    BY <1>3, <1>2, SMT
  <1> QED BY <1>4

\* What others can see of a store.
EntityStore == [Path -> Payload \cup {"absent"}]
Entities(store) == [p \in Path |-> Entity(store, p)]

\* The entities of a store are there for every path.
LEMMA EntitiesAreAStore ==
    ASSUME NEW store
    PROVE  /\ Entities(store) \in EntityStore
           /\ \A p \in Path : Entities(store)[p] = Entity(store, p)
  BY DEF Entities, EntityStore, Entity

\* An empty store has none.
LEMMA EmptyEntities == Entities(EmptyStore) = EmptyStore /\ EmptyStore \in Store
  BY PayloadAssumption DEF Entities, Entity, EmptyStore, Store

\* What a downstream message makes of an entity, whatever placeholders the
\* store has.
LEMMA DownstreamEntity ==
    ASSUME NEW store \in Store, NEW m \in Down, NEW p \in Path
    PROVE  Entity(ApplyDownstream(store, m), p) =
             IF m.path # p THEN Entity(store, p)
             ELSE IF m.action = "delete" THEN "absent"
             ELSE IF m.action = "read" /\ store[p] \in Payload THEN store[p]
             ELSE m.payload
  <1>1. /\ m.action \in {"create", "update", "read", "delete"}
        /\ m.action # "delete" => m.payload \in Payload
    BY DownIsMessage
  <1>2. CASE m.action = "delete"
    BY <1>2, PayloadAssumption DEF ApplyDownstream, Store, Entity
  <1>3. CASE m.action \in {"create", "update"}
    BY <1>1, <1>3 DEF ApplyDownstream, Store, Entity
  <1>4. CASE m.action = "read"
    BY <1>1, <1>4, PayloadAssumption DEF ApplyDownstream, Store, IsReadStored, Entity
  <1> QED BY <1>1, <1>2, <1>3, <1>4

\* An entity is what is neither absent nor unresolved.
LEMMA EntityIsThere ==
    ASSUME NEW store \in Store, NEW p \in Path
    PROVE  /\ store[p] \in Payload <=> Entity(store, p) \in Payload
           /\ store[p] \in Payload => Entity(store, p) = store[p]
  BY PayloadAssumption DEF Store, Entity

\* The same of a store of entities.
LEMMA DownstreamOfEntities ==
    ASSUME NEW e \in EntityStore, NEW m \in Down
    PROVE  /\ ApplyDownstream(e, m) \in EntityStore
           /\ \A p \in Path : ApplyDownstream(e, m)[p] =
                 IF m.path # p THEN e[p]
                 ELSE IF m.action = "delete" THEN "absent"
                 ELSE IF m.action = "read" /\ e[p] \in Payload THEN e[p]
                 ELSE m.payload
  <1>1. /\ m.action \in {"create", "update", "read", "delete"}
        /\ m.action # "delete" => m.payload \in Payload
    BY DownIsMessage
  <1>2. CASE m.action = "delete"
    BY <1>2 DEF ApplyDownstream, EntityStore
  <1>3. CASE m.action \in {"create", "update"}
    BY <1>1, <1>3 DEF ApplyDownstream, EntityStore
  <1>4. CASE m.action = "read"
    BY <1>1, <1>4, PayloadAssumption DEF ApplyDownstream, EntityStore, IsReadStored
  <1> QED BY <1>1, <1>2, <1>3, <1>4

\* Placeholders make no difference to what a message does.
LEMMA EntitiesDownstream ==
    ASSUME NEW store \in Store, NEW m \in Down
    PROVE  Entities(ApplyDownstream(store, m)) = ApplyDownstream(Entities(store), m)
  <1> DEFINE e == Entities(store)
             new == ApplyDownstream(store, m)
  <1>1. e \in EntityStore /\ \A p \in Path : e[p] = Entity(store, p)
    BY EntitiesAreAStore
  <1>2. Entities(new) \in EntityStore /\ \A p \in Path : Entities(new)[p] = Entity(new, p)
    BY EntitiesAreAStore
  <1> HIDE DEF e
  <1>3. ASSUME NEW p \in Path PROVE Entities(new)[p] = ApplyDownstream(e, m)[p]
    <2>1. store[p] \in Payload <=> e[p] \in Payload
      BY <1>1, EntityIsThere
    <2>2. store[p] \in Payload => e[p] = store[p]
      BY <1>1, EntityIsThere
    <2> QED BY <1>1, <1>2, <2>1, <2>2, DownstreamEntity, DownstreamOfEntities
  <1>4. ApplyDownstream(e, m) \in EntityStore
    BY <1>1, DownstreamOfEntities
  <1> HIDE DEF new
  <1>5. Entities(new) = ApplyDownstream(e, m)
    BY <1>2, <1>3, <1>4 DEF EntityStore
  <1> QED BY <1>5 DEF e, new

\* Nor is a placeholder anything to see.
LEMMA EntitiesUpstream ==
    ASSUME NEW store \in Store, NEW p \in Path
    PROVE  Entities(ApplyUpstreamRead(store, p)) = Entities(store)
  BY PayloadAssumption DEF Entities, Entity, ApplyUpstreamRead, Store

---------------------------------------------------------------------------
(* What a client will have seen, message by message *)

\* h is what others see of a store while it is given messages, e first.
Chain(h, e, messages) ==
    /\ h \in [0..Len(messages) -> EntityStore]
    /\ h[0] = e
    /\ \A i \in 1..Len(messages) : h[i] = ApplyDownstream(h[i - 1], messages[i])

\* The last message of a chain comes last.
LEMMA ChainOfMore ==
    ASSUME NEW messages \in Seq(Down), NEW m \in Down, NEW e, NEW h,
           Chain(h, e, Append(messages, m))
    PROVE  \E g : /\ Chain(g, e, messages)
                  /\ g[Len(messages)] \in EntityStore
                  /\ h[Len(Append(messages, m))] = ApplyDownstream(g[Len(messages)], m)
  <1> DEFINE n == Len(messages)
             more == Append(messages, m)
             g == [i \in 0..n |-> h[i]]
  <1>1. /\ n \in Nat /\ Len(more) = n + 1 /\ more[n + 1] = m
        /\ \A i \in 1..n : more[i] = messages[i]
    OBVIOUS
  <1> HIDE DEF n, more
  <1>2. /\ h \in [0..(n + 1) -> EntityStore] /\ h[0] = e
        /\ \A i \in 1..(n + 1) : h[i] = ApplyDownstream(h[i - 1], more[i])
    BY <1>1 DEF Chain, more
  <1>3. g \in [0..n -> EntityStore] /\ g[0] = e
    BY <1>1, <1>2
  <1>4. ASSUME NEW i \in 1..n PROVE g[i] = ApplyDownstream(g[i - 1], messages[i])
    <2>1. g[i] = h[i] /\ g[i - 1] = h[i - 1] /\ i \in 1..(n + 1)
      BY <1>1
    <2> QED BY <1>1, <1>2, <2>1
  <1>5. g[n] = h[n] /\ g[n] \in EntityStore
    BY <1>1, <1>3
  <1>6. h[n + 1] = ApplyDownstream(h[n], m)
    <2>1. n + 1 \in 1..(n + 1) /\ n + 1 - 1 = n
      BY <1>1
    <2> QED BY <1>1, <1>2, <2>1
  <1>7. Chain(g, e, messages)
    BY <1>3, <1>4 DEF Chain, n
  <1> HIDE DEF g
  <1> QED BY <1>1, <1>5, <1>6, <1>7 DEF n, more

\* The first message of a chain comes first.
LEMMA ChainOfRest ==
    ASSUME NEW messages \in Seq(Down), messages # <<>>, NEW e \in EntityStore, NEW h,
           Chain(h, ApplyDownstream(e, Head(messages)), Tail(messages))
    PROVE  \E g : Chain(g, e, messages) /\ g[Len(messages)] = h[Len(Tail(messages))]
  <1> DEFINE n == Len(Tail(messages))
             rest == Tail(messages)
             g == [i \in 0..(n + 1) |-> IF i = 0 THEN e ELSE h[i - 1]]
  <1>1. /\ n \in Nat /\ Len(messages) = n + 1
        /\ \A i \in 1..n : rest[i] = messages[i + 1]
        /\ Head(messages) = messages[1]
    OBVIOUS
  <1>2. /\ h \in [0..n -> EntityStore] /\ h[0] = ApplyDownstream(e, messages[1])
        /\ \A i \in 1..n : h[i] = ApplyDownstream(h[i - 1], rest[i])
    BY <1>1 DEF Chain
  <1> HIDE DEF n, rest
  <1>3. g \in [0..(n + 1) -> EntityStore] /\ g[0] = e
    BY <1>1, <1>2
  <1>4. ASSUME NEW i \in 1..(n + 1) PROVE g[i] = ApplyDownstream(g[i - 1], messages[i])
    <2>1. CASE i = 1
      <3>1. g[1] = h[0] /\ g[0] = e
        BY <1>1
      <3> QED BY <1>2, <2>1, <3>1
    <2>2. CASE i # 1
      <3>1. i - 1 \in 1..n /\ g[i] = h[i - 1] /\ g[i - 1] = h[i - 1 - 1] /\ i - 1 + 1 = i
        BY <1>1, <2>2
      <3>2. rest[i - 1] = messages[i]
        BY <1>1, <3>1
      <3> QED BY <1>2, <3>1, <3>2
    <2> QED BY <2>1, <2>2
  <1>5. g[n + 1] = h[n]
    BY <1>1
  <1>6. Chain(g, e, messages)
    BY <1>1, <1>3, <1>4 DEF Chain
  <1> HIDE DEF g
  <1> QED BY <1>1, <1>5, <1>6 DEF n

\* The function in the definition of Settled.
After(f, store, messages, n) ==
    f = [i \in 0..n |-> IF i = 0 THEN store ELSE ApplyDownstream(f[i - 1], messages[i])]

\* There is such a function for any number of messages.
LEMMA AfterExists ==
    ASSUME NEW store, NEW messages
    PROVE  \A n \in Nat : \E f : After(f, store, messages, n)
  <1> DEFINE T == {n \in Nat : \E f : After(f, store, messages, n)}
  <1>1. 0 \in T
    <2> DEFINE f == [i \in 0..0 |-> store]
    <2>1. After(f, store, messages, 0)
      BY SMT DEF After
    <2> QED BY <2>1
  <1>2. ASSUME NEW n \in Nat, n \in T PROVE n + 1 \in T
    <2>1. PICK f : After(f, store, messages, n)
      BY <1>2
    <2> DEFINE last == ApplyDownstream(f[n], messages[n + 1])
               g == [i \in 0..(n + 1) |-> IF i = n + 1 THEN last ELSE f[i]]
    <2>2. \A i \in 0..n : f[i] = IF i = 0 THEN store ELSE ApplyDownstream(f[i - 1], messages[i])
      BY <2>1, Zenon DEF After
    <2>3. \A i \in 0..(n + 1) :
             g[i] = IF i = 0 THEN store ELSE ApplyDownstream(g[i - 1], messages[i])
      BY <2>2, SMT
    <2>4. After(g, store, messages, n + 1)
      BY <2>3, SMT DEF After
    <2> QED BY <2>4
  <1> QED BY <1>1, <1>2, EveryNat

\* What others see of the client's store while it reads is a chain.
LEMMA SettledIsAChain ==
    ASSUME NEW c \in Client, client_store[c] \in Store, down[c] \in Seq(Down)
    PROVE  \E h : /\ Chain(h, Entities(client_store[c]), down[c])
                  /\ \A p \in Path : h[Len(down[c])][p] = Entity(Settled(c), p)
  <1> DEFINE n == Len(down[c])
             f == CHOOSE f : After(f, client_store[c], down[c], n)
             h == [i \in 0..n |-> Entities(f[i])]
  <1>1. n \in Nat /\ \A i \in 1..n : down[c][i] \in Down
    OBVIOUS
  <1>2. After(f, client_store[c], down[c], n)
    BY <1>1, AfterExists
  <1>3. Settled(c) = f[n]
    BY Zenon DEF Settled, After
  <1> HIDE DEF f, n
  <1>4. \A i \in 0..n :
           f[i] = IF i = 0 THEN client_store[c] ELSE ApplyDownstream(f[i - 1], down[c][i])
    BY <1>2, Zenon DEF After
  <1>5. \A i \in 0..n : f[i] \in Store
    <2> DEFINE T == {i \in Nat : i \in 0..n => f[i] \in Store}
    <2>1. 0 \in T
      BY <1>1, <1>4
    <2>2. ASSUME NEW i \in Nat, i \in T PROVE i + 1 \in T
      <3>1. CASE i + 1 \in 0..n
        <4>1. i \in 0..n /\ i + 1 \in 1..n /\ i + 1 - 1 = i /\ i + 1 # 0
          BY <1>1, <3>1
        <4>2. f[i + 1] = ApplyDownstream(f[i], down[c][i + 1])
          BY <1>4, <3>1, <4>1
        <4>3. f[i] \in Store
          BY <2>2, <4>1
        <4> QED BY <1>1, <4>1, <4>2, <4>3, DownstreamStep
      <3> QED BY <3>1
    <2>3. Nat \subseteq T
      <3> HIDE DEF T
      <3> QED BY <2>1, <2>2, EveryNat
    <2> QED BY <1>1, <2>3
  <1>6. h \in [0..n -> EntityStore] /\ h[0] = Entities(client_store[c])
    BY <1>1, <1>4, EntitiesAreAStore
  <1>7. ASSUME NEW i \in 1..n PROVE h[i] = ApplyDownstream(h[i - 1], down[c][i])
    <2>1. i \in 0..n /\ i - 1 \in 0..n /\ i # 0
      BY <1>1
    <2>2. h[i] = Entities(f[i]) /\ h[i - 1] = Entities(f[i - 1])
      BY <2>1
    <2>3. f[i] = ApplyDownstream(f[i - 1], down[c][i]) /\ f[i - 1] \in Store
      BY <1>4, <1>5, <2>1
    <2> QED BY <1>1, <2>2, <2>3, EntitiesDownstream
  <1>8. \A p \in Path : h[n][p] = Entity(f[n], p)
    BY <1>1, EntitiesAreAStore
  <1>9. Chain(h, Entities(client_store[c]), down[c])
    BY <1>6, <1>7 DEF Chain, n
  <1> HIDE DEF h
  <1> QED BY <1>3, <1>8, <1>9 DEF n

---------------------------------------------------------------------------
(* Behind, never wrong *)

\* An entity that a client has, or will have, against the server's.
Agrees(c, entity, of_server) == entity = of_server \/ (c \notin FirstClients /\ entity = "absent")

CatchesUp(c) ==
    \A h : Chain(h, Entities(client_store[c]), down[c]) =>
        \A p \in Path : Agrees(c, h[Len(down[c])][p], Entity(server_store, p))

\* Before a connection is open.
NotOpen == {"connecting", "asking", "upgrading"}

\* A client that is registered catches up; one that is not has nothing.
Behind(c) ==
    /\ \A p \in Path : Entity(view[c], p) = Entity(client_store[c], p)
    /\ link[c] = "open" => c \in connections /\ CatchesUp(c)
    /\ link[c] \in NotOpen =>
         c \notin FirstClients /\ down[c] = <<>> /\ Entities(client_store[c]) = EmptyStore

\* The invariant: IInv gives the types of stores and messages.
RInv ==
    /\ IInv
    /\ view \in [Client -> Store]
    /\ link \in [Client -> NotOpen \cup {"open", "lost"}]
    /\ \A c \in Client : Behind(c)

\* Types of what a client has.
LEMMA RInvTypes ==
    ASSUME RInv, NEW c \in Client
    PROVE  /\ client_store[c] \in Store /\ view[c] \in Store /\ server_store \in Store
           /\ down[c] \in Seq(Down) /\ up[c] \in Seq(UpstreamMessage)
           /\ link[c] \in NotOpen \cup {"open", "lost"}
  BY DEF RInv, IInv, Types

\* Nobody has anything.
LEMMA InitBehind == Init => RInv
  <1> SUFFICES ASSUME Init PROVE RInv
    OBVIOUS
  <1>1. IInv /\ view \in [Client -> Store]
    BY InitStep, EmptyEntities DEF Init
  <1>2. ASSUME NEW c \in Client PROVE Behind(c)
    <2>1. /\ client_store[c] = EmptyStore /\ view[c] = EmptyStore /\ down[c] = <<>>
          /\ server_store = EmptyStore
          /\ link[c] = IF c \in FirstClients THEN "open" ELSE "connecting"
          /\ connections = FirstClients
      BY <1>2 DEF Init
    <2>2. Len(down[c]) = 0
      BY <2>1
    <2>3. \A p \in Path : Entity(server_store, p) = EmptyStore[p]
      BY <2>1, EmptyEntities, EntitiesAreAStore
    <2>4. CatchesUp(c)
      BY <2>1, <2>2, <2>3, EmptyEntities DEF CatchesUp, Chain, Agrees
    <2> QED BY <2>1, <2>4, EmptyEntities DEF Behind, NotOpen
  <1>3. link \in [Client -> NotOpen \cup {"open", "lost"}]
    BY DEF Init, NotOpen
  <1> QED BY <1>1, <1>2, <1>3 DEF RInv

\* Nothing happens to a client that others can see.
LEMMA BehindSame ==
    ASSUME RInv, NEW c \in Client, UNCHANGED <<server_store, view>>,
           Entities(client_store'[c]) = Entities(client_store[c]),
           UNCHANGED <<down[c], link[c]>>, c \in connections => c \in connections'
    PROVE  Behind(c)'
  <1>1. Behind(c)
    BY DEF RInv
  <1>2. \A p \in Path : Entity(client_store'[c], p) = Entity(client_store[c], p)
    BY EntitiesAreAStore
  <1>3. CatchesUp(c) => CatchesUp(c)'
    BY DEF CatchesUp
  <1> QED BY <1>1, <1>2, <1>3 DEF Behind

\* A client that has lost its connection keeps what it shows.
LEMMA BehindLost ==
    ASSUME RInv, NEW c \in Client, UNCHANGED <<view, client_store>>, link'[c] = "lost"
    PROVE  Behind(c)'
  BY DEF RInv, Behind, NotOpen

\* A message that goes to a client and changes the server's store alike.
LEMMA CatchesUpMore ==
    ASSUME NEW c \in Client, CatchesUp(c), UNCHANGED client_store,
           down[c] \in Seq(Down), NEW m \in Down, down'[c] = Append(down[c], m),
           \A e \in EntityStore :
              (\A p \in Path : Agrees(c, e[p], Entity(server_store, p))) =>
                  \A p \in Path : Agrees(c, ApplyDownstream(e, m)[p], Entity(server_store', p))
    PROVE  CatchesUp(c)'
  <1> SUFFICES ASSUME NEW h, Chain(h, Entities(client_store[c]), Append(down[c], m))
               PROVE  \A p \in Path :
                        Agrees(c, h[Len(Append(down[c], m))][p], Entity(server_store', p))
    BY DEF CatchesUp
  <1>1. PICK g : /\ Chain(g, Entities(client_store[c]), down[c])
                 /\ g[Len(down[c])] \in EntityStore
                 /\ h[Len(Append(down[c], m))] = ApplyDownstream(g[Len(down[c])], m)
    BY ChainOfMore
  <1>2. \A p \in Path : Agrees(c, g[Len(down[c])][p], Entity(server_store, p))
    BY <1>1 DEF CatchesUp
  <1> QED BY <1>1, <1>2

\* What the server does with a message that changes its store it does to all.
LEMMA PushAgrees ==
    ASSUME NEW c \in Client, server_store \in Store, NEW m \in Down, m.action # "read",
           server_store' = ApplyDownstream(server_store, m), NEW e \in EntityStore,
           \A p \in Path : Agrees(c, e[p], Entity(server_store, p))
    PROVE  \A p \in Path : Agrees(c, ApplyDownstream(e, m)[p], Entity(server_store', p))
  <1> TAKE p \in Path
  <1>1. Entity(server_store', p) = IF m.path # p THEN Entity(server_store, p)
                                   ELSE IF m.action = "delete" THEN "absent" ELSE m.payload
    BY DownstreamEntity
  <1>2. ApplyDownstream(e, m)[p] = IF m.path # p THEN e[p]
                                   ELSE IF m.action = "delete" THEN "absent" ELSE m.payload
    BY DownstreamOfEntities
  <1> QED BY <1>1, <1>2 DEF Agrees

\* An answer to a read changes nothing where there is something.
LEMMA ReadAgrees ==
    ASSUME NEW c \in Client, server_store \in Store, NEW m \in Down, m.action = "read",
           m.path \in Path, m.payload = Entity(server_store, m.path), m.payload \in Payload,
           \A p \in Path : Entity(server_store', p) = Entity(server_store, p),
           NEW e \in EntityStore,
           \A p \in Path : Agrees(c, e[p], Entity(server_store, p))
    PROVE  \A p \in Path : Agrees(c, ApplyDownstream(e, m)[p], Entity(server_store', p))
  <1> TAKE p \in Path
  <1>1. ApplyDownstream(e, m)[p] = IF m.path # p THEN e[p]
                                   ELSE IF e[p] \in Payload THEN e[p] ELSE m.payload
    BY DownstreamOfEntities
  <1> QED BY <1>1 DEF Agrees

\* What the server sends about its store it sends to every client that is open.
LEMMA BroadcastBehind ==
    ASSUME RInv, NEW c \in Client, NEW m \in Down, Broadcast(c, m),
           UNCHANGED <<connections, link, client_store, view>>,
           \A d \in Client : \A e \in EntityStore :
              (\A p \in Path : Agrees(d, e[p], Entity(server_store, p))) =>
                  \A p \in Path : Agrees(d, ApplyDownstream(e, m)[p], Entity(server_store', p))
    PROVE  \A d \in Client : Behind(d)'
  <1> TAKE d \in Client
  <1>1. Behind(d) /\ down[d] \in Seq(Down) /\ link[d] \in NotOpen \cup {"open", "lost"}
    BY RInvTypes DEF RInv
  <1>2. CASE link[d] = "open"
    <2>1. d \in connections /\ CatchesUp(d) /\ link'[d] \notin NotOpen
      BY <1>1, <1>2 DEF Behind, NotOpen
    <2>2. down'[d] = Append(down[d], m)
      BY <1>2, <2>1 DEF Broadcast
    <2>3. CatchesUp(d)'
      BY <1>1, <2>1, <2>2, CatchesUpMore
    <2> QED BY <1>1, <2>1, <2>3 DEF Behind
  <1>3. CASE link[d] \in NotOpen
    <2>1. down'[d] = down[d] /\ link'[d] # "open"
      BY <1>3 DEF Broadcast, NotOpen
    <2> QED BY <1>1, <2>1 DEF Behind
  <1>4. CASE link[d] = "lost"
    BY <1>4, BehindLost
  <1> QED BY <1>1, <1>2, <1>3, <1>4

\* Whatever the server makes of a message, those that hear of it stay only
\* behind: an update or a delete does the same to each store, and an answer to a
\* read says what the server has.
LEMMA ServerReadsBehind ==
    ASSUME RInv, NEW c \in Client, ServerReads(c)
    PROVE  \A d \in Client : Behind(d)'
  <1> DEFINE m == Head(up[c])
  <1>1. m \in UpstreamMessage /\ key \in Nat
    <2>1. up[c] \in Seq(UpstreamMessage) /\ up[c] # <<>> BY RInvTypes DEF ServerReads
    <2> QED BY <2>1, TailKeeps DEF RInv, IInv, Types
  <1>2. /\ \/ m.action = "create" /\ EchoCreate(c, m)
           \/ Echo(c, m)
           \/ AnswerRead(c, m)
        /\ UNCHANGED <<connections, link, client_store, view>>
    BY DEF ServerReads
  <1>3. server_store \in Store
    BY RInvTypes
  <1> HIDE DEF m
  <1>4. ASSUME NEW n \in Down, n.action # "read", PushDownstream(c, n)
        PROVE  \A d \in Client : Behind(d)'
    <2>1. server_store' = ApplyDownstream(server_store, n) /\ Broadcast(c, n)
      BY <1>4 DEF PushDownstream
    <2>2. \A d \in Client : \A e \in EntityStore :
              (\A p \in Path : Agrees(d, e[p], Entity(server_store, p))) =>
                  \A p \in Path : Agrees(d, ApplyDownstream(e, n)[p], Entity(server_store', p))
      BY <1>3, <1>4, <2>1, PushAgrees
    <2> QED BY <1>2, <1>4, <2>1, <2>2, BroadcastBehind
  <1>5. CASE m.action = "create" /\ EchoCreate(c, m)
    <2> DEFINE n == [action |-> "create", path |-> make_unique_key, payload |-> m.payload]
    <2>1. n \in Down /\ n.action # "read"
      BY <1>1, <1>5, DownIsMessage DEF Down, make_unique_key
    <2>2. PushDownstream(c, n)
      BY <1>5 DEF EchoCreate
    <2> HIDE DEF n
    <2> QED BY <1>4, <2>1, <2>2
  <1>6. CASE Echo(c, m)
    <2>1. m.action \in {"update", "delete"} /\ PushDownstream(c, m)
      BY <1>6 DEF Echo
    <2>2. m \in Down
      BY <1>1, <2>1, ClientAssumption DEF UpstreamMessage, Down, Path
    <2> QED BY <1>4, <2>1, <2>2
  <1>7. CASE AnswerRead(c, m)
    <2>1. m.path \in Path /\ m.path \in Nat
      BY <1>1, <1>7, DownIsMessage DEF AnswerRead
    <2>2. server_store' = ApplyUpstreamRead(server_store, m.path)
      BY <1>7 DEF AnswerRead
    <2>3. Entities(server_store') = Entities(server_store)
      BY <1>3, <2>1, <2>2, EntitiesUpstream
    <2>4. \A p \in Path : Entity(server_store', p) = Entity(server_store, p)
      BY <2>3, EntitiesAreAStore
    <2>5. CASE server_store[m.path] \in Payload
      <3> DEFINE n == [action |-> "read", path |-> m.path, payload |-> server_store[m.path]]
      <3>1. /\ n \in Down /\ n.action = "read" /\ n.path \in Path /\ n.payload \in Payload
            /\ n.payload = Entity(server_store, n.path)
        BY <2>1, <2>5 DEF Down, Entity
      <3>2. Broadcast(c, n)
        BY <1>7, <2>5 DEF AnswerRead
      <3> HIDE DEF n
      <3>3. \A d \in Client : \A e \in EntityStore :
              (\A p \in Path : Agrees(d, e[p], Entity(server_store, p))) =>
                  \A p \in Path : Agrees(d, ApplyDownstream(e, n)[p], Entity(server_store', p))
        BY <1>3, <2>4, <3>1, ReadAgrees
      <3> QED BY <1>2, <3>1, <3>2, <3>3, BroadcastBehind
    <2>6. CASE server_store[m.path] \notin Payload
      <3>1. UNCHANGED down
        BY <1>7, <2>6 DEF AnswerRead
      <3>2. TAKE d \in Client
      <3>3. CatchesUp(d) => CatchesUp(d)'
        BY <1>2, <2>4, <3>1 DEF CatchesUp
      <3> QED BY <1>2, <3>1, <3>3 DEF RInv, Behind
    <2> QED BY <2>5, <2>6
  <1> QED BY <1>2, <1>5, <1>6, <1>7

\* A client takes the first step of its chain, and shows what that changes.
LEMMA ClientReadsBehind ==
    ASSUME RInv, NEW c \in Client, ClientReads(c)
    PROVE  /\ view' \in [Client -> Store]
           /\ \A d \in Client : Behind(d)'
  <1> DEFINE m == Head(down[c])
             store == ApplyDownstream(client_store[c], m)
  <1>1. down[c] \in Seq(Down) /\ down[c] # <<>> /\ m \in Down /\ link[c] = "open"
    <2>1. down[c] \in Seq(Down) /\ down[c] # <<>> /\ link[c] = "open"
      BY RInvTypes DEF ClientReads
    <2> QED BY <2>1, TailKeeps
  <1>2. /\ client_store' = [client_store EXCEPT ![c] = store]
        /\ view' = IF DidStateChange(client_store[c], m)
                   THEN [view EXCEPT ![c][m.path] = store[m.path]] ELSE view
        /\ down' = [down EXCEPT ![c] = Tail(@)]
        /\ UNCHANGED <<server_store, connections, link>>
    BY DEF ClientReads
  <1>3. client_store[c] \in Store /\ view[c] \in Store /\ Behind(c) /\ CatchesUp(c) /\ c \in connections
    BY <1>1, RInvTypes DEF RInv, Behind
  <1>4. client_store \in [Client -> Store] /\ view \in [Client -> Store] /\ down \in [Client -> Seq(Down)]
    BY DEF RInv, IInv, Types
  <1> HIDE DEF m
  <1>5. store \in Store /\ (\A p \in Path : p # m.path => store[p] = client_store[c][p])
    BY <1>1, <1>3, DownstreamStep
  <1>6. ~ DidStateChange(client_store[c], m) => store = client_store[c]
    BY DEF DidStateChange, ApplyDownstream
  <1> HIDE DEF store
  <1>7. client_store'[c] = store /\ down'[c] = Tail(down[c])
    BY <1>2, <1>4
  <1>8. /\ view' \in [Client -> Store] /\ (\A d \in Client : d # c => view'[d] = view[d])
        /\ \A p \in Path : view'[c][p] = IF p = m.path /\ DidStateChange(client_store[c], m)
                                         THEN store[p] ELSE view[c][p]
    <2>1. CASE DidStateChange(client_store[c], m) /\ m.path \in Path
      <3>1. store[m.path] \in Payload \cup {"absent", "unresolved"}
        BY <1>5, <2>1 DEF Store
      <3>2. [view[c] EXCEPT ![m.path] = store[m.path]] \in Store
        BY <1>3, <3>1 DEF Store
      <3>3. view' = [view EXCEPT ![c] = [view[c] EXCEPT ![m.path] = store[m.path]]]
        BY <1>2, <2>1
      <3>4. \A p \in Path : [view[c] EXCEPT ![m.path] = store[m.path]][p]
                              = IF p = m.path THEN store[p] ELSE view[c][p]
        BY <1>3 DEF Store
      <3> QED BY <1>4, <2>1, <3>2, <3>3, <3>4
    <2>2. CASE DidStateChange(client_store[c], m) /\ m.path \notin Path
      <3>1. [view[c] EXCEPT ![m.path] = store[m.path]] = view[c]
        BY <1>3, <2>2 DEF Store
      <3>2. view' = [view EXCEPT ![c] = [view[c] EXCEPT ![m.path] = store[m.path]]]
        BY <1>2, <2>2
      <3>3. view' = view
        BY <1>4, <3>1, <3>2
      <3> QED BY <1>4, <2>2, <3>3
    <2>3. CASE ~ DidStateChange(client_store[c], m)
      BY <1>2, <1>4, <2>3
    <2> QED BY <2>1, <2>2, <2>3
  <1>9. ASSUME NEW d \in Client, d # c PROVE Behind(d)'
    <2>1. /\ client_store'[d] = client_store[d] /\ view'[d] = view[d] /\ down'[d] = down[d]
          /\ Behind(d)
      BY <1>2, <1>4, <1>8, <1>9 DEF RInv
    <2>2. CatchesUp(d) => CatchesUp(d)'
      BY <1>2, <2>1 DEF CatchesUp
    <2> QED BY <1>2, <2>1, <2>2 DEF Behind
  <1>10. \A p \in Path : Entity(view'[c], p) = Entity(client_store'[c], p)
    <2> TAKE p \in Path
    <2>1. Entity(view[c], p) = Entity(client_store[c], p)
      BY <1>3 DEF Behind
    <2>2. CASE p = m.path /\ DidStateChange(client_store[c], m)
      BY <1>7, <1>8, <2>2 DEF Entity
    <2>3. CASE ~ (p = m.path /\ DidStateChange(client_store[c], m))
      <3>1. store[p] = client_store[c][p]
        BY <1>5, <1>6, <2>3
      <3> QED BY <1>7, <1>8, <2>1, <2>3, <3>1 DEF Entity
    <2> QED BY <2>2, <2>3
  <1>11. CatchesUp(c)'
    <2> SUFFICES ASSUME NEW h, Chain(h, Entities(store), Tail(down[c]))
                 PROVE  \A p \in Path : Agrees(c, h[Len(Tail(down[c]))][p], Entity(server_store, p))
      BY <1>2, <1>7 DEF CatchesUp
    <2> DEFINE e == Entities(client_store[c])
    <2>1. e \in EntityStore
      BY EntitiesAreAStore
    <2>2. Entities(store) = ApplyDownstream(e, m)
      BY <1>1, <1>3, EntitiesDownstream DEF store
    <2> HIDE DEF e
    <2>3. Chain(h, ApplyDownstream(e, Head(down[c])), Tail(down[c]))
      BY <2>2 DEF m
    <2>4. PICK g : Chain(g, e, down[c]) /\ g[Len(down[c])] = h[Len(Tail(down[c]))]
      BY <1>1, <2>1, <2>3, ChainOfRest
    <2>5. \A p \in Path : Agrees(c, g[Len(down[c])][p], Entity(server_store, p))
      BY <1>3, <2>4 DEF CatchesUp, e
    <2> QED BY <2>4, <2>5
  <1>12. Behind(c)'
    BY <1>1, <1>2, <1>3, <1>10, <1>11 DEF Behind, NotOpen
  <1> QED BY <1>8, <1>9, <1>12

\* A client that is registered late has seen nothing.
LEMMA OpenBehind ==
    ASSUME RInv, NEW c \in Client, Open(c)
    PROVE  \A d \in Client : Behind(d)'
  <1>1. /\ link[c] = "upgrading" /\ link' = [link EXCEPT ![c] = "open"]
        /\ connections' = connections \cup {c}
        /\ UNCHANGED <<server_store, client_store, view, down>>
    BY DEF Open, unrelated
  <1>2. link \in [Client -> NotOpen \cup {"open", "lost"}]
    BY DEF RInv
  <1>3. ASSUME NEW d \in Client, d # c PROVE Behind(d)'
    <2>1. link'[d] = link[d]
      BY <1>1, <1>2, <1>3
    <2> QED BY <1>1, <2>1, BehindSame
  <1>4. /\ c \notin FirstClients /\ down[c] = <<>> /\ Entities(client_store[c]) = EmptyStore
        /\ \A p \in Path : Entity(view[c], p) = Entity(client_store[c], p)
    BY <1>1 DEF RInv, Behind, NotOpen
  <1>5. CatchesUp(c)'
    <2>1. Len(down[c]) = 0
      BY <1>4
    <2>2. \A p \in Path : EmptyStore[p] = "absent"
      BY DEF EmptyStore
    <2> QED BY <1>1, <1>4, <2>1, <2>2 DEF CatchesUp, Chain, Agrees
  <1>6. link'[c] = "open" /\ c \in connections'
    BY <1>1, <1>2
  <1>7. Behind(c)'
    BY <1>1, <1>4, <1>5, <1>6 DEF Behind, NotOpen
  <1> QED BY <1>3, <1>7

\* Every step leaves each client behind at most.
LEMMA BehindStep == RInv /\ [Next]_vars => RInv'
  <1> SUFFICES ASSUME RInv, [Next]_vars PROVE RInv' OBVIOUS
  <1>1. IInv'
    BY NextStep DEF RInv
  <1>2. link \in [Client -> NotOpen \cup {"open", "lost"}] /\ view \in [Client -> Store]
    BY DEF RInv
  <1> SUFFICES /\ view' \in [Client -> Store]
               /\ link' \in [Client -> NotOpen \cup {"open", "lost"}]
               /\ \A d \in Client : Behind(d)'
    BY <1>1 DEF RInv
  <1>3. CASE UNCHANGED vars
    <2>1. UNCHANGED <<server_store, connections, link, client_store, view, down>>
      BY <1>3 DEF vars
    <2> QED BY <1>2, <2>1, BehindSame
  <1>4. ASSUME NEW c \in Client, Push(c)
        PROVE  /\ UNCHANGED <<server_store, connections, link, view, down>>
               /\ \A d \in Client : Entities(client_store'[d]) = Entities(client_store[d])
    <2>1. ASSUME NEW m, PushChange(c, m)
          PROVE  UNCHANGED <<server_store, connections, link, view, down, client_store>>
      BY <2>1 DEF PushChange
    <2>2. ASSUME NEW p \in Path, PushRead(c, p)
          PROVE  /\ UNCHANGED <<server_store, connections, link, view, down>>
                 /\ \A d \in Client : Entities(client_store'[d]) = Entities(client_store[d])
      <3>1. /\ UNCHANGED <<server_store, connections, link, view, down>>
            /\ \/ UNCHANGED client_store
               \/ client_store' = [client_store EXCEPT ![c] = ApplyUpstreamRead(@, p)]
        BY <2>2 DEF PushRead
      <3>2. client_store \in [Client -> Store]
        BY DEF RInv, IInv, Types
      <3>3. Entities(ApplyUpstreamRead(client_store[c], p)) = Entities(client_store[c])
        BY <3>2, EntitiesUpstream
      <3> QED BY <3>1, <3>2, <3>3
    <2> QED BY <1>4, <2>1, <2>2 DEF Push
  <1>5. ASSUME NEW c \in Client, Push(c) PROVE \A d \in Client : Behind(d)'
    BY <1>4, <1>5, BehindSame
  <1>6. ASSUME NEW c \in Client, Accept(c) \/ ParseRequest(c)
        PROVE  /\ link' \in [Client -> NotOpen \cup {"open", "lost"}]
               /\ UNCHANGED view /\ \A d \in Client : Behind(d)'
    <2>1. /\ UNCHANGED <<server_store, connections, client_store, view, down>>
          /\ link[c] \in NotOpen /\ \E x \in NotOpen : link' = [link EXCEPT ![c] = x]
      BY <1>6 DEF Accept, ParseRequest, unrelated, NotOpen
    <2>2. ASSUME NEW d \in Client PROVE Behind(d)'
      <3>1. link'[d] = link[d] \/ (link[d] \in NotOpen /\ link'[d] \in NotOpen)
        BY <1>2, <2>1
      <3>2. CASE link'[d] = link[d]
        BY <2>1, <3>2, BehindSame
      <3>3. CASE link[d] \in NotOpen /\ link'[d] \in NotOpen
        BY <2>1, <3>3 DEF RInv, Behind, NotOpen
      <3> QED BY <3>1, <3>2, <3>3
    <2> QED BY <1>2, <2>1, <2>2
  <1>7. ASSUME NEW c \in Client, Open(c) PROVE link' \in [Client -> NotOpen \cup {"open", "lost"}] /\ UNCHANGED view
    BY <1>2, <1>7 DEF Open, unrelated
  <1>8. ASSUME NEW c \in Client, HandshakeFails(c) \/ Unregister(c)
        PROVE  UNCHANGED <<link, view>> /\ \A d \in Client : Behind(d)'
    <2>1. /\ UNCHANGED <<server_store, link, client_store, view, down>>
          /\ UNCHANGED connections \/ (connections' = connections \ {c} /\ link[c] = "lost")
      BY <1>8 DEF HandshakeFails, Unregister, unrelated
    <2>2. ASSUME NEW d \in Client PROVE Behind(d)'
      <3>1. CASE link[d] = "lost"
        BY <2>1, <3>1, BehindLost
      <3>2. CASE link[d] # "lost"
        BY <2>1, <3>2, BehindSame
      <3> QED BY <3>1, <3>2
    <2> QED BY <2>1, <2>2
  <1>9. ASSUME NEW c \in Client, Break(c)
        PROVE  /\ link' \in [Client -> NotOpen \cup {"open", "lost"}]
               /\ UNCHANGED view /\ \A d \in Client : Behind(d)'
    <2>1. /\ UNCHANGED <<server_store, connections, client_store, view>>
          /\ link' = [link EXCEPT ![c] = "lost"] /\ down' = [down EXCEPT ![c] = <<>>]
      BY <1>9 DEF Break
    <2>2. down \in [Client -> Seq(Down)]
      BY DEF RInv, IInv, Types
    <2>3. ASSUME NEW d \in Client PROVE Behind(d)'
      <3>1. CASE d = c
        <4>1. link'[d] = "lost"
          BY <1>2, <2>1, <3>1
        <4> QED BY <2>1, <4>1, BehindLost
      <3>2. CASE d # c
        <4>1. link'[d] = link[d] /\ down'[d] = down[d]
          BY <1>2, <2>1, <2>2, <3>2
        <4> QED BY <2>1, <4>1, BehindSame
      <3> QED BY <3>1, <3>2
    <2> QED BY <1>2, <2>1, <2>3
  <1>10. ASSUME NEW c \in Client, ClientReads(c) \/ ServerReads(c)
         PROVE  UNCHANGED link
    BY <1>10 DEF ClientReads, ServerReads
  <1>11. ASSUME NEW c \in Client, ServerReads(c) PROVE UNCHANGED view
    BY <1>11 DEF ServerReads
  <1> QED
    BY <1>2, <1>3, <1>4, <1>5, <1>6, <1>7, <1>8, <1>9, <1>10, <1>11,
       ClientReadsBehind, ServerReadsBehind, OpenBehind DEF Next

(* A client is never wrong, only behind: with what is on its way applied, each
   entity it has is the server's, those registered from the start have all of
   them, and state consumers show what the stores hold (app/server.hpp). *)
THEOREM ClientsAreOnlyBehind == Spec => []Replicated
  <1>1. RInv => Replicated
    <2> SUFFICES ASSUME RInv, NEW c \in Client, link[c] = "open", NEW p \in Path
                 PROVE  \/ Entity(Settled(c), p) = Entity(server_store, p)
                        \/ c \notin FirstClients /\ Entity(Settled(c), p) = "absent"
      BY DEF Replicated, RInv, Behind
    <2>1. PICK h : /\ Chain(h, Entities(client_store[c]), down[c])
                   /\ \A q \in Path : h[Len(down[c])][q] = Entity(Settled(c), q)
      BY RInvTypes, SettledIsAChain
    <2>2. CatchesUp(c)
      BY DEF RInv, Behind
    <2> QED BY <2>1, <2>2 DEF CatchesUp, Agrees
  <1> QED BY <1>1, InitBehind, BehindStep, PTL DEF Spec
=============================================================================

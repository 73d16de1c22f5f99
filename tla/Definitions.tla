----------------------------- MODULE Definitions -----------------------------
(***************************************************************************)
(* What nbdl_def::builder makes of the definition of a context: a tree of  *)
(* directives is turned into access points, and these into the types of    *)
(* the messages, the lookup of the producer a message is for, and that of  *)
(* the stores that listen to it.  A directive has a tag and children, or   *)
(* a value.                                                                *)
(***************************************************************************)
LOCAL INSTANCE Integers
LOCAL INSTANCE Sequences
LOCAL INSTANCE SequencesExt
LOCAL INSTANCE FiniteSetsExt

Directive(tag, children) == [tag |-> tag, children |-> children]
DirectiveLeaf(tag, value) == [tag |-> tag, value |-> value]

contains(children, tag) == \E i \in DOMAIN children : children[i].tag = tag
find(children, tag) == children[SelectInSeq(children, LAMBDA d : d.tag = tag)]
value_or(children, tag, default) == IF contains(children, tag) THEN find(children, tag).value ELSE default
unpack(children, tag) == IF contains(children, tag) THEN find(children, tag).children ELSE <<>>

null_store == "null_store"

---------------------------------------------------------------------------
(* Access points and producers. *)

\* (bug: an access point that is only a store is left out)
has_actions_NoStore(children) == unpack(children, "Actions") # <<>>

\* It has actions or a store.
has_actions(children) ==
    \/ unpack(children, "Actions") # <<>>
    \/ value_or(children, "Store", null_store) # null_store

make_access_point_meta(path, children) ==
    IF ~has_actions(children) THEN <<>>
    ELSE LET store == value_or(children, "Store", null_store)
         IN  <<[name |-> value_or(children, "Name", "void"),
                actions |-> [i \in DOMAIN unpack(children, "Actions") |-> unpack(children, "Actions")[i].tag],
                store |-> store,
                entity |-> value_or(children, "Entity", store),
                path |-> path,
                listen_paths |-> value_or(children, "ListenPaths", <<>>)]>>

RECURSIVE helper(_, _)
\* Depth first, in the order of the definition.
helper(path, def) ==
    LET Each(p, defs) == FlattenSeq([i \in DOMAIN defs |-> helper(p, defs[i])])
        IsNode == "children" \in DOMAIN def
    IN  CASE def.tag = "AccessPoint" ->
                LET new_path == Append(path, find(def.children, "PathKey").value)
                IN  make_access_point_meta(new_path, def.children) \o Each(new_path, def.children)
          [] def.tag = "AccessPoints" -> Each(path, def.children)
          [] def.tag \notin {"AccessPoint", "AccessPoints"} ->
                CASE IsNode /\ contains(def.children, "AccessPoints") ->
                        helper(path, find(def.children, "AccessPoints"))
                  [] IsNode /\ ~contains(def.children, "AccessPoints") /\ contains(def.children, "AccessPoint") ->
                        helper(path, find(def.children, "AccessPoint"))
                  [] OTHER -> <<>>
enumerate_access_points(def) == helper(<<>>, def)

\* Producer or Producers, and Consumer, Consumers or none.
Definitions(def, one, several) ==
    CASE contains(def.children, several) -> unpack(def.children, several)
      [] ~contains(def.children, several) /\ contains(def.children, one) -> <<find(def.children, one)>>
      [] OTHER -> <<>>
enumerate_producers(def) ==
    LET defs == Definitions(def, "Producer", "Producers")
    IN  [i \in DOMAIN defs |->
            [producer |-> find(defs[i].children, "Type").value,
             name |-> value_or(defs[i].children, "Name", find(defs[i].children, "Type").value),
             access_points |-> enumerate_access_points(defs[i])]]
enumerate_consumers(def) ==
    LET defs == Definitions(def, "Consumer", "Consumers")
    IN  [i \in DOMAIN defs |->
            [consumer |-> find(defs[i].children, "Type").value,
             name |-> value_or(defs[i].children, "Name", find(defs[i].children, "Type").value)]]

---------------------------------------------------------------------------
(* The actors: producers before consumers, each known by its place, from 0 on. *)

producer_keys(producer) ==
    Append([i \in DOMAIN producer.access_points |-> producer.access_points[i].path], <<producer.name>>)
\* From a path to the place of the one producer that has it.
producer_lookup(producers) ==
    LET Keys == UNION {ToSet(producer_keys(producers[i])) : i \in DOMAIN producers}
    IN  [key \in Keys |-> (CHOOSE i \in DOMAIN producers : Contains(producer_keys(producers[i]), key)) - 1]
actor_tags(producers, consumers) ==
    [i \in DOMAIN producers |-> producers[i].producer] \o [i \in DOMAIN consumers |-> consumers[i].consumer]

AccessPoints(producers) == FlattenSeq([i \in DOMAIN producers |-> producers[i].access_points])

store_map(access_points) ==
    [path \in {access_points[i].path : i \in DOMAIN access_points} |->
        LET i == SelectInSeq(access_points, LAMBDA a : a.path = path)
        IN  [store |-> access_points[i].store, entity |-> access_points[i].entity]]

\* From a key to the values it is paired with, in order.
group_by(pairs) ==
    [key \in {pairs[i][1] : i \in DOMAIN pairs} |->
        LET group == SelectSeq(pairs, LAMBDA p : p[1] = key) IN [i \in DOMAIN group |-> group[i][2]]]

\* From a path to the paths of the stores that listen to it.
listener_lookup(access_points) ==
    group_by(FlattenSeq([i \in DOMAIN access_points |->
        [j \in DOMAIN access_points[i].listen_paths |->
            <<access_points[i].listen_paths[j], access_points[i].path>>]]))

---------------------------------------------------------------------------
(* The types of the messages. *)

MessageType(channel, action, path, payload) ==
    [channel |-> channel, action |-> action, path |-> path, payload |-> payload]
no_impl == "no_impl"

\* The path of a create is a create_path, whose type get_path_type turns into this
\* one again (Messages).
make_upstream_messages(action, path, payload) ==
    <<MessageType("upstream", action, path, IF action \in {"create", "update"} THEN payload ELSE no_impl)>>
make_downstream_messages(action, path, payload) ==
    CASE action \in {"create", "update"} -> <<MessageType("downstream", action, path, payload)>>
      [] action = "delete" -> <<MessageType("downstream", action, path, no_impl)>>
      [] action = "read" -> <<MessageType("downstream", action, path, payload),
                              MessageType("downstream", action, path, "not_found")>>
entity_messages(access_point) ==
    LET Of(Make(_, _, _)) == FlattenSeq([i \in DOMAIN access_point.actions |->
                                Make(access_point.actions[i], access_point.path, access_point.entity)])
    IN  Of(make_upstream_messages) \o Of(make_downstream_messages)
make_message_api(access_points) ==
    LET all == FlattenSeq([i \in DOMAIN access_points |-> entity_messages(access_points[i])])
    IN  [upstream_types |-> SelectSeq(all, LAMBDA m : m.channel = "upstream"),
         downstream_types |-> SelectSeq(all, LAMBDA m : m.channel = "downstream")]

\* What is sent is a variant of the message of the system and these: unresolved is
\* 0, the message of the system is 1.
variant_index(types, m) == SelectInSeq(types, LAMBDA t : t = m) + 1

context_meta(def) ==
    LET producers == enumerate_producers(def)
        consumers == enumerate_consumers(def)
        points == AccessPoints(producers)
    IN  [producer_lookup |-> producer_lookup(producers),
         actor_tags |-> actor_tags(producers, consumers),
         store_map |-> store_map(points),
         listener_lookup |-> listener_lookup(points),
         message_api |-> make_message_api(points)]

---------------------------------------------------------------------------
(* A definition as an outline: one line for each producer, of depth 0, and for
   each access point below, whose key is the number of its line. *)

IsOutline(lines) == \A i \in DOMAIN lines : lines[i].depth \in 0..(IF i = 1 THEN 0 ELSE lines[i - 1].depth + 1)
ChildrenOf(lines, n) ==   \* the lines one deeper than line n, up to the next that is not
    {i \in n + 1..Len(lines) : /\ lines[i].depth = lines[n].depth + 1
                               /\ \A j \in n + 1..i : lines[j].depth > lines[n].depth}
RECURSIVE PathTo(_, _)
PathTo(lines, n) ==
    IF lines[n].depth = 0 THEN <<>>
    ELSE Append(PathTo(lines, Max({i \in 1..n - 1 : lines[i].depth = lines[n].depth - 1})), n)
InOrder(n, set) == SelectSeq([i \in 1..n |-> i], LAMBDA i : i \in set)
ListensTo(lines, n) == IF lines[n].listens THEN <<<<2>>>> ELSE <<>>
RECURSIVE PointOf(_, _)
PointOf(lines, n) ==
    LET children == InOrder(Len(lines), ChildrenOf(lines, n))
        points == [i \in DOMAIN children |-> PointOf(lines, children[i])]
        nested == IF Len(points) = 1 THEN points
                  ELSE <<Directive("AccessPoints", points)>>
        actions == Directive("Actions",
                       [i \in DOMAIN lines[n].actions |-> Directive(lines[n].actions[i], <<>>)])
    IN  IF lines[n].depth = 0
        THEN Directive("Producer", <<DirectiveLeaf("Type", n)>> \o nested)
        ELSE Directive("AccessPoint",
                 <<DirectiveLeaf("PathKey", n), actions>> \o nested
                 \o (IF lines[n].store # null_store
                     THEN <<DirectiveLeaf("Store", lines[n].store)>> ELSE <<>>)
                 \o (IF lines[n].listens THEN <<DirectiveLeaf("ListenPaths", ListensTo(lines, n))>> ELSE <<>>))
ContextOf(lines) ==
    LET producers == InOrder(Len(lines), {i \in DOMAIN lines : lines[i].depth = 0})
        defs == [i \in DOMAIN producers |-> PointOf(lines, producers[i])]
    IN  context_meta(Directive("Context",
            IF Len(defs) = 1 THEN defs ELSE <<Directive("Producers", defs)>>))
=============================================================================

---------------------------- MODULE Algorithms ----------------------------
(***************************************************************************)
(* The parts of the library that are functions, each given every input up  *)
(* to a length: a behaviour types one input token by token.  What an input *)
(* is for is chosen in the beginning.                                      *)
(***************************************************************************)
EXTENDS Texts, Integers, Sequences, FiniteSets, SequencesExt, FiniteSetsExt

Sha1 == INSTANCE Sha1
AcceptToken == INSTANCE AcceptToken
Binders == INSTANCE Binders WITH Width <- 3
Definitions == INSTANCE Definitions
UiSpec == INSTANCE UiSpec
Sql == INSTANCE Sql

\* A path's description begins with a get in a store; only a map has keys to go on
\* with after a match_when, and keys are looked up in what a match_when found.
IsDescription(steps) ==
    \A i \in DOMAIN steps :
        LET whens == {j \in 1..i - 1 : steps[j].step = "when"}
        IN  /\ ("store" \in DOMAIN steps[i]) <=> i = 1
            /\ steps[i].step = "when" => i - 1 \notin whens
            /\ i > 1 /\ steps[i].step = "get" => \A k \in DOMAIN steps[i].keys :
                  /\ \A j \in whens : steps[j].type = "map"
                  /\ steps[i].keys[k].key = "at" => whens # {}
IsInput(tokens) ==
    CASE kind = "definitions" -> Definitions!IsOutline(tokens)
      [] kind = "paths" -> IsDescription(tokens)
      [] kind \notin {"definitions", "paths"} -> TRUE

Init == TextInit
Input == Type /\ IsInput(text')
Spec == Init /\ [][Input]_texts

---------------------------------------------------------------------------
(* A message hashed in pieces, however they meet the blocks of 64 bytes, has the
   digest the standard gives the whole of it; and the server's answer to the
   client's key is the one the client waits for (update, finish). *)
ChunksOf(sizes) == [i \in DOMAIN sizes |-> [j \in 1..sizes[i] |-> (37 * j + 11 * i) % 256]]
DigestIsStandard ==
    kind = "chunks" =>
        /\ Sha1!DigestOf(ChunksOf(text)) = Sha1!Standard(FlattenSeq(ChunksOf(text)))
        /\ text = <<>> => AcceptToken!ClientIsReady(
                              AcceptToken!generate_accept_token(AcceptToken!sample_key))

(* A message comes back as it was, whichever binder wrote it and whichever reads
   it, unless it holds one of the things that are lost between these two, and then
   it does not; and where nothing is lost on any way both write the same document.
   So a browser's request is read by the server as it was made (binder/jsoncpp.hpp,
   binder/js.hpp, serializer.hpp). *)
Binder == {"native", "js"}
ComesBack(s, message) ==
    LET Holds(what) == Binders!Has(what, s, message)
    IN  /\ \A writer, reader \in Binder :
             LET document == Binders!serialize(writer, s, message)
             IN  (Binders!deserialize(reader, s, document) = <<message>>)
                   <=> ~\E what \in Binders!Kinds :
                          Holds(what) /\ Binders!Lost(what, writer, reader)
        /\ (~\E what \in Binders!Kinds : Holds(what)) =>
             Binders!serialize("native", s, message) = Binders!serialize("js", s, message)
MessagesComeBack ==
    /\ kind = "messages" /\ text # <<>> /\ text[1].value[1] # 0 =>
         ComesBack(text[1].schema, text[1].value)
    /\ kind = "requests" /\ text # <<>> =>
         LET m == Requested(text[1], text[1].private)
             schema == Binders!Variant(<<Messages!Schema(m)>>)
             value == <<1, Messages!Value(m)>>
         IN  Binders!deserialize("native", schema, Binders!serialize("js", schema, value)) = <<value>>

(* The text of a definition is the program's interface: the index of a request is
   its place in the text whatever the nesting is, so that definitions that go on
   where another ends agree with it; and a request's path leads to the producer it
   was defined under, to its store, and to the stores that listen, in order
   (nbdl_def::builder::context). *)
IndexIsPlace ==
    kind = "definitions" /\ text # <<>> =>
        LET meta == Definitions!ContextOf(text)
            Points == {i \in DOMAIN text : text[i].depth > 0 /\ (text[i].actions # <<>> \/ text[i].store # Definitions!null_store)}
            points == Definitions!InOrder(Len(text), Points)
            upstream == FlattenSeq([k \in DOMAIN points |->
                            [a \in DOMAIN text[points[k]].actions |->
                                <<text[points[k]].actions[a], Definitions!PathTo(text, points[k])>>]])
            api == meta.message_api
        IN  /\ [k \in DOMAIN api.upstream_types |-> <<api.upstream_types[k].action, api.upstream_types[k].path>>]
                 = upstream
            /\ \A i \in Points :
                 /\ Definitions!PathTo(text, i) \in DOMAIN meta.store_map
                 /\ meta.producer_lookup[Definitions!PathTo(text, i)]
                      = Cardinality({j \in 1..i : text[j].depth = 0}) - 1
                 /\ meta.store_map[Definitions!PathTo(text, i)].store = text[i].store
            /\ (\E i \in Points : text[i].listens) =>
                 meta.listener_lookup[<<2>>]
                   = LET all == Definitions!InOrder(Len(text), {i \in Points : text[i].listens})
                     IN  [k \in DOMAIN all |-> Definitions!PathTo(text, all[k])]
            /\ Len(text) > 1 =>
                 /\ IsPrefix(Definitions!ContextOf(Front(text)).message_api.upstream_types, api.upstream_types)
                 /\ IsPrefix(Definitions!ContextOf(Front(text)).message_api.downstream_types, api.downstream_types)

(* A path that a user interface is described with finds the value that its steps
   lead to one after the other, or nothing where a match_when says so, however many
   there are and whatever their keys are; the nodes that it is compiled to, kept
   from the inside out and resolved by three, do not show (ui_spec.hpp,
   match_path_spec.hpp, match_params_spec.hpp). *)
PathsAreFollowed ==
    kind = "paths" /\ text # <<>> =>
        LET store == text[1].store
            meaning == UiSpec!Meaning(text, store)
            path == UiSpec!Path(text)
        IN  /\ UiSpec!match_path_spec(store, path) = (IF meaning = UiSpec!None THEN <<>> ELSE <<meaning>>)
            /\ Last(text).step = "get" => \A T \in {"string", "map"} :
                  UiSpec!match_path_spec_predicate(T, path, store) = (UiSpec!TypeOf(meaning) = T)

(* What was inserted is what is selected by its key, however many entities of the
   same type it has and in whichever order a compiler inserts these; each row of a
   container belongs to what has the container; and an update changes the row of
   its key (sql_db/insert.hpp, select.hpp, table_alias_list.hpp). *)
RowsComeBack ==
    kind = "rows" => \A backwards \in BOOLEAN :
        LET made == Sql!InsertAll(text, backwards)
            Selected(i) == Sql!select(made.db, text[i].type,
                                <<<<Sql!select_primary_key_name(text[i].type), made.ids[i]>>>>)
            RowsOf(m, key) == SelectSeq(made.db[m.type.of.name],
                                LAMBDA r : key[1] \in DOMAIN r /\ r[key[1]] = key[2])
        IN  /\ \A i \in DOMAIN text :
                 LET T == text[i].type
                     multi == Sql!members_multirow(T)
                 IN  /\ Sql!members_child(T) # <<>> =>
                          /\ Len(Selected(i)) = 1
                          /\ ToSet(Selected(i)[1]) = Sql!Leaves(T, text[i].value, <<T.name>>)
                     /\ \A k \in DOMAIN multi :
                          LET rows == RowsOf(multi[k], <<Sql!table_key_name(T), made.ids[i]>>)
                          IN  [j \in DOMAIN rows |-> [foo_value |-> rows[j].foo_value]]
                                = text[i].value[multi[k].name]
            /\ \A id \in DOMAIN made.db["foo"] :
                 Sql!update(made.db, Sql!Foo, [foo_value |-> 9], <<<<"foo_id", id>>>>)
                   = [made.db EXCEPT !["foo"][id].foo_value = 9]
===========================================================================

------------------------------- MODULE UiSpec -------------------------------
(***************************************************************************)
(* The paths that a user interface is described with (ui_spec.hpp), and    *)
(* how they are resolved in a store (ui_helper.hpp, ui_helper/, match.hpp, *)
(* match_path.hpp).  What a description evaluates to is a list of nodes,   *)
(* innermost last; resolving it calls a function with the values it names, *)
(* and here returns them as a sequence.                                    *)
(*                                                                         *)
(* A value is a pair of its type and what it holds.  A variant holds a     *)
(* value; a record, with keys known when it is compiled, and an            *)
(* unordered_map hold values by key.                                       *)
(***************************************************************************)
LOCAL INSTANCE Naturals
LOCAL INSTANCE Sequences
LOCAL INSTANCE SequencesExt
LOCAL INSTANCE FiniteSetsExt

TypeOf(v) == v[1]
IsStore(v) == TypeOf(v) \in {"variant", "record", "map"}
not_in_set == <<"not_in_set", 0>>

---------------------------------------------------------------------------
(* Building a path *)

get_t(params) == [node |-> "get_t", params |-> params]
match_type(T, params) == [node |-> "match_type", type |-> T, params |-> params]

\* More keys for a get, or a get of what was matched.
make_path(path, keys) ==
    IF path[1].node = "get_t" THEN <<[path[1] EXCEPT !.params = @ \o keys]>> \o Tail(path)
    ELSE <<get_t(keys)>> \o path

make_path_match_type(T, path) == <<match_type(T, path[1].params)>> \o Tail(path)

get(keys) == <<get_t(keys)>>
match_when(T, path) == make_path_match_type(T, path)

Const(v) == [param |-> "value", value |-> v]
PathParam(path) == [param |-> "path", path |-> path]
key_at(path) == [param |-> "key_at", path |-> path]
concat(params) == [param |-> "concat", params |-> params]
apply(fn, params) == [param |-> "apply", fn |-> fn, params |-> params]

\* A case is of a type or, when that is void, of all types; what it shows is a
\* parameter, or keys to go on with from the path that was matched.
when(T, spec) == [type |-> T, spec |-> spec]
make_when_pair(w, path) ==
    [type |-> w.type,
     spec |-> IF w.spec.param = "keys"
              THEN PathParam(make_path(make_path_match_type(w.type, path), w.spec.keys))
              ELSE w.spec]
match(path, whens) ==
    [param |-> "branch", by |-> "match", path |-> path,
     cases |-> [i \in DOMAIN whens |-> make_when_pair(whens[i], path)]]

\* A condition is a value to be equal to or, for otherwise, "always".
cond(pred, spec) == [pred |-> pred, spec |-> spec]
otherwise(spec) == cond(<<"always", 0>>, spec)
equal(x, y) == x = y
make_cond_pair(w, path) ==
    [pred |-> w.pred,
     spec |-> IF w.spec.param = "keys" THEN PathParam(make_path(path, w.spec.keys)) ELSE w.spec]
match_if(path, whens) ==
    [param |-> "branch", by |-> "match_if", path |-> path,
     cases |-> [i \in DOMAIN whens |-> make_cond_pair(whens[i], path)]]

RECURSIVE flatten_param_node(_)
\* Concatenations are made part of the list, at any depth, and key_at is a path.
flatten_param_node(p) ==
    LET Flat(params) == FlattenSeq([i \in DOMAIN params |-> flatten_param_node(params[i])])
    IN  CASE p.param = "concat" -> Flat(p.params)
          [] p.param = "branch" ->
                <<[p EXCEPT !.cases = [i \in DOMAIN @ |->
                     [@[i] EXCEPT !.spec = concat(flatten_param_node(@))]]]>>
          [] p.param = "apply" -> <<[p EXCEPT !.params = Flat(@)]>>
          [] p.param = "key_at" -> <<PathParam(p.path)>>
          [] p.param \in {"value", "path"} -> <<p>>

---------------------------------------------------------------------------
(* Matching values *)

RECURSIVE match_value(_)
\* match(store): a variant gives what it holds, other stores themselves.
match_value(v) == IF TypeOf(v) = "variant" THEN match_value(v[2]) ELSE v

RECURSIVE match_key(_, _)
\* match(store, key): a variant asks the store it holds; if it is none, the key
\* is ignored.
match_key(s, key) ==
    CASE TypeOf(s) = "variant" -> IF IsStore(s[2]) THEN match_key(s[2], key) ELSE s[2]
      [] TypeOf(s) = "record" -> s[2][key]
      [] TypeOf(s) = "map" -> IF key \in DOMAIN s[2] THEN match_value(s[2][key]) ELSE not_in_set

RECURSIVE match_path(_, _)
\* At a value that is no store the rest of the path is ignored.
match_path(s, path) ==
    IF path = <<>> THEN match_value(s)
    ELSE LET v == match_key(s, Head(path))
         IN  IF IsStore(v) THEN match_path(v, Tail(path)) ELSE v

\* The function that is applied in the tests puts a letter behind a string.
Applied(fn, args) == <<"string", Append(args[1][2], fn)>>

\* match_if: the first predicate that holds rejects, with its place.
match_if_index(cases, v) ==
    Min({i \in DOMAIN cases : cases[i].pred[1] = "always" \/ equal(cases[i].pred, v)})

\* The type's place or the default's, whichever comes first.
TypeIndex(cases, T) == Min({i \in DOMAIN cases : cases[i].type \in {T, "void"}})

RECURSIVE match_path_spec(_, _), match_params_spec(_, _), path_impl(_, _)

\* The first of the branch's list of cases that accepts what is at its path, if
\* there is anything.
match_branch(store, b) ==
    LET found == match_path_spec(store, b.path)
        index(v) == IF b.by = "match" THEN TypeIndex(b.cases, TypeOf(v)) ELSE match_if_index(b.cases, v)
    IN  [i \in DOMAIN found |-> b.cases[index(found[i])].spec]

\* What a parameter of a flat list adds to the arguments: lists of values.
match_param_spec_impl(store, p) ==
    CASE p.param = "value" -> <<<<p.value>>>>
      [] p.param = "path" ->
            LET found == match_path_spec(store, p.path) IN [i \in DOMAIN found |-> <<found[i]>>]
      [] p.param = "apply" ->
            LET found == match_params_spec(store, p.params)
            IN  [i \in DOMAIN found |-> <<Applied(p.fn, found[i])>>]
      [] p.param = "branch" ->
            LET specs == match_branch(store, p)
            IN  FlattenSeq([i \in DOMAIN specs |-> match_params_spec(store, <<specs[i]>>)])

\* fold_right of the continuations: the arguments are appended one by one, and
\* nothing is called if a path among them has no value.
match_params_spec(store, params) ==
    FoldLeft(LAMBDA lists, p :
                LET more == match_param_spec_impl(store, p)
                IN  FlattenSeq([i \in DOMAIN lists |-> [j \in DOMAIN more |-> lists[i] \o more[j]]]),
             <<<<>>>>,
             FlattenSeq([i \in DOMAIN params |-> flatten_param_node(params[i])]))

\* The keys of a node are looked up in the store that the node is applied to.
path_node_match(node, store) ==
    LET keys == match_params_spec(store, node.params)
        found == [i \in DOMAIN keys |-> match_path(store, keys[i])]
    IN  IF node.node = "match_type"
        THEN SelectSeq(found, LAMBDA v : TypeOf(v) = node.type)
        ELSE found

Through(stores, node) ==
    FlattenSeq([i \in DOMAIN stores |-> path_node_match(node, stores[i])])

\* (bug: as far as the third node)
path_impl_Three(nodes, store) ==
    FoldLeft(Through, <<store>>, SubSeq(nodes, 1, IF Len(nodes) > 3 THEN 3 ELSE Len(nodes)))

\* By three nodes at a time.
path_impl(nodes, store) ==
    IF Len(nodes) < 3 THEN FoldLeft(Through, <<store>>, nodes)
    ELSE LET found == FoldLeft(Through, <<store>>, SubSeq(nodes, 1, 3))
         IN  FlattenSeq([i \in DOMAIN found |-> path_impl(SubSeq(nodes, 4, Len(nodes)), found[i])])

match_path_spec(store, path) == path_impl(Reverse(path), store)

match_path_spec_predicate(T, path, store) ==
    match_path_spec(store, <<match_type(T, <<>>)>> \o path) # <<>>

---------------------------------------------------------------------------
(* A description as it is written: steps from the outside in, each a get of
   some keys or a match_when of a type.  Its nodes, and its meaning without them:
   a get looks its keys up one by one, through variants, until there is no store
   any more, and a match_when goes on only if the value has the type; keys are
   values, other descriptions read where the last match_when ended, what is
   applied to such values, or the first case that fits. *)
RECURSIVE Path(_), Param(_)
Path(steps) ==
    LET last == steps[Len(steps)]
        Params(keys) == [i \in DOMAIN keys |-> Param(keys[i])]
    IN  CASE Len(steps) = 1 -> get(Params(last.keys))
          [] Len(steps) > 1 /\ last.step = "get" -> make_path(Path(Front(steps)), Params(last.keys))
          [] Len(steps) > 1 /\ last.step = "when" -> match_when(last.type, Path(Front(steps)))
Param(k) ==
    CASE k.key = "value" -> Const(k.value)
      [] k.key = "at" -> key_at(Path(k.steps))
      [] k.key = "both" -> concat([i \in DOMAIN k.keys |-> Param(k.keys[i])])
      [] k.key = "apply" -> apply(k.fn, <<Param(k.of)>>)
      [] k.key = "match" ->
            match(Path(k.steps), [i \in DOMAIN k.cases |->
                when(k.cases[i][1],
                     IF k.cases[i][2].key = "keys" THEN [param |-> "keys", keys |-> <<>>]
                     ELSE Param(k.cases[i][2]))])
      [] k.key = "match_if" ->
            match_if(Path(k.steps), <<cond(k.equals, Param(k.then)), otherwise(Param(k.else))>>)

Inner(v) == match_value(v)
Look(v, key) ==
    LET s == Inner(v)
    IN  CASE ~IsStore(s) -> s
          [] TypeOf(s) = "record" -> s[2][key]
          [] TypeOf(s) = "map" -> IF key \in DOMAIN s[2] THEN s[2][key] ELSE not_in_set

None == <<"none", 0>>
RECURSIVE Meaning(_, _), Keys(_, _)
Meaning(steps, root) ==
    LET Step(at, s) ==
            CASE at.value = None -> at
              [] at.value # None /\ s.step = "get" ->
                    LET keys == FlattenSeq([i \in DOMAIN s.keys |-> Keys(s.keys[i], at.base)])
                    IN  [at EXCEPT !.value = IF \E i \in DOMAIN keys : keys[i] = None THEN None
                                             ELSE FoldLeft(Look, @, keys)]
              [] at.value # None /\ s.step = "when" ->
                    LET v == IF TypeOf(Inner(at.value)) = s.type THEN Inner(at.value) ELSE None
                    IN  [value |-> v, base |-> v]
    IN  Inner(FoldLeft(Step, [value |-> root, base |-> root], steps).value)
Keys(k, store) ==
    CASE k.key = "value" -> <<k.value>>
      [] k.key = "at" -> <<Meaning(k.steps, store)>>
      [] k.key = "both" -> FlattenSeq([i \in DOMAIN k.keys |-> Keys(k.keys[i], store)])
      [] k.key = "apply" ->
            LET v == Keys(k.of, store)[1] IN <<IF v = None THEN None ELSE Applied(k.fn, <<v>>)>>
      [] k.key = "match" ->
            LET v == Meaning(k.steps, store)
                fits == {i \in DOMAIN k.cases : k.cases[i][1] \in {TypeOf(v), "void"}}
                case == k.cases[Min(fits)]
            IN  IF v = None THEN <<None>>
                ELSE IF case[2].key = "keys"
                THEN <<IF case[1] = "void" THEN None ELSE v>>  \* a default has no path
                ELSE Keys(case[2], store)
      [] k.key = "match_if" ->
            LET v == Meaning(k.steps, store)
            IN  IF v = None THEN <<None>>
                ELSE Keys(IF v = k.equals THEN k.then ELSE k.else, store)
=============================================================================

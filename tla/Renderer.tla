------------------------------ MODULE Renderer ------------------------------
(***************************************************************************)
(* webui: the renderer of a page and what it does to the document when it  *)
(* renders and when it is told that the state changed (webui/renderer.hpp, *)
(* webui/detail).  A spec is a tree of records; the renderer keeps it as a *)
(* flat list of actions, each with what it remembers between the calls.    *)
(*                                                                         *)
(* Data maps a key to a value [case, text], where the case is the type a   *)
(* match finds or the predicate that holds of it, or to a sequence of      *)
(* values.  A node of the document is named by the place of its action in  *)
(* the lists, with the number of the branch or of the row on the way.      *)
(***************************************************************************)
EXTENDS Naturals, Sequences, SequencesExt, FiniteSetsExt, TLC

Root == <<>>
Nowhere == <<0>>  \* the parent of a node that is not in a document
Unset == 0        \* branch_id before the first update

\* The documents and the renderers before anything is rendered.
Blank ==
    [nodes    |-> Root :> [name |-> "target", text |-> <<>>, facets |-> {},
                           kids |-> <<>>, parent |-> Nowhere],
     current  |-> Root,       \* what a render function is given and returns
     element  |-> <<>>,       \* el or parent_el of an action
     shown    |-> <<>>,       \* branch_id
     box      |-> <<>>,       \* node_containers
     listener |-> <<>>,       \* event_listener: its receiver, and the row
     heap     |-> {},         \* addresses of receivers that are allocated
     registry |-> {},         \* handles that nbdl_detail_json_val has
     threw    |-> FALSE]      \* a call into the document threw

---------------------------------------------------------------------------
(* Specs *)

\* flatten_spec, and flatten_branch_node, flatten_for_each_node and
\* flatten_text_node that it calls.
RECURSIVE flatten_spec(_)
flatten_spec(spec) ==
    CASE spec.tag = "element" ->
            <<[do |-> "begin", name |-> spec.name]>>
                \o FlattenSeq([i \in DOMAIN spec.kids |-> flatten_spec(spec.kids[i])])
                \o <<[do |-> "end"]>>
      [] spec.tag = "text_node" ->
            [i \in DOMAIN spec.params |-> [do |-> "text_node", param |-> spec.params[i]]]
      [] spec.tag = "attribute" ->
            <<[do |-> "attribute", name |-> spec.name, params |-> spec.params]>>
      [] spec.tag = "add_class" ->
            <<[do |-> "add_class", name |-> spec.name, key |-> spec.key, case |-> spec.case]>>
      [] spec.tag \in {"event_attribute", "hidden_file_input"} ->
            <<[do |-> spec.tag, param |-> spec.param]>>
      [] spec.tag = "branch" ->
            <<[do |-> "branch", key |-> spec.key,
               lists |-> [i \in DOMAIN spec.cases |-> flatten_spec(spec.cases[i])]]>>
      [] spec.tag = "for_each" ->
            <<[do |-> "for_each", key |-> spec.key, list |-> flatten_spec(spec.row)]>>
      [] spec.tag = "noop" -> <<>>

\* A store_iterator resolves its own key to the element it points to and asks
\* the store for all others.
At(data, row, key) == IF key = "row" THEN data[row.key][row.index] ELSE data[key]

\* match_path_spec: a path that ends with match_type resolves only if the
\* value has that type.
Resolves(data, row, param) ==
    param.get # "none" => (param.when # Unset => At(data, row, param.get).case = param.when)

TextOf(data, row, param) ==
    IF param.get = "none" THEN param.text ELSE At(data, row, param.get).text

\* params_concat: a parameter that does not resolve is empty.
params_concat(data, row, params) ==
    FlattenSeq([i \in DOMAIN params |->
        IF Resolves(data, row, params[i]) THEN TextOf(data, row, params[i]) ELSE <<>>])

get_branch_index(data, row, key) == At(data, row, key).case

---------------------------------------------------------------------------
(* The document *)

Node(name) == [name |-> name, text |-> <<>>, facets |-> {}, kids |-> <<>>, parent |-> Nowhere]
create(st, n, name) == [st EXCEPT !.nodes = (n :> Node(name)) @@ @]

Detach(st, n) ==
    LET p == st.nodes[n].parent
    IN  IF p = Nowhere THEN st
        ELSE [st EXCEPT !.nodes[p].kids = SelectSeq(@, LAMBDA k : k # n),
                        !.nodes[n].parent = Nowhere]

appendChild(st, p, n) ==
    [Detach(st, n) EXCEPT !.nodes[p].kids = Append(@, n), !.nodes[n].parent = p]

\* Throws if the node to replace is not there.
replaceChild(st, p, n, old) ==
    IF st.nodes[old].parent # p THEN [st EXCEPT !.threw = TRUE]
    ELSE LET s == Detach(st, n)
         IN  [s EXCEPT !.nodes[p].kids = [i \in DOMAIN @ |-> IF @[i] = old THEN n ELSE @[i]],
                       !.nodes[n].parent = p, !.nodes[old].parent = Nowhere]

\* innerHTML = ""
Clear(st, p) ==
    [st EXCEPT !.nodes = [n \in DOMAIN @ |->
        IF n = p THEN [@[n] EXCEPT !.kids = <<>>]
        ELSE IF @[n].parent = p THEN [@[n] EXCEPT !.parent = Nowhere] ELSE @[n]]]

setAttribute(st, n, name, value) ==
    [st EXCEPT !.nodes[n].facets = {f \in @ : f[1] # name} \cup {<<name, value>>}]

---------------------------------------------------------------------------
(* Receivers of events *)

\* A receiver is allocated; its js_vals have handles of their own.
make_event_receiver(st) ==
    LET a == Min((1..Cardinality(st.heap) + 1) \ st.heap)
    IN  [st EXCEPT !.heap = @ \cup {a}, !.registry = @ \cup {a}]

NewReceiver(st) == Min((1..Cardinality(st.heap) + 1) \ st.heap)

\* ~dom_event_listener and ~js_val
DestroyReceivers(st, addresses) ==
    [st EXCEPT !.heap = @ \ addresses, !.registry = @ \ addresses]

Below(st, n) == {m \in DOMAIN st.listener : IsPrefix(n, m)}
ReceiversBelow(st, n) == {st.listener[m].receiver : m \in Below(st, n)}

dom_event_listener(a, n, row, st) ==
    [make_event_receiver(st) EXCEPT
        !.listener = (n :> [receiver |-> NewReceiver(st), element |-> st.current,
                            row |-> row, param |-> a.param]) @@ @]

---------------------------------------------------------------------------
(* The actions *)

SetText(st, n, data, row, param) ==
    IF Resolves(data, row, param)
    THEN [st EXCEPT !.nodes[n].text = <<TextOf(data, row, param)>>] ELSE st

SetAttribute(st, a, n, data, row) ==
    setAttribute(st, st.element[n], a.name, params_concat(data, row, a.params))

SetClass(st, a, n, data, row) ==
    setAttribute(st, st.element[n], a.name, At(data, row, a.key).case = a.case)

\* (bug: the branch that is shown is not noted)
update_branch_Forgets(st, n, index) ==
    IF n \notin DOMAIN st.shown
    THEN [appendChild(st, st.element[n], st.box[Append(n, index)])
             EXCEPT !.shown = (n :> index) @@ @]
    ELSE IF index = st.shown[n] THEN st
    ELSE replaceChild(st, st.element[n], st.box[Append(n, index)], st.box[Append(n, st.shown[n])])

update_branch(st, n, index) ==
    IF n \notin DOMAIN st.shown
    THEN [appendChild(st, st.element[n], st.box[Append(n, index)])
             EXCEPT !.shown = (n :> index) @@ @]
    ELSE IF index = st.shown[n] THEN st
    ELSE [replaceChild(st, st.element[n], st.box[Append(n, index)], st.box[Append(n, st.shown[n])])
             EXCEPT !.shown[n] = index]

RECURSIVE render(_, _, _, _, _), RenderAction(_, _, _, _, _), update_rows(_, _, _, _)

\* renderer_impl::render: each action is given what the one before returned.
render(list, at, data, row, st) ==
    FoldLeftDomain(LAMBDA s, i : IF s.threw THEN s
                                 ELSE RenderAction(list[i], Append(at, i), data, row, s),
                   st, list)

\* A branch renders all its lists, each into a span for the time being, and
\* keeps the last node of each.
RenderBranch(a, n, data, row, st) ==
    LET span == Append(n, 0)
        s0 == [create(st, span, "span") EXCEPT !.element = (n :> st.current) @@ @,
                                               !.shown = [m \in DOMAIN @ \ {n} |-> @[m]]]
        all == FoldLeftDomain(
                 LAMBDA s, i :
                   LET r == render(a.lists[i], Append(n, i), data, row, [s EXCEPT !.current = span])
                   IN  [r EXCEPT !.box = (Append(n, i) :> Last(r.nodes[span].kids)) @@ @],
                 s0, a.lists)
    IN  update_branch([all EXCEPT !.current = st.current], n, get_branch_index(data, row, a.key))

RenderAction(a, n, data, row, st) ==
    CASE a.do = "begin" ->
            [appendChild(create(st, n, a.name), st.current, n) EXCEPT !.current = n]
      [] a.do = "end" -> [st EXCEPT !.current = st.nodes[st.current].parent]
      [] a.do = "text_node" ->
            SetText(appendChild(create(st, n, "text"), st.current, n), n, data, row, a.param)
      [] a.do = "attribute" ->
            SetAttribute([st EXCEPT !.element = (n :> st.current) @@ @], a, n, data, row)
      [] a.do = "add_class" ->
            SetClass([st EXCEPT !.element = (n :> st.current) @@ @], a, n, data, row)
      [] a.do = "event_attribute" -> dom_event_listener(a, n, row, st)
      [] a.do = "hidden_file_input" ->  \* a click on the element is handed on to the input
            LET s == appendChild(create(st, n, "input"), st.current, n)
            IN  [dom_event_listener(a, n, row, [s EXCEPT !.current = n]) EXCEPT
                    !.current = st.current]
      [] a.do = "branch" -> RenderBranch(a, n, data, row, st)
      [] a.do = "for_each" ->
            update_rows(a, n, data, [st EXCEPT !.element = (n :> st.current) @@ @])

\* (bug: the renderers of the rows are kept for good)
update_rows_Keeps(a, n, data, st) ==
    LET cleared == [Clear(st, st.element[n]) EXCEPT
                        !.listener = [m \in DOMAIN @ \ Below(st, n) |-> @[m]]]
        s == FoldLeftDomain(
                LAMBDA s, i : render(a.list, Append(n, i), data, [key |-> a.key, index |-> i],
                                     [s EXCEPT !.current = st.element[n]]),
                cleared, data[a.key])
    IN  [s EXCEPT !.current = st.current]

\* for_each: the element is emptied and the rows are rendered anew; their old
\* renderers and what they listened with are destroyed then.
update_rows(a, n, data, st) ==
    LET old == ReceiversBelow(st, n)
        cleared == [Clear(st, st.element[n]) EXCEPT
                        !.listener = [m \in DOMAIN @ \ Below(st, n) |-> @[m]]]
        s == FoldLeftDomain(
                LAMBDA s, i : render(a.list, Append(n, i), data, [key |-> a.key, index |-> i],
                                     [s EXCEPT !.current = st.element[n]]),
                cleared, data[a.key])
    IN  [DestroyReceivers(s, old) EXCEPT !.current = st.current]

RECURSIVE update(_, _, _, _, _)

UpdateAction(a, n, data, row, st) ==
    CASE a.do = "text_node" -> SetText(st, n, data, row, a.param)
      [] a.do = "attribute" -> SetAttribute(st, a, n, data, row)
      [] a.do = "add_class" -> SetClass(st, a, n, data, row)
      [] a.do = "branch" ->
            FoldLeftDomain(LAMBDA s, i : update(a.lists[i], Append(n, i), data, row, s),
                           update_branch(st, n, get_branch_index(data, row, a.key)), a.lists)
      [] a.do = "for_each" -> update_rows(a, n, data, st)
      [] OTHER -> st

\* renderer_impl::update, of the branches that are not shown too.
update(list, at, data, row, st) ==
    FoldLeftDomain(LAMBDA s, i : IF s.threw THEN s
                                 ELSE UpdateAction(list[i], Append(at, i), data, row, s),
                   st, list)

NoRow == [key |-> "none", index |-> 0]
Render(spec, data) == render(flatten_spec(spec), Root, data, NoRow, Blank)
Update(spec, data, st) == update(flatten_spec(spec), Root, data, NoRow, st)

---------------------------------------------------------------------------
(* What a spec means, and what the document shows *)

Facet(spec, data, row) ==
    IF spec.tag = "attribute" THEN {<<spec.name, params_concat(data, row, spec.params)>>}
    ELSE IF spec.tag = "add_class" THEN {<<spec.name, At(data, row, spec.key).case = spec.case>>}
    ELSE {}

RECURSIVE Page(_, _, _)
Page(spec, data, row) ==
    CASE spec.tag = "element" ->
            <<[name |-> spec.name, text |-> <<>>,
               facets |-> UNION {Facet(k, data, row) : k \in Range(spec.kids)},
               kids |-> FlattenSeq([i \in DOMAIN spec.kids |-> Page(spec.kids[i], data, row)])]>>
      [] spec.tag = "text_node" ->
            [i \in DOMAIN spec.params |->
                [name |-> "text", facets |-> {}, kids |-> <<>>,
                 text |-> <<TextOf(data, row, spec.params[i])>>]]
      [] spec.tag = "hidden_file_input" ->
            <<[name |-> "input", text |-> <<>>, facets |-> {}, kids |-> <<>>]>>
      [] spec.tag = "branch" -> Page(spec.cases[get_branch_index(data, row, spec.key)], data, row)
      [] spec.tag = "for_each" ->
            FlattenSeq([i \in DOMAIN data[spec.key] |->
                            Page(spec.row, data, [key |-> spec.key, index |-> i])])
      [] OTHER -> <<>>

RECURSIVE Tree(_, _)
Tree(st, n) ==
    LET x == st.nodes[n]
    IN  [name |-> x.name, text |-> x.text, facets |-> x.facets,
         kids |-> [i \in DOMAIN x.kids |-> Tree(st, x.kids[i])]]

RECURSIVE InPage(_, _)
InPage(st, n) == n = Root \/ (st.nodes[n].parent # Nowhere /\ InPage(st, st.nodes[n].parent))
=============================================================================

------------------------------- MODULE WebApp -------------------------------
(***************************************************************************)
(* A page of webui on a context with a nav_route: the renderer is a state  *)
(* consumer of the route and of two more stores, a list and what was       *)
(* clicked last, and its listeners send messages back into the context.    *)
(* A push, with all the updates it causes, is one call.                    *)
(***************************************************************************)
EXTENDS NavRoute, Renderer

CONSTANTS
    Pages,    \* the specs that are rendered
    Rows,     \* elements of the list
    MaxRows   \* bound on its length

VARIABLES
    page,     \* the spec of this page
    rows,     \* a std::vector in a store
    clicked,  \* the text of the row that was clicked last
    dom       \* the document and the renderer

webVars == <<page, rows, clicked, dom>>
allVars == <<vars, webVars>>

\* The types of the route variant, in the order of the route map.
RouteCase(r) ==
    LET names == SetToSortSeq(Names, LAMBDA a, b : Len(a) < Len(b) \/ (Len(a) = Len(b) /\ a # b))
    IN  IF r.name \in Names THEN CHOOSE i \in DOMAIN names : names[i] = r.name
                            ELSE Len(names) + 1

data == [route   |-> [case |-> RouteCase(route_store), text |-> string_store],
         rows    |-> rows,
         clicked |-> [case |-> 1, text |-> clicked]]

WebInit ==
    /\ Init
    /\ page \in Pages
    /\ rows = <<>>
    /\ clicked = <<>>
    /\ dom = Render(page, data)

\* notify_state_change
notify_state_change == \E d \in {data'} : dom' = Update(page, d, dom)

Navigate ==
    /\ \/ \E s \in Strings : SetString(s)
       \/ \E d \in {-1, 1} : PopState(d)
       \/ SetNotFound
    /\ UNCHANGED <<page, rows, clicked>>
    /\ notify_state_change

\* The list changes: elements are added or removed at any place, or replaced.
ChangeRows ==
    /\ \E rs \in BoundedSeq(Rows, MaxRows) : rs # rows /\ rows' = rs
    /\ UNCHANGED <<vars, page, clicked>>
    /\ notify_state_change

\* receive_event of a listener whose element is in the page: a link sets the
\* route that it is for, a row says which it is.
Click ==
    \E n \in DOMAIN dom.listener :
        LET l == dom.listener[n]
        IN  /\ InPage(dom, l.element)
            /\ l.receiver \in dom.registry
            /\ \/ /\ l.param.get = "none"
                  /\ SetRoute(l.param.text)
                  /\ UNCHANGED clicked
               \/ /\ l.param.get # "none"
                  /\ clicked' = TextOf(data, l.row, l.param)
                  /\ UNCHANGED vars
            /\ UNCHANGED <<page, rows>>
            /\ notify_state_change

WebNext == Navigate \/ ChangeRows \/ Click

WebSpec == WebInit /\ [][WebNext]_allVars

---------------------------------------------------------------------------
(* However often and in which order the stores change, the document shows
   what rendering the spec anew would show, and no call into the document
   throws, although only texts and attributes are set again, branches are
   exchanged for one another and lists are rebuilt (mut_action_fn). *)
DomIsCurrent ==
    /\ ~dom.threw
    /\ Tree(dom, Root).kids = Page(page, data, NoRow)

(* A listener in the page can be called: its receiver is alive and has its
   handles, no other has the same, and the row that it was made for is there
   and is the one whose text the click sends, also after elements before it
   have come or gone.  Receivers that nobody can call any more are gone. *)
ListenersAreLive ==
    /\ dom.heap = dom.registry
    /\ dom.heap = {dom.listener[n].receiver : n \in DOMAIN dom.listener}
    /\ \A n, m \in DOMAIN dom.listener :
         dom.listener[n].receiver = dom.listener[m].receiver => n = m
    /\ \A n \in DOMAIN dom.listener :
         LET l == dom.listener[n]
         IN  InPage(dom, l.element) /\ l.row # NoRow =>
                /\ l.row.index \in DOMAIN rows
                /\ l.param.get # "none" =>
                      \E k \in Range(dom.nodes[l.element].kids) :
                          dom.nodes[k].text = <<TextOf(data, l.row, l.param)>>
=============================================================================

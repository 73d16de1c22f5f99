------------------------------ MODULE NavRoute ------------------------------
(***************************************************************************)
(* webui/nav_route.hpp: the producer that keeps the browser's address and  *)
(* the context's two access points alike, (nav_route, string) with the     *)
(* address as it is and (nav_route) with the route that it spells.  Each   *)
(* action is one task of the browser: the messages a push causes, and what *)
(* the listening store makes of them, are calls within it.                 *)
(***************************************************************************)
EXTENDS RouteMap

CONSTANTS
    Prefix,          \* Module.NBDL_WEBUI_NAV_URI_PREFIX
    Strings,         \* strings that are sent to (nav_route, string)
    MaxHistory,      \* bound on the browser's entries
    PushStateFires   \* pushState calls onpopstate: tool/dom_test/index.js
                     \* does so, a browser does not

ASSUME NavRouteAssumption == MaxHistory \in Nat /\ PushStateFires \in BOOLEAN

ASSUME AddressesAreStrings ==
    /\ Prefix \in Seq(Char)
    /\ \A s \in Strings : s \in Seq(Char)

VARIABLES
    entries,       \* the addresses in the browser's history
    position,      \* the entry that is shown
    string_store,  \* context_store<string>
    route_store,   \* nav_route_store
    view,          \* what a state consumer read when it was last notified
    shown          \* history: the routes the user was shown, per entry

vars == <<entries, position, string_store, route_store, view, shown>>

pathname == entries[position]

\* window.location.pathname.slice(NBDL_WEBUI_NAV_URI_PREFIX.length)
slice(path) == SubSeq(path, Len(Prefix) + 1, Len(path))

\* (bug: the string's consumers are told, the listening store's are not)
NotifyBoth_OnlyString(string, route) == [view EXCEPT !.string = string]

\* The push of the downstream update notifies of (nav_route, string), the
\* listening store of (nav_route).
NotifyBoth(string, route) == [string |-> string, route |-> route]

\* receive_event and the push of the downstream update.
receive_event ==
    /\ string_store' = slice(pathname')
    /\ route_store' = from_string(string_store')
    /\ view' = NotifyBoth(string_store', route_store')

\* producer_init loads the store with the address the page was loaded from.
Init ==
    /\ \E r \in Routes : entries = <<Prefix \o to_string(r)>>
    /\ position = 1
    /\ string_store = slice(pathname)
    /\ route_store = from_string(string_store)
    /\ view = [string |-> string_store, route |-> route_store]
    /\ shown = <<route_store>>

---------------------------------------------------------------------------
Above(seq, x) == Append(SubSeq(seq, 1, position), x)

\* window.history.pushState: what was ahead is dropped.
web_route_update(string) ==
    /\ position < MaxHistory
    /\ entries' = Above(entries, Prefix \o string)
    /\ position' = position + 1

\* set_route, an upstream update of (nav_route).
SetRoute(r) ==
    /\ web_route_update(to_string(r))
    /\ shown' = Above(shown, r)
    /\ receive_event

\* An upstream update with route_not_found goes nowhere.
SetNotFound ==
    /\ UNCHANGED <<entries, position, shown>>
    /\ receive_event

\* An upstream update of (nav_route, string).
SetString(s) ==
    /\ web_route_update(s)
    /\ shown' = Above(shown, from_string(s))
    /\ IF PushStateFires THEN receive_event
                         ELSE UNCHANGED <<string_store, route_store, view>>

\* (bug: an address that came out of the history is put on top of it)
PopState_Pushes(d) ==
    /\ position + d \in DOMAIN entries
    /\ entries' = Above(entries, entries[position + d])
    /\ position' = position + 1
    /\ UNCHANGED shown
    /\ receive_event

\* The user goes back or ahead; the browser fires popstate.
PopState(d) ==
    /\ position + d \in DOMAIN entries
    /\ position' = position + d
    /\ UNCHANGED <<entries, shown>>
    /\ receive_event

\* The producer in any page: who calls set_route, sends a string or goes through
\* the history, and when, is not told.
NavNext ==
    \/ \E r \in Routes : SetRoute(r)
    \/ SetNotFound
    \/ \E s \in Strings : SetString(s)
    \/ \E d \in -MaxHistory..MaxHistory : PopState(d)

NavSpec == Init /\ [][NavNext]_vars

---------------------------------------------------------------------------
(* "Nav location is updated when browser changes location": whatever sequence
   of routes, strings and steps through the history, both stores say where the
   browser is, and so do the consumers of both, although only one of the two
   access points is ever pushed to (ListenPaths, apply_foreign_message). *)
StoresFollowLocation ==
    /\ string_store = slice(pathname)
    /\ route_store = from_string(string_store)
    /\ view = [string |-> string_store, route |-> route_store]

(* A route that is set takes the detour through the address bar and arrives with
   its parameters, and the history belongs to the user: a step back or ahead,
   however many routes were set in between, shows again what was shown there. *)
BackShowsTheSame == Len(shown) = Len(entries) /\ route_store = shown[position]
=============================================================================

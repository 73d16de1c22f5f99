------------------------------ MODULE MapStore ------------------------------
(***************************************************************************)
(* map_store.hpp: a store that keeps the entity at every path it has heard *)
(* of.  A store is a function of the paths; "absent" is a path without an  *)
(* element, "unresolved" the placeholder of one that was asked for.        *)
(***************************************************************************)
CONSTANTS Path, Payload

Store == [Path -> Payload \cup {"absent", "unresolved"}]

EmptyStore == [p \in Path |-> "absent"]

DownstreamMessage ==
    [action : {"create", "update", "read"}, path : Path, payload : Payload]
        \cup [action : {"delete"}, path : Path]

UpstreamMessage ==
    [action : {"create"}, payload : Payload]
        \cup [action : {"update"}, path : Path, payload : Payload]
        \cup [action : {"delete", "read"}, path : Path]

\* What somebody who looks up the path learns of the entity.
Entity(store, p) == IF store[p] \in Payload THEN store[p] ELSE "absent"

\* An upstream read leaves a placeholder; no other upstream message changes
\* the store.
ApplyUpstreamRead(store, p) ==
    IF store[p] = "absent" THEN [store EXCEPT ![p] = "unresolved"] ELSE store

\* map[path] makes an unresolved element where there is none, so a read is
\* stored unless there is an entity.
IsReadStored(store, p) == store[p] \in {"absent", "unresolved"}

\* (bug: map.emplace, which leaves an element that is there as it is)
ApplyDownstream_Emplace(store, m) ==
    CASE m.action = "delete" -> [store EXCEPT ![m.path] = "absent"]
      [] m.action # "delete" -> IF store[m.path] = "absent"
                                THEN [store EXCEPT ![m.path] = m.payload]
                                ELSE store

ApplyDownstream(store, m) ==
    CASE m.action \in {"create", "update"} -> [store EXCEPT ![m.path] = m.payload]
      [] m.action = "read" -> IF IsReadStored(store, m.path)
                              THEN [store EXCEPT ![m.path] = m.payload]
                              ELSE store
      [] m.action = "delete" -> [store EXCEPT ![m.path] = "absent"]

\* What apply_message returns: whether state consumers are notified.
DidStateChange(store, m) == m.action = "read" => IsReadStored(store, m.path)
=============================================================================

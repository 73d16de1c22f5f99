------------------------------ MODULE Messages ------------------------------
(***************************************************************************)
(* The messages of message.hpp: what each type stores, which of it an      *)
(* accessor gives, under which path the stores are asked, and how an       *)
(* answer is made from a request.  A member is its type, a schema of      *)
(* Binders, and its value; an absent one is no_impl.                       *)
(***************************************************************************)
EXTENDS Integers, Sequences, SequencesExt

Typed(type, value) == <<type, value>>
TypeOf(member) == member[1]
ValueOf(member) == member[2]
IsEmpty(type) == type.kind = "empty"
no_impl == Typed([kind |-> "empty"], <<>>)

---------------------------------------------------------------------------
(* Paths. *)

Types(members) == [i \in DOMAIN members |-> TypeOf(members[i])]
\* A path of no keys is an empty type.
PathType(types) == [kind |-> IF types = <<>> THEN "empty" ELSE "sequence", members |-> types]
PathOf(keys) == Typed(PathType(Types(keys)), [i \in DOMAIN keys |-> ValueOf(keys[i])])
append(path, key) == Typed(PathType(Append(TypeOf(path).members, TypeOf(key))), Append(ValueOf(path), ValueOf(key)))

\* The path of what does not exist yet: its parent's, and the type of its key.
make_create_path(key, parent) ==
    Typed([kind |-> "sequence", members |-> TypeOf(parent).members, key |-> key], ValueOf(parent))
IsCreatePath(path) == "key" \in DOMAIN TypeOf(path)
parent_path(path) == Typed(PathType(TypeOf(path).members), ValueOf(path))

\* The path type of a definition becomes that of its requests to create, unless
\* its last key is nothing but a name.
make_create_path_type(types) ==
    IF IsEmpty(Last(types)) THEN PathType(types)
    ELSE [kind |-> "sequence", members |-> Front(types), key |-> Last(types)]

\* A key is made from a value of its type, or of one of its alternatives.
IsKeyFor(key, member) ==
    \/ TypeOf(member) = key
    \/ key.kind = "variant" /\ Contains(key.members, TypeOf(member))
AsKey(key, member) ==
    Typed(key, IF TypeOf(member) = key THEN ValueOf(member)
               ELSE <<SelectInSeq(key.members, LAMBDA t : t = TypeOf(member)) - 1, ValueOf(member)>>)

---------------------------------------------------------------------------
(* Messages and their accessors. *)

Message(channel, action, members) == [channel |-> channel, action |-> action, storage |-> members]

make_upstream_create(path, uid, payload, private_payload) ==
    Message("upstream", "create", <<path, uid, payload, private_payload>>)
make_upstream_read(path, uid) == Message("upstream", "read", <<path, uid>>)
make_upstream_update(path, uid, payload) == Message("upstream", "update", <<path, uid, payload>>)
make_upstream_delete(path, uid) == Message("upstream", "delete", <<path, uid>>)
make_downstream_create(path, uid, payload, is_confirmed) ==
    Message("downstream", "create", <<path, uid, payload, is_confirmed>>)
make_downstream_read(path, uid, payload) == Message("downstream", "read", <<path, uid, payload>>)
make_downstream_update(path, uid, payload, is_confirmed) ==
    Message("downstream", "update", <<path, uid, payload, is_confirmed>>)
make_downstream_delete(path, uid, is_confirmed) ==
    Message("downstream", "delete", <<path, uid, is_confirmed>>)

is_upstream(m) == m.channel = "upstream"
is_create(m) == m.action = "create"

\* Where the accessors look, by the type of the message.
upstream_index(action) ==
    CASE action = "create" -> [path |-> 1, uid |-> 2, payload |-> 3, private_payload |-> 2]
      [] action = "update" -> [path |-> 1, uid |-> 2, payload |-> 3]
      [] OTHER -> [path |-> 1, uid |-> 2]
downstream_index(action) ==
    CASE action \in {"create", "update"} -> [path |-> 1, uid |-> 2, payload |-> 3, is_confirmed |-> 4]
      [] action = "delete" -> [path |-> 1, uid |-> 2, is_confirmed |-> 3]
      [] action = "read" -> [path |-> 1, uid |-> 2, payload |-> 3]
Has(m, member) ==
    LET index == IF is_upstream(m) THEN upstream_index(m.action) ELSE downstream_index(m.action)
    IN  member \in DOMAIN index /\ m.storage[index[member]] # no_impl
Get(m, member) ==
    m.storage[(IF is_upstream(m) THEN upstream_index(m.action) ELSE downstream_index(m.action))[member]]

get_path(m) == Get(m, "path")
has_uid(m) == Has(m, "uid")
get_uid(m) == IF has_uid(m) THEN Get(m, "uid") ELSE no_impl
get_payload(m) == Get(m, "payload")
is_confirmed(m) == Has(m, "is_confirmed") /\ ValueOf(Get(m, "is_confirmed"))

---------------------------------------------------------------------------
(* The path a store knows: of a create, once its key is known. *)

\* The key is the uid if it can hold one, or says nothing.
is_create_path_normalizable(m) ==
    LET path == get_path(m)
    IN  /\ IsCreatePath(path)
        /\ IF has_uid(m) THEN IsKeyFor(TypeOf(path).key, get_uid(m)) ELSE IsEmpty(TypeOf(path).key)

get_normalized_create_path(m) ==
    LET path == get_path(m)
    IN  append(parent_path(path),
               IF has_uid(m) THEN AsKey(TypeOf(path).key, get_uid(m)) ELSE Typed(TypeOf(path).key, <<>>))

requires_key_for_downstream(m) ==
    is_upstream(m) /\ IsCreatePath(get_path(m)) /\ ~is_create_path_normalizable(m)
is_path_normalizable(m) == ~(IsCreatePath(get_path(m)) /\ ~is_create_path_normalizable(m))
get_normalized_path(m) ==
    IF is_create(m) /\ is_create_path_normalizable(m) THEN get_normalized_create_path(m) ELSE get_path(m)

get_path_type(m) ==
    LET path == get_path(m)
    IN  CASE is_path_normalizable(m) -> TypeOf(get_normalized_path(m))
          [] ~is_path_normalizable(m) -> PathType(Append(TypeOf(path).members, TypeOf(path).key))

---------------------------------------------------------------------------
(* Answers. *)

no_is_confirmed == no_impl
Confirmed(b) == Typed([kind |-> "bool"], b)

\* For a create: only if no key is required.
to_downstream(m, confirmed) ==
    CASE is_create(m) -> make_downstream_create(get_path(m), get_uid(m), get_payload(m), confirmed)
      [] m.action = "update" -> make_downstream_update(get_path(m), get_uid(m), get_payload(m), confirmed)
      [] m.action = "delete" -> make_downstream_delete(get_path(m), get_uid(m), confirmed)

\* (bug: the key is not made one of the path's)
to_downstream_with_key_impl_Raw(m, key, confirmed) ==
    make_downstream_create(append(parent_path(get_path(m)), key), get_uid(m), get_payload(m), confirmed)

to_downstream_with_key_impl(m, key, confirmed) ==
    LET path == get_path(m)
    IN  make_downstream_create(append(parent_path(path), AsKey(TypeOf(path).key, key)),
                               get_uid(m), get_payload(m), confirmed)
to_downstream_with_key(m, key) == to_downstream_with_key_impl(m, key, no_is_confirmed)
to_downstream_with_key_confirmed(m, key) == to_downstream_with_key_impl(m, key, Confirmed(TRUE))

to_downstream_read(m, payload) == make_downstream_read(get_path(m), get_uid(m), payload)

\* A message is the sequence of its members to a binder.
Schema(m) == [kind |-> "sequence", members |-> Types(m.storage)]
Value(m) == [i \in DOMAIN m.storage |-> ValueOf(m.storage[i])]
=============================================================================

------------------------------ MODULE Binders ------------------------------
(***************************************************************************)
(* How messages become documents and documents messages: on a server by    *)
(* binder/jsoncpp.hpp, in a browser by binder/js.hpp, each reading what    *)
(* the other has written.  A schema is the type of a value: its kind, and  *)
(* its members or the type of its elements.  A document is a record with   *)
(* one field, named for the kind of JSON value.  Reading gives the set of  *)
(* what is read: nothing when the code throws.                             *)
(***************************************************************************)
LOCAL INSTANCE Integers
LOCAL INSTANCE Sequences
LOCAL INSTANCE SequencesExt

CONSTANT Width   \* bits of an integer, 32 in the code

Text == INSTANCE Base64

Scalar(kind) == [kind |-> kind]
Empty == Scalar("empty")                    \* a type without members: its value is <<>>
ListOf(s) == [kind |-> "list", of |-> s]
Tuple(members) == [kind |-> "sequence", members |-> members]
Entity(names, members) == [kind |-> "map", names |-> names, members |-> members]
\* A variant's value is its index, from 0 on, and what it holds.
Variant(members) == [kind |-> "variant", members |-> <<Empty>> \o members]

\* A character is its code.  Characters from 128 on are two bytes in C++ and one
\* unit in a document; -c is a byte that does not belong to such a pair.
NUL == 0
UpToNul(s) == LET i == SelectInSeq(s, LAMBDA c : c = NUL) IN IF i = 0 THEN s ELSE SubSeq(s, 1, i - 1)

Null == [null |-> TRUE]
Is(doc, kind) == kind \in DOMAIN doc
AllOf(results) == IF \E i \in DOMAIN results : results[i] = {} THEN {}
                  ELSE {[i \in DOMAIN results |-> CHOOSE x \in results[i] : TRUE]}

\* filter_empties: the members that are handed to a binder.
Kept(members) == SelectSeq([i \in DOMAIN members |-> i], LAMBDA i : members[i].kind # "empty")

---------------------------------------------------------------------------
(* Numbers, strings and bytes. *)

Signed(n) == IF n >= 2^(Width - 1) THEN n - 2^Width ELSE n
Truncated(n) == n % 2^Width
Fits(n, kind) == IF kind = "int" THEN n \in -(2^(Width - 1))..2^(Width - 1) - 1
                 ELSE n \in 0..2^Width - 1


native_bind_number(doc, kind) ==
    IF Is(doc, "int") /\ Fits(doc.int, kind) THEN {doc.int} ELSE {}

\* What EM_ASM hands over is 32 bits with a sign, in both directions.
js_write_number(n, kind) == [int |-> Signed(Truncated(n))]
js_bind_number(doc, kind) ==
    LET n == IF Is(doc, "int") THEN Truncated(doc.int) ELSE 0
    IN  {IF kind = "uint" THEN n ELSE Signed(n)}

\* asCString ends where the first NUL is.
native_bind_string(doc) == IF Is(doc, "str") THEN {UpToNul(doc.str)} ELSE {}

\* UTF8ToString ends there when it writes; stringToAscii has a byte for each unit.
js_write_string(s) == [str |-> UpToNul(s)]
js_bind_string(doc) ==
    IF Is(doc, "str")
    THEN {[i \in DOMAIN doc.str |-> IF doc.str[i] > 127 THEN -doc.str[i] ELSE doc.str[i]]}
    ELSE {}

\* A symbol's character, and what the reverse lookup makes of a character.
BufferText(bytes) == LET t == Text!base64_encode(bytes) IN [i \in DOMAIN t |-> t[i] + 40]
BufferOf(s) == LET t == [i \in DOMAIN s |-> IF s[i] \in 40..105 THEN s[i] - 40 ELSE Text!INVALID]
               IN  Text!base64_decode_into(t, Text!Dynamic).output

---------------------------------------------------------------------------
(* Arrays. *)

\* An array comes into being with its first element.
native_array(docs) == IF docs = <<>> THEN Null ELSE [arr |-> docs]
js_array(docs) == [arr |-> docs]

\* Nothing is written for no members, and one of them is not wrapped.
Sequence(none, docs) ==
    CASE Len(docs) = 0 -> none
      [] Len(docs) = 1 -> docs[1]
      [] OTHER -> [arr |-> docs]

\* The documents of count members; the native reader insists on the size, the
\* other finds undefined behind the end.
native_elements(doc, count) ==
    CASE count = 0 -> {<<>>}
      [] count = 1 -> {<<doc>>}
      [] OTHER -> IF Is(doc, "arr") /\ Len(doc.arr) = count THEN {doc.arr} ELSE {}
js_elements(doc, count) ==
    CASE count = 0 -> {<<>>}
      [] count = 1 -> {<<doc>>}
      [] OTHER -> IF Is(doc, "null") THEN {}
                  ELSE {[i \in 1..count |-> IF Is(doc, "arr") /\ i <= Len(doc.arr)
                                            THEN doc.arr[i] ELSE [undefined |-> TRUE]]}

---------------------------------------------------------------------------
(* Objects and variants. *)

native_member(doc, name) ==
    CASE Is(doc, "obj") /\ name \in DOMAIN doc.obj -> {doc.obj[name]}
      [] Is(doc, "obj") \/ Is(doc, "null") -> {Null}
      [] OTHER -> {}
js_member(doc, name) ==
    CASE Is(doc, "obj") /\ name \in DOMAIN doc.obj -> {doc.obj[name]}
      [] Is(doc, "null") -> {}
      [] OTHER -> {[undefined |-> TRUE]}

native_get_variant_type_id(doc) ==
    CASE Is(doc, "int") -> {doc.int}
      [] Is(doc, "arr") /\ Len(doc.arr) = 2 /\ Is(doc.arr[1], "int") -> {doc.arr[1].int}
      [] OTHER -> {}
js_get_variant_type_id(doc) ==
    LET v == IF Is(doc, "arr") THEN IF doc.arr = <<>> THEN Null ELSE doc.arr[1] ELSE doc
    IN  js_bind_number(v, "int")

\* (bug: the index of an empty alternative is wrapped)
VariantOf_Wrapped(id, doc) == [arr |-> IF doc = <<>> THEN <<id>> ELSE <<id>> \o doc]

\* The index, and what is held unless it is empty.
VariantOf(id, doc) == Sequence(Null, <<id>> \o doc)

---------------------------------------------------------------------------
(* The traversal, which both binders leave to bind_sequence, bind_map and
   bind_variant. *)

RECURSIVE Write(_, _, _)
Write(binder, s, v) ==
    LET native == binder = "native"
        MembersOf(from) == [k \in DOMAIN Kept(from) |-> Write(binder, from[Kept(from)[k]], v[Kept(from)[k]])]
    IN  CASE s.kind \in {"int", "uint", "enum"} ->
                IF native THEN [int |-> v] ELSE js_write_number(v, s.kind)
          [] s.kind = "string" -> IF native THEN [str |-> v] ELSE js_write_string(v)
          [] s.kind = "buffer" -> [str |-> BufferText(v)]
          [] s.kind = "list" ->
                LET docs == [i \in DOMAIN v |-> Write(binder, s.of, v[i])]
                IN  IF native THEN native_array(docs) ELSE js_array(docs)
          [] s.kind = "sequence" ->
                Sequence(IF native THEN Null ELSE [arr |-> <<>>], MembersOf(s.members))
          [] s.kind = "map" ->
                [obj |-> [name \in ToSet(s.names) |->
                    LET i == SelectInSeq(s.names, LAMBDA n : n = name)
                    IN  Write(binder, s.members[i], v[i])]]
          [] s.kind = "variant" ->
                LET held == s.members[v[1] + 1]
                IN  VariantOf([int |-> v[1]],
                              IF held.kind = "empty" THEN <<>> ELSE <<Write(binder, held, v[2])>>)

RECURSIVE Read(_, _, _)
Read(binder, s, doc) ==
    LET native == binder = "native"
        Elements(d, count) == IF native THEN native_elements(d, count) ELSE js_elements(d, count)
        \* Members that are empty stay as they are.
        MembersOf(from, docs) ==
            AllOf([i \in DOMAIN from |->
                IF from[i].kind = "empty" THEN {<<>>}
                ELSE Read(binder, from[i], docs[SelectInSeq(Kept(from), LAMBDA k : k = i)])])
    IN  CASE s.kind \in {"int", "uint", "enum"} ->
                IF native THEN native_bind_number(doc, s.kind) ELSE js_bind_number(doc, s.kind)
          [] s.kind = "string" -> IF native THEN native_bind_string(doc) ELSE js_bind_string(doc)
          [] s.kind = "buffer" ->
                {BufferOf(x) : x \in IF native THEN native_bind_string(doc) ELSE js_bind_string(doc)}
          [] s.kind = "list" ->
                IF Is(doc, "arr") THEN AllOf([i \in DOMAIN doc.arr |-> Read(binder, s.of, doc.arr[i])])
                ELSE {}
          [] s.kind = "sequence" ->
                UNION {MembersOf(s.members, d) : d \in Elements(doc, Len(Kept(s.members)))}
          [] s.kind = "map" ->
                LET found == AllOf([i \in DOMAIN s.names |->
                                IF native THEN native_member(doc, s.names[i])
                                ELSE js_member(doc, s.names[i])])
                IN  UNION {MembersOf(s.members, d) : d \in found}
          [] s.kind = "variant" ->
                LET ids == IF native THEN native_get_variant_type_id(doc) ELSE js_get_variant_type_id(doc)
                    Alternative(id) ==
                        IF id \notin 0..Len(s.members) - 1 THEN {<<0, <<>>>>}   \* match_by_type returns
                        ELSE IF s.members[id + 1].kind = "empty" THEN {<<id, <<>>>>}
                        ELSE UNION {{<<id, x>> : x \in Read(binder, s.members[id + 1], d[2])}
                                    : d \in Elements(doc, 2)}
                IN  UNION {Alternative(id) : id \in ids}

serialize(binder, s, message) == Write(binder, s, message)

Error == <<"error">>
\* What a deserializer resolves with, one after the other: the catch clause of the
\* native one does not return, and its variant is still unresolved.
deserialize(binder, s, doc) ==
    LET read == Read(binder, s, doc)
    IN  IF read = {} THEN IF binder = "native" THEN <<Error, Error>> ELSE <<>>
        ELSE [i \in 1..1 |-> CHOOSE r \in {IF v[1] = 0 THEN Error ELSE v : v \in read} : TRUE]

---------------------------------------------------------------------------
(* What a value has to be spared to come back. *)

RECURSIVE Has(_, _, _)
\* Whether a value holds what a predicate on schemas and values, by its name, is
\* about.
Has(what, s, v) ==
    LET Some(members) == \E i \in DOMAIN members : Has(what, members[i], v[i])
    IN  CASE s.kind = "list" -> \/ what = "empty list" /\ v = <<>>
                                \/ \E i \in DOMAIN v : Has(what, s.of, v[i])
          [] s.kind \in {"sequence", "map"} ->
                \/ what = "no members" /\ Kept(s.members) = <<>>
                \/ Some(s.members)
          [] s.kind = "variant" -> Has(what, s.members[v[1] + 1], v[2])
          [] s.kind = "string" -> \/ what = "NUL" /\ Contains(v, NUL)
                                  \/ what = "wide" /\ \E i \in DOMAIN v : v[i] > 127
          [] s.kind = "uint" -> what = "large" /\ v >= 2^(Width - 1)
          [] s.kind = "enum" -> what = "negative enum" /\ v < 0
          [] OTHER -> FALSE

\* What is lost between a writer and a reader: nothing else is.
Lost(what, writer, reader) ==
    CASE what = "empty list" -> writer = "native"
      [] what = "NUL" -> writer = "js" \/ reader = "native"
      [] what = "wide" -> reader = "js"
      [] what = "large" -> writer = "js" /\ reader = "native"
      [] what = "negative enum" -> reader = "native"
      [] what = "no members" -> FALSE   \* each reader takes what the other has written
Kinds == {"empty list", "NUL", "wide", "large", "negative enum", "no members"}
===========================================================================

------------------------------ MODULE JsValues ------------------------------
(***************************************************************************)
(* js::val (js.hpp, detail/js_val.hpp): a C++ object stands for a value of *)
(* JavaScript by its address, which is its key in a table there.  Moving   *)
(* the object is moving the entry; an entry of an address that is no       *)
(* longer an object's is a leak, and an object without one is undefined.   *)
(* A std::vector of them is a block of addresses.                          *)
(***************************************************************************)
EXTENDS Naturals

Undefined == "undefined"

\* NBDL_DETAIL_JS_GET
Get(table, a) == IF a \in DOMAIN table THEN table[a] ELSE Undefined

\* NBDL_DETAIL_JS_SET
Put(table, a, v) == [x \in DOMAIN table \cup {a} |-> IF x = a THEN v ELSE table[x]]

\* val::copy, with the constructor and the assignment that call it.
copy(table, to, from) == Put(table, to, Get(table, from))

\* val::unregister and ~js_val
unregister(table, a) == [x \in DOMAIN table \ {a} |-> table[x]]

\* val(val&&) and operator=(val&&)
move(table, to, from) == unregister(copy(table, to, from), from)

Argument == <<0, 0>>  \* the address of an object on the stack

EmptyVector == [block |-> 1, size |-> 0, capacity |-> 0]
Slot(vec, i) == <<vec.block, i>>
Slots(vec) == {Slot(vec, i) : i \in 1..vec.size}
ValuesOf(table, vec) == [i \in 1..vec.size |-> Get(table, Slot(vec, i))]

\* vector::push_back of a val that is moved from: when the vector is full its
\* elements are copied to a new block, as the move constructor may throw.
push_back(st, a) ==
    LET old == st.vec
        new == IF old.size < old.capacity THEN [old EXCEPT !.size = @ + 1]
               ELSE [block |-> 3 - old.block, size |-> old.size + 1,
                     capacity |-> IF old.capacity = 0 THEN 1 ELSE 2 * old.capacity]
        pushed == move(st.table, Slot(new, new.size), a)
        relocated[i \in 0..old.size] ==
            IF i = 0 THEN pushed
            ELSE unregister(copy(relocated[i - 1], Slot(new, i), Slot(old, i)), Slot(old, i))
    IN  [vec |-> new, table |-> IF new.block = old.block THEN pushed ELSE relocated[old.size]]

\* vector::erase of everything from the place next on.
cut(st, done) ==
    LET tail == {Slot(st.vec, i) : i \in done.next..st.vec.size}
    IN  [vec |-> [st.vec EXCEPT !.size = done.next - 1],
         table |-> [a \in DOMAIN done.table \ tail |-> done.table[a]]]

\* (bug: what need not move is moved onto itself)
erase_if_OntoItself(st, x) ==
    LET loop[i \in 0..st.vec.size] ==
            IF i = 0 THEN [table |-> st.table, next |-> 1]
            ELSE LET t == loop[i - 1].table
                     k == loop[i - 1].next
                 IN  IF Get(t, Slot(st.vec, i)) = x THEN [table |-> t, next |-> k]
                     ELSE [table |-> move(t, Slot(st.vec, k), Slot(st.vec, i)), next |-> k + 1]
    IN  cut(st, loop[st.vec.size])

\* std::erase_if of what equals x: what is behind the first that is dropped moves up.
erase_if(st, x) ==
    LET loop[i \in 0..st.vec.size] ==
            IF i = 0 THEN [table |-> st.table, next |-> 1]
            ELSE LET t == loop[i - 1].table
                     k == loop[i - 1].next
                 IN  IF Get(t, Slot(st.vec, i)) = x THEN [table |-> t, next |-> k]
                     ELSE [table |-> IF k = i THEN t
                                     ELSE move(t, Slot(st.vec, k), Slot(st.vec, i)),
                           next |-> k + 1]
    IN  cut(st, loop[st.vec.size])
=============================================================================

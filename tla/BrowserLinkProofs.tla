-------------------------- MODULE BrowserLinkProofs --------------------------
(***************************************************************************)
(* The JavaScript server and its clients, for any numbers of connections,  *)
(* endpoints and messages: what is sent is delivered once and in order,    *)
(* and the server's vector and the table of values agree.                  *)
(***************************************************************************)
EXTENDS BrowserLink, SequenceTheorems, WellFoundedInduction, NaturalsInduction, TLAPS

---------------------------------------------------------------------------
(* Induction *)

\* A set of numbers has a least element.
LEMMA LeastElement ==
    ASSUME NEW T, T \subseteq Nat, T # {}
    PROVE  \E x \in T : \A y \in T : ~ (y < x)
<1>1. \E x \in T : \A y \in T : <<y, x>> \notin OpToRel(<, Nat)
  BY NatLessThanWellFounded, WFMin, Zenon
<1> QED
  BY <1>1 DEF OpToRel

\* Induction over the numbers up to n, for sets.
LEMMA UpTo ==
    ASSUME NEW n \in Nat, NEW T, 0 \in T, \A i \in 0..n - 1 : i \in T => i + 1 \in T
    PROVE  \A i \in 0..n : i \in T
<1> SUFFICES ASSUME (0..n) \ T # {}
             PROVE  FALSE
  OBVIOUS
<1>1. PICK x \in (0..n) \ T : \A y \in (0..n) \ T : ~ (y < x)
  <2>1. (0..n) \ T \subseteq Nat
    OBVIOUS
  <2> QED
    BY <2>1, LeastElement
<1>2. x # 0 /\ x - 1 \in 0..n - 1 /\ x - 1 < x
  BY <1>1
<1>3. x - 1 \in T
  BY <1>1, <1>2
<1> QED
  BY <1>1, <1>2, <1>3

---------------------------------------------------------------------------
(* The table of values *)

IsTable(f) == f = [a \in DOMAIN f |-> f[a]]

\* The entry of one address is that of another now.
Moved(after, table, to, from) ==
    /\ IsTable(after)
    /\ DOMAIN after = (DOMAIN table \cup {to}) \ {from}
    /\ after[to] = table[from]
    /\ \A a \in DOMAIN table \ {to, from} : after[a] = table[a]

\* Moving an object does so.
LEMMA MoveMoves ==
    ASSUME NEW table, NEW to, NEW from, from \in DOMAIN table, to # from
    PROVE  Moved(move(table, to, from), table, to, from)
<1> DEFINE f == Put(table, to, Get(table, from))
           g == [a \in DOMAIN f \ {from} |-> f[a]]
<1>1. /\ DOMAIN f = DOMAIN table \cup {to}
      /\ f[to] = table[from]
      /\ \A a \in DOMAIN table \ {to} : f[a] = table[a]
  BY DEF Get, Put
<1>2. move(table, to, from) = g
  BY Zenon DEF move, copy, unregister
<1>3. IsTable(g)
  BY Zenon DEF IsTable
<1>4. DOMAIN g = DOMAIN f \ {from} /\ \A a \in DOMAIN f \ {from} : g[a] = f[a]
  OBVIOUS
<1> HIDE DEF f, g
<1>5. Moved(g, table, to, from)
  BY <1>1, <1>3, <1>4 DEF Moved
<1> QED
  BY <1>2, <1>5

IsVector(vec) ==
    /\ vec = [block |-> vec.block, size |-> vec.size, capacity |-> vec.capacity]
    /\ vec.block \in {1, 2} /\ vec.size \in Nat /\ vec.capacity \in Nat
    /\ vec.size <= vec.capacity

LEMMA SlotsDiffer ==
    ASSUME NEW vec, NEW other, NEW i \in Nat, NEW j \in Nat
    PROVE  Slot(vec, i) = Slot(other, j) <=> vec.block = other.block /\ i = j
  BY DEF Slot

\* The addresses of the table when i of the elements of a full vector have been
\* taken to the new block.
Between(old, new, i) ==
    {Slot(new, j) : j \in 1..i} \cup {Slot(new, old.size + 1)}
    \cup {Slot(old, j) : j \in i + 1..old.size}

\* The function in the definition of push_back, for i of the elements.
Relocates(f, old, new, pushed, n) ==
    f = [i \in 0..n |->
            IF i = 0 THEN pushed
            ELSE unregister(copy(f[i - 1], Slot(new, i), Slot(old, i)), Slot(old, i))]

LEMMA RelocatesExists ==
    ASSUME NEW old, NEW new, NEW pushed, NEW n \in Nat
    PROVE  \E f : Relocates(f, old, new, pushed, n)
<1> DEFINE Step(t, i) == unregister(copy(t, Slot(new, i), Slot(old, i)), Slot(old, i))
           T == {k \in 0..n : \E f : Relocates(f, old, new, pushed, k)}
<1>1. 0 \in T
  <2> DEFINE f == [i \in 0..0 |-> pushed]
  <2>1. Relocates(f, old, new, pushed, 0)
    BY SMT DEF Relocates
  <2> QED
    BY <2>1
<1>2. ASSUME NEW k \in 0..n - 1, k \in T
      PROVE  k + 1 \in T
  <2>1. PICK f : Relocates(f, old, new, pushed, k)
    BY <1>2
  <2> HIDE DEF Step
  <2> DEFINE last == Step(f[k], k + 1)
             g == [i \in 0..(k + 1) |-> IF i = k + 1 THEN last ELSE f[i]]
  <2>2. \A i \in 0..k : f[i] = IF i = 0 THEN pushed ELSE Step(f[i - 1], i)
    BY <2>1, Zenon DEF Relocates, Step
  <2>3. \A i \in 0..(k + 1) : g[i] = IF i = 0 THEN pushed ELSE Step(g[i - 1], i)
    BY <2>2
  <2>4. Relocates(g, old, new, pushed, k + 1)
    <3>1. g = [i \in 0..(k + 1) |-> IF i = 0 THEN pushed ELSE Step(g[i - 1], i)]
      BY <2>3
    <3> QED
      BY <3>1, Zenon DEF Relocates, Step
  <2> HIDE DEF g
  <2> QED
    BY <2>4
<1>3. \A i \in 0..n : i \in T
  <2> HIDE DEF T
  <2> QED
    BY <1>1, <1>2, UpTo
<1> QED
  BY <1>3

\* Taking one more element to the new block.
LEMMA BetweenStep ==
    ASSUME NEW old, NEW new, NEW i \in Nat, old.size \in Nat, i + 1 <= old.size,
           old.block # new.block
    PROVE  /\ Between(old, new, i + 1) =
                 (Between(old, new, i) \cup {Slot(new, i + 1)}) \ {Slot(old, i + 1)}
           /\ Slot(old, i + 1) \in Between(old, new, i)
           /\ Slot(new, i + 1) # Slot(old, i + 1)
<1> DEFINE n == old.size
           A(k) == {Slot(new, j) : j \in 1..k}
           B(k) == {Slot(old, j) : j \in k + 1..n}
<1>1. n \in Nat /\ i + 1 <= n
  OBVIOUS
<1>2. \A j, k \in Nat : Slot(new, j) # Slot(old, k)
  BY DEF Slot
<1>3. \A j, k \in Nat : j # k => Slot(old, j) # Slot(old, k)
  BY DEF Slot
<1> HIDE DEF n
<1>4. A(i + 1) = A(i) \cup {Slot(new, i + 1)}
  OBVIOUS
<1>5. B(i) = B(i + 1) \cup {Slot(old, i + 1)}
  BY <1>1
<1>6. Slot(old, i + 1) \notin B(i + 1)
  BY <1>1, <1>3
<1>7. Slot(old, i + 1) \notin A(i + 1) \cup {Slot(new, n + 1)}
  BY <1>1, <1>2
<1>8. Between(old, new, i) = A(i) \cup {Slot(new, n + 1)} \cup B(i)
  BY DEF Between, n
<1>9. Between(old, new, i + 1) = A(i + 1) \cup {Slot(new, n + 1)} \cup B(i + 1)
  BY DEF Between, n
<1> HIDE DEF A, B
<1> QED
  BY <1>2, <1>4, <1>5, <1>6, <1>7, <1>8, <1>9

\* The vector's elements are the values v.
HasValues(table, vec, v) ==
    /\ IsTable(table)
    /\ DOMAIN table = Slots(vec)
    /\ \A j \in 1..vec.size : table[Slot(vec, j)] = v[j]

\* After all of them have been taken, the new block has the elements of the old
\* one and what was pushed.
LEMMA AllAreRelocated ==
    ASSUME NEW old, NEW new, NEW pushed, NEW f, NEW v,
           old.size \in Nat, old.block # new.block, new.size = old.size + 1,
           IsTable(pushed),
           DOMAIN pushed = Between(old, new, 0),
           \A j \in 1..old.size : pushed[Slot(old, j)] = v[j],
           pushed[Slot(new, old.size + 1)] = v[old.size + 1],
           Relocates(f, old, new, pushed, old.size)
    PROVE  HasValues(f[old.size], new, v)
<1> DEFINE n == old.size
           T == {i \in 0..n :
                    /\ IsTable(f[i])
                    /\ DOMAIN f[i] = Between(old, new, i)
                    /\ \A j \in 1..i : f[i][Slot(new, j)] = pushed[Slot(old, j)]
                    /\ \A j \in i + 1..n : f[i][Slot(old, j)] = pushed[Slot(old, j)]
                    /\ f[i][Slot(new, n + 1)] = pushed[Slot(new, n + 1)]}
<1>1. \A i \in 0..n : f[i] = IF i = 0 THEN pushed
                                  ELSE move(f[i - 1], Slot(new, i), Slot(old, i))
  BY Zenon DEF Relocates, move
<1>2. n \in Nat
  OBVIOUS
<1>3. 0 \in T
  BY <1>1, <1>2
<1>4. ASSUME NEW i \in 0..n - 1, i \in T
      PROVE  i + 1 \in T
  <2> DEFINE to == Slot(new, i + 1)
             from == Slot(old, i + 1)
             t == f[i]
             u == f[i + 1]
  <2>1. i + 1 \in 0..n /\ i \in Nat /\ i + 1 <= n /\ i + 1 # 0 /\ (i + 1) - 1 = i
    BY <1>2
  <2>2. u = move(t, to, from)
    <3>1. f[i + 1] = move(f[(i + 1) - 1], Slot(new, i + 1), Slot(old, i + 1))
      BY <1>1, <2>1
    <3> QED
      BY <2>1, <3>1
  <2>3. /\ Between(old, new, i + 1) = (Between(old, new, i) \cup {to}) \ {from}
        /\ from \in Between(old, new, i)
        /\ to # from
    BY <2>1, BetweenStep
  <2>4. /\ DOMAIN t = Between(old, new, i)
        /\ \A j \in 1..i : t[Slot(new, j)] = pushed[Slot(old, j)]
        /\ \A j \in i + 1..n : t[Slot(old, j)] = pushed[Slot(old, j)]
        /\ t[Slot(new, n + 1)] = pushed[Slot(new, n + 1)]
    BY <1>4
  <2>5. /\ \A j \in Nat : to = Slot(new, j) <=> j = i + 1
        /\ \A j \in Nat : from = Slot(old, j) <=> j = i + 1
        /\ \A j \in Nat : to # Slot(old, j)
        /\ \A j \in Nat : from # Slot(new, j)
    BY <2>1 DEF Slot
  <2>6. /\ \A j \in 1..i : Slot(new, j) \in DOMAIN t
        /\ \A j \in i + 2..n : Slot(old, j) \in DOMAIN t
        /\ Slot(new, n + 1) \in DOMAIN t
    BY <1>2, <2>1, <2>4 DEF Between
  <2> HIDE DEF t, u, to, from
  <2>7. /\ IsTable(u)
        /\ DOMAIN u = (DOMAIN t \cup {to}) \ {from}
        /\ u[to] = t[from]
        /\ \A a \in DOMAIN t \ {to, from} : u[a] = t[a]
    <3>1. from \in DOMAIN t
      BY <2>3, <2>4
    <3>2. to # from
      BY <2>3
    <3>3. Moved(u, t, to, from)
      BY <2>2, <3>1, <3>2, MoveMoves, Zenon
    <3> QED
      BY <3>3 DEF Moved
  <2>8. DOMAIN u = Between(old, new, i + 1)
    BY <2>3, <2>4, <2>7
  <2>9. \A j \in 1..i + 1 : u[Slot(new, j)] = pushed[Slot(old, j)]
    <3> SUFFICES ASSUME NEW j \in 1..i + 1
                 PROVE  u[Slot(new, j)] = pushed[Slot(old, j)]
      OBVIOUS
    <3>1. CASE j = i + 1
      <4>1. t[from] = pushed[from]
        BY <1>2, <2>1, <2>4 DEF from
      <4> QED
        BY <2>7, <3>1, <4>1 DEF to, from
    <3>2. CASE j # i + 1
      <4>1. j \in 1..i /\ j \in Nat
        BY <2>1, <3>2
      <4>2. Slot(new, j) \in DOMAIN t \ {to, from}
        BY <2>5, <2>6, <3>2, <4>1
      <4> QED
        BY <2>4, <2>7, <4>1, <4>2
    <3> QED
      BY <3>1, <3>2
  <2>10. \A j \in i + 2..n : u[Slot(old, j)] = pushed[Slot(old, j)]
    <3> SUFFICES ASSUME NEW j \in i + 2..n
                 PROVE  u[Slot(old, j)] = pushed[Slot(old, j)]
      OBVIOUS
    <3>1. j \in Nat /\ j # i + 1 /\ j \in i + 1..n
      BY <1>2, <2>1
    <3>2. Slot(old, j) \in DOMAIN t \ {to, from}
      BY <2>5, <2>6, <3>1
    <3> QED
      BY <2>4, <2>7, <3>1, <3>2
  <2>11. u[Slot(new, n + 1)] = pushed[Slot(new, n + 1)]
    <3>1. n + 1 \in Nat /\ n + 1 # i + 1
      BY <1>2, <2>1
    <3>2. Slot(new, n + 1) \in DOMAIN t \ {to, from}
      BY <2>5, <2>6, <3>1
    <3> QED
      BY <2>4, <2>7, <3>2
  <2> QED
    <3>1. /\ IsTable(f[i + 1])
          /\ DOMAIN f[i + 1] = Between(old, new, i + 1)
      BY <2>7, <2>8 DEF u
    <3>2. /\ \A j \in 1..i + 1 : f[i + 1][Slot(new, j)] = pushed[Slot(old, j)]
          /\ f[i + 1][Slot(new, n + 1)] = pushed[Slot(new, n + 1)]
      BY <2>9, <2>11 DEF u
    <3>3. \A j \in (i + 1) + 1..n : f[i + 1][Slot(old, j)] = pushed[Slot(old, j)]
      <4>1. (i + 1) + 1 = i + 2
        BY <2>1
      <4> QED
        BY <2>10, <4>1 DEF u
    <3> QED
      BY <2>1, <3>1, <3>2, <3>3
<1>5. n \in T
  <2> HIDE DEF T
  <2>1. \A i \in 0..n : i \in T
    BY <1>2, <1>3, <1>4, UpTo
  <2> QED
    BY <1>2, <2>1
<1>6. Between(old, new, n) = Slots(new)
  <2>1. {Slot(old, j) : j \in n + 1..n} = {}
    BY <1>2
  <2>2. {Slot(new, j) : j \in 1..n} \cup {Slot(new, n + 1)} = {Slot(new, j) : j \in 1..n + 1}
    BY <1>2
  <2> QED
    BY <2>1, <2>2, Zenon DEF Between, Slots
<1> DEFINE t == f[n]
<1>7. /\ IsTable(t) /\ DOMAIN t = Slots(new)
      /\ \A j \in 1..n : t[Slot(new, j)] = pushed[Slot(old, j)]
      /\ t[Slot(new, n + 1)] = pushed[Slot(new, n + 1)]
  BY <1>5, <1>6
<1> HIDE DEF t
<1>8. \A j \in 1..n + 1 : t[Slot(new, j)] = v[j]
  BY <1>2, <1>7
<1>9. HasValues(t, new, v)
  BY <1>7, <1>8 DEF HasValues
<1> QED
  BY <1>9 DEF t

\* The vector after push_back.
Grown(vec) == IF vec.size < vec.capacity THEN [vec EXCEPT !.size = @ + 1]
              ELSE [block |-> 3 - vec.block, size |-> vec.size + 1,
                    capacity |-> IF vec.capacity = 0 THEN 1 ELSE 2 * vec.capacity]

LEMMA PushBackRelocates ==
    ASSUME NEW st, NEW a
    PROVE  LET new == Grown(st.vec)
               pushed == move(st.table, Slot(new, new.size), a)
               f == CHOOSE f : Relocates(f, st.vec, new, pushed, st.vec.size)
           IN  push_back(st, a) =
                 [vec |-> new,
                  table |-> IF new.block = st.vec.block THEN pushed ELSE f[st.vec.size]]
  BY Zenon DEF Grown, push_back, Relocates

\* A vector and its table have the n values v.
Contains(st, n, v) ==
    /\ st = [vec |-> st.vec, table |-> st.table]
    /\ IsVector(st.vec)
    /\ st.vec.size = n
    /\ HasValues(st.table, st.vec, v)

\* push_back puts the value behind the others, which stay as they were, in the
\* same block or in a new one.
LEMMA PushBackPushes ==
    ASSUME NEW st, IsVector(st.vec),
           NEW table, NEW v, HasValues(table, st.vec, v),
           NEW c, st.table = Put(table, Argument, c),
           NEW w, \A j \in 1..st.vec.size : w[j] = v[j], w[st.vec.size + 1] = c
    PROVE  Contains(push_back(st, Argument), st.vec.size + 1, w)
<1> DEFINE vec == st.vec
           n == vec.size
           put == st.table
           new == Grown(vec)
           to == Slot(new, new.size)
           pushed == move(put, to, Argument)
           f == CHOOSE f : Relocates(f, vec, new, pushed, n)
           result == IF new.block = vec.block THEN pushed ELSE f[n]
           after == push_back(st, Argument)
<1>1. after = [vec |-> new, table |-> result]
  BY PushBackRelocates, Zenon
<1>2. n \in Nat /\ vec.capacity \in Nat /\ n <= vec.capacity /\ vec.block \in {1, 2}
  BY DEF IsVector
<1>3. /\ IsVector(new) /\ new.size = n + 1
      /\ IF n < vec.capacity THEN new.block = vec.block ELSE new.block # vec.block
  <2>1. CASE n < vec.capacity
    <3>1. new = [vec EXCEPT !.size = @ + 1]
      BY <2>1 DEF Grown
    <3>2. vec = [block |-> vec.block, size |-> n, capacity |-> vec.capacity]
      BY DEF IsVector
    <3>3. new = [block |-> vec.block, size |-> n + 1, capacity |-> vec.capacity]
      BY <3>1, <3>2
    <3> HIDE DEF new
    <3> QED
      BY <1>2, <2>1, <3>3 DEF IsVector
  <2>2. CASE ~(n < vec.capacity)
    <3> DEFINE cap == IF vec.capacity = 0 THEN 1 ELSE 2 * vec.capacity
    <3>1. new = [block |-> 3 - vec.block, size |-> n + 1, capacity |-> cap]
      BY <2>2 DEF Grown
    <3>2. cap \in Nat /\ n + 1 <= cap /\ 3 - vec.block \in {1, 2} /\ 3 - vec.block # vec.block
      BY <1>2, <2>2
    <3> HIDE DEF new, cap
    <3> QED
      BY <1>2, <2>2, <3>1, <3>2 DEF IsVector
  <2> QED
    BY <2>1, <2>2
<1> HIDE DEF new
<1>0. /\ DOMAIN table = Slots(vec)
      /\ \A j \in 1..n : table[Slot(vec, j)] = v[j]
  BY DEF HasValues
<1>4. /\ DOMAIN put = Slots(vec) \cup {Argument}
      /\ put[Argument] = c
      /\ \A a \in Slots(vec) : a # Argument => put[a] = table[a]
  BY <1>0 DEF Put
<1>5. /\ \A j \in Nat : Slot(vec, j) # Argument
      /\ to # Argument
      /\ \A j \in 1..n : Slot(vec, j) # to
  BY <1>2, <1>3 DEF Slot, Argument, IsVector
<1> HIDE DEF put, to
<1>6. /\ IsTable(pushed)
      /\ DOMAIN pushed = (DOMAIN put \cup {to}) \ {Argument}
      /\ pushed[to] = put[Argument]
      /\ \A a \in DOMAIN put \ {to, Argument} : pushed[a] = put[a]
  <2>1. Argument \in DOMAIN put
    BY <1>4
  <2>2. to # Argument
    BY <1>5
  <2>3. Moved(pushed, put, to, Argument)
    BY <2>1, <2>2, MoveMoves, Zenon
  <2> HIDE DEF pushed
  <2> QED
    BY <2>3 DEF Moved
<1> HIDE DEF pushed
<1>7. DOMAIN pushed = Slots(vec) \cup {to}
  <2>1. Argument \notin Slots(vec)
    BY <1>2, <1>5 DEF Slots
  <2> QED
    BY <1>4, <1>5, <1>6, <2>1
<1>8. pushed[to] = w[n + 1]
  BY <1>4, <1>6
<1>9. \A j \in 1..n : pushed[Slot(vec, j)] = w[j]
  <2>1. \A j \in 1..n : Slot(vec, j) \in Slots(vec)
    BY DEF Slots
  <2> QED
    BY <1>0, <1>2, <1>4, <1>5, <1>6, <2>1
<1>10. to = Slot(new, n + 1)
  BY <1>3 DEF to
<1>11. HasValues(result, new, w)
  <2>1. CASE new.block = vec.block
    <3>1. result = pushed
      BY <2>1
    <3>2. \A j \in Nat : Slot(new, j) = Slot(vec, j)
      BY <2>1 DEF Slot
    <3>3. Slots(new) = Slots(vec) \cup {to}
      <4>1. {Slot(new, j) : j \in 1..n + 1} = {Slot(new, j) : j \in 1..n} \cup {Slot(new, n + 1)}
        BY <1>2
      <4>2. {Slot(new, j) : j \in 1..n} = {Slot(vec, j) : j \in 1..n}
        BY <1>2, <3>2
      <4> QED
        BY <1>3, <1>10, <4>1, <4>2 DEF Slots
    <3>4. \A j \in 1..n + 1 : pushed[Slot(new, j)] = w[j]
      BY <1>2, <1>8, <1>9, <1>10, <3>2
    <3> HIDE DEF result
    <3> QED
      BY <1>3, <1>6, <1>7, <3>1, <3>3, <3>4 DEF HasValues
  <2>2. CASE new.block # vec.block
    <3>1. Relocates(f, vec, new, pushed, vec.size)
      BY <1>2, RelocatesExists
    <3>2. DOMAIN pushed = Between(vec, new, 0)
      <4>1. {Slot(new, j) : j \in 1..0} = {}
        OBVIOUS
      <4>2. {Slot(vec, j) : j \in 0 + 1..n} = Slots(vec)
        BY DEF Slots
      <4> QED
        BY <1>7, <1>10, <4>1, <4>2 DEF Between
    <3> HIDE DEF f
    <3>3. HasValues(f[vec.size], new, w)
      <4>1. /\ vec.size \in Nat
            /\ vec.block # new.block
            /\ new.size = vec.size + 1
        BY <1>2, <1>3, <2>2
      <4>2. IsTable(pushed)
        BY <1>6
      <4>3. \A j \in 1..vec.size : pushed[Slot(vec, j)] = w[j]
        BY <1>9
      <4>4. pushed[Slot(new, vec.size + 1)] = w[vec.size + 1]
        BY <1>8, <1>10
      <4> QED
        BY <3>1, <3>2, <4>1, <4>2, <4>3, <4>4, AllAreRelocated, Zenon
    <3> QED
      BY <2>2, <3>3
  <2> QED
    BY <2>1, <2>2
<1> HIDE DEF result, after
<1> QED
  BY <1>1, <1>3, <1>11 DEF after, Contains

\* The function in the definition of erase_if, for n of the elements.
Erased(st, x, t, k, i) ==
    IF Get(t, Slot(st.vec, i)) = x THEN [table |-> t, next |-> k]
    ELSE [table |-> IF k = i THEN t ELSE move(t, Slot(st.vec, k), Slot(st.vec, i)),
          next |-> k + 1]

Erases(f, st, x, n) ==
    f = [i \in 0..n |-> IF i = 0 THEN [table |-> st.table, next |-> 1]
                        ELSE Erased(st, x, f[i - 1].table, f[i - 1].next, i)]

LEMMA ErasesExists ==
    ASSUME NEW st, NEW x, NEW n \in Nat
    PROVE  \E f : Erases(f, st, x, n)
<1> DEFINE T == {k \in 0..n : \E f : Erases(f, st, x, k)}
           first == [table |-> st.table, next |-> 1]
           Step(l, i) == Erased(st, x, l.table, l.next, i)
<1>1. 0 \in T
  <2> DEFINE f == [i \in 0..0 |-> first]
  <2>1. Erases(f, st, x, 0)
    BY SMT DEF Erases
  <2> QED
    BY <2>1
<1>2. ASSUME NEW k \in 0..n - 1, k \in T
      PROVE  k + 1 \in T
  <2>1. PICK f : Erases(f, st, x, k)
    BY <1>2
  <2>2. \A i \in 0..k : f[i] = IF i = 0 THEN first ELSE Step(f[i - 1], i)
    BY <2>1, Zenon DEF Erases
  <2> HIDE DEF Step, first
  <2> DEFINE last == Step(f[k], k + 1)
             g == [i \in 0..(k + 1) |-> IF i = k + 1 THEN last ELSE f[i]]
  <2>3. \A i \in 0..(k + 1) : g[i] = IF i = 0 THEN first ELSE Step(g[i - 1], i)
    BY <2>2
  <2>4. Erases(g, st, x, k + 1)
    <3>1. g = [i \in 0..(k + 1) |-> IF i = 0 THEN first ELSE Step(g[i - 1], i)]
      BY <2>3
    <3> QED
      BY <3>1, Zenon DEF Erases, Step, first
  <2> HIDE DEF g
  <2> QED
    BY <2>4
<1>3. \A i \in 0..n : i \in T
  <2> HIDE DEF T
  <2> QED
    BY <1>1, <1>2, UpTo
<1> QED
  BY <1>3

LEMMA EraseIfErases ==
    ASSUME NEW st, NEW x
    PROVE  LET f == CHOOSE f : Erases(f, st, x, st.vec.size)
           IN  erase_if(st, x) = cut(st, f[st.vec.size])
  BY Zenon DEF erase_if, Erases, Erased

\* The loop is behind the i-th of n elements; the value at p is the one dropped.
Shifted(t, k, i, p, st, v) ==
    IF i < p THEN t = st.table /\ k = i + 1
    ELSE /\ k = i
         /\ IsTable(t)
         /\ DOMAIN t \cup {Slot(st.vec, i)} = Slots(st.vec)
         /\ \A j \in 1..st.vec.size :
               j # i => t[Slot(st.vec, j)] = IF j < p \/ j > i THEN v[j] ELSE v[j + 1]

LEMMA ShiftedStep ==
    ASSUME NEW st, IsVector(st.vec), NEW v, HasValues(st.table, st.vec, v), NEW x,
           NEW p \in 1..st.vec.size, v[p] = x, \A j \in 1..st.vec.size : j # p => v[j] # x,
           NEW i \in 0..st.vec.size - 1, NEW t, NEW k, Shifted(t, k, i, p, st, v),
           NEW u, NEW l, [table |-> u, next |-> l] = Erased(st, x, t, k, i + 1)
    PROVE  Shifted(u, l, i + 1, p, st, v)
<1> DEFINE n == st.vec.size
           S(j) == Slot(st.vec, j)
<1>1. n \in Nat /\ i \in Nat /\ i + 1 \in 1..n /\ p \in 1..n
  BY DEF IsVector
<1>2. \A j \in 1..n : \A m \in 1..n : S(j) = S(m) => j = m
  BY <1>1, SlotsDiffer
<1>3. /\ IsTable(st.table)
      /\ DOMAIN st.table = Slots(st.vec)
      /\ \A j \in 1..n : st.table[S(j)] = v[j]
  BY DEF HasValues
<1>4. \A j \in 1..n : S(j) \in Slots(st.vec)
  BY DEF Slots
<1>5. /\ Get(t, S(i + 1)) = x => u = t /\ l = k
      /\ Get(t, S(i + 1)) # x => /\ l = k + 1
                                 /\ u = IF k = i + 1 THEN t ELSE move(t, S(k), S(i + 1))
  BY DEF Erased
<1> HIDE DEF n, S
<1>6. CASE i + 1 < p
  <2>1. t = st.table /\ k = i + 1
    BY <1>1, <1>6 DEF Shifted
  <2>2. Get(t, S(i + 1)) = v[i + 1]
    BY <1>1, <1>3, <1>4, <2>1 DEF Get
  <2>3. v[i + 1] # x
    BY <1>1, <1>6 DEF n
  <2>4. u = st.table /\ l = (i + 1) + 1
    BY <1>1, <1>5, <2>1, <2>2, <2>3
  <2> QED
    BY <1>6, <2>4 DEF Shifted
<1>7. CASE i + 1 = p
  <2>1. t = st.table /\ k = i + 1
    BY <1>1, <1>7 DEF Shifted
  <2>2. Get(t, S(i + 1)) = v[i + 1]
    BY <1>1, <1>3, <1>4, <2>1 DEF Get
  <2>3. u = st.table /\ l = i + 1
    BY <1>5, <1>7, <2>1, <2>2
  <2>4. DOMAIN u \cup {S(i + 1)} = Slots(st.vec)
    BY <1>1, <1>3, <1>4, <2>3
  <2>5. \A j \in 1..n : j # i + 1 => u[S(j)] = IF j < p \/ j > i + 1 THEN v[j] ELSE v[j + 1]
    BY <1>1, <1>3, <1>7, <2>3
  <2>6. ~(i + 1 < p)
    BY <1>1, <1>7
  <2> QED
    BY <1>3, <2>3, <2>4, <2>5, <2>6, Zenon DEF Shifted, n, S
<1>8. CASE i + 1 > p
  <2>1. /\ k = i
        /\ IsTable(t)
        /\ DOMAIN t \cup {S(i)} = Slots(st.vec)
        /\ \A j \in 1..n : j # i => t[S(j)] = IF j < p \/ j > i THEN v[j] ELSE v[j + 1]
    <3>1. ~(i < p)
      BY <1>1, <1>8
    <3> QED
      BY <3>1, Zenon DEF Shifted, n, S
  <2>2. i \in 1..n /\ i # i + 1 /\ i + 1 > i
    BY <1>1, <1>8
  <2>3. S(i + 1) # S(i) /\ S(i + 1) \in DOMAIN t
    BY <1>1, <1>2, <1>4, <2>1, <2>2
  <2>4. t[S(i + 1)] = v[i + 1]
    BY <1>1, <2>1, <2>2
  <2>5. v[i + 1] # x
    BY <1>1, <1>8 DEF n
  <2>6. Get(t, S(i + 1)) # x
    BY <2>3, <2>4, <2>5 DEF Get
  <2>7. l = i + 1 /\ u = move(t, S(i), S(i + 1))
    BY <1>5, <2>1, <2>2, <2>6
  <2>8. Moved(u, t, S(i), S(i + 1))
    BY <2>3, <2>7, MoveMoves, Zenon
  <2>9. /\ IsTable(u)
        /\ DOMAIN u = (DOMAIN t \cup {S(i)}) \ {S(i + 1)}
        /\ u[S(i)] = t[S(i + 1)]
        /\ \A a \in DOMAIN t \ {S(i), S(i + 1)} : u[a] = t[a]
    BY <2>8 DEF Moved
  <2>10. DOMAIN u \cup {S(i + 1)} = Slots(st.vec)
    BY <1>1, <1>4, <2>1, <2>9
  <2>11. \A j \in 1..n : j # i + 1 => u[S(j)] = IF j < p \/ j > i + 1 THEN v[j] ELSE v[j + 1]
    <3> SUFFICES ASSUME NEW j \in 1..n, j # i + 1
                 PROVE  u[S(j)] = IF j < p \/ j > i + 1 THEN v[j] ELSE v[j + 1]
      OBVIOUS
    <3>1. CASE j = i
      <4>1. ~(j < p \/ j > i + 1)
        BY <1>1, <1>8, <3>1
      <4> QED
        BY <2>4, <2>9, <3>1, <4>1
    <3>2. CASE j # i
      <4>1. S(j) \in DOMAIN t \ {S(i), S(i + 1)}
        BY <1>1, <1>2, <1>4, <2>1, <2>2, <3>2
      <4>2. u[S(j)] = t[S(j)]
        BY <2>9, <4>1
      <4>3. t[S(j)] = IF j < p \/ j > i THEN v[j] ELSE v[j + 1]
        BY <2>1, <3>2
      <4>4. j > i <=> j > i + 1
        BY <1>1
      <4> QED
        BY <4>2, <4>3, <4>4
    <3> QED
      BY <3>1, <3>2
  <2>12. ~(i + 1 < p)
    BY <1>1, <1>8
  <2> QED
    BY <2>7, <2>9, <2>10, <2>11, <2>12, Zenon DEF Shifted, n, S
<1> QED
  BY <1>1, <1>6, <1>7, <1>8

\* erase_if takes the value out, and those behind it move up.
LEMMA EraseIfDrops ==
    ASSUME NEW st, IsVector(st.vec), NEW v, HasValues(st.table, st.vec, v), NEW x,
           NEW p \in 1..st.vec.size, v[p] = x, \A j \in 1..st.vec.size : j # p => v[j] # x,
           NEW w, \A j \in 1..st.vec.size - 1 : w[j] = IF j < p THEN v[j] ELSE v[j + 1]
    PROVE  Contains(erase_if(st, x), st.vec.size - 1, w)
<1> DEFINE n == st.vec.size
           f == CHOOSE f : Erases(f, st, x, n)
           done == f[n]
           after == erase_if(st, x)
           T == {i \in 0..n : /\ f[i] = [table |-> f[i].table, next |-> f[i].next]
                              /\ Shifted(f[i].table, f[i].next, i, p, st, v)}
<1>1. n \in Nat /\ p \in 1..n
  BY DEF IsVector
<1>2. Erases(f, st, x, n)
  BY <1>1, ErasesExists
<1>3. \A i \in 0..n : f[i] = IF i = 0 THEN [table |-> st.table, next |-> 1]
                             ELSE Erased(st, x, f[i - 1].table, f[i - 1].next, i)
  BY <1>2, Zenon DEF Erases
<1>4. after = cut(st, done)
  BY EraseIfErases, Zenon
<1> HIDE DEF f
<1>5. 0 \in T
  <2>1. f[0] = [table |-> st.table, next |-> 1]
    BY <1>1, <1>3
  <2>2. Shifted(st.table, 1, 0, p, st, v)
    BY <1>1 DEF Shifted
  <2> QED
    BY <1>1, <2>1, <2>2
<1>6. ASSUME NEW i \in 0..n - 1, i \in T
      PROVE  i + 1 \in T
  <2>1. i + 1 \in 0..n /\ i + 1 # 0 /\ (i + 1) - 1 = i
    BY <1>1
  <2>2. f[i + 1] = Erased(st, x, f[i].table, f[i].next, i + 1)
    <3>1. f[i + 1] = Erased(st, x, f[(i + 1) - 1].table, f[(i + 1) - 1].next, i + 1)
      BY <1>3, <2>1
    <3> QED
      BY <2>1, <3>1
  <2>3. f[i + 1] = [table |-> f[i + 1].table, next |-> f[i + 1].next]
    BY <2>2 DEF Erased
  <2>4. Shifted(f[i].table, f[i].next, i, p, st, v)
    BY <1>6
  <2>5. Shifted(f[i + 1].table, f[i + 1].next, i + 1, p, st, v)
    BY <2>2, <2>3, <2>4, ShiftedStep
  <2> QED
    BY <2>1, <2>3, <2>5
<1>7. n \in T
  <2> HIDE DEF T
  <2>1. \A i \in 0..n : i \in T
    BY <1>1, <1>5, <1>6, UpTo
  <2> QED
    BY <1>1, <2>1
<1> DEFINE t == done.table
           S(j) == Slot(st.vec, j)
<1>8. done.next = n /\ Shifted(t, n, n, p, st, v)
  BY <1>1, <1>7 DEF Shifted
<1> HIDE DEF done
<1>9. /\ DOMAIN t \cup {S(n)} = Slots(st.vec)
      /\ \A j \in 1..n : j # n => t[S(j)] = IF j < p \/ j > n THEN v[j] ELSE v[j + 1]
  <2>1. ~(n < p)
    BY <1>1
  <2> QED
    BY <1>8, <2>1, Zenon DEF Shifted
<1> DEFINE cutTable == [a \in DOMAIN t \ {S(n)} |-> t[a]]
           cutVec == [st.vec EXCEPT !.size = n - 1]
<1>10. after = [vec |-> cutVec, table |-> cutTable]
  <2>1. {Slot(st.vec, i) : i \in done.next..n} = {S(n)}
    BY <1>1, <1>8
  <2>2. after = [vec |-> [st.vec EXCEPT !.size = done.next - 1],
                 table |-> [a \in DOMAIN done.table \ {Slot(st.vec, i) : i \in done.next..n}
                              |-> done.table[a]]]
    BY <1>4, Zenon DEF cut
  <2> QED
    BY <1>8, <2>1, <2>2, Zenon
<1>11. /\ IsVector(cutVec)
       /\ cutVec.size = n - 1
       /\ cutVec.block = st.vec.block
  <2>1. st.vec = [block |-> st.vec.block, size |-> n, capacity |-> st.vec.capacity]
    BY DEF IsVector
  <2>2. cutVec = [block |-> st.vec.block, size |-> n - 1, capacity |-> st.vec.capacity]
    BY <2>1
  <2> HIDE DEF cutVec
  <2> QED
    BY <1>1, <2>2 DEF IsVector
<1>12. IsTable(cutTable) /\ DOMAIN cutTable = DOMAIN t \ {S(n)}
       /\ \A a \in DOMAIN t \ {S(n)} : cutTable[a] = t[a]
  <2>1. IsTable(cutTable)
    BY Zenon DEF IsTable
  <2> QED
    BY <2>1
<1> HIDE DEF cutVec, cutTable, t, after
<1>13. \A j \in Nat : Slot(cutVec, j) = S(j)
  BY <1>11 DEF Slot
<1>14. \A j, m \in Nat : S(j) = S(m) => j = m
  BY SlotsDiffer
<1>15. Slots(cutVec) = Slots(st.vec) \ {S(n)}
  <2>1. Slots(cutVec) = {S(j) : j \in 1..n - 1}
    BY <1>1, <1>11, <1>13 DEF Slots
  <2>2. Slots(st.vec) = {S(j) : j \in 1..n}
    BY DEF Slots
  <2> HIDE DEF S
  <2>3. S(n) \notin {S(j) : j \in 1..n - 1}
    BY <1>1, <1>14
  <2>4. {S(j) : j \in 1..n} = {S(j) : j \in 1..n - 1} \cup {S(n)}
    BY <1>1
  <2> QED
    BY <2>1, <2>2, <2>3, <2>4
<1>16. DOMAIN cutTable = Slots(cutVec)
  BY <1>9, <1>12, <1>15
<1>17. \A j \in 1..n - 1 : cutTable[Slot(cutVec, j)] = w[j]
  <2> SUFFICES ASSUME NEW j \in 1..n - 1
               PROVE  cutTable[Slot(cutVec, j)] = w[j]
    OBVIOUS
  <2>1. j \in Nat /\ j \in 1..n /\ j # n /\ ~(j > n)
    BY <1>1
  <2>2. S(j) \in DOMAIN t \ {S(n)}
    <3>1. S(j) \in Slots(st.vec)
      BY <2>1 DEF Slots
    <3>2. S(j) # S(n)
      BY <1>1, <1>14, <2>1
    <3> QED
      BY <1>9, <3>1, <3>2
  <2>3. t[S(j)] = IF j < p THEN v[j] ELSE v[j + 1]
    BY <1>9, <2>1
  <2> QED
    BY <1>12, <1>13, <2>1, <2>2, <2>3
<1> HIDE DEF n
<1>18. HasValues(cutTable, cutVec, w)
  BY <1>11, <1>12, <1>16, <1>17 DEF HasValues
<1> QED
  BY <1>10, <1>11, <1>18 DEF after, n, Contains

---------------------------------------------------------------------------
(* What the server holds *)

States == {"none", "open", "closed"}

\* The vector holds the connections v: those that were accepted, each once, and
\* all that are open.
HeldBy(h, v, states) ==
    /\ Contains(h, h.vec.size, v)
    /\ v \in [1..h.vec.size -> Clients]
    /\ \A i, j \in 1..h.vec.size : v[i] = v[j] => i = j
    /\ \A i \in 1..h.vec.size : states[v[i]] # "none"
    /\ \A c \in Clients : states[c] = "open" => \E i \in 1..h.vec.size : v[i] = c

LEMMA AcceptIsHeld ==
    ASSUME NEW states \in [Clients -> States], NEW h, NEW v, HeldBy(h, v, states),
           NEW c \in Clients, states[c] = "none",
           NEW st, st.vec = h.vec, st.table = Put(h.table, Argument, c)
    PROVE  \E w : HeldBy(push_back(st, Argument), w, [states EXCEPT ![c] = "open"])
<1> DEFINE n == h.vec.size
           w == [i \in 1..n + 1 |-> IF i = n + 1 THEN c ELSE v[i]]
           after == push_back(st, Argument)
           new == [states EXCEPT ![c] = "open"]
<1>1. /\ IsVector(st.vec)
      /\ v \in [1..n -> Clients]
      /\ HasValues(h.table, st.vec, v)
      /\ \A i, j \in 1..n : v[i] = v[j] => i = j
      /\ \A i \in 1..n : states[v[i]] # "none"
      /\ \A d \in Clients : states[d] = "open" => \E i \in 1..n : v[i] = d
      /\ st.vec.size = n
  BY DEF HeldBy, Contains
<1>2. n \in Nat
  BY <1>1 DEF IsVector
<1> HIDE DEF n
<1>3. /\ w \in [1..n + 1 -> Clients]
      /\ \A i \in 1..n : w[i] = v[i]
      /\ w[n + 1] = c
  BY <1>1, <1>2
<1> HIDE DEF w
<1>4. /\ after = [vec |-> after.vec, table |-> after.table]
      /\ IsVector(after.vec)
      /\ after.vec.size = n + 1
      /\ HasValues(after.table, after.vec, w)
  <2>1. \A j \in 1..st.vec.size : w[j] = v[j]
    BY <1>1, <1>3
  <2>2. w[st.vec.size + 1] = c
    BY <1>1, <1>3
  <2>3. Contains(after, st.vec.size + 1, w)
    <3>1. IsVector(st.vec)
      BY <1>1
    <3>2. HasValues(h.table, st.vec, v)
      BY <1>1
    <3>3. st.table = Put(h.table, Argument, c)
      OBVIOUS
    <3> QED
      BY <2>1, <2>2, <3>1, <3>2, <3>3, PushBackPushes, Zenon DEF after
  <2> QED
    BY <1>1, <2>3 DEF Contains
<1>5. \A i \in 1..n : v[i] # c
  BY <1>1
<1>6. \A i, j \in 1..n + 1 : w[i] = w[j] => i = j
  BY <1>1, <1>2, <1>3, <1>5
<1>7. new[c] = "open" /\ \A d \in Clients : d # c => new[d] = states[d]
  OBVIOUS
<1> HIDE DEF new, after
<1>8. \A i \in 1..n + 1 : new[w[i]] # "none"
  <2> SUFFICES ASSUME NEW i \in 1..n + 1
               PROVE  new[w[i]] # "none"
    OBVIOUS
  <2>1. CASE i = n + 1
    BY <1>3, <1>7, <2>1
  <2>2. CASE i # n + 1
    <3>1. i \in 1..n
      BY <1>2, <2>2
    <3> QED
      BY <1>1, <1>3, <1>5, <1>7, <3>1
  <2> QED
    BY <2>1, <2>2
<1>9. ASSUME NEW d \in Clients, new[d] = "open"
      PROVE  \E i \in 1..n + 1 : w[i] = d
  <2>1. CASE d = c
    BY <1>2, <1>3, <2>1
  <2>2. CASE d # c
    <3>1. PICK i \in 1..n : v[i] = d
      BY <1>1, <1>7, <1>9, <2>2
    <3> QED
      BY <1>2, <1>3, <3>1
  <2> QED
    BY <2>1, <2>2
<1>10. HeldBy(after, w, new)
  BY <1>3, <1>4, <1>6, <1>8, <1>9 DEF HeldBy, Contains
<1> QED
  BY <1>10 DEF after, new

LEMMA DropIsHeld ==
    ASSUME NEW states \in [Clients -> States], NEW h, NEW v, HeldBy(h, v, states),
           NEW c \in Clients, states[c] = "open"
    PROVE  \E w : HeldBy(erase_if(h, c), w, [states EXCEPT ![c] = "closed"])
<1> DEFINE n == h.vec.size
           after == erase_if(h, c)
           new == [states EXCEPT ![c] = "closed"]
<1>1. /\ IsVector(h.vec)
      /\ v \in [1..n -> Clients]
      /\ HasValues(h.table, h.vec, v)
      /\ \A i, j \in 1..n : v[i] = v[j] => i = j
      /\ \A i \in 1..n : states[v[i]] # "none"
      /\ \A d \in Clients : states[d] = "open" => \E i \in 1..n : v[i] = d
  BY DEF HeldBy, Contains
<1>2. PICK p \in 1..n : v[p] = c
  BY <1>1
<1>3. n \in Nat /\ n - 1 \in Nat
  BY <1>1, <1>2 DEF IsVector
<1> DEFINE w == [i \in 1..n - 1 |-> IF i < p THEN v[i] ELSE v[i + 1]]
<1>4. /\ w \in [1..n - 1 -> Clients]
      /\ \A i \in 1..n - 1 : w[i] = IF i < p THEN v[i] ELSE v[i + 1]
  BY <1>1, <1>3
<1> HIDE DEF w
<1>5. \A j \in 1..n : j # p => v[j] # c
  BY <1>1, <1>2
<1>6. /\ after = [vec |-> after.vec, table |-> after.table]
      /\ IsVector(after.vec)
      /\ after.vec.size = n - 1
      /\ HasValues(after.table, after.vec, w)
  <2>0. IsVector(h.vec)
    BY <1>1
  <2>1. HasValues(h.table, h.vec, v)
    BY <1>1
  <2>2. p \in 1..h.vec.size
    BY <1>2
  <2>5. v[p] = c
    BY <1>2
  <2>3. \A j \in 1..h.vec.size : j # p => v[j] # c
    BY <1>5
  <2>4. \A j \in 1..h.vec.size - 1 : w[j] = IF j < p THEN v[j] ELSE v[j + 1]
    BY <1>4
  <2>6. Contains(erase_if(h, c), h.vec.size - 1, w)
    BY <2>0, <2>1, <2>2, <2>3, <2>4, <2>5, EraseIfDrops
  <2> QED
    BY <2>6 DEF Contains
<1>7. new[c] = "closed" /\ \A d \in Clients : d # c => new[d] = states[d]
  OBVIOUS
<1> HIDE DEF new, after, n
<1>8. \A i, j \in 1..n - 1 : w[i] = w[j] => i = j
  <2> SUFFICES ASSUME NEW i \in 1..n - 1, NEW j \in 1..n - 1, w[i] = w[j]
               PROVE  i = j
    OBVIOUS
  <2> DEFINE at(k) == IF k < p THEN k ELSE k + 1
  <2>1. at(i) \in 1..n /\ at(j) \in 1..n
    BY <1>3
  <2>2. v[at(i)] = v[at(j)]
    BY <1>4
  <2>3. at(i) = at(j)
    BY <1>1, <2>1, <2>2
  <2> QED
    BY <1>2, <1>3, <2>3
<1>9. \A i \in 1..n - 1 : new[w[i]] # "none"
  <2> SUFFICES ASSUME NEW i \in 1..n - 1
               PROVE  new[w[i]] # "none"
    OBVIOUS
  <2>1. PICK j \in 1..n : w[i] = v[j]
    BY <1>3, <1>4
  <2>2. CASE v[j] = c
    BY <1>7, <2>1, <2>2
  <2>3. CASE v[j] # c
    BY <1>1, <1>7, <2>1, <2>3
  <2> QED
    BY <2>2, <2>3
<1>10. ASSUME NEW d \in Clients, new[d] = "open"
       PROVE  \E i \in 1..n - 1 : w[i] = d
  <2>1. d # c
    BY <1>7, <1>10
  <2>2. PICK j \in 1..n : v[j] = d
    BY <1>1, <1>7, <1>10, <2>1
  <2>3. j # p
    BY <1>2, <2>1, <2>2
  <2>4. CASE j < p
    <3>1. j \in 1..n - 1
      BY <1>2, <1>3, <2>4
    <3> QED
      BY <1>4, <2>2, <2>4, <3>1
  <2>5. CASE j > p
    <3>1. j - 1 \in 1..n - 1 /\ ~(j - 1 < p) /\ (j - 1) + 1 = j
      BY <1>2, <1>3, <2>5
    <3>2. w[j - 1] = v[j]
      BY <1>4, <3>1
    <3> QED
      BY <2>2, <3>1, <3>2
  <2> QED
    BY <1>2, <1>3, <2>3, <2>4, <2>5
<1>11. HeldBy(after, w, new)
  BY <1>4, <1>6, <1>8, <1>9, <1>10 DEF HeldBy, Contains
<1> QED
  BY <1>11 DEF after, new

LEMMA LoseIsHeld ==
    ASSUME NEW states \in [Clients -> States], NEW h, NEW v, HeldBy(h, v, states),
           NEW c \in Clients, states[c] = "open"
    PROVE  HeldBy(h, v, [states EXCEPT ![c] = "closed"])
<1> DEFINE new == [states EXCEPT ![c] = "closed"]
<1>1. new[c] = "closed" /\ \A d \in Clients : d # c => new[d] = states[d]
  OBVIOUS
<1> HIDE DEF new
<1>2. \A d \in Clients : new[d] # "none" <=> states[d] # "none"
  BY <1>1
<1>3. HeldBy(h, v, new)
  BY <1>1, <1>2 DEF HeldBy
<1> QED
  BY <1>3 DEF new

---------------------------------------------------------------------------
(* What a client's listeners do *)

Client(L, m, r, x) == [listeners |-> L, callback |-> m, received |-> r, ended |-> x]

LEMMA ClientParts ==
    ASSUME NEW L, NEW m, NEW r, NEW x
    PROVE  /\ Client(L, m, r, x).listeners = L
           /\ Client(L, m, r, x).callback = m
           /\ Client(L, m, r, x).received = r
           /\ Client(L, m, r, x).ended = x
  BY DEF Client

Group(ons) == [on |-> ons, live |-> TRUE]

LEMMA ListenAdds ==
    ASSUME NEW L, NEW m, NEW r, NEW x, NEW ons
    PROVE  Listen(Client(L, m, r, x), ons) = Client(Put(L, m + 1, Group(ons)), m + 1, r, x)
<1> DEFINE s == Client(L, m, r, x)
           z == s.callback + 1
           y == Put(s.listeners, z, Group(ons))
<1>1. z = m + 1 /\ y = Put(L, m + 1, Group(ons))
  BY ClientParts
<1>2. Listen(s, ons) = [s EXCEPT !.callback = z, !.listeners = y]
  <2> HIDE DEF s
  <2> QED
    BY Zenon DEF Listen, Group
<1>3. s = Client(L, m, r, x)
  OBVIOUS
<1> HIDE DEF y, z, s
<1>4. [s EXCEPT !.callback = z, !.listeners = y] = Client(y, z, r, x)
  <2> DEFINE t == [s EXCEPT !.callback = z]
  <2>1. t = Client(L, z, r, x)
    BY <1>3 DEF Client
  <2>2. [s EXCEPT !.callback = z, !.listeners = y] = [t EXCEPT !.listeners = y]
    OBVIOUS
  <2> HIDE DEF t
  <2>3. [t EXCEPT !.listeners = y] = Client(y, z, r, x)
    BY <2>1 DEF Client
  <2> QED
    BY <2>2, <2>3
<1> QED
  BY <1>1, <1>2, <1>4 DEF s

Silenced(L, n) == [L EXCEPT ![n].live = FALSE]
Without(L, n) == [k \in DOMAIN L \ {n} |-> L[k]]

LEMMA SilencedIs ==
    ASSUME NEW L, NEW n \in DOMAIN L, NEW ons, L[n] = Group(ons)
    PROVE  /\ DOMAIN Silenced(L, n) = DOMAIN L
           /\ ~Silenced(L, n)[n].live
           /\ \A k \in DOMAIN L : k # n => Silenced(L, n)[k] = L[k]
<1>1. L[n] = [on |-> ons, live |-> TRUE]
  BY DEF Group
<1>2. [L EXCEPT ![n].live = FALSE][n].live = FALSE
  BY <1>1, Zenon
<1>3. DOMAIN [L EXCEPT ![n].live = FALSE] = DOMAIN L
  BY Zenon
<1>4. ASSUME NEW k \in DOMAIN L, k # n
      PROVE  [L EXCEPT ![n].live = FALSE][k] = L[k]
  BY <1>4, Zenon
<1> QED
  BY <1>2, <1>3, <1>4, Zenon DEF Silenced

LEMMA WithoutIs ==
    ASSUME NEW L, NEW n
    PROVE  /\ DOMAIN Without(L, n) = DOMAIN L \ {n}
           /\ \A k \in DOMAIN L \ {n} : Without(L, n)[k] = L[k]
  BY DEF Without

LEMMA CloseOutSilences ==
    ASSUME NEW L, NEW m, NEW r, NEW x, NEW n
    PROVE  close_out(Client(L, m, r, x), n) = Client(Silenced(L, n), m, r, x)
<1> DEFINE s == Client(L, m, r, x)
           y == [s.listeners EXCEPT ![n].live = FALSE]
<1>1. y = Silenced(L, n)
  <2>1. s.listeners = L
    BY ClientParts
  <2> HIDE DEF s
  <2> QED
    BY <2>1, Zenon DEF Silenced
<1>2. close_out(s, n) = [s EXCEPT !.listeners = y]
  <2> HIDE DEF s
  <2> QED
    BY Zenon DEF close_out
<1>3. s = Client(L, m, r, x)
  OBVIOUS
<1> HIDE DEF y, s
<1>4. [s EXCEPT !.listeners = y] = Client(y, m, r, x)
  BY <1>3 DEF Client
<1> QED
  BY <1>1, <1>2, <1>4 DEF s

LEMMA CleanUpRemoves ==
    ASSUME NEW L, NEW m, NEW r, NEW x, NEW n
    PROVE  clean_up_listeners(Client(L, m, r, x), n) = Client(Without(L, n), m, r, x)
<1> DEFINE s == Client(L, m, r, x)
           y == [k \in DOMAIN s.listeners \ {n} |-> s.listeners[k]]
<1>1. y = Without(L, n)
  BY ClientParts DEF Without
<1>2. clean_up_listeners(s, n) = [s EXCEPT !.listeners = y]
  <2> HIDE DEF s
  <2> QED
    BY Zenon DEF clean_up_listeners
<1>3. s = Client(L, m, r, x)
  OBVIOUS
<1> HIDE DEF y, s
<1>4. [s EXCEPT !.listeners = y] = Client(y, m, r, x)
  BY <1>3 DEF Client
<1> QED
  BY <1>1, <1>2, <1>4 DEF s

\* None of the listeners can be called any more, or those of the last promise only.
Silent(L) == \A n \in DOMAIN L : ~L[n].live

Reads(L, m, ons) ==
    /\ m \in DOMAIN L
    /\ L[m] = Group(ons)
    /\ \A n \in DOMAIN L : L[n].live => n = m

Opening == {"open", "error", "close"}
Reading == {"error", "close", "message"}

\* The function in the definition of Dispatch, for n of the callbacks.
Called(s, i, e) ==
    IF i \in DOMAIN s.listeners /\ s.listeners[i].live /\ e.on \in s.listeners[i].on
    THEN CallListener(s, i, e) ELSE s

Calls(f, state, e, n) == f = [i \in 0..n |-> IF i = 0 THEN state ELSE Called(f[i - 1], i, e)]

LEMMA CallsExists ==
    ASSUME NEW state, NEW e, NEW n \in Nat
    PROVE  \E f : Calls(f, state, e, n)
<1> DEFINE T == {k \in 0..n : \E f : Calls(f, state, e, k)}
<1>1. 0 \in T
  <2> DEFINE f == [i \in 0..0 |-> state]
  <2>1. Calls(f, state, e, 0)
    BY SMT DEF Calls
  <2> QED
    BY <2>1
<1>2. ASSUME NEW k \in 0..n - 1, k \in T
      PROVE  k + 1 \in T
  <2>1. PICK f : Calls(f, state, e, k)
    BY <1>2
  <2>2. \A i \in 0..k : f[i] = IF i = 0 THEN state ELSE Called(f[i - 1], i, e)
    BY <2>1, Zenon DEF Calls
  <2> DEFINE last == Called(f[k], k + 1, e)
             g == [i \in 0..(k + 1) |-> IF i = k + 1 THEN last ELSE f[i]]
  <2>3. \A i \in 0..(k + 1) : g[i] = IF i = 0 THEN state ELSE Called(g[i - 1], i, e)
    BY <2>2
  <2>4. Calls(g, state, e, k + 1)
    <3>1. g = [i \in 0..(k + 1) |-> IF i = 0 THEN state ELSE Called(g[i - 1], i, e)]
      BY <2>3
    <3> QED
      BY <3>1, Zenon DEF Calls
  <2> HIDE DEF g
  <2> QED
    BY <2>4
<1>3. \A i \in 0..n : i \in T
  <2> HIDE DEF T
  <2> QED
    BY <1>1, <1>2, UpTo
<1> QED
  BY <1>3

\* When only the last promise's listeners can be called, the event is theirs.
LEMMA LastIsCalled ==
    ASSUME NEW L, NEW m \in Nat, NEW r, NEW x, NEW e,
           \A n \in DOMAIN L : L[n].live => n = m
    PROVE  Dispatch(Client(L, m, r, x), e) =
             IF m # 0 THEN Called(Client(L, m, r, x), m, e) ELSE Client(L, m, r, x)
<1> DEFINE state == Client(L, m, r, x)
           f == CHOOSE f : Calls(f, state, e, m)
           T == {i \in 0..m : i < m => f[i] = state}
<1>1. state.listeners = L /\ state.callback = m
  BY ClientParts
<1> HIDE DEF state
<1>2. Dispatch(state, e) = f[m]
  <2>1. Dispatch(state, e) = (CHOOSE g : Calls(g, state, e, state.callback))[state.callback]
    BY Zenon DEF Dispatch, Calls, Called
  <2> QED
    BY <1>1, <2>1
<1>3. Calls(f, state, e, m)
  BY CallsExists
<1> HIDE DEF f
<1>4. \A i \in 0..m : f[i] = IF i = 0 THEN state ELSE Called(f[i - 1], i, e)
  BY <1>3, Zenon DEF Calls
<1>5. 0 \in T
  BY <1>4
<1>6. ASSUME NEW i \in 0..m - 1, i \in T
      PROVE  i + 1 \in T
  <2>1. i + 1 \in 0..m /\ i + 1 # 0 /\ (i + 1) - 1 = i /\ i < m
    OBVIOUS
  <2>2. f[i + 1] = Called(state, i + 1, e)
    BY <1>4, <1>6, <2>1
  <2>3. CASE i + 1 < m
    <3>1. ~(i + 1 \in DOMAIN state.listeners /\ state.listeners[i + 1].live)
      BY <1>1, <2>3
    <3>2. Called(state, i + 1, e) = state
      BY <3>1 DEF Called
    <3> QED
      BY <2>1, <2>2, <3>2
  <2>4. CASE ~(i + 1 < m)
    BY <2>1, <2>4
  <2> QED
    BY <2>3, <2>4
<1>7. \A i \in 0..m : i \in T
  <2> HIDE DEF T
  <2> QED
    BY <1>5, <1>6, UpTo
<1>8. CASE m = 0
  BY <1>2, <1>4, <1>8 DEF state
<1>9. CASE m # 0
  <2>1. m - 1 \in 0..m /\ m - 1 < m /\ m \in 0..m
    BY <1>9
  <2>2. f[m - 1] = state
    BY <1>7, <2>1
  <2>3. f[m] = Called(f[m - 1], m, e)
    BY <1>4, <1>9, <2>1
  <2> QED
    BY <1>2, <1>9, <2>2, <2>3 DEF state
<1> QED
  BY <1>8, <1>9

\* Nothing comes of an event when no listener can be called.
LEMMA SilentStays ==
    ASSUME NEW L, Silent(L), NEW m \in Nat, NEW r, NEW x, NEW e
    PROVE  Dispatch(Client(L, m, r, x), e) = Client(L, m, r, x)
<1>1. \A n \in DOMAIN L : L[n].live => n = m
  BY DEF Silent
<1>2. Called(Client(L, m, r, x), m, e) = Client(L, m, r, x)
  BY ClientParts DEF Called, Silent
<1>3. Dispatch(Client(L, m, r, x), e) =
        IF m # 0 THEN Called(Client(L, m, r, x), m, e) ELSE Client(L, m, r, x)
  BY <1>1, LastIsCalled, Zenon
<1> QED
  BY <1>2, <1>3

\* The listeners of the promise that waits are called.
LEMMA ReaderIsCalled ==
    ASSUME NEW L, NEW m \in Nat \ {0}, NEW ons, Reads(L, m, ons), NEW r, NEW x,
           NEW e, e.on \in ons
    PROVE  Dispatch(Client(L, m, r, x), e) = CallListener(Client(L, m, r, x), m, e)
<1>1. \A n \in DOMAIN L : L[n].live => n = m
  BY DEF Reads
<1>2. m \in DOMAIN L /\ L[m].live /\ e.on \in L[m].on
  BY DEF Reads, Group
<1>3. Called(Client(L, m, r, x), m, e) = CallListener(Client(L, m, r, x), m, e)
  BY <1>2, ClientParts DEF Called
<1>4. m \in Nat /\ m # 0
  OBVIOUS
<1>5. Dispatch(Client(L, m, r, x), e) =
        IF m # 0 THEN Called(Client(L, m, r, x), m, e) ELSE Client(L, m, r, x)
  BY <1>1, LastIsCalled
<1> QED
  BY <1>3, <1>4, <1>5

LEMMA PutReads ==
    ASSUME NEW L, NEW m, NEW ons, \A n \in DOMAIN L : n # m => ~L[n].live
    PROVE  Reads(Put(L, m, Group(ons)), m, ons)
<1> DEFINE f == Put(L, m, Group(ons))
<1>1. /\ DOMAIN f = DOMAIN L \cup {m}
      /\ f[m] = Group(ons)
      /\ \A n \in DOMAIN L : n # m => f[n] = L[n]
  BY DEF Put
<1> HIDE DEF f
<1>2. Reads(f, m, ons)
  BY <1>1 DEF Reads
<1> QED
  BY <1>2 DEF f

\* init waits for the socket to open.
LEMMA InitWaits ==
    ASSUME NEW L, Silent(L), NEW r, NEW x
    PROVE  \E M : init(Client(L, 0, r, x)) = Client(M, 1, r, x) /\ Reads(M, 1, Opening)
<1>1. init(Client(L, 0, r, x)) = Client(Put(L, 0 + 1, Group(Opening)), 0 + 1, r, x)
  BY ListenAdds DEF init, Opening
<1>2. Reads(Put(L, 1, Group(Opening)), 1, Opening)
  BY PutReads DEF Silent
<1> QED
  BY <1>1, <1>2

\* The socket is open: the first read waits.
LEMMA OpenReads ==
    ASSUME NEW L, Reads(L, 1, Opening), NEW r, NEW x, NEW e, e.on = "open"
    PROVE  \E M : /\ Dispatch(Client(L, 1, r, x), e) = Client(M, 2, r, x)
                  /\ Reads(M, 2, Reading)
<1> DEFINE P == Put(L, 2, Group(Reading))
           M == Silenced(P, 1)
<1>1. Dispatch(Client(L, 1, r, x), e) = CallListener(Client(L, 1, r, x), 1, e)
  BY ReaderIsCalled DEF Opening
<1>2. CallListener(Client(L, 1, r, x), 1, e) = close_out(read_message(Client(L, 1, r, x)), 1)
  BY DEF CallListener
<1>3. read_message(Client(L, 1, r, x)) = Client(P, 2, r, x)
  <2>1. 1 + 1 = 2
    OBVIOUS
  <2>2. Listen(Client(L, 1, r, x), Reading) = Client(Put(L, 1 + 1, Group(Reading)), 1 + 1, r, x)
    BY ListenAdds
  <2> QED
    BY <2>1, <2>2 DEF read_message, Reading
<1>4. close_out(Client(P, 2, r, x), 1) = Client(M, 2, r, x)
  <2> HIDE DEF P
  <2> QED
    BY CloseOutSilences
<1>5. Dispatch(Client(L, 1, r, x), e) = Client(M, 2, r, x)
  BY <1>1, <1>2, <1>3, <1>4, Zenon
<1>6. /\ DOMAIN P = DOMAIN L \cup {2}
      /\ P[2] = Group(Reading)
      /\ P[1] = Group(Opening)
      /\ 1 \in DOMAIN L
      /\ \A n \in DOMAIN L : n # 2 => P[n] = L[n]
      /\ \A n \in DOMAIN L : n # 1 => ~L[n].live
  BY DEF Put, Reads
<1> HIDE DEF P
<1>7. 1 \in DOMAIN P
  BY <1>6
<1>8. /\ DOMAIN M = DOMAIN P
      /\ ~M[1].live
      /\ \A n \in DOMAIN P : n # 1 => M[n] = P[n]
  BY <1>6, <1>7, SilencedIs
<1> HIDE DEF M
<1>9. Reads(M, 2, Reading)
  BY <1>6, <1>8 DEF Reads
<1> QED
  BY <1>5, <1>9

\* A message is given to the application and the next read waits.
LEMMA MessageReads ==
    ASSUME NEW L, NEW m \in Nat \ {0}, Reads(L, m, Reading), NEW r, NEW x,
           NEW e, e.on = "message"
    PROVE  \E M : /\ Dispatch(Client(L, m, r, x), e) =
                        Client(M, m + 1, Append(r, e.message), x)
                  /\ Reads(M, m + 1, Reading)
<1> DEFINE q == Append(r, e.message)
           P == Put(L, m + 1, Group(Reading))
           M == Without(P, m)
<1>1. Dispatch(Client(L, m, r, x), e) = CallListener(Client(L, m, r, x), m, e)
  BY ReaderIsCalled DEF Reading
<1>2. CallListener(Client(L, m, r, x), m, e) =
        clean_up_listeners(read_message([Client(L, m, r, x) EXCEPT !.received = Append(@, e.message)]), m)
  BY Zenon DEF CallListener
<1>3. [Client(L, m, r, x) EXCEPT !.received = Append(@, e.message)] = Client(L, m, q, x)
  <2> DEFINE s == Client(L, m, r, x)
             y == Append(s.received, e.message)
  <2>1. y = q
    BY ClientParts
  <2>2. s = Client(L, m, r, x)
    OBVIOUS
  <2> HIDE DEF y, s
  <2>3. [s EXCEPT !.received = y] = Client(L, m, y, x)
    BY <2>2 DEF Client
  <2> QED
    BY <2>1, <2>3 DEF s, y
<1> HIDE DEF q
<1>4. read_message(Client(L, m, q, x)) = Client(P, m + 1, q, x)
  BY ListenAdds DEF read_message, Reading
<1>5. clean_up_listeners(Client(P, m + 1, q, x), m) = Client(M, m + 1, q, x)
  <2> HIDE DEF P
  <2> QED
    BY CleanUpRemoves
<1>6. Dispatch(Client(L, m, r, x), e) = Client(M, m + 1, q, x)
  BY <1>1, <1>2, <1>3, <1>4, <1>5, Zenon
<1>7. /\ DOMAIN P = DOMAIN L \cup {m + 1}
      /\ P[m + 1] = Group(Reading)
      /\ \A n \in DOMAIN L : n # m + 1 => P[n] = L[n]
      /\ \A n \in DOMAIN L : n # m => ~L[n].live
  BY DEF Put, Reads
<1> HIDE DEF P
<1>8. /\ DOMAIN M = (DOMAIN L \cup {m + 1}) \ {m}
      /\ \A n \in DOMAIN M : M[n] = P[n]
  BY <1>7 DEF Without
<1> HIDE DEF M
<1>9. m + 1 # m
  OBVIOUS
<1>10. Reads(M, m + 1, Reading)
  <2>1. m + 1 \in DOMAIN M /\ M[m + 1] = Group(Reading)
    BY <1>7, <1>8, <1>9
  <2>2. ASSUME NEW n \in DOMAIN M, M[n].live, n # m + 1
        PROVE  FALSE
    <3>1. n \in DOMAIN L /\ n # m /\ M[n] = L[n]
      BY <1>7, <1>8, <2>2
    <3> QED
      BY <1>7, <2>2, <3>1
  <2> QED
    BY <2>1, <2>2 DEF Reads
<1> USE DEF q
<1> QED
  BY <1>6, <1>10

\* The application is told of the end, and of nothing after it.
LEMMA EndIsTold ==
    ASSUME NEW L, NEW m \in Nat \ {0}, NEW ons, Reads(L, m, ons), NEW r, NEW x,
           NEW e, e.on \in ons, e.on \in {"error", "close"}
    PROVE  \E M : Dispatch(Client(L, m, r, x), e) = Client(M, m, r, x + 1) /\ Silent(M)
<1> DEFINE told == [Client(L, m, r, x) EXCEPT !.ended = @ + 1]
           C == Silenced(L, m)
           R == Without(L, m)
<1>1. Dispatch(Client(L, m, r, x), e) = CallListener(Client(L, m, r, x), m, e)
  BY ReaderIsCalled
<1>2. e.on # "open" /\ e.on # "message"
  OBVIOUS
<1>3. CallListener(Client(L, m, r, x), m, e) =
        IF m = 1 THEN close_out(told, m) ELSE clean_up_listeners(told, m)
  BY <1>2, Zenon DEF CallListener
<1>4. told = Client(L, m, r, x + 1)
  <2> DEFINE s == Client(L, m, r, x)
             y == s.ended + 1
  <2>1. y = x + 1
    BY ClientParts
  <2>2. s = Client(L, m, r, x)
    OBVIOUS
  <2> HIDE DEF y, s
  <2>3. [s EXCEPT !.ended = y] = Client(L, m, r, y)
    BY <2>2 DEF Client
  <2> QED
    BY <2>1, <2>3 DEF s, y
<1>5. m \in DOMAIN L /\ L[m] = Group(ons) /\ \A n \in DOMAIN L : n # m => ~L[n].live
  BY DEF Reads
<1> HIDE DEF told
<1>6. CASE m = 1
  <2>1. close_out(Client(L, m, r, x + 1), m) = Client(C, m, r, x + 1)
    BY CloseOutSilences
  <2>2. /\ DOMAIN C = DOMAIN L
        /\ ~C[m].live
        /\ \A n \in DOMAIN L : n # m => C[n] = L[n]
    BY <1>5, SilencedIs
  <2> HIDE DEF C
  <2>4. Silent(C)
    BY <1>5, <2>2 DEF Silent
  <2> QED
    BY <1>1, <1>3, <1>4, <1>6, <2>1, <2>4
<1>7. CASE m # 1
  <2>1. clean_up_listeners(Client(L, m, r, x + 1), m) = Client(R, m, r, x + 1)
    BY CleanUpRemoves
  <2>2. DOMAIN R = DOMAIN L \ {m} /\ \A n \in DOMAIN L \ {m} : R[n] = L[n]
    BY WithoutIs
  <2> HIDE DEF R
  <2>3. Silent(R)
    BY <1>5, <2>2 DEF Silent
  <2> QED
    BY <1>1, <1>3, <1>4, <1>7, <2>1, <2>3
<1> QED
  BY <1>6, <1>7

---------------------------------------------------------------------------
(* The messages among the events on their way *)

Names == {"open", "message", "error", "close"}
Messages == Nat \cup {Bad}
Events == [on : Names, message : Messages]

Collected(s, e) == IF e.on = "message" THEN Append(s, e.message) ELSE s

\* The function in the definition of MessagesOf, for n of the events.
Collects(f, es, n) == f = [i \in 0..n |-> IF i = 0 THEN <<>> ELSE Collected(f[i - 1], es[i])]

\* What f says of all the events.
Collection(f, es) ==
    /\ f[0] = <<>>
    /\ \A i \in 0..Len(es) : f[i] \in Seq(Messages)
    /\ \A i \in 1..Len(es) : f[i] = Collected(f[i - 1], es[i])

LEMMA CollectsExists ==
    ASSUME NEW es, NEW n \in Nat
    PROVE  \E f : Collects(f, es, n)
<1> DEFINE T == {k \in 0..n : \E f : Collects(f, es, k)}
<1>1. 0 \in T
  <2> DEFINE f == [i \in 0..0 |-> <<>>]
  <2>1. Collects(f, es, 0)
    BY SMT DEF Collects
  <2> QED
    BY <2>1
<1>2. ASSUME NEW k \in 0..n - 1, k \in T
      PROVE  k + 1 \in T
  <2>1. PICK f : Collects(f, es, k)
    BY <1>2
  <2>2. \A i \in 0..k : f[i] = IF i = 0 THEN <<>> ELSE Collected(f[i - 1], es[i])
    BY <2>1, Zenon DEF Collects
  <2> DEFINE last == Collected(f[k], es[k + 1])
             g == [i \in 0..(k + 1) |-> IF i = k + 1 THEN last ELSE f[i]]
  <2>3. \A i \in 0..(k + 1) : g[i] = IF i = 0 THEN <<>> ELSE Collected(g[i - 1], es[i])
    BY <2>2
  <2>4. Collects(g, es, k + 1)
    <3>1. g = [i \in 0..(k + 1) |-> IF i = 0 THEN <<>> ELSE Collected(g[i - 1], es[i])]
      BY <2>3
    <3> QED
      BY <3>1, Zenon DEF Collects
  <2> HIDE DEF g
  <2> QED
    BY <2>4
<1>3. \A i \in 0..n : i \in T
  <2> HIDE DEF T
  <2> QED
    BY <1>1, <1>2, UpTo
<1> QED
  BY <1>3

LEMMA CollectedIsSeq ==
    ASSUME NEW s \in Seq(Messages), NEW e \in Events
    PROVE  Collected(s, e) \in Seq(Messages)
<1>1. e.message \in Messages
  BY DEF Events
<1>2. Append(s, e.message) \in Seq(Messages)
  BY <1>1, AppendProperties
<1> QED
  BY <1>2 DEF Collected

LEMMA MessagesAreCollected ==
    ASSUME NEW es \in Seq(Events)
    PROVE  \E f : Collection(f, es) /\ MessagesOf(es) = f[Len(es)]
<1> DEFINE n == Len(es)
           f == CHOOSE f : Collects(f, es, n)
           T == {i \in 0..n : f[i] \in Seq(Messages)}
<1>1. MessagesOf(es) = f[n]
  BY Zenon DEF MessagesOf, Collects, Collected
<1>2. n \in Nat /\ \A i \in 1..n : es[i] \in Events
  BY LenProperties, ElementOfSeq
<1> HIDE DEF n
<1>3. Collects(f, es, n)
  BY <1>2, CollectsExists
<1> HIDE DEF f
<1>4. \A i \in 0..n : f[i] = IF i = 0 THEN <<>> ELSE Collected(f[i - 1], es[i])
  BY <1>3, Zenon DEF Collects
<1>5. f[0] = <<>>
  BY <1>2, <1>4
<1>6. 0 \in T
  <2>1. <<>> \in Seq(Messages)
    BY EmptySeq
  <2>2. f[0] \in Seq(Messages)
    BY <1>5, <2>1
  <2> QED
    BY <1>2, <2>2
<1>7. ASSUME NEW i \in 0..n - 1, i \in T
      PROVE  i + 1 \in T
  <2>1. i + 1 \in 0..n /\ i + 1 \in 1..n /\ i + 1 # 0 /\ (i + 1) - 1 = i
    BY <1>2
  <2>2. f[i + 1] = Collected(f[i], es[i + 1])
    BY <1>4, <2>1
  <2>3. Collected(f[i], es[i + 1]) \in Seq(Messages)
    BY <1>2, <1>7, <2>1, CollectedIsSeq
  <2> QED
    BY <2>1, <2>2, <2>3
<1>8. \A i \in 0..n : i \in T
  <2> HIDE DEF T
  <2> QED
    BY <1>2, <1>6, <1>7, UpTo
<1>9. \A i \in 1..n : f[i] = Collected(f[i - 1], es[i])
  BY <1>2, <1>4
<1>10. \A i \in 0..n : f[i] \in Seq(Messages)
  BY <1>8
<1>11. Collection(f, es)
  BY <1>5, <1>9, <1>10 DEF Collection, n
<1> QED
  BY <1>1, <1>11 DEF n

\* There is only one collection.
LEMMA CollectionIsOne ==
    ASSUME NEW es \in Seq(Events), NEW f, Collection(f, es)
    PROVE  MessagesOf(es) = f[Len(es)]
<1>1. PICK g : Collection(g, es) /\ MessagesOf(es) = g[Len(es)]
  BY MessagesAreCollected
<1> DEFINE n == Len(es)
           T == {i \in 0..n : f[i] = g[i]}
<1>2. n \in Nat
  BY LenProperties
<1>3. /\ f[0] = <<>> /\ g[0] = <<>>
      /\ \A i \in 1..n : f[i] = Collected(f[i - 1], es[i])
      /\ \A i \in 1..n : g[i] = Collected(g[i - 1], es[i])
  BY <1>1 DEF Collection
<1> HIDE DEF n
<1>4. 0 \in T
  BY <1>2, <1>3
<1>5. ASSUME NEW i \in 0..n - 1, i \in T
      PROVE  i + 1 \in T
  <2>1. i + 1 \in 0..n /\ i + 1 \in 1..n /\ (i + 1) - 1 = i
    BY <1>2
  <2>2. f[i + 1] = Collected(f[i], es[i + 1]) /\ g[i + 1] = Collected(g[i], es[i + 1])
    BY <1>3, <2>1
  <2> QED
    BY <1>5, <2>1, <2>2
<1>6. \A i \in 0..n : i \in T
  <2> HIDE DEF T
  <2> QED
    BY <1>2, <1>4, <1>5, UpTo
<1> QED
  BY <1>1, <1>2, <1>6 DEF n

LEMMA MessagesAreMessages ==
    ASSUME NEW es \in Seq(Events)
    PROVE  MessagesOf(es) \in Seq(Messages)
<1>1. PICK f : Collection(f, es) /\ MessagesOf(es) = f[Len(es)]
  BY MessagesAreCollected
<1>2. Len(es) \in 0..Len(es)
  BY LenProperties
<1> QED
  BY <1>1, <1>2 DEF Collection

LEMMA NoMessages == MessagesOf(<<>>) = <<>>
<1>1. <<>> \in Seq(Events) /\ Len(<<>>) = 0
  BY EmptySeq
<1>2. PICK f : Collection(f, <<>>) /\ MessagesOf(<<>>) = f[Len(<<>>)]
  BY <1>1, MessagesAreCollected
<1> QED
  BY <1>1, <1>2 DEF Collection

\* An event that is added adds its message.
LEMMA MessagesOfAppend ==
    ASSUME NEW es \in Seq(Events), NEW e \in Events
    PROVE  MessagesOf(Append(es, e)) = Collected(MessagesOf(es), e)
<1> DEFINE more == Append(es, e)
           n == Len(es)
<1>1. /\ more \in Seq(Events) /\ Len(more) = n + 1 /\ n \in Nat
      /\ \A i \in 1..n : more[i] = es[i]
      /\ more[n + 1] = e
  BY AppendProperties, LenProperties
<1> HIDE DEF more
<1>2. PICK f : Collection(f, more) /\ MessagesOf(more) = f[Len(more)]
  BY <1>1, MessagesAreCollected
<1>3. /\ f[0] = <<>>
      /\ \A i \in 0..n + 1 : f[i] \in Seq(Messages)
      /\ \A i \in 1..n + 1 : f[i] = Collected(f[i - 1], more[i])
      /\ MessagesOf(more) = f[n + 1]
  BY <1>1, <1>2 DEF Collection
<1>4. Collection(f, es)
  <2>1. \A i \in 0..n : f[i] \in Seq(Messages)
    BY <1>1, <1>3
  <2>2. ASSUME NEW i \in 1..n
        PROVE  f[i] = Collected(f[i - 1], es[i])
    BY <1>1, <1>3
  <2> QED
    BY <1>3, <2>1, <2>2 DEF Collection
<1>5. MessagesOf(es) = f[n]
  BY <1>4, CollectionIsOne
<1>6. f[n + 1] = Collected(f[n], e)
  BY <1>1, <1>3
<1> QED
  BY <1>3, <1>5, <1>6 DEF more

\* The first event's message is the first of the messages.
LEMMA MessagesOfTail ==
    ASSUME NEW es \in Seq(Events), es # <<>>
    PROVE  MessagesOf(es) = Collected(<<>>, Head(es)) \o MessagesOf(Tail(es))
<1> DEFINE h == Head(es)
           t == Tail(es)
           p == Collected(<<>>, h)
           n == Len(t)
<1>1. /\ h \in Events /\ t \in Seq(Events) /\ Len(es) = n + 1 /\ n \in Nat
      /\ \A i \in 1..n : t[i] = es[i + 1]
      /\ es[1] = h
      /\ \A i \in 1..n + 1 : es[i] \in Events
  BY HeadTailProperties, LenProperties, ElementOfSeq
<1>2. p \in Seq(Messages)
  BY <1>1, CollectedIsSeq, EmptySeq
<1> HIDE DEF n
<1>3. PICK g : Collection(g, t) /\ MessagesOf(t) = g[n]
  BY <1>1, MessagesAreCollected DEF n
<1>4. /\ g[0] = <<>>
      /\ \A i \in 0..n : g[i] \in Seq(Messages)
      /\ \A i \in 1..n : g[i] = Collected(g[i - 1], t[i])
  BY <1>3 DEF Collection, n
<1> HIDE DEF p, h, t
<1> DEFINE f == [i \in 0..n + 1 |-> IF i = 0 THEN <<>> ELSE p \o g[i - 1]]
<1>5. f[0] = <<>> /\ \A i \in 1..n + 1 : f[i] = p \o g[i - 1]
  BY <1>1
<1> HIDE DEF f
<1>6. \A i \in 0..n + 1 : f[i] \in Seq(Messages)
  <2>1. ASSUME NEW i \in 0..n
        PROVE  p \o g[i] \in Seq(Messages)
    <3>1. g[i] \in Seq(Messages)
      BY <1>4
    <3> QED
      BY <1>2, <3>1, ConcatProperties
  <2>2. ASSUME NEW i \in 0..n + 1
        PROVE  f[i] \in Seq(Messages)
    <3>1. CASE i = 0
      <4>1. <<>> \in Seq(Messages)
        BY EmptySeq
      <4> QED
        BY <1>5, <3>1, <4>1
    <3>2. CASE i # 0
      <4>1. i \in 1..n + 1 /\ i - 1 \in 0..n
        BY <1>1, <3>2
      <4>2. f[i] = p \o g[i - 1]
        BY <1>5, <4>1
      <4>3. p \o g[i - 1] \in Seq(Messages)
        BY <2>1, <4>1
      <4> QED
        BY <4>2, <4>3
    <3> QED
      BY <3>1, <3>2
  <2> QED
    BY <2>2
<1>7. ASSUME NEW i \in 1..n + 1
      PROVE  f[i] = Collected(f[i - 1], es[i])
  <2>1. CASE i = 1
    <3>1. f[1] = p \o <<>>
      <4>1. 1 \in 1..n + 1 /\ 1 - 1 = 0
        BY <1>1
      <4>2. f[1] = p \o g[1 - 1]
        BY <1>5, <4>1
      <4> QED
        BY <1>4, <4>1, <4>2
    <3>2. f[1] = p
      BY <1>2, <3>1, ConcatEmptySeq
    <3> QED
      BY <1>1, <1>5, <2>1, <3>2 DEF p
  <2>2. CASE i # 1
    <3> DEFINE s == g[i - 2]
               e == es[i]
    <3>1. i - 1 \in 1..n /\ (i - 1) - 1 = i - 2 /\ (i - 1) + 1 = i /\ i - 2 \in 0..n
      BY <1>1, <2>2
    <3>2. g[i - 1] = Collected(s, e)
      BY <1>1, <1>4, <3>1
    <3>3. f[i - 1] = p \o s
      BY <1>1, <1>5, <3>1
    <3>4. s \in Seq(Messages) /\ e \in Events
      BY <1>1, <1>4, <3>1
    <3> HIDE DEF s, e
    <3>5. p \o Collected(s, e) = Collected(p \o s, e)
      <4>1. CASE e.on = "message"
        <5>1. e.message \in Messages
          BY <3>4 DEF Events
        <5>2. Append(s, e.message) = s \o <<e.message>>
          BY <3>4, <5>1, AppendIsConcat
        <5>3. p \o s \in Seq(Messages)
          BY <1>2, <3>4, ConcatProperties
        <5>4. Append(p \o s, e.message) = (p \o s) \o <<e.message>>
          BY <5>1, <5>3, AppendIsConcat
        <5>5. <<e.message>> \in Seq(Messages)
          BY <5>1
        <5>6. (p \o s) \o <<e.message>> = p \o (s \o <<e.message>>)
          BY <1>2, <3>4, <5>5, ConcatAssociative
        <5> QED
          BY <4>1, <5>2, <5>4, <5>6 DEF Collected
      <4>2. CASE e.on # "message"
        BY <4>2 DEF Collected
      <4> QED
        BY <4>1, <4>2
    <3>6. f[i] = p \o Collected(s, e)
      BY <1>5, <3>2
    <3> QED
      BY <3>3, <3>5, <3>6 DEF e
  <2> QED
    BY <2>1, <2>2
<1>8. Collection(f, es)
  BY <1>1, <1>5, <1>6, <1>7 DEF Collection
<1>9. MessagesOf(es) = f[n + 1]
  BY <1>1, <1>8, CollectionIsOne
<1>10. f[n + 1] = p \o g[n]
  <2>1. n + 1 \in 1..n + 1 /\ (n + 1) - 1 = n
    BY <1>1
  <2>2. f[n + 1] = p \o g[(n + 1) - 1]
    BY <1>5, <2>1
  <2> QED
    BY <2>1, <2>2
<1> QED
  BY <1>3, <1>9, <1>10 DEF p, h, t

---------------------------------------------------------------------------
(* A client, its connection and the events between them *)

Sockets == {"none", "connecting", "open", "closed"}

\* How an event on its way stands to the others: an open is the first, a close
\* the last, and an error is the one before it.
InTurn(so, es) ==
    \A i \in 1..Len(es) :
        /\ es[i].on = "open" => i = 1 /\ so = "connecting"
        /\ es[i].on = "close" => i = Len(es)
        /\ es[i].on = "error" => i + 1 = Len(es) /\ es[i + 1].on = "close"

\* What the two ends of a connection are, and what is on its way between them.
Phases(so, co, es) ==
    /\ co = "none" /\ Len(es) # 0 =>
          so # "none" /\ (so = "connecting" => es[1].on = "error")
    /\ co = "open" =>
          /\ so \in {"connecting", "open"}
          /\ \A i \in 1..Len(es) : es[i].on \in {"open", "message"}
    /\ co # "none" => so # "none"
    /\ co # "none" /\ so = "connecting" => Len(es) # 0 /\ es[1].on = "open"
    /\ co = "closed" /\ so \in {"connecting", "open"} =>
          Len(es) # 0 /\ es[Len(es)].on = "close"
    /\ so = "open" => co # "none"
    /\ so = "closed" /\ Len(es) # 0 => es[1].on = "close"

\* A connection has one group of listeners that can still be called, those of
\* the promise that waits, until it is told of the end.
OneReads(so, L, m) ==
    /\ so = "none" => m = 0
    /\ so = "connecting" => m = 1
    /\ so = "open" => m > 1
    /\ so = "connecting" => Reads(L, m, Opening)
    /\ so = "open" => Reads(L, m, Reading)
    /\ so \in {"none", "closed"} => Silent(L)

Told(c, so, es, x) ==
    x = IF so = "closed" /\ (c \in Connections \/ Len(es) = 0) THEN 1 ELSE 0

Typed(so, co, es, m, r, s) ==
    /\ so \in Sockets /\ co \in States
    /\ es \in Seq(Events)
    /\ m \in Nat
    /\ r \in Seq(Messages) /\ s \in Seq(Messages)

Link(c, so, co, es, L, m, r, x, s) ==
    /\ Typed(so, co, es, m, r, s)
    /\ InTurn(so, es)
    /\ Phases(so, co, es)
    /\ c \in Connections => OneReads(so, L, m)
    /\ Told(c, so, es, x)
    /\ r \o MessagesOf(es) = s

\* An event that is added, and what it is.
LEMMA Added ==
    ASSUME NEW es \in Seq(Events), NEW e \in Events
    PROVE  /\ Append(es, e) \in Seq(Events)
           /\ Len(Append(es, e)) = Len(es) + 1
           /\ Len(es) \in Nat
           /\ \A i \in 1..Len(es) : Append(es, e)[i] = es[i]
           /\ Append(es, e)[Len(es) + 1] = e
  BY AppendProperties, LenProperties

LEMMA EventsAreEvents ==
    ASSUME NEW name \in Names, NEW m \in Messages
    PROVE  /\ [on |-> name, message |-> m] \in Events
           /\ [on |-> name, message |-> m].on = name
           /\ Event(name) \in Events
           /\ Event(name).on = name
  BY DEF Events, Event, Messages

LEMMA ConnectLinks ==
    ASSUME NEW c, NEW co, NEW es, NEW L, NEW m, NEW r, NEW x, NEW s,
           Link(c, "none", co, es, L, m, r, x, s)
    PROVE  \E M, k :
              /\ c \in Connections => init(Client(L, m, r, x)) = Client(M, k, r, x)
              /\ c \notin Connections => M = L /\ k = m
              /\ Link(c, "connecting", co, es, M, k, r, x, s)
<1>1. /\ Typed("none", co, es, m, r, s)
      /\ InTurn("none", es)
      /\ Phases("none", co, es)
      /\ c \in Connections => OneReads("none", L, m)
      /\ Told(c, "none", es, x)
      /\ r \o MessagesOf(es) = s
  BY DEF Link
<1>2. Typed("connecting", co, es, m, r, s)
  BY <1>1 DEF Typed, Sockets
<1>3. co = "none" /\ Len(es) = 0
  BY <1>1 DEF Phases
<1>4. InTurn("connecting", es)
  BY <1>3 DEF InTurn
<1>5. Phases("connecting", co, es)
  BY <1>3 DEF Phases
<1>6. Told(c, "connecting", es, x)
  BY <1>1 DEF Told
<1>7. CASE c \in Connections
  <2>1. m = 0 /\ Silent(L)
    BY <1>1, <1>7 DEF OneReads
  <2>2. PICK M : init(Client(L, 0, r, x)) = Client(M, 1, r, x) /\ Reads(M, 1, Opening)
    BY <2>1, InitWaits
  <2>3. OneReads("connecting", M, 1)
    BY <2>2 DEF OneReads
  <2>4. Typed("connecting", co, es, 1, r, s)
    BY <1>2 DEF Typed
  <2>5. Link(c, "connecting", co, es, M, 1, r, x, s)
    BY <1>1, <1>4, <1>5, <1>6, <2>3, <2>4 DEF Link
  <2> QED
    BY <1>7, <2>1, <2>2, <2>5
<1>8. CASE c \notin Connections
  <2>1. Link(c, "connecting", co, es, L, m, r, x, s)
    BY <1>1, <1>2, <1>4, <1>5, <1>6, <1>8 DEF Link
  <2> QED
    BY <1>8, <2>1
<1> QED
  BY <1>7, <1>8

\* What is added after all that is on its way, when it keeps its turn.
LEMMA AddLinks ==
    ASSUME NEW c, NEW so, NEW co, NEW es, NEW L, NEW m, NEW r, NEW x, NEW s,
           Typed(so, co, es, m, r, s),
           c \in Connections => OneReads(so, L, m),
           so # "closed", x = 0,
           r \o MessagesOf(es) = s,
           NEW e \in Events, NEW after \in States,
           InTurn(so, Append(es, e)), Phases(so, after, Append(es, e))
    PROVE  Link(c, so, after, Append(es, e), L, m, r, x, Collected(s, e))
<1>1. /\ so \in Sockets /\ es \in Seq(Events) /\ m \in Nat
      /\ r \in Seq(Messages) /\ s \in Seq(Messages)
  BY DEF Typed
<1>2. Append(es, e) \in Seq(Events)
  BY <1>1, Added
<1>3. Collected(s, e) \in Seq(Messages)
  BY <1>1, CollectedIsSeq
<1>4. r \o MessagesOf(Append(es, e)) = Collected(s, e)
  <2> DEFINE p == MessagesOf(es)
  <2>1. p \in Seq(Messages) /\ MessagesOf(Append(es, e)) = Collected(p, e)
    BY <1>1, MessagesAreMessages, MessagesOfAppend
  <2>2. s = r \o p
    OBVIOUS
  <2> HIDE DEF p
  <2>3. CASE e.on = "message"
    <3>1. e.message \in Messages
      BY DEF Events
    <3>2. Append(p, e.message) = p \o <<e.message>>
      BY <2>1, <3>1, AppendIsConcat
    <3>3. Append(s, e.message) = s \o <<e.message>>
      BY <1>1, <3>1, AppendIsConcat
    <3>4. <<e.message>> \in Seq(Messages)
      BY <3>1
    <3>5. (r \o p) \o <<e.message>> = r \o (p \o <<e.message>>)
      BY <1>1, <2>1, <3>4, ConcatAssociative
    <3> QED
      BY <2>1, <2>2, <2>3, <3>2, <3>3, <3>5 DEF Collected
  <2>4. CASE e.on # "message"
    BY <2>1, <2>2, <2>4 DEF Collected
  <2> QED
    BY <2>3, <2>4
<1>5. Typed(so, after, Append(es, e), m, r, Collected(s, e))
  BY <1>1, <1>2, <1>3 DEF Typed
<1>6. Told(c, so, Append(es, e), x)
  BY DEF Told
<1> HIDE DEF Collected
<1> QED
  BY <1>4, <1>5, <1>6 DEF Link

\* The server's end is accepted: the open is on its way.
LEMMA AcceptLinks ==
    ASSUME NEW c, NEW L, NEW m, NEW r, NEW x, NEW s,
           Link(c, "connecting", "none", <<>>, L, m, r, x, s)
    PROVE  Link(c, "connecting", "open", <<Event("open")>>, L, m, r, x, s)
<1> DEFINE e == Event("open")
           es == Append(<<>>, e)
<1>1. e \in Events /\ e.on = "open"
  BY EventsAreEvents DEF Names, Messages
<1>2. es = <<e>>
  OBVIOUS
<1> HIDE DEF e
<1>3. /\ Typed("connecting", "none", <<>>, m, r, s)
      /\ c \in Connections => OneReads("connecting", L, m)
      /\ x = 0
      /\ r \o MessagesOf(<<>>) = s
  BY DEF Link, Told
<1>4. Len(es) = 1 /\ es[1] = e
  BY <1>2
<1> HIDE DEF es
<1>5. InTurn("connecting", es)
  BY <1>1, <1>4 DEF InTurn
<1>6. Phases("connecting", "open", es)
  BY <1>1, <1>4 DEF Phases
<1>7. Collected(s, e) = s
  BY <1>1 DEF Collected
<1>8. Link(c, "connecting", "open", es, L, m, r, x, Collected(s, e))
  <2>1. "open" \in States /\ "connecting" # "closed"
    BY DEF States
  <2> QED
    BY <1>1, <1>3, <1>5, <1>6, <2>1, AddLinks DEF es
<1> QED
  BY <1>2, <1>7, <1>8 DEF e

\* An end, after an error or not, follows what was sent.
LEMMA EndLinks ==
    ASSUME NEW c, NEW so, NEW es, NEW L, NEW m, NEW r, NEW x, NEW s,
           Link(c, so, "open", es, L, m, r, x, s)
    PROVE  /\ Link(c, so, "closed", Append(es, Event("close")), L, m, r, x, s)
           /\ Link(c, so, "closed", Append(Append(es, Event("error")), Event("close")),
                   L, m, r, x, s)
<1>1. /\ Typed(so, "open", es, m, r, s)
      /\ InTurn(so, es)
      /\ Phases(so, "open", es)
      /\ c \in Connections => OneReads(so, L, m)
      /\ Told(c, so, es, x)
      /\ r \o MessagesOf(es) = s
  BY DEF Link
<1>2. so \in {"connecting", "open"} /\ \A i \in 1..Len(es) : es[i].on \in {"open", "message"}
  BY <1>1 DEF Phases
<1>3. x = 0 /\ so # "closed"
  BY <1>1, <1>2 DEF Told
<1>4. so = "connecting" => Len(es) # 0 /\ es[1].on = "open"
  BY <1>1 DEF Phases
<1> DEFINE close == Event("close")
           error == Event("error")
<1>5. close \in Events /\ close.on = "close" /\ error \in Events /\ error.on = "error"
  BY EventsAreEvents DEF Names, Messages
<1>6. es \in Seq(Events)
  BY <1>1 DEF Typed
<1> HIDE DEF close, error
<1>7. Collected(s, close) = s /\ Collected(s, error) = s
  BY <1>5 DEF Collected
<1>8. "closed" \in States
  BY DEF States
<1>9. Link(c, so, "closed", Append(es, close), L, m, r, x, Collected(s, close))
  <2> DEFINE fs == Append(es, close)
  <2>1. /\ Len(fs) = Len(es) + 1 /\ Len(es) \in Nat
        /\ \A i \in 1..Len(es) : fs[i] = es[i]
        /\ fs[Len(es) + 1] = close
    BY <1>5, <1>6, Added
  <2> HIDE DEF fs
  <2>2. InTurn(so, fs)
    <3> SUFFICES ASSUME NEW i \in 1..Len(fs)
                 PROVE  /\ fs[i].on = "open" => i = 1 /\ so = "connecting"
                        /\ fs[i].on = "close" => i = Len(fs)
                        /\ fs[i].on = "error" => i + 1 = Len(fs) /\ fs[i + 1].on = "close"
      BY DEF InTurn
    <3>1. CASE i = Len(es) + 1
      BY <1>5, <2>1, <3>1
    <3>2. CASE i # Len(es) + 1
      <4>1. i \in 1..Len(es)
        BY <2>1, <3>2
      <4>2. fs[i].on \in {"open", "message"}
        BY <1>2, <2>1, <4>1
      <4>3. fs[i].on = "open" => i = 1 /\ so = "connecting"
        BY <1>1, <2>1, <4>1 DEF InTurn
      <4> QED
        BY <4>2, <4>3
    <3> QED
      BY <3>1, <3>2
  <2>3. Phases(so, "closed", fs)
    <3>1. so = "connecting" => fs[1].on = "open"
      BY <1>4, <2>1
    <3>2. fs[Len(fs)].on = "close"
      BY <1>5, <2>1
    <3> QED
      BY <1>2, <2>1, <3>1, <3>2 DEF Phases
  <2> QED
    BY <1>1, <1>3, <1>5, <1>8, <2>2, <2>3, AddLinks DEF fs
<1>10. Link(c, so, "closed", Append(Append(es, error), close), L, m, r, x, Collected(s, close))
  <2> DEFINE fs == Append(es, error)
             gs == Append(fs, close)
  <2>1. /\ Len(fs) = Len(es) + 1 /\ Len(es) \in Nat
        /\ \A i \in 1..Len(es) : fs[i] = es[i]
        /\ fs[Len(es) + 1] = error
        /\ fs \in Seq(Events)
    BY <1>5, <1>6, Added
  <2>2. r \o MessagesOf(fs) = s
    <3>1. MessagesOf(fs) = Collected(MessagesOf(es), error)
      BY <1>5, <1>6, MessagesOfAppend
    <3>2. Collected(MessagesOf(es), error) = MessagesOf(es)
      BY <1>5 DEF Collected
    <3> QED
      BY <1>1, <3>1, <3>2
  <2>3. Typed(so, "open", fs, m, r, s)
    BY <1>1, <2>1 DEF Typed
  <2> HIDE DEF fs
  <2>4. /\ Len(gs) = Len(fs) + 1
        /\ \A i \in 1..Len(fs) : gs[i] = fs[i]
        /\ gs[Len(fs) + 1] = close
    BY <1>5, <2>1, Added
  <2> HIDE DEF gs
  <2>5. /\ Len(gs) = Len(es) + 2
        /\ \A i \in 1..Len(es) : gs[i] = es[i]
        /\ gs[Len(es) + 1] = error
        /\ gs[Len(es) + 2] = close
    BY <2>1, <2>4
  <2>6. InTurn(so, gs)
    <3> SUFFICES ASSUME NEW i \in 1..Len(gs)
                 PROVE  /\ gs[i].on = "open" => i = 1 /\ so = "connecting"
                        /\ gs[i].on = "close" => i = Len(gs)
                        /\ gs[i].on = "error" => i + 1 = Len(gs) /\ gs[i + 1].on = "close"
      BY DEF InTurn
    <3>1. CASE i = Len(es) + 1
      BY <1>5, <2>1, <2>5, <3>1
    <3>2. CASE i = Len(es) + 2
      BY <1>5, <2>1, <2>5, <3>2
    <3>3. CASE i # Len(es) + 1 /\ i # Len(es) + 2
      <4>1. i \in 1..Len(es)
        BY <2>1, <2>5, <3>3
      <4>2. gs[i].on \in {"open", "message"}
        BY <1>2, <2>5, <4>1
      <4>3. gs[i].on = "open" => i = 1 /\ so = "connecting"
        BY <1>1, <2>5, <4>1 DEF InTurn
      <4> QED
        BY <4>2, <4>3
    <3> QED
      BY <3>1, <3>2, <3>3
  <2>7. Phases(so, "closed", gs)
    <3>1. so = "connecting" => gs[1].on = "open"
      BY <1>4, <2>1, <2>5
    <3>2. gs[Len(gs)].on = "close"
      BY <1>5, <2>5
    <3> QED
      BY <1>2, <2>1, <2>5, <3>1, <3>2 DEF Phases
  <2> QED
    BY <1>1, <1>3, <1>5, <1>8, <2>2, <2>3, <2>6, <2>7, AddLinks DEF gs, fs
<1> QED
  BY <1>7, <1>9, <1>10 DEF close, error

LEMMA TwoEvents ==
    ASSUME NEW a \in Events, NEW b \in Events
    PROVE  Append(<<a>>, b) = <<a, b>>
<1> DEFINE one == <<a>>
           two == <<a, b>>
           more == Append(one, b)
<1>1. one \in Seq(Events) /\ Len(one) = 1 /\ one[1] = a
  OBVIOUS
<1>2. two \in Seq(Events) /\ Len(two) = 2 /\ two[1] = a /\ two[2] = b
  OBVIOUS
<1> HIDE DEF one, two
<1>3. /\ more \in Seq(Events)
      /\ Len(more) = Len(one) + 1
      /\ \A i \in 1..Len(one) : more[i] = one[i]
      /\ more[Len(one) + 1] = b
  BY <1>1, Added
<1> HIDE DEF more
<1>4. Len(more) = Len(two) /\ \A i \in 1..Len(more) : more[i] = two[i]
  BY <1>1, <1>2, <1>3
<1>5. more = two
  BY <1>2, <1>3, <1>4, SeqEqual
<1> QED
  BY <1>5 DEF more, one, two

LEMMA RefuseLinks ==
    ASSUME NEW c, NEW L, NEW m, NEW r, NEW x, NEW s,
           Link(c, "connecting", "none", <<>>, L, m, r, x, s)
    PROVE  Link(c, "connecting", "none", <<Event("error"), Event("close")>>, L, m, r, x, s)
<1> DEFINE error == Event("error")
           close == Event("close")
           es == Append(<<>>, error)
           fs == Append(es, close)
<1>1. close \in Events /\ close.on = "close" /\ error \in Events /\ error.on = "error"
  BY EventsAreEvents DEF Names, Messages
<1> HIDE DEF error, close
<1>2. fs = <<error, close>>
  <2>1. es = <<error>>
    OBVIOUS
  <2>2. Append(<<error>>, close) = <<error, close>>
    BY <1>1, TwoEvents
  <2> QED
    BY <2>1, <2>2, Zenon
<1>3. /\ Typed("connecting", "none", <<>>, m, r, s)
      /\ c \in Connections => OneReads("connecting", L, m)
      /\ x = 0
      /\ r \o MessagesOf(<<>>) = s
  BY DEF Link, Told
<1>4. <<>> \in Seq(Events)
  BY EmptySeq
<1>5. es \in Seq(Events) /\ MessagesOf(es) = MessagesOf(<<>>)
  <2>1. MessagesOf(es) = Collected(MessagesOf(<<>>), error)
    BY <1>1, <1>4, MessagesOfAppend
  <2>2. Collected(MessagesOf(<<>>), error) = MessagesOf(<<>>)
    BY <1>1 DEF Collected
  <2> QED
    BY <1>1, <1>4, <2>1, <2>2, Added
<1>6. Len(fs) = 2 /\ fs[1] = error /\ fs[2] = close
  BY <1>2
<1> HIDE DEF es
<1>7. r \o MessagesOf(es) = s
  BY <1>3, <1>5
<1>8. Typed("connecting", "none", es, m, r, s)
  BY <1>3, <1>5 DEF Typed
<1> HIDE DEF fs
<1>9. InTurn("connecting", fs)
  BY <1>1, <1>6 DEF InTurn
<1>10. Phases("connecting", "none", fs)
  BY <1>1, <1>6 DEF Phases
<1>11. Collected(s, close) = s
  BY <1>1 DEF Collected
<1>12. Link(c, "connecting", "none", fs, L, m, r, x, Collected(s, close))
  <2>1. "none" \in States /\ "connecting" # "closed"
    BY DEF States
  <2> QED
    BY <1>1, <1>3, <1>7, <1>8, <1>9, <1>10, <2>1, AddLinks DEF fs
<1> QED
  BY <1>2, <1>11, <1>12 DEF error, close

\* A message follows what was sent before.
LEMMA SendLinks ==
    ASSUME NEW c, NEW so, NEW es, NEW L, NEW m, NEW r, NEW x, NEW s,
           Link(c, so, "open", es, L, m, r, x, s),
           NEW message \in Messages
    PROVE  Link(c, so, "open", Append(es, [on |-> "message", message |-> message]),
                L, m, r, x, Append(s, message))
<1> DEFINE e == [on |-> "message", message |-> message]
           fs == Append(es, e)
<1>1. /\ Typed(so, "open", es, m, r, s)
      /\ InTurn(so, es)
      /\ Phases(so, "open", es)
      /\ c \in Connections => OneReads(so, L, m)
      /\ Told(c, so, es, x)
      /\ r \o MessagesOf(es) = s
  BY DEF Link
<1>2. so \in {"connecting", "open"} /\ \A i \in 1..Len(es) : es[i].on \in {"open", "message"}
  BY <1>1 DEF Phases
<1>3. x = 0 /\ so # "closed"
  BY <1>1, <1>2 DEF Told
<1>4. e \in Events /\ e.on = "message" /\ e.message = message
  BY DEF Events, Names
<1>5. es \in Seq(Events) /\ "open" \in States
  BY <1>1 DEF Typed
<1> HIDE DEF e
<1>6. /\ Len(fs) = Len(es) + 1 /\ Len(es) \in Nat
      /\ \A i \in 1..Len(es) : fs[i] = es[i]
      /\ fs[Len(es) + 1] = e
  BY <1>4, <1>5, Added
<1> HIDE DEF fs
<1>7. InTurn(so, fs)
  <2> SUFFICES ASSUME NEW i \in 1..Len(fs)
               PROVE  /\ fs[i].on = "open" => i = 1 /\ so = "connecting"
                      /\ fs[i].on = "close" => i = Len(fs)
                      /\ fs[i].on = "error" => i + 1 = Len(fs) /\ fs[i + 1].on = "close"
    BY DEF InTurn
  <2>1. CASE i = Len(es) + 1
    BY <1>4, <1>6, <2>1
  <2>2. CASE i # Len(es) + 1
    <3>1. i \in 1..Len(es)
      BY <1>6, <2>2
    <3>2. fs[i].on \in {"open", "message"}
      BY <1>2, <1>6, <3>1
    <3>3. fs[i].on = "open" => i = 1 /\ so = "connecting"
      BY <1>1, <1>6, <3>1 DEF InTurn
    <3> QED
      BY <3>2, <3>3
  <2> QED
    BY <2>1, <2>2
<1>8. Phases(so, "open", fs)
  <2>1. \A i \in 1..Len(fs) : fs[i].on \in {"open", "message"}
    <3> SUFFICES ASSUME NEW i \in 1..Len(fs)
                 PROVE  fs[i].on \in {"open", "message"}
      OBVIOUS
    <3>1. CASE i = Len(es) + 1
      BY <1>4, <1>6, <3>1
    <3>2. CASE i # Len(es) + 1
      BY <1>2, <1>6, <3>2
    <3> QED
      BY <3>1, <3>2
  <2>2. so = "connecting" => Len(fs) # 0 /\ fs[1].on = "open"
    <3>1. so = "connecting" => Len(es) # 0 /\ es[1].on = "open"
      BY <1>1 DEF Phases
    <3> QED
      BY <1>6, <3>1
  <2> QED
    BY <1>2, <2>1, <2>2 DEF Phases
<1>9. Collected(s, e) = Append(s, message)
  BY <1>4 DEF Collected
<1>10. Link(c, so, "open", fs, L, m, r, x, Collected(s, e))
  BY <1>1, <1>3, <1>4, <1>5, <1>7, <1>8, AddLinks DEF fs
<1> QED
  BY <1>9, <1>10 DEF fs, e

\* The socket after an event.
After(so, e) == CASE e.on = "open" -> "open" [] e.on = "message" -> so [] OTHER -> "closed"

\* An event that can be the first, before t.
Fits(so, e, t) ==
    /\ e.on = "open" => so = "connecting"
    /\ e.on = "message" => so = "open"
    /\ e.on = "error" => so \in {"connecting", "open"} /\ Len(t) = 1
    /\ e.on = "close" => so \in {"open", "closed"} /\ Len(t) = 0

\* What can be the first of the events on their way, and what is left then.
LEMMA FirstIsInTurn ==
    ASSUME NEW c, NEW so, NEW co, NEW es, NEW L, NEW m, NEW r, NEW x, NEW s,
           Link(c, so, co, es, L, m, r, x, s), es # <<>>,
           NEW e, e = Head(es), NEW t, t = Tail(es)
    PROVE  /\ e \in Events /\ t \in Seq(Events)
           /\ Fits(so, e, t)
           /\ InTurn(After(so, e), t)
           /\ Phases(After(so, e), co, t)
<1> DEFINE n == Len(t)
<1>1. Typed(so, co, es, m, r, s) /\ InTurn(so, es) /\ Phases(so, co, es)
  BY DEF Link
<1>2. so \in Sockets /\ co \in States /\ es \in Seq(Events)
  BY <1>1 DEF Typed
<1>3. /\ e \in Events /\ t \in Seq(Events)
      /\ Len(es) = n + 1 /\ n \in Nat
      /\ es[1] = e
      /\ \A i \in 1..n : t[i] = es[i + 1]
  BY <1>2, HeadTailProperties, LenProperties
<1>4. e.on \in Names
  BY <1>3 DEF Events
<1> HIDE DEF n
<1>5. /\ e.on = "open" => so = "connecting"
      /\ e.on = "close" => n = 0
      /\ e.on = "error" => n = 1 /\ es[2].on = "close"
      /\ \A i \in 1..n + 1 :
            /\ es[i].on = "open" => i = 1 /\ so = "connecting"
            /\ es[i].on = "close" => i = n + 1
            /\ es[i].on = "error" => i + 1 = n + 1 /\ es[i + 1].on = "close"
  <2>1. 1 \in 1..Len(es)
    BY <1>3
  <2> QED
    BY <1>1, <1>3, <2>1 DEF InTurn
<1>6. /\ co = "none" => so # "none" /\ (so = "connecting" => e.on = "error")
      /\ co = "open" => so \in {"connecting", "open"} /\ \A i \in 1..n + 1 : es[i].on \in {"open", "message"}
      /\ co # "none" => so # "none"
      /\ co # "none" /\ so = "connecting" => e.on = "open"
      /\ co = "closed" /\ so \in {"connecting", "open"} => es[n + 1].on = "close"
      /\ so = "open" => co # "none"
      /\ so = "closed" => e.on = "close"
  BY <1>1, <1>3 DEF Phases
<1>7. /\ e.on = "message" => so = "open"
      /\ e.on = "error" => so \in {"connecting", "open"}
      /\ e.on = "close" => so \in {"open", "closed"}
  BY <1>2, <1>6 DEF Sockets
<1>8. co = "open" => e.on \in {"open", "message"} /\ \A i \in 1..n : t[i].on \in {"open", "message"}
  BY <1>3, <1>6
<1>9. co = "closed" /\ e.on \in {"open", "message"} => n # 0 /\ t[n].on = "close"
  <2> SUFFICES ASSUME co = "closed", e.on \in {"open", "message"}
               PROVE  n # 0 /\ t[n].on = "close"
    OBVIOUS
  <2>1. es[n + 1].on = "close"
    BY <1>5, <1>6, <1>7
  <2>2. n # 0
    BY <1>3, <2>1
  <2> QED
    BY <1>3, <2>1, <2>2
<1> DEFINE to == After(so, e)
<1>10. /\ e.on = "open" => to = "open"
       /\ e.on = "message" => to = so
       /\ e.on \in {"error", "close"} => to = "closed"
  BY DEF After
<1> HIDE DEF to
<1>11. InTurn(to, t)
  <2> SUFFICES ASSUME NEW i \in 1..n
               PROVE  /\ t[i].on = "open" => i = 1 /\ to = "connecting"
                      /\ t[i].on = "close" => i = n
                      /\ t[i].on = "error" => i + 1 = n /\ t[i + 1].on = "close"
    BY DEF InTurn, n
  <2>1. t[i] = es[i + 1] /\ i + 1 \in 1..n + 1 /\ i + 1 # 1
    BY <1>3
  <2>2. t[i].on # "open"
    BY <1>5, <2>1
  <2>3. t[i].on = "close" => i = n
    BY <1>3, <1>5, <2>1
  <2>4. ASSUME t[i].on = "error"
        PROVE  i + 1 = n /\ t[i + 1].on = "close"
    <3>1. (i + 1) + 1 = n + 1 /\ es[(i + 1) + 1].on = "close"
      BY <1>5, <2>1, <2>4
    <3> QED
      BY <1>3, <3>1
  <2> QED
    BY <2>2, <2>3, <2>4
<1>12. Phases(to, co, t)
  <2>1. CASE e.on = "open"
    <3>1. to = "open" /\ co # "none"
      BY <1>5, <1>6, <1>10, <2>1
    <3> QED
      BY <1>8, <1>9, <2>1, <3>1 DEF Phases, n
  <2>2. CASE e.on = "message"
    <3>1. to = "open" /\ co # "none"
      BY <1>6, <1>7, <1>10, <2>2
    <3> QED
      BY <1>8, <1>9, <2>2, <3>1 DEF Phases, n
  <2>3. CASE e.on = "error"
    <3>1. to = "closed" /\ co # "open" /\ n = 1 /\ t[1].on = "close"
      BY <1>3, <1>5, <1>8, <1>10, <2>3
    <3> QED
      BY <3>1 DEF Phases, n
  <2>4. CASE e.on = "close"
    <3>1. to = "closed" /\ co # "open" /\ n = 0
      BY <1>5, <1>8, <1>10, <2>4
    <3> QED
      BY <3>1 DEF Phases, n
  <2> QED
    BY <1>4, <2>1, <2>2, <2>3, <2>4 DEF Names
<1> QED
  BY <1>3, <1>5, <1>7, <1>11, <1>12 DEF to, n, Fits

LEMMA GivenFirst ==
    ASSUME NEW r \in Seq(Messages), NEW e \in Events, NEW p \in Seq(Messages)
    PROVE  /\ Collected(r, e) \in Seq(Messages)
           /\ Collected(r, e) \o p = r \o (Collected(<<>>, e) \o p)
<1> DEFINE one == Collected(<<>>, e)
<1>1. <<>> \in Seq(Messages)
  BY EmptySeq
<1>2. one \in Seq(Messages) /\ Collected(r, e) \in Seq(Messages)
  BY <1>1, CollectedIsSeq
<1>3. Collected(r, e) = r \o one
  <2>1. CASE e.on = "message"
    <3>1. e.message \in Messages
      BY DEF Events
    <3>2. Append(r, e.message) = r \o <<e.message>>
      BY <3>1, AppendIsConcat
    <3>3. one = <<e.message>>
      BY <2>1 DEF Collected
    <3> QED
      BY <2>1, <3>2, <3>3 DEF Collected
  <2>2. CASE e.on # "message"
    <3>1. one = <<>> /\ Collected(r, e) = r
      BY <2>2 DEF Collected
    <3>2. r \o <<>> = r
      BY ConcatEmptySeq
    <3> QED
      BY <3>1, <3>2
  <2> QED
    BY <2>1, <2>2
<1> HIDE DEF one
<1>4. (r \o one) \o p = r \o (one \o p)
  BY <1>2, ConcatAssociative
<1> QED
  BY <1>2, <1>3, <1>4 DEF one

\* What was given and what is on its way is all that was sent.
AllIsSent(r, es, s) == r \o MessagesOf(es) = s

LEMMA GivenInTurn ==
    ASSUME NEW es \in Seq(Events), es # <<>>, NEW r \in Seq(Messages), NEW s,
           AllIsSent(r, es, s),
           NEW e \in Events, e = Head(es), NEW t \in Seq(Events), t = Tail(es)
    PROVE  Collected(r, e) \in Seq(Messages) /\ AllIsSent(Collected(r, e), t, s)
<1> DEFINE p == MessagesOf(t)
<1>1. p \in Seq(Messages) /\ MessagesOf(es) = Collected(<<>>, e) \o p
  BY MessagesAreMessages, MessagesOfTail
<1>2. s = r \o (Collected(<<>>, e) \o p)
  BY <1>1 DEF AllIsSent
<1> HIDE DEF p
<1>3. /\ Collected(r, e) \in Seq(Messages)
      /\ Collected(r, e) \o p = r \o (Collected(<<>>, e) \o p)
  BY <1>1, GivenFirst
<1> QED
  BY <1>2, <1>3, Zenon DEF AllIsSent, p

\* What the client becomes.
Fires(c, state, e, after) ==
    (IF c \in Connections THEN Dispatch(state, e) ELSE Trigger(state, e)) = after

\* It is given the event, and listens and is told as it should before t.
Follows(c, so, e, t, L, m, r, x) ==
    \E M, k, y :
        /\ Fires(c, Client(L, m, r, x), e, Client(M, k, Collected(r, e), y))
        /\ k \in Nat
        /\ c \in Connections => OneReads(After(so, e), M, k)
        /\ Told(c, After(so, e), t, y)

\* A connection: the promise that waits takes the event.
LEMMA ConnectionFires ==
    ASSUME NEW c \in Connections, NEW so \in Sockets, NEW es, NEW L, NEW m \in Nat, NEW r, NEW x \in Nat,
           OneReads(so, L, m), Told(c, so, es, x),
           NEW e \in Events, NEW t, Fits(so, e, t)
    PROVE  Follows(c, so, e, t, L, m, r, x)
<1>1. e.on \in Names
  BY DEF Events
<1>2. CASE e.on = "open"
  <2>1. so = "connecting" /\ m = 1 /\ Reads(L, 1, Opening) /\ x = 0
    BY <1>2 DEF OneReads, Told, Fits
  <2>2. PICK M : /\ Dispatch(Client(L, 1, r, x), e) = Client(M, 2, r, x)
                 /\ Reads(M, 2, Reading)
    BY <1>2, <2>1, OpenReads
  <2>3. After(so, e) = "open"
    BY <1>2 DEF After
  <2>4. OneReads("open", M, 2)
    BY <2>2 DEF OneReads
  <2>5. Told(c, "open", t, x)
    BY <2>1 DEF Told
  <2>6. Collected(r, e) = r
    BY <1>2 DEF Collected
  <2> QED
    BY <2>1, <2>2, <2>3, <2>4, <2>5, <2>6 DEF Fires, Follows
<1>3. CASE e.on = "message"
  <2>1. so = "open" /\ m > 1 /\ Reads(L, m, Reading) /\ x = 0
    BY <1>3 DEF OneReads, Told, Fits
  <2>2. m \in Nat \ {0}
    BY <2>1
  <2>3. PICK M : /\ Dispatch(Client(L, m, r, x), e) = Client(M, m + 1, Append(r, e.message), x)
                 /\ Reads(M, m + 1, Reading)
    BY <1>3, <2>1, <2>2, MessageReads
  <2>4. After(so, e) = "open"
    BY <1>3, <2>1 DEF After
  <2>5. m + 1 > 1 /\ m + 1 \in Nat
    BY <2>1
  <2>6. OneReads("open", M, m + 1)
    BY <2>3, <2>5 DEF OneReads
  <2>7. Told(c, "open", t, x)
    BY <2>1 DEF Told
  <2>8. Collected(r, e) = Append(r, e.message)
    BY <1>3 DEF Collected
  <2> QED
    BY <2>3, <2>4, <2>5, <2>6, <2>7, <2>8 DEF Fires, Follows
<1>4. CASE e.on \in {"error", "close"}
  <2>1. After(so, e) = "closed" /\ Collected(r, e) = r
    BY <1>4 DEF After, Collected
  <2>2. CASE so = "closed"
    <3>1. Silent(L) /\ x = 1
      BY <2>2 DEF OneReads, Told
    <3>2. Dispatch(Client(L, m, r, x), e) = Client(L, m, r, x)
      BY <3>1, SilentStays
    <3>3. OneReads("closed", L, m)
      BY <3>1 DEF OneReads
    <3>4. Told(c, "closed", t, x)
      BY <3>1 DEF Told
    <3> QED
      BY <2>1, <3>2, <3>3, <3>4 DEF Fires, Follows
  <2>3. CASE so # "closed"
    <3>1. so \in {"connecting", "open"} /\ x = 0
      BY <1>4, <2>3 DEF Told, Fits
    <3>2. PICK ons : Reads(L, m, ons) /\ e.on \in ons /\ m \in Nat \ {0}
      <4>1. CASE so = "connecting"
        <5>1. Reads(L, m, Opening) /\ e.on \in Opening /\ m \in Nat \ {0}
          BY <1>4, <4>1 DEF OneReads, Opening
        <5> QED
          BY <5>1
      <4>2. CASE so = "open"
        <5>1. Reads(L, m, Reading) /\ e.on \in Reading /\ m \in Nat \ {0}
          BY <1>4, <4>2 DEF OneReads, Reading
        <5> QED
          BY <5>1
      <4> QED
        BY <3>1, <4>1, <4>2
    <3>3. PICK M : Dispatch(Client(L, m, r, x), e) = Client(M, m, r, x + 1) /\ Silent(M)
      BY <1>4, <3>2, EndIsTold
    <3>4. OneReads("closed", M, m)
      BY <3>3 DEF OneReads
    <3>5. Told(c, "closed", t, x + 1)
      BY <3>1 DEF Told
    <3> QED
      BY <2>1, <3>2, <3>3, <3>4, <3>5 DEF Fires, Follows
  <2> QED
    BY <2>2, <2>3
<1> QED
  BY <1>1, <1>2, <1>3, <1>4 DEF Names

\* An endpoint gives the application what it has, and keeps no listeners.
LEMMA EndpointFires ==
    ASSUME NEW c, c \notin Connections, NEW so, NEW es, NEW L, NEW m, NEW r, NEW x,
           Told(c, so, es, x), es # <<>>,
           NEW e \in Events, es \in Seq(Events), NEW t \in Seq(Events), Fits(so, e, t)
    PROVE  \E y : /\ Fires(c, Client(L, m, r, x), e, Client(L, m, Collected(r, e), y))
                  /\ Told(c, After(so, e), t, y)
<1> DEFINE st == Client(L, m, r, x)
<1>1. Len(es) # 0
  BY EmptySeq, SeqEqual, LenProperties
<1>2. x = 0
  BY <1>1 DEF Told
<1>3. e.on \in Names
  BY DEF Events
<1>4. st = Client(L, m, r, x) /\ st.received = r /\ st.ended = x
  BY ClientParts
<1> HIDE DEF st
<1>5. CASE e.on = "message"
  <2> DEFINE y == Append(st.received, e.message)
  <2>1. Trigger(st, e) = [st EXCEPT !.received = y]
    BY <1>5, Zenon DEF Trigger
  <2>2. y = Collected(r, e)
    BY <1>4, <1>5 DEF Collected
  <2> HIDE DEF y
  <2>3. [st EXCEPT !.received = y] = Client(L, m, y, x)
    BY <1>4 DEF Client
  <2>4. Told(c, After(so, e), t, x)
    BY <1>2, <1>5 DEF Told, After, Fits
  <2> QED
    BY <2>1, <2>2, <2>3, <2>4 DEF st, Fires
<1>6. CASE e.on = "close"
  <2> DEFINE y == st.ended + 1
  <2>1. Trigger(st, e) = [st EXCEPT !.ended = y]
    <3>1. e.on # "message"
      BY <1>6
    <3> QED
      BY <1>6, <3>1, Zenon DEF Trigger
  <2>2. y = 1
    BY <1>2, <1>4
  <2> HIDE DEF y
  <2>3. [st EXCEPT !.ended = y] = Client(L, m, r, y)
    BY <1>4 DEF Client
  <2>4. Told(c, After(so, e), t, y)
    BY <1>6, <2>2 DEF Told, After, Fits
  <2>5. Collected(r, e) = r
    BY <1>6 DEF Collected
  <2> QED
    BY <2>1, <2>3, <2>4, <2>5 DEF st, Fires
<1>7. CASE e.on \in {"open", "error"}
  <2>1. Trigger(st, e) = st
    BY <1>7 DEF Trigger
  <2>2. Collected(r, e) = r
    BY <1>7 DEF Collected
  <2>3. Told(c, After(so, e), t, x)
    BY <1>2, <1>7 DEF Told, After, Fits
  <2> QED
    BY <1>4, <2>1, <2>2, <2>3 DEF st, Fires
<1> QED
  BY <1>3, <1>5, <1>6, <1>7 DEF Names

LEMMA ClientFires ==
    ASSUME NEW c, NEW so \in Sockets, NEW es \in Seq(Events), NEW L, NEW m \in Nat, NEW r, NEW x \in Nat,
           es # <<>>, c \in Connections => OneReads(so, L, m), Told(c, so, es, x),
           NEW e \in Events, NEW t \in Seq(Events), Fits(so, e, t)
    PROVE  Follows(c, so, e, t, L, m, r, x)
<1>1. CASE c \in Connections
  <2>1. OneReads(so, L, m)
    BY <1>1
  <2> QED
    BY <1>1, <2>1, ConnectionFires
<1>2. CASE c \notin Connections
  <2>1. \E y : /\ Fires(c, Client(L, m, r, x), e, Client(L, m, Collected(r, e), y))
               /\ Told(c, After(so, e), t, y)
    BY <1>2, EndpointFires
  <2> QED
    BY <1>2, <2>1 DEF Follows
<1> QED
  BY <1>1, <1>2

\* The first of the events is fired at the client's socket.
LEMMA FireLinks ==
    ASSUME NEW c, NEW so, NEW co, NEW es, NEW L, NEW m, NEW r, NEW x, NEW s,
           Link(c, so, co, es, L, m, r, x, s), es # <<>>,
           NEW e, e = Head(es), NEW t, t = Tail(es)
    PROVE  \E M, k, y :
              /\ Fires(c, Client(L, m, r, x), e, Client(M, k, Collected(r, e), y))
              /\ Link(c, After(so, e), co, t, M, k, Collected(r, e), y, s)
<1> DEFINE q == Collected(r, e)
           to == After(so, e)
<1>1. /\ Typed(so, co, es, m, r, s)
      /\ c \in Connections => OneReads(so, L, m)
      /\ Told(c, so, es, x)
      /\ AllIsSent(r, es, s)
  BY DEF Link, AllIsSent
<1>2. /\ so \in Sockets /\ co \in States /\ es \in Seq(Events) /\ m \in Nat
      /\ r \in Seq(Messages) /\ s \in Seq(Messages) /\ x \in Nat
  BY <1>1 DEF Typed, Told
<1>3. /\ e \in Events /\ t \in Seq(Events)
      /\ Fits(so, e, t)
      /\ InTurn(to, t)
      /\ Phases(to, co, t)
  BY FirstIsInTurn
<1>4. q \in Seq(Messages) /\ AllIsSent(q, t, s)
  BY <1>1, <1>2, <1>3, GivenInTurn, Zenon
<1>5. to \in Sockets
  BY <1>2 DEF After, Sockets
<1>6. PICK M, k, y :
        /\ Fires(c, Client(L, m, r, x), e, Client(M, k, q, y))
        /\ k \in Nat
        /\ c \in Connections => OneReads(to, M, k)
        /\ Told(c, to, t, y)
  <2>1. Follows(c, so, e, t, L, m, r, x)
    BY <1>1, <1>2, <1>3, ClientFires
  <2> QED
    BY <2>1 DEF Follows
<1> HIDE DEF to, q
<1>7. Typed(to, co, t, k, q, s)
  BY <1>2, <1>3, <1>4, <1>5, <1>6 DEF Typed
<1>8. Link(c, to, co, t, M, k, q, y, s)
  BY <1>3, <1>4, <1>6, <1>7 DEF Link, AllIsSent
<1> QED
  BY <1>6, <1>8 DEF q, to

---------------------------------------------------------------------------
(* Every step *)

OfClients(f) == f = [c \in Clients |-> f[c]]

\* g is f, but for one client.
Changes(f, g, c, y) ==
    /\ OfClients(g)
    /\ g[c] = y
    /\ \A d \in Clients \ {c} : g[d] = f[d]

AllOfClients ==
    /\ OfClients(socket) /\ OfClients(conn) /\ OfClients(events) /\ OfClients(listeners)
    /\ OfClients(callback) /\ OfClients(received) /\ OfClients(ended) /\ OfClients(sent)

LinkAt(c) == Link(c, socket[c], conn[c], events[c], listeners[c], callback[c],
                  received[c], ended[c], sent[c])

Linked == \A c \in Clients : LinkAt(c)

IsHeld(h, states) == \E v : HeldBy(h, v, states)

LinkInv ==
    /\ AllOfClients
    /\ Linked
    /\ requests \in [Clients -> Seq(Messages)]
    /\ sends \in Nat
    /\ IsHeld(held, conn)

LEMMA ExceptChanges ==
    ASSUME NEW f, OfClients(f), NEW c \in Clients, NEW y
    PROVE  Changes(f, [f EXCEPT ![c] = y], c, y)
<1> DEFINE g == [f EXCEPT ![c] = y]
<1>1. DOMAIN f = Clients
  BY DEF OfClients
<1>2. g = [d \in Clients |-> g[d]] /\ g[c] = y /\ \A d \in Clients \ {c} : g[d] = f[d]
  BY <1>1
<1> HIDE DEF g
<1>3. Changes(f, g, c, y)
  BY <1>2 DEF Changes, OfClients
<1> QED
  BY <1>3 DEF g

LEMMA SameChanges ==
    ASSUME NEW f, OfClients(f), NEW g, g = f, NEW c \in Clients
    PROVE  Changes(f, g, c, f[c])
  BY DEF Changes

LEMMA OneChanges ==
    ASSUME Linked, NEW c \in Clients,
           NEW so, NEW co, NEW es, NEW L, NEW m, NEW r, NEW x, NEW s,
           Link(c, so, co, es, L, m, r, x, s),
           Changes(socket, socket', c, so), Changes(conn, conn', c, co),
           Changes(events, events', c, es), Changes(listeners, listeners', c, L),
           Changes(callback, callback', c, m), Changes(received, received', c, r),
           Changes(ended, ended', c, x), Changes(sent, sent', c, s)
    PROVE  AllOfClients' /\ Linked'
<1>1. AllOfClients'
  BY DEF AllOfClients, Changes
<1>2. ASSUME NEW d \in Clients
      PROVE  LinkAt(d)'
  <2>1. CASE d = c
    <3>1. /\ socket'[d] = so /\ conn'[d] = co /\ events'[d] = es /\ listeners'[d] = L
          /\ callback'[d] = m /\ received'[d] = r /\ ended'[d] = x /\ sent'[d] = s
      BY <2>1 DEF Changes
    <3> QED
      BY <2>1, <3>1 DEF LinkAt
  <2>2. CASE d # c
    <3>1. LinkAt(d)
      BY DEF Linked
    <3>2. d \in Clients \ {c}
      BY <2>2
    <3>3. /\ socket'[d] = socket[d] /\ conn'[d] = conn[d] /\ events'[d] = events[d]
          /\ listeners'[d] = listeners[d] /\ callback'[d] = callback[d]
          /\ received'[d] = received[d] /\ ended'[d] = ended[d] /\ sent'[d] = sent[d]
      BY <3>2 DEF Changes
    <3> QED
      BY <3>1, <3>3 DEF LinkAt
  <2> QED
    BY <2>1, <2>2
<1> QED
  BY <1>1, <1>2 DEF Linked

LEMMA ConnIsFunction ==
    ASSUME AllOfClients, Linked
    PROVE  conn \in [Clients -> States]
<1>1. \A c \in Clients : conn[c] \in States
  BY DEF Linked, LinkAt, Link, Typed
<1> QED
  BY <1>1 DEF AllOfClients, OfClients

LEMMA InitLinks == Init => LinkInv
<1> SUFFICES ASSUME Init
             PROVE  LinkInv
  OBVIOUS
<1>1. AllOfClients
  BY DEF Init, AllOfClients, OfClients
<1>2. requests \in [Clients -> Seq(Messages)] /\ sends \in Nat
  BY EmptySeq DEF Init
<1>3. ASSUME NEW c \in Clients
      PROVE  LinkAt(c)
  <2>1. /\ socket[c] = "none" /\ conn[c] = "none" /\ events[c] = <<>> /\ listeners[c] = <<>>
        /\ callback[c] = 0 /\ received[c] = <<>> /\ ended[c] = 0 /\ sent[c] = <<>>
    BY DEF Init
  <2>2. Typed("none", "none", <<>>, 0, <<>>, <<>>)
    BY EmptySeq DEF Typed, Sockets, States
  <2>3. Len(<<>>) = 0
    BY EmptySeq
  <2>4. InTurn("none", <<>>) /\ Phases("none", "none", <<>>) /\ Told(c, "none", <<>>, 0)
    BY <2>3 DEF InTurn, Phases, Told
  <2>5. OneReads("none", <<>>, 0)
    BY DEF OneReads, Silent
  <2>6. <<>> \o MessagesOf(<<>>) = <<>>
    <3>1. <<>> \o <<>> = <<>>
      BY EmptySeq, ConcatEmptySeq
    <3> QED
      BY <3>1, NoMessages
  <2>7. Link(c, "none", "none", <<>>, <<>>, 0, <<>>, 0, <<>>)
    BY <2>2, <2>4, <2>5, <2>6 DEF Link
  <2> QED
    BY <2>1, <2>7 DEF LinkAt
<1>4. IsHeld(held, conn)
  <2> DEFINE h == held
             vec == EmptyVector
             none == <<>>
  <2>1. h = [vec |-> vec, table |-> none]
    BY DEF Init
  <2>2. vec.block = 1 /\ vec.size = 0 /\ vec.capacity = 0
    BY DEF EmptyVector
  <2>3. IsVector(vec)
    BY DEF IsVector, EmptyVector
  <2>4. DOMAIN none = {} /\ IsTable(none)
    BY DEF IsTable
  <2> HIDE DEF vec, none
  <2>5. h.vec = vec /\ h.table = none /\ h = [vec |-> h.vec, table |-> h.table]
    BY <2>1
  <2> HIDE DEF h
  <2>6. Slots(vec) = {}
    BY <2>2 DEF Slots
  <2>7. HasValues(none, vec, none)
    BY <2>2, <2>4, <2>6 DEF HasValues
  <2>8. Contains(h, h.vec.size, none)
    BY <2>3, <2>5, <2>7 DEF Contains
  <2>9. none \in [1..h.vec.size -> Clients]
    BY <2>2, <2>5 DEF none
  <2>10. \A c \in Clients : conn[c] # "open"
    BY DEF Init
  <2>11. HeldBy(h, none, conn)
    <3>1. h.vec.size = 0
      BY <2>2, <2>5
    <3> QED
      BY <2>8, <2>9, <2>10, <3>1 DEF HeldBy
  <2> QED
    BY <2>11 DEF IsHeld, h
<1> QED
  BY <1>1, <1>2, <1>3, <1>4 DEF LinkInv, Linked

LEMMA ConnectKeeps ==
    ASSUME LinkInv, NEW c \in Clients, Connect(c)
    PROVE  LinkInv'
<1>1. AllOfClients /\ Linked /\ LinkAt(c)
  BY DEF LinkInv, Linked
<1> DEFINE st == Client(listeners[c], callback[c], received[c], ended[c])
           after == IF c \in Connections THEN init(StateOf(c)) ELSE StateOf(c)
<1>2. StateOf(c) = st
  BY DEF StateOf, Client
<1>3. /\ socket[c] = "none"
      /\ socket' = [socket EXCEPT ![c] = "connecting"]
      /\ Become(c, after)
      /\ events' = events /\ conn' = conn /\ requests' = requests /\ held' = held
      /\ sends' = sends /\ sent' = sent
  BY DEF Connect, serverVars
<1>4. PICK M, k :
         /\ c \in Connections => init(st) = Client(M, k, received[c], ended[c])
         /\ c \notin Connections => M = listeners[c] /\ k = callback[c]
         /\ Link(c, "connecting", conn[c], events[c], M, k, received[c], ended[c], sent[c])
  BY <1>1, <1>3, ConnectLinks DEF LinkAt
<1>5. after = Client(M, k, received[c], ended[c])
  BY <1>2, <1>4
<1> HIDE DEF after, st
<1>6. /\ after.listeners = M /\ after.callback = k
      /\ after.received = received[c] /\ after.ended = ended[c]
  BY <1>5, ClientParts
<1>7. /\ listeners' = [listeners EXCEPT ![c] = M]
      /\ callback' = [callback EXCEPT ![c] = k]
      /\ received' = [received EXCEPT ![c] = received[c]]
      /\ ended' = [ended EXCEPT ![c] = ended[c]]
  BY <1>3, <1>6, Zenon DEF Become
<1>8. /\ Changes(socket, socket', c, "connecting") /\ Changes(conn, conn', c, conn[c])
      /\ Changes(events, events', c, events[c]) /\ Changes(listeners, listeners', c, M)
      /\ Changes(callback, callback', c, k) /\ Changes(received, received', c, received[c])
      /\ Changes(ended, ended', c, ended[c]) /\ Changes(sent, sent', c, sent[c])
  BY <1>1, <1>3, <1>7, ExceptChanges, SameChanges DEF AllOfClients
<1>9. AllOfClients' /\ Linked'
  BY <1>1, <1>4, <1>8, OneChanges
<1> QED
  BY <1>3, <1>9 DEF LinkInv

LEMMA RefuseKeeps ==
    ASSUME LinkInv, NEW c \in Clients, Refuse(c)
    PROVE  LinkInv'
<1>1. AllOfClients /\ Linked /\ LinkAt(c)
  BY DEF LinkInv, Linked
<1> DEFINE es == <<Event("error"), Event("close")>>
<1>2. /\ socket[c] = "connecting" /\ conn[c] = "none" /\ events[c] = <<>>
      /\ events' = [events EXCEPT ![c] = es]
      /\ socket' = socket /\ listeners' = listeners /\ callback' = callback
      /\ received' = received /\ ended' = ended
      /\ conn' = conn /\ requests' = requests /\ held' = held
      /\ sends' = sends /\ sent' = sent
  BY DEF Refuse, serverVars
<1>3. Link(c, socket[c], conn[c], es, listeners[c], callback[c], received[c], ended[c], sent[c])
  BY <1>1, <1>2, RefuseLinks DEF LinkAt
<1> HIDE DEF es
<1>4. /\ Changes(socket, socket', c, socket[c]) /\ Changes(conn, conn', c, conn[c])
      /\ Changes(events, events', c, es) /\ Changes(listeners, listeners', c, listeners[c])
      /\ Changes(callback, callback', c, callback[c]) /\ Changes(received, received', c, received[c])
      /\ Changes(ended, ended', c, ended[c]) /\ Changes(sent, sent', c, sent[c])
  BY <1>1, <1>2, ExceptChanges, SameChanges DEF AllOfClients
<1>5. AllOfClients' /\ Linked'
  BY <1>1, <1>3, <1>4, OneChanges
<1> QED
  BY <1>2, <1>5 DEF LinkInv

LEMMA AcceptKeeps ==
    ASSUME LinkInv, NEW c \in Clients, Accept(c)
    PROVE  LinkInv'
<1>1. AllOfClients /\ Linked /\ LinkAt(c)
  BY DEF LinkInv, Linked
<1> DEFINE es == <<Event("open")>>
           st == [held EXCEPT !.table = Put(@, Argument, c)]
<1>2. /\ socket[c] = "connecting" /\ conn[c] = "none" /\ events[c] = <<>>
      /\ conn' = [conn EXCEPT ![c] = "open"]
      /\ events' = [events EXCEPT ![c] = es]
      /\ held' = push_back(st, Argument)
      /\ socket' = socket /\ listeners' = listeners /\ callback' = callback
      /\ received' = received /\ ended' = ended
      /\ requests' = requests /\ sends' = sends /\ sent' = sent
  BY DEF Accept
<1>3. Link(c, socket[c], "open", es, listeners[c], callback[c], received[c], ended[c], sent[c])
  BY <1>1, <1>2, AcceptLinks DEF LinkAt
<1>4. IsHeld(held', conn')
  <2>1. PICK v : HeldBy(held, v, conn)
    BY DEF LinkInv, IsHeld
  <2>2. conn \in [Clients -> States]
    BY <1>1, ConnIsFunction
  <2>3. st.vec = held.vec /\ st.table = Put(held.table, Argument, c)
    <3> DEFINE h == held
               put == Put(h.table, Argument, c)
    <3>1. h = [vec |-> h.vec, table |-> h.table]
      BY <2>1 DEF HeldBy, Contains
    <3>2. st = [h EXCEPT !.table = put]
      OBVIOUS
    <3> HIDE DEF h, put, st
    <3>3. st.vec = h.vec /\ st.table = put
      BY <3>1, <3>2
    <3> QED
      BY <3>3 DEF h, put
  <2> HIDE DEF st
  <2>4. \E w : HeldBy(push_back(st, Argument), w, [conn EXCEPT ![c] = "open"])
    BY <1>2, <2>1, <2>2, <2>3, AcceptIsHeld
  <2> QED
    BY <1>2, <2>4 DEF IsHeld
<1> HIDE DEF es, st
<1>5. /\ Changes(socket, socket', c, socket[c]) /\ Changes(conn, conn', c, "open")
      /\ Changes(events, events', c, es) /\ Changes(listeners, listeners', c, listeners[c])
      /\ Changes(callback, callback', c, callback[c]) /\ Changes(received, received', c, received[c])
      /\ Changes(ended, ended', c, ended[c]) /\ Changes(sent, sent', c, sent[c])
  BY <1>1, <1>2, ExceptChanges, SameChanges DEF AllOfClients
<1>6. AllOfClients' /\ Linked'
  BY <1>1, <1>3, <1>5, OneChanges
<1> QED
  BY <1>2, <1>4, <1>6 DEF LinkInv

LEMMA FireKeeps ==
    ASSUME LinkInv, NEW c \in Clients, Fire(c)
    PROVE  LinkInv'
<1>1. AllOfClients /\ Linked /\ LinkAt(c)
  BY DEF LinkInv, Linked
<1> DEFINE st == Client(listeners[c], callback[c], received[c], ended[c])
           e == Head(events[c])
           t == Tail(events[c])
           q == Collected(received[c], e)
           after == IF c \in Connections THEN Dispatch(StateOf(c), e) ELSE Trigger(StateOf(c), e)
<1>2. StateOf(c) = st
  BY DEF StateOf, Client
<1>3. /\ events[c] # <<>>
      /\ events' = [events EXCEPT ![c] = t]
      /\ socket' = [socket EXCEPT ![c] = After(socket[c], e)]
      /\ Become(c, after)
      /\ conn' = conn /\ requests' = requests /\ held' = held
      /\ sends' = sends /\ sent' = sent
  BY DEF Fire, serverVars, After
<1>4. PICK M, k, y :
         /\ Fires(c, st, e, Client(M, k, q, y))
         /\ Link(c, After(socket[c], e), conn[c], t, M, k, q, y, sent[c])
  BY <1>1, <1>3, FireLinks DEF LinkAt
<1>5. after = Client(M, k, q, y)
  BY <1>2, <1>4, Zenon DEF Fires
<1> HIDE DEF after, st, q, e, t
<1>6. after.listeners = M /\ after.callback = k /\ after.received = q /\ after.ended = y
  BY <1>5, ClientParts
<1>7. /\ listeners' = [listeners EXCEPT ![c] = M]
      /\ callback' = [callback EXCEPT ![c] = k]
      /\ received' = [received EXCEPT ![c] = q]
      /\ ended' = [ended EXCEPT ![c] = y]
  BY <1>3, <1>6, Zenon DEF Become
<1>8. /\ Changes(socket, socket', c, After(socket[c], e)) /\ Changes(conn, conn', c, conn[c])
      /\ Changes(events, events', c, t) /\ Changes(listeners, listeners', c, M)
      /\ Changes(callback, callback', c, k) /\ Changes(received, received', c, q)
      /\ Changes(ended, ended', c, y) /\ Changes(sent, sent', c, sent[c])
  BY <1>1, <1>3, <1>7, ExceptChanges, SameChanges DEF AllOfClients
<1>9. AllOfClients' /\ Linked'
  BY <1>1, <1>4, <1>8, OneChanges
<1> QED
  BY <1>3, <1>9 DEF LinkInv

LEMMA SendKeeps ==
    ASSUME LinkInv, NEW c \in Clients, Send(c)
    PROVE  LinkInv'
<1>1. /\ socket' = socket /\ events' = events /\ listeners' = listeners /\ callback' = callback
      /\ received' = received /\ ended' = ended /\ conn' = conn /\ held' = held /\ sent' = sent
      /\ sends' = sends + 1
  BY DEF Send, clientVars
<1>2. PICK m \in {sends', Bad} : requests' = [requests EXCEPT ![c] = Append(@, m)]
  BY DEF Send
<1>3. sends' \in Nat /\ m \in Messages
  BY <1>1 DEF LinkInv, Messages
<1>4. Append(requests[c], m) \in Seq(Messages)
  BY <1>3, AppendProperties DEF LinkInv
<1>5. requests' \in [Clients -> Seq(Messages)]
  BY <1>2, <1>4 DEF LinkInv
<1>6. AllOfClients'
  BY <1>1 DEF LinkInv, AllOfClients
<1>7. Linked'
  BY <1>1 DEF LinkInv, Linked, LinkAt
<1> QED
  BY <1>1, <1>3, <1>5, <1>6, <1>7 DEF LinkInv

LEMMA LoseKeeps ==
    ASSUME LinkInv, NEW c \in Clients, Lose(c)
    PROVE  LinkInv'
<1>1. AllOfClients /\ Linked /\ LinkAt(c)
  BY DEF LinkInv, Linked
<1>2. /\ conn[c] = "open"
      /\ conn' = [conn EXCEPT ![c] = "closed"]
      /\ requests' = [requests EXCEPT ![c] = <<>>]
      /\ socket' = socket /\ listeners' = listeners /\ callback' = callback
      /\ received' = received /\ ended' = ended
      /\ held' = held /\ sends' = sends /\ sent' = sent
  BY DEF Lose
<1> DEFINE close == Event("close")
           error == Event("error")
<1>3. PICK before \in {<<>>, <<error>>} :
         events' = [events EXCEPT ![c] = @ \o before \o <<close>>]
  BY DEF Lose
<1>4. events[c] \in Seq(Events)
  BY <1>1 DEF LinkAt, Link, Typed
<1>5. close \in Events /\ error \in Events
  BY EventsAreEvents DEF Names, Messages
<1>6. /\ Link(c, socket[c], "closed", Append(events[c], close), listeners[c], callback[c],
              received[c], ended[c], sent[c])
      /\ Link(c, socket[c], "closed", Append(Append(events[c], error), close), listeners[c],
              callback[c], received[c], ended[c], sent[c])
  BY <1>1, <1>2, EndLinks DEF LinkAt
<1> HIDE DEF close, error
<1>7. PICK es : /\ events' = [events EXCEPT ![c] = es]
                /\ Link(c, socket[c], "closed", es, listeners[c], callback[c],
                        received[c], ended[c], sent[c])
  <2> DEFINE p == events[c]
             es == (p \o before) \o <<close>>
  <2>1. events' = [events EXCEPT ![c] = es]
    BY <1>3, Zenon
  <2>2. es = Append(p, close) \/ es = Append(Append(p, error), close)
    <3>1. CASE before = <<>>
      <4>1. p \o <<>> = p
        BY <1>4, ConcatEmptySeq
      <4>2. Append(p, close) = p \o <<close>>
        BY <1>4, <1>5, AppendIsConcat
      <4> QED
        BY <3>1, <4>1, <4>2
    <3>2. CASE before = <<error>>
      <4>1. Append(p, error) = p \o <<error>> /\ Append(p, error) \in Seq(Events)
        BY <1>4, <1>5, AppendIsConcat, Added
      <4>2. Append(Append(p, error), close) = Append(p, error) \o <<close>>
        BY <1>5, <4>1, AppendIsConcat
      <4> QED
        BY <3>2, <4>1, <4>2
    <3> QED
      BY <3>1, <3>2
  <2>3. Link(c, socket[c], "closed", es, listeners[c], callback[c], received[c], ended[c], sent[c])
    <3> HIDE DEF es
    <3>1. CASE es = Append(p, close)
      BY <1>6, <3>1
    <3>2. CASE es = Append(Append(p, error), close)
      BY <1>6, <3>2
    <3> QED
      BY <2>2, <3>1, <3>2
  <2> HIDE DEF es
  <2> QED
    BY <2>1, <2>3
<1>8. /\ Changes(socket, socket', c, socket[c]) /\ Changes(conn, conn', c, "closed")
      /\ Changes(events, events', c, es) /\ Changes(listeners, listeners', c, listeners[c])
      /\ Changes(callback, callback', c, callback[c]) /\ Changes(received, received', c, received[c])
      /\ Changes(ended, ended', c, ended[c]) /\ Changes(sent, sent', c, sent[c])
  BY <1>1, <1>2, <1>7, ExceptChanges, SameChanges DEF AllOfClients
<1>9. AllOfClients' /\ Linked'
  BY <1>1, <1>7, <1>8, OneChanges
<1>10. requests' \in [Clients -> Seq(Messages)]
  <2>1. <<>> \in Seq(Messages)
    BY EmptySeq
  <2> QED
    BY <1>2, <2>1 DEF LinkInv
<1>11. IsHeld(held', conn')
  <2>1. PICK v : HeldBy(held, v, conn)
    BY DEF LinkInv, IsHeld
  <2>2. conn \in [Clients -> States]
    BY <1>1, ConnIsFunction
  <2>3. HeldBy(held, v, [conn EXCEPT ![c] = "closed"])
    BY <1>2, <2>1, <2>2, LoseIsHeld
  <2> QED
    BY <1>2, <2>3 DEF IsHeld
<1>12. sends' \in Nat
  BY <1>2 DEF LinkInv
<1> QED
  BY <1>9, <1>10, <1>11, <1>12 DEF LinkInv

LEMMA DropKeeps ==
    ASSUME LinkInv, NEW c \in Clients, conn[c] = "open", drop_connection(c),
           socket' = socket, listeners' = listeners, callback' = callback,
           received' = received, ended' = ended, sends' = sends, sent' = sent
    PROVE  LinkInv'
<1>1. AllOfClients /\ Linked /\ LinkAt(c)
  BY DEF LinkInv, Linked
<1> DEFINE es == Append(events[c], Event("close"))
<1>2. /\ conn' = [conn EXCEPT ![c] = "closed"]
      /\ requests' = [requests EXCEPT ![c] = <<>>]
      /\ events' = [events EXCEPT ![c] = es]
      /\ held' = erase_if(held, c)
  BY DEF drop_connection
<1>3. Link(c, socket[c], "closed", es, listeners[c], callback[c], received[c], ended[c], sent[c])
  BY <1>1, EndLinks DEF LinkAt
<1> HIDE DEF es
<1>4. /\ Changes(socket, socket', c, socket[c]) /\ Changes(conn, conn', c, "closed")
      /\ Changes(events, events', c, es) /\ Changes(listeners, listeners', c, listeners[c])
      /\ Changes(callback, callback', c, callback[c]) /\ Changes(received, received', c, received[c])
      /\ Changes(ended, ended', c, ended[c]) /\ Changes(sent, sent', c, sent[c])
  BY <1>1, <1>2, ExceptChanges, SameChanges DEF AllOfClients
<1>5. AllOfClients' /\ Linked'
  BY <1>1, <1>3, <1>4, OneChanges
<1>6. requests' \in [Clients -> Seq(Messages)]
  <2>1. <<>> \in Seq(Messages)
    BY EmptySeq
  <2> QED
    BY <1>2, <2>1 DEF LinkInv
<1>7. IsHeld(held', conn')
  <2>1. PICK v : HeldBy(held, v, conn)
    BY DEF LinkInv, IsHeld
  <2>2. conn \in [Clients -> States]
    BY <1>1, ConnIsFunction
  <2>3. \E w : HeldBy(erase_if(held, c), w, [conn EXCEPT ![c] = "closed"])
    BY <2>1, <2>2, DropIsHeld
  <2> QED
    BY <1>2, <2>3 DEF IsHeld
<1>8. sends' \in Nat
  BY DEF LinkInv
<1> QED
  BY <1>5, <1>6, <1>7, <1>8 DEF LinkInv

\* A message goes to connections that are open.
LEMMA OnlyOpenAreSent ==
    ASSUME NEW m, send_message(m)
    PROVE  \E to :
              /\ \A c \in to : conn[c] = "open"
              /\ events' = [c \in Clients |->
                    IF c \in to THEN Append(events[c], [on |-> "message", message |-> m])
                                ELSE events[c]]
              /\ sent' = [c \in Clients |-> IF c \in to THEN Append(sent[c], m) ELSE sent[c]]
<1> DEFINE all == ValuesOf(held.table, held.vec)
           closed == {i \in DOMAIN all : conn[all[i]] # "open"}
           reached == {i \in DOMAIN all : SendThrows => \A j \in closed : i < j}
           to == {all[i] : i \in reached \ closed}
<1>1. /\ events' = [c \in Clients |->
            IF c \in to THEN Append(events[c], [on |-> "message", message |-> m])
                        ELSE events[c]]
      /\ sent' = [c \in Clients |-> IF c \in to THEN Append(sent[c], m) ELSE sent[c]]
  BY Zenon DEF send_message
<1>2. \A c \in to : conn[c] = "open"
  <2> SUFFICES ASSUME NEW i \in reached \ closed
               PROVE  conn[all[i]] = "open"
    OBVIOUS
  <2> HIDE DEF all
  <2> QED
    OBVIOUS
<1> HIDE DEF to
<1> QED
  BY <1>1, <1>2

LEMMA EchoKeeps ==
    ASSUME LinkInv, NEW c \in Clients, NEW m \in Messages, send_message(m),
           requests' \in [Clients -> Seq(Messages)],
           socket' = socket, listeners' = listeners, callback' = callback,
           received' = received, ended' = ended, sends' = sends, conn' = conn, held' = held
    PROVE  LinkInv'
<1>1. PICK to :
         /\ \A d \in to : conn[d] = "open"
         /\ events' = [d \in Clients |->
               IF d \in to THEN Append(events[d], [on |-> "message", message |-> m])
                           ELSE events[d]]
         /\ sent' = [d \in Clients |-> IF d \in to THEN Append(sent[d], m) ELSE sent[d]]
  BY OnlyOpenAreSent
<1>2. AllOfClients'
  BY <1>1 DEF LinkInv, AllOfClients, OfClients
<1>3. ASSUME NEW d \in Clients
      PROVE  LinkAt(d)'
  <2>1. LinkAt(d)
    BY DEF LinkInv, Linked
  <2>2. CASE d \in to
    <3>1. /\ events'[d] = Append(events[d], [on |-> "message", message |-> m])
          /\ sent'[d] = Append(sent[d], m)
          /\ conn[d] = "open"
      BY <1>1, <2>2
    <3>2. Link(d, socket[d], "open", Append(events[d], [on |-> "message", message |-> m]),
               listeners[d], callback[d], received[d], ended[d], Append(sent[d], m))
      BY <2>1, <3>1, SendLinks DEF LinkAt
    <3> QED
      BY <3>1, <3>2 DEF LinkAt
  <2>3. CASE d \notin to
    <3>1. events'[d] = events[d] /\ sent'[d] = sent[d]
      BY <1>1, <2>3
    <3> QED
      BY <2>1, <3>1 DEF LinkAt
  <2> QED
    BY <2>2, <2>3
<1>4. Linked'
  BY <1>3 DEF Linked
<1> QED
  BY <1>2, <1>4 DEF LinkInv

LEMMA ReceiveKeeps ==
    ASSUME LinkInv, NEW c \in Clients, receive_message(c)
    PROVE  LinkInv'
<1> DEFINE m == Head(requests[c])
<1>1. /\ conn[c] = "open" /\ requests[c] # <<>>
      /\ socket' = socket /\ listeners' = listeners /\ callback' = callback
      /\ received' = received /\ ended' = ended /\ sends' = sends
  BY DEF receive_message
<1>2. requests[c] \in Seq(Messages)
  BY DEF LinkInv
<1>3. m \in Messages /\ Tail(requests[c]) \in Seq(Messages)
  BY <1>1, <1>2, HeadTailProperties
<1>4. CASE ~Deserializes(m)
  <2>1. drop_connection(c) /\ sent' = sent
    BY <1>4 DEF receive_message
  <2> QED
    BY <1>1, <2>1, DropKeeps
<1>5. CASE Deserializes(m)
  <2>1. /\ requests' = [requests EXCEPT ![c] = Tail(@)]
        /\ send_message(m) /\ conn' = conn /\ held' = held
    BY <1>5 DEF receive_message
  <2>2. requests' \in [Clients -> Seq(Messages)]
    BY <1>3, <2>1 DEF LinkInv
  <2> HIDE DEF m
  <2> QED
    BY <1>1, <1>3, <2>1, <2>2, EchoKeeps
<1> QED
  BY <1>4, <1>5

LEMMA LinkInvHolds == Spec => []LinkInv
<1>1. Init => LinkInv
  BY InitLinks
<1>2. LinkInv /\ [Next]_vars => LinkInv'
  <2> SUFFICES ASSUME LinkInv, [Next]_vars
               PROVE  LinkInv'
    OBVIOUS
  <2>1. ASSUME NEW c \in Clients, Connect(c)
        PROVE  LinkInv'
    BY <2>1, ConnectKeeps
  <2>2. ASSUME NEW c \in Clients, Refuse(c)
        PROVE  LinkInv'
    BY <2>2, RefuseKeeps
  <2>3. ASSUME NEW c \in Clients, Accept(c)
        PROVE  LinkInv'
    BY <2>3, AcceptKeeps
  <2>4. ASSUME NEW c \in Clients, Fire(c)
        PROVE  LinkInv'
    BY <2>4, FireKeeps
  <2>5. ASSUME NEW c \in Clients, Send(c)
        PROVE  LinkInv'
    BY <2>5, SendKeeps
  <2>6. ASSUME NEW c \in Clients, receive_message(c)
        PROVE  LinkInv'
    BY <2>6, ReceiveKeeps
  <2>7. ASSUME NEW c \in Clients, Lose(c)
        PROVE  LinkInv'
    BY <2>7, LoseKeeps
  <2>8. CASE UNCHANGED vars
    BY <2>8 DEF vars, clientVars, serverVars, LinkInv, AllOfClients, Linked, LinkAt
  <2> QED
    BY <2>1, <2>2, <2>3, <2>4, <2>5, <2>6, <2>7, <2>8 DEF Next
<1> QED
  BY <1>1, <1>2, PTL DEF Spec

---------------------------------------------------------------------------
(* The properties *)

(* Whatever the numbers of clients and of messages on their way, and whether a
   send on a closed socket throws or does nothing, a client's application is
   given the messages that were sent to it, each once and in order, although
   its listeners are exchanged for each, and is told once of the end
   (client_connection_js.hpp, websocket_api's endpoint). *)
THEOREM MessagesAreDeliveredOnce == Spec => []DeliveredOnce
<1>1. LinkInv => DeliveredOnce
  <2> SUFFICES ASSUME LinkInv, NEW c \in Clients
               PROVE  /\ received[c] \o Pending(c) = sent[c]
                      /\ ended[c] <= 1
                      /\ (socket[c] = "closed" /\ events[c] = <<>>) => ended[c] = 1
    BY DEF DeliveredOnce
  <2>1. Link(c, socket[c], conn[c], events[c], listeners[c], callback[c],
             received[c], ended[c], sent[c])
    BY DEF LinkInv, Linked, LinkAt
  <2>2. received[c] \o Pending(c) = sent[c]
    BY <2>1 DEF Link, Pending
  <2>3. ended[c] <= 1
    BY <2>1 DEF Link, Told
  <2>4. (socket[c] = "closed" /\ events[c] = <<>>) => ended[c] = 1
    <3>1. Len(<<>>) = 0
      BY EmptySeq
    <3> QED
      BY <2>1, <3>1 DEF Link, Told
  <2> QED
    BY <2>2, <2>3, <2>4
<1> QED
  BY <1>1, LinkInvHolds, PTL

(* However often the server's vector is reallocated and erased from, it holds
   each connection that was accepted and not dropped once, and the table of
   values has an entry for each of its elements and no other (server_js.hpp,
   js_val.hpp). *)
THEOREM ConnectionsStayHeld == Spec => []ConnectionsAreHeld
<1>1. LinkInv => ConnectionsAreHeld
  <2> SUFFICES ASSUME LinkInv
               PROVE  ConnectionsAreHeld
    OBVIOUS
  <2> DEFINE n == held.vec.size
             at(i) == Get(held.table, Slot(held.vec, i))
  <2>1. PICK v : HeldBy(held, v, conn)
    BY DEF LinkInv, IsHeld
  <2>2. /\ DOMAIN held.table = Slots(held.vec)
        /\ \A i \in 1..n : held.table[Slot(held.vec, i)] = v[i]
        /\ \A i, j \in 1..n : v[i] = v[j] => i = j
        /\ \A c \in Clients : conn[c] = "open" => \E i \in 1..n : v[i] = c
    BY <2>1 DEF HeldBy, Contains, HasValues
  <2>3. \A i \in 1..n : at(i) = v[i]
    BY <2>2 DEF Get, Slots
  <2> HIDE DEF n, at
  <2>4. \A i, j \in 1..n : i # j => at(i) # at(j)
    BY <2>2, <2>3
  <2>5. \A c \in Clients : conn[c] = "open" => \E i \in 1..n : at(i) = c
    <3> SUFFICES ASSUME NEW c \in Clients, conn[c] = "open"
                 PROVE  \E i \in 1..n : at(i) = c
      OBVIOUS
    <3>1. PICK i \in 1..n : v[i] = c
      BY <2>2
    <3> QED
      BY <2>3, <3>1
  <2> QED
    BY <2>2, <2>4, <2>5 DEF ConnectionsAreHeld, n, at
<1> QED
  BY <1>1, LinkInvHolds, PTL
=============================================================================

---------------------------- MODULE ContextProofs ----------------------------
(***************************************************************************)
(* What a context promises, for any points, actors, listeners and number   *)
(* of pushes.  A context has no queue: whatever is pushed in a call is     *)
(* called at once, before the calls that were to come.  So each invariant  *)
(* is about the calls that are still to be made: which may stand before    *)
(* which, and what will have happened when they have returned.             *)
(*                                                                         *)
(* Typed          messages go where they fit                               *)
(* TellsAreTrue   nothing changes a store between its read and the tell    *)
(* ViewsFollow    what is not shown yet is about to be                     *)
(* MissingFollows what is missing is awaited, or about to be asked for     *)
(*                                                                         *)
(* and if nobody pushes in return:                                         *)
(*                                                                         *)
(* OneAtATime     one update is applied and brought to those who listen    *)
(* OneIsSent      one message is sent, to each consumer once               *)
(* ListenersFollow, FollowersFollow   who is behind is about to be reached *)
(***************************************************************************)
EXTENDS Context, FiniteSetTheorems, SequenceTheorems, WellFoundedInduction, NaturalsInduction,
        TLAPS

---------------------------------------------------------------------------
(* Sequences of actors *)

\* A set of numbers has a least element.
LEMMA LeastElement ==
    ASSUME NEW T, T \subseteq Nat, T # {}
    PROVE  \E x \in T : \A y \in T : ~ (y < x)
<1>1. \E x \in T : \A y \in T : <<y, x>> \notin OpToRel(<, Nat)
  BY NatLessThanWellFounded, WFMin, Zenon
<1>2. QED
  BY <1>1 DEF OpToRel

\* Induction over the numbers, for sets.
LEMMA EveryNat ==
    ASSUME NEW T, 0 \in T, \A n \in Nat : n \in T => n + 1 \in T
    PROVE  Nat \subseteq T
<1> SUFFICES ASSUME Nat \ T # {} PROVE FALSE
  OBVIOUS
<1>1. PICK x \in Nat \ T : \A y \in Nat \ T : ~ (y < x)
  BY LeastElement
<1>2. x # 0 /\ x - 1 \in Nat
  BY SMT
<1>3. x - 1 \in T
  BY <1>1, <1>2, SMT
<1>4. x \in T
  BY <1>3, <1>2, SMT
<1>5. QED
  BY <1>4

\* The function in the definition of InOrder.
UpTo(set, n, f) ==
    f = [i \in 0..n |->
            IF i = 0 THEN <<>>
            ELSE IF Actors[i] \in set THEN Append(f[i - 1], Actors[i]) ELSE f[i - 1]]

\* There is such a function for any part of the sequence of actors.
LEMMA UpToExists ==
    ASSUME NEW set
    PROVE  \A n \in Nat : \E f : UpTo(set, n, f)
<1> DEFINE T == {n \in Nat : \E f : UpTo(set, n, f)}
<1>1. 0 \in T
  <2> DEFINE f == [i \in 0..0 |-> <<>>]
  <2>1. UpTo(set, 0, f)
    BY SMT DEF UpTo
  <2>2. QED
    BY <2>1
<1>2. ASSUME NEW n \in Nat, n \in T PROVE n + 1 \in T
  <2>1. PICK f : UpTo(set, n, f)
    BY <1>2
  <2> DEFINE last == IF Actors[n + 1] \in set THEN Append(f[n], Actors[n + 1]) ELSE f[n]
             g == [i \in 0..(n + 1) |-> IF i = n + 1 THEN last ELSE f[i]]
  <2>2. \A i \in 0..n : f[i] = IF i = 0 THEN <<>>
            ELSE IF Actors[i] \in set THEN Append(f[i - 1], Actors[i]) ELSE f[i - 1]
    BY <2>1, Zenon DEF UpTo
  <2>3. \A i \in 0..(n + 1) : g[i] = IF i = 0 THEN <<>>
            ELSE IF Actors[i] \in set THEN Append(g[i - 1], Actors[i]) ELSE g[i - 1]
    BY <2>2, SMT
  <2>4. UpTo(set, n + 1, g)
    BY <2>3, SMT DEF UpTo
  <2>5. QED
    BY <2>4
<1>3. QED
  BY <1>1, <1>2, EveryNat

\* InOrder(set) is the last value of such a function.
LEMMA InOrderIsThat ==
    ASSUME NEW set
    PROVE  \E f : UpTo(set, Len(Actors), f) /\ InOrder(set) = f[Len(Actors)]
<1> DEFINE f == CHOOSE f : UpTo(set, Len(Actors), f)
<1>1. Len(Actors) \in Nat
  BY ActorAssumption, LenProperties
<1>2. UpTo(set, Len(Actors), f)
  BY <1>1, UpToExists
<1>3. InOrder(set) = f[Len(Actors)]
  BY DEF InOrder, UpTo
<1>4. QED
  BY <1>2, <1>3

\* Every actor of the set is there, once.
LEMMA InOrderFacts ==
    ASSUME NEW set, set \subseteq Range(Actors)
    PROVE  /\ InOrder(set) \in Seq(set)
           /\ Range(InOrder(set)) = set
           /\ \A i, j \in DOMAIN InOrder(set) : InOrder(set)[i] = InOrder(set)[j] => i = j
<1>1. PICK f : UpTo(set, Len(Actors), f) /\ InOrder(set) = f[Len(Actors)]
  BY InOrderIsThat
<1>2. Len(Actors) \in Nat /\ DOMAIN Actors = 1..Len(Actors)
  BY ActorAssumption, LenProperties
<1> DEFINE N == Len(Actors)
           Good(i) == /\ f[i] \in Seq(set)
                      /\ \A j \in 1..Len(f[i]) : \E k \in 1..i : f[i][j] = Actors[k]
                      /\ \A k \in 1..i : Actors[k] \in set =>
                            \E j \in 1..Len(f[i]) : f[i][j] = Actors[k]
                      /\ \A j, k \in 1..Len(f[i]) : f[i][j] = f[i][k] => j = k
           T == {i \in Nat : i <= N => Good(i)}
<1>3. \A i \in 0..N : f[i] = IF i = 0 THEN <<>>
          ELSE IF Actors[i] \in set THEN Append(f[i - 1], Actors[i]) ELSE f[i - 1]
  BY <1>1, Zenon DEF UpTo
<1>4. 0 \in T
  <2>1. f[0] = <<>>
    BY <1>2, <1>3, SMT
  <2>2. <<>> \in Seq(set) /\ Len(<<>>) = 0
    BY SMT
  <2> HIDE DEF N
  <2>3. Good(0)
    BY <2>1, <2>2, SMT
  <2>4. QED
    BY <2>3
<1>5. ASSUME NEW n \in Nat, n \in T PROVE n + 1 \in T
  <2> SUFFICES ASSUME n + 1 <= N PROVE Good(n + 1)
    OBVIOUS
  <2>1. Good(n) /\ n + 1 \in 0..N /\ n + 1 # 0 /\ n + 1 - 1 = n
    BY <1>2, <1>5, SMT
  <2>2. CASE Actors[n + 1] \notin set
    <3>1. f[n + 1] = f[n]
      BY <1>3, <2>1, <2>2
    <3>2. QED
      BY <2>1, <2>2, <3>1, SMT
  <2>3. CASE Actors[n + 1] \in set
    <3>1. f[n + 1] = Append(f[n], Actors[n + 1])
      <4>1. f[n + 1] = IF Actors[n + 1] \in set THEN Append(f[n + 1 - 1], Actors[n + 1])
                                               ELSE f[n + 1 - 1]
        <5>1. n + 1 \in 0..N /\ n + 1 # 0
          BY <2>1
        <5> HIDE DEF N, Good, T
        <5>2. QED
          BY <1>3, <5>1, SMT
      <4>2. QED
        BY <2>1, <2>3, <4>1, Zenon
    <3>2. \A k \in 1..n : Actors[k] # Actors[n + 1]
      BY <1>2, <2>1, ActorAssumption, SMT DEF IsInjective
    <3> HIDE DEF N
    <3>3. QED
      BY <2>1, <2>3, <3>1, <3>2, SMT
  <2>4. QED
    BY <2>2, <2>3
<1>6. Good(N)
  <2>1. N \in T
    BY <1>2, <1>4, <1>5, EveryNat
  <2>2. QED
    BY <2>1, <1>2, SMT
<1>7. \A a \in set : \E k \in 1..N : a = Actors[k]
  BY <1>2 DEF Range
<1>8. DOMAIN InOrder(set) = 1..Len(InOrder(set))
  BY <1>1, <1>6, LenProperties
<1> HIDE DEF N
<1>9. Range(InOrder(set)) \subseteq set
  <2> SUFFICES ASSUME NEW j \in DOMAIN InOrder(set) PROVE InOrder(set)[j] \in set
    BY Zenon DEF Range
  <2> HIDE DEF N
  <2>1. f[N] \in Seq(set) /\ j \in 1..Len(f[N])
    BY <1>1, <1>6, <1>8 DEF N
  <2>2. f[N][j] \in set
    BY <2>1, ElementOfSeq
  <2>3. QED
    BY <1>1, <2>2 DEF N
<1>10. ASSUME NEW a \in set PROVE a \in Range(InOrder(set))
  <2>1. PICK k \in 1..N : a = Actors[k]
    BY <1>7
  <2>2. PICK j \in 1..Len(f[N]) : f[N][j] = a
    BY <1>6, <2>1
  <2>3. QED
    BY <1>1, <1>8, <2>2 DEF Range, N
<1>11. QED
  BY <1>1, <1>6, <1>8, <1>9, <1>10 DEF N

\* A finite set has a sequence of its elements, from which SetToSeq chooses.
LEMMA SetToSeqFacts ==
    ASSUME NEW S, IsFiniteSet(S)
    PROVE  SetToSeq(S) \in Seq(S) /\ Range(SetToSeq(S)) = S
<1> DEFINE n == Cardinality(S)
<1>1. n \in Nat
  BY FS_CardinalityType
<1>2. \E f \in [1..n -> S] : IsInjective(f)
  <2>1. ExistsBijection(1..n, S)
    BY FS_CardinalityType
  <2>2. QED
    BY <2>1 DEF ExistsBijection, Bijection, Injection, IsInjective
<1>3. SetToSeq(S) \in [1..n -> S] /\ IsInjective(SetToSeq(S))
  BY <1>2 DEF SetToSeq
<1>4. SetToSeq(S) \in Injection(1..n, S)
  BY <1>3 DEF Injection, IsInjective
<1>5. Cardinality(1..n) = n
  BY <1>1, FS_Interval, SMT
<1>6. SetToSeq(S) \in Surjection(1..n, S)
  BY <1>4, <1>5, FS_Injection
<1> HIDE DEF n
<1>7. QED
  BY <1>1, <1>3, <1>6 DEF Surjection, Range

---------------------------------------------------------------------------
(* Sequences of calls *)

\* The elements of two sequences that are put together.
LEMMA JoinFacts ==
    ASSUME NEW S, NEW s \in Seq(S), NEW t \in Seq(S)
    PROVE  /\ s \o t \in Seq(S)
           /\ Len(s \o t) = Len(s) + Len(t)
           /\ DOMAIN s = 1..Len(s) /\ DOMAIN t = 1..Len(t)
           /\ DOMAIN (s \o t) = 1..(Len(s) + Len(t))
           /\ \A i \in 1..Len(s) : (s \o t)[i] = s[i]
           /\ \A i \in 1..Len(t) : (s \o t)[Len(s) + i] = t[i]
           /\ Range(s \o t) = Range(s) \cup Range(t)
<1>1. /\ s \o t \in Seq(S)
      /\ Len(s \o t) = Len(s) + Len(t)
      /\ Len(s) \in Nat /\ Len(t) \in Nat
      /\ \A i \in 1..Len(s) : (s \o t)[i] = s[i]
      /\ \A i \in 1..Len(t) : (s \o t)[Len(s) + i] = t[i]
  BY SMT
<1>2. DOMAIN s = 1..Len(s) /\ DOMAIN t = 1..Len(t) /\ DOMAIN (s \o t) = 1..(Len(s) + Len(t))
  BY <1>1, LenProperties
<1>3. Range(s \o t) \subseteq Range(s) \cup Range(t)
  <2> SUFFICES ASSUME NEW i \in 1..(Len(s) + Len(t))
               PROVE  (s \o t)[i] \in Range(s) \cup Range(t)
    BY <1>2 DEF Range
  <2>1. CASE i \in 1..Len(s)
    BY <1>1, <1>2, <2>1 DEF Range
  <2>2. CASE i \notin 1..Len(s)
    <3>1. i - Len(s) \in 1..Len(t) /\ Len(s) + (i - Len(s)) = i
      BY <1>1, <2>2, SMT
    <3>2. (s \o t)[i] = t[i - Len(s)]
      BY <1>1, <3>1
    <3>3. QED
      BY <1>2, <3>1, <3>2 DEF Range
  <2>3. QED
    BY <2>1, <2>2
<1>4. ASSUME NEW i \in 1..Len(s) PROVE s[i] \in Range(s \o t)
  BY <1>1, <1>2, SMT DEF Range
<1>5. ASSUME NEW i \in 1..Len(t) PROVE t[i] \in Range(s \o t)
  <2>1. Len(s) + i \in 1..(Len(s) + Len(t))
    BY <1>1, SMT
  <2>2. QED
    BY <1>1, <1>2, <2>1 DEF Range
<1>6. Range(s) = {s[i] : i \in 1..Len(s)} /\ Range(t) = {t[i] : i \in 1..Len(t)}
  BY <1>2 DEF Range
<1>7. Range(s \o t) = Range(s) \cup Range(t)
  BY <1>3, <1>4, <1>5, <1>6
<1>8. QED
  BY <1>1, <1>7

\* The elements of what is behind the head.
LEMMA TailFacts ==
    ASSUME NEW S, NEW s \in Seq(S), s # <<>>
    PROVE  /\ Head(s) \in S /\ Head(s) = s[1]
           /\ Tail(s) \in Seq(S)
           /\ DOMAIN s = 1..Len(s) /\ DOMAIN Tail(s) = 1..Len(Tail(s))
           /\ Len(s) \in Nat /\ Len(Tail(s)) \in Nat /\ Len(s) = Len(Tail(s)) + 1
           /\ \A i \in 1..Len(Tail(s)) : Tail(s)[i] = s[i + 1]
           /\ Range(s) = {Head(s)} \cup Range(Tail(s))
<1>1. /\ Head(s) \in S /\ Head(s) = s[1]
      /\ Tail(s) \in Seq(S)
      /\ Len(s) \in Nat /\ Len(Tail(s)) \in Nat /\ Len(s) = Len(Tail(s)) + 1
      /\ \A i \in 1..Len(Tail(s)) : Tail(s)[i] = s[i + 1]
  BY SMT
<1>2. DOMAIN s = 1..Len(s) /\ DOMAIN Tail(s) = 1..Len(Tail(s))
  BY <1>1, LenProperties
<1>3. Range(s) \subseteq {Head(s)} \cup Range(Tail(s))
  <2> SUFFICES ASSUME NEW i \in 1..Len(s), i # 1 PROVE s[i] \in Range(Tail(s))
    BY <1>1, <1>2 DEF Range
  <2>1. i - 1 \in 1..Len(Tail(s)) /\ i - 1 + 1 = i
    BY <1>1, SMT
  <2>2. QED
    BY <1>1, <1>2, <2>1 DEF Range
<1>4. {Head(s)} \cup Range(Tail(s)) \subseteq Range(s)
  <2>1. s[1] \in Range(s)
    BY <1>1, <1>2, SMT DEF Range
  <2>2. ASSUME NEW i \in 1..Len(Tail(s)) PROVE Tail(s)[i] \in Range(s)
    <3>1. i + 1 \in 1..Len(s)
      BY <1>1, SMT
    <3>2. QED
      BY <1>1, <1>2, <3>1 DEF Range
  <2>3. QED
    BY <1>1, <1>2, <2>1, <2>2 DEF Range
<1>5. QED
  BY <1>1, <1>2, <1>3, <1>4

\* What is left of todo when the call that is next returns.
Rest == IF todo = <<>> THEN <<>> ELSE Tail(todo)

\* The calls behind the one that is next.
LEMMA RestFacts ==
    ASSUME todo \in Seq(Calls)
    PROVE  /\ Rest \in Seq(Calls)
           /\ todo # <<>> => todo[1] \in Calls /\ Head(todo) = todo[1] /\ Rest = Tail(todo)
           /\ DOMAIN todo = 1..Len(todo) /\ DOMAIN Rest = 1..Len(Rest)
           /\ Len(todo) \in Nat /\ Len(Rest) \in Nat
           /\ Len(todo) = IF todo = <<>> THEN 0 ELSE Len(Rest) + 1
           /\ \A i \in 1..Len(Rest) : Rest[i] = todo[i + 1] /\ i + 1 \in 1..Len(todo)
           /\ Range(todo) = IF todo = <<>> THEN {} ELSE {todo[1]} \cup Range(Rest)
           /\ Range(todo) \subseteq Calls
           /\ Range(Rest) \subseteq Range(todo)
<1>1. CASE todo = <<>>
  <2>1. Rest = <<>> /\ <<>> \in Seq(Calls) /\ Len(<<>>) = 0 /\ DOMAIN <<>> = 1..0
    BY <1>1, SMT DEF Rest
  <2>2. Range(<<>>) = {}
    BY <2>1, SMT DEF Range
  <2>3. QED
    BY <1>1, <2>1, <2>2, SMT
<1>2. CASE todo # <<>>
  <2>1. Rest = Tail(todo)
    BY <1>2 DEF Rest
  <2>2. \A i \in 1..Len(todo) : todo[i] \in Calls
    BY ElementOfSeq
  <2>3. Range(todo) \subseteq Calls
    BY <1>2, <2>2, TailFacts DEF Range
  <2> HIDE DEF Rest
  <2>4. \A i \in 1..Len(Rest) : i + 1 \in 1..Len(todo)
    BY <1>2, <2>1, TailFacts, SMT
  <2>5. QED
    BY <1>2, <2>1, <2>3, <2>4, TailFacts
<1>3. QED
  BY <1>1, <1>2

\* What todo is after a step that has new calls made first.
LEMMA ThenFacts ==
    ASSUME todo \in Seq(Calls), NEW new \in Seq(Calls), todo' = new \o Rest
    PROVE  /\ todo' \in Seq(Calls)
           /\ DOMAIN new = 1..Len(new) /\ Len(new) \in Nat
           /\ DOMAIN todo' = 1..(Len(new) + Len(Rest))
           /\ \A i \in 1..Len(new) : todo'[i] = new[i]
           /\ \A i \in 1..Len(Rest) : todo'[Len(new) + i] = Rest[i]
           /\ \A i \in 1..(Len(new) + Len(Rest)) :
                i \notin 1..Len(new) =>
                    /\ i - Len(new) \in 1..Len(Rest)
                    /\ todo'[i] = Rest[i - Len(new)]
           /\ Range(todo') = Range(new) \cup Range(Rest)
           /\ Range(new) \subseteq Calls
<1>1. Rest \in Seq(Calls) /\ Len(Rest) \in Nat /\ Len(new) \in Nat
  BY RestFacts, LenProperties
<1> HIDE DEF Rest
<1>2. \A i \in 1..(Len(new) + Len(Rest)) :
         i \notin 1..Len(new) => i - Len(new) \in 1..Len(Rest) /\ Len(new) + (i - Len(new)) = i
  BY <1>1, SMT
<1>3. \A i \in 1..Len(new) : new[i] \in Calls
  BY ElementOfSeq
<1>4. DOMAIN new = 1..Len(new)
  BY LenProperties
<1>5. Range(new) \subseteq Calls
  BY <1>3, <1>4 DEF Range
<1>6. QED
  BY <1>1, <1>2, <1>4, <1>5, JoinFacts

\* No calls, and one.
LEMMA EmptyFacts ==
    /\ <<>> \in Seq(Calls) /\ Len(<<>>) = 0 /\ Range(<<>>) = {}
    /\ \A c \in Calls : <<c>> \in Seq(Calls) /\ Len(<<c>>) = 1 /\ <<c>>[1] = c /\ Range(<<c>>) = {c}
<1>1. <<>> \in Seq(Calls) /\ Len(<<>>) = 0 /\ DOMAIN <<>> = 1..0
  BY SMT
<1>2. \A c \in Calls : /\ <<c>> \in Seq(Calls) /\ Len(<<c>>) = 1 /\ <<c>>[1] = c
                       /\ DOMAIN <<c>> = 1..1
  BY SMT
<1>3. QED
  BY <1>1, <1>2, SMT DEF Range

---------------------------------------------------------------------------
(* What the dispatch calls *)

\* The actors of each kind, in their order.
LEMMA ConsumersInOrder ==
    /\ InOrder(Producers) \in Seq(Producers) /\ Range(InOrder(Producers)) = Producers
    /\ InOrder(Consumers) \in Seq(Consumers) /\ Range(InOrder(Consumers)) = Consumers
    /\ \A i, j \in DOMAIN InOrder(Consumers) : InOrder(Consumers)[i] = InOrder(Consumers)[j] => i = j
    /\ InOrder(StateConsumers) \in Seq(StateConsumers)
    /\ Range(InOrder(StateConsumers)) = StateConsumers
  BY InOrderFacts, ActorAssumption, Zenon

\* propagate_downstream sends the message to each consumer once.
LEMMA SendToFacts ==
    ASSUME NEW m \in Message
    PROVE  /\ propagate_downstream(m) \in Seq(Calls)
           /\ Range(propagate_downstream(m)) = {[do |-> "send", actor |-> a, m |-> m] : a \in Consumers}
           /\ \A i, j \in DOMAIN propagate_downstream(m) :
                propagate_downstream(m)[i].actor = propagate_downstream(m)[j].actor => i = j
<1> DEFINE to == InOrder(Consumers)
           s == SendTo(to, m)
<1>1. /\ to \in Seq(Consumers) /\ DOMAIN to = 1..Len(to) /\ Len(to) \in Nat /\ Range(to) = Consumers
      /\ \A i, j \in DOMAIN to : to[i] = to[j] => i = j
  BY ConsumersInOrder, LenProperties
<1>2. \A i \in 1..Len(to) : to[i] \in Consumers
  BY <1>1, ElementOfSeq
<1> HIDE DEF to
<1>3. /\ DOMAIN s = 1..Len(to)
      /\ \A i \in 1..Len(to) : s[i] = [do |-> "send", actor |-> to[i], m |-> m]
  BY <1>1 DEF SendTo
<1>4. \A a \in Consumers : [do |-> "send", actor |-> a, m |-> m] \in Calls
  BY SMT DEF Calls
<1>5. s \in Seq(Calls)
  BY <1>1, <1>2, <1>3, <1>4, IsASeq DEF SendTo
<1>6. Range(s) = {[do |-> "send", actor |-> a, m |-> m] : a \in Consumers}
  BY <1>1, <1>2, <1>3 DEF Range
<1>7. \A i, j \in DOMAIN s : s[i].actor = s[j].actor => i = j
  BY <1>1, <1>3, SMT
<1>8. QED
  BY <1>5, <1>6, <1>7, Zenon DEF propagate_downstream, to

\* notify_state_consumers calls each state consumer.
LEMMA NotifyFacts ==
    ASSUME NEW p \in Point
    PROVE  /\ notify_state_consumers(p) \in Seq(Calls)
           /\ Range(notify_state_consumers(p))
                = {[do |-> "notify", actor |-> a, point |-> p] : a \in StateConsumers}
<1> DEFINE to == InOrder(StateConsumers)
           s == NotifyOf(to, p)
<1>1. /\ to \in Seq(StateConsumers) /\ DOMAIN to = 1..Len(to) /\ Len(to) \in Nat
      /\ Range(to) = StateConsumers
  BY ConsumersInOrder, LenProperties
<1>2. \A i \in 1..Len(to) : to[i] \in StateConsumers
  BY <1>1, ElementOfSeq
<1> HIDE DEF to
<1>3. /\ DOMAIN s = 1..Len(to)
      /\ \A i \in 1..Len(to) : s[i] = [do |-> "notify", actor |-> to[i], point |-> p]
  BY <1>1 DEF NotifyOf
<1>4. \A a \in StateConsumers : [do |-> "notify", actor |-> a, point |-> p] \in Calls
  BY SMT DEF Calls
<1>5. s \in Seq(Calls)
  BY <1>1, <1>2, <1>3, <1>4, IsASeq DEF NotifyOf
<1>6. Range(s) = {[do |-> "notify", actor |-> a, point |-> p] : a \in StateConsumers}
  BY <1>1, <1>2, <1>3 DEF Range
<1>7. QED
  BY <1>5, <1>6, Zenon DEF notify_state_consumers, to

\* init_actors calls each actor; a consumer is among them whatever else it is.
LEMMA InitActorsFacts ==
    /\ init_actors \in Seq(Calls)
    /\ \A c \in Range(init_actors) : c.do \in {"producer_init", "consumer_init"}
    /\ \A a \in Consumers : \E c \in Range(init_actors) : c.do = "consumer_init" /\ c.actor = a
<1> DEFINE to == InOrder(Producers) tc == InOrder(Consumers)
           sp == InitOf(to, "producer_init") sc == InitOf(tc, "consumer_init")
<1>1. /\ to \in Seq(Producers) /\ DOMAIN to = 1..Len(to) /\ Len(to) \in Nat
      /\ tc \in Seq(Consumers) /\ DOMAIN tc = 1..Len(tc) /\ Len(tc) \in Nat
      /\ Range(tc) = Consumers
  BY ConsumersInOrder, LenProperties
<1>2. /\ \A i \in 1..Len(to) : to[i] \in Producers
      /\ \A i \in 1..Len(tc) : tc[i] \in Consumers
  BY <1>1, ElementOfSeq
<1> HIDE DEF to, tc
<1>3. /\ DOMAIN sp = 1..Len(to) /\ DOMAIN sc = 1..Len(tc)
      /\ \A i \in 1..Len(to) : sp[i] = [do |-> "producer_init", actor |-> to[i]]
      /\ \A i \in 1..Len(tc) : sc[i] = [do |-> "consumer_init", actor |-> tc[i]]
  BY <1>1 DEF InitOf
<1>4. /\ \A a \in Producers : [do |-> "producer_init", actor |-> a] \in Calls
      /\ \A a \in Consumers : [do |-> "consumer_init", actor |-> a] \in Calls
  BY SMT DEF Calls
<1>5. sp \in Seq(Calls)
  BY <1>1, <1>2, <1>3, <1>4, IsASeq DEF InitOf
<1>6. sc \in Seq(Calls)
  BY <1>1, <1>2, <1>3, <1>4, IsASeq DEF InitOf
<1>9. init_actors = sp \o sc
  BY Zenon DEF init_actors, to, tc
<1> HIDE DEF sp, sc
<1>7. \A c \in Range(sp) : c.do = "producer_init"
  <2>1. \A i \in 1..Len(to) : sp[i].do = "producer_init"
    BY <1>3
  <2>2. QED
    BY <1>3, <2>1 DEF Range
<1>8. /\ \A c \in Range(sc) : c.do = "consumer_init"
      /\ \A a \in Consumers : \E c \in Range(sc) : c.actor = a
  <2>1. \A i \in 1..Len(tc) : sc[i].do = "consumer_init"
    BY <1>3
  <2>2. ASSUME NEW a \in Consumers PROVE \E i \in 1..Len(tc) : sc[i].actor = a
    <3>1. PICK i \in 1..Len(tc) : tc[i] = a
      BY <1>1 DEF Range
    <3>2. QED
      BY <1>3, <3>1
  <2>3. QED
    BY <1>3, <2>1, <2>2 DEF Range
<1>10. QED
  <2>1. init_actors \in Seq(Calls) /\ Range(init_actors) = Range(sp) \cup Range(sc)
    BY <1>5, <1>6, <1>9, JoinFacts
  <2>2. QED
    BY <1>7, <1>8, <2>1

\* Each point that listens is called.
LEMMA ListenFacts ==
    ASSUME NEW m \in Message
    PROVE  /\ listen(m) \in Seq(Calls)
           /\ Range(listen(m))
                = {[do |-> "listen", point |-> l, m |-> m] : l \in Range(Listeners[m.point])}
<1> DEFINE to == Listeners[m.point]
           s == listen(m)
<1>1. to \in Seq(Point) /\ DOMAIN to = 1..Len(to) /\ Len(to) \in Nat
  <2>1. m.point \in Point
    BY DEF Message
  <2>2. QED
    BY <2>1, PointAssumption, LenProperties
<1>2. \A i \in 1..Len(to) : to[i] \in Point
  BY <1>1, ElementOfSeq
<1> HIDE DEF to
<1>3. /\ DOMAIN s = 1..Len(to)
      /\ \A i \in 1..Len(to) : s[i] = [do |-> "listen", point |-> to[i], m |-> m]
  BY <1>1 DEF listen, to
<1>4. \A a \in Point : [do |-> "listen", point |-> a, m |-> m] \in Calls
  BY SMT DEF Calls
<1>5. s \in Seq(Calls)
  BY <1>1, <1>2, <1>3, <1>4, IsASeq DEF listen, to
<1>6. Range(s) = {[do |-> "listen", point |-> l, m |-> m] : l \in Range(to)}
  BY <1>1, <1>2, <1>3 DEF Range
<1>7. QED
  BY <1>5, <1>6, Zenon DEF to

\* What the first calls of push_message are, before those of the listeners.
Own(m) ==
    IF m.way = "up" /\ m.action = "read"
    THEN <<[do |-> "trigger", m |-> m]>>
    ELSE <<[do |-> "apply", m |-> m]>> \o propagate(m)

\* A read goes to trigger; the rest is applied first, and then sent on.
LEMMA OwnFacts ==
    ASSUME NEW m \in Message
    PROVE  /\ Own(m) \in Seq(Calls) /\ DOMAIN Own(m) = 1..Len(Own(m)) /\ Len(Own(m)) >= 1
           /\ Own(m)[1] = [do |-> IF m.way = "up" /\ m.action = "read" THEN "trigger" ELSE "apply",
                           m |-> m]
           /\ \A i \in 2..Len(Own(m)) :
                /\ Own(m)[i].do = (IF m.way = "up" THEN "upstream" ELSE "send") /\ Own(m)[i].m = m
                /\ ~ (m.way = "up" /\ m.action = "read")
           /\ m.way = "down" =>
                \A a \in Consumers : [do |-> "send", actor |-> a, m |-> m] \in Range(Own(m))
           /\ \A i, j \in 1..Len(Own(m)) :
                Own(m)[i].do = "send" /\ Own(m)[j].do = "send" /\ Own(m)[i].actor = Own(m)[j].actor
                    => i = j
<1> DEFINE t == [do |-> "trigger", m |-> m]
           a == [do |-> "apply", m |-> m]
           u == [do |-> "upstream", m |-> m]
           s == propagate_downstream(m)
<1>1. t \in Calls /\ a \in Calls /\ u \in Calls
  BY SMT DEF Calls
<1>2. m.way \in {"up", "down"}
  BY DEF Message
<1>3. /\ s \in Seq(Calls) /\ DOMAIN s = 1..Len(s) /\ Len(s) \in Nat
      /\ Range(s) = {[do |-> "send", actor |-> b, m |-> m] : b \in Consumers}
      /\ \A i, j \in DOMAIN s : s[i].actor = s[j].actor => i = j
  BY SendToFacts, LenProperties
<1>4. \A i \in 1..Len(s) : s[i].do = "send" /\ s[i].m = m
  <2> SUFFICES ASSUME NEW i \in 1..Len(s) PROVE s[i].do = "send" /\ s[i].m = m
    OBVIOUS
  <2>1. s[i] \in Range(s)
    BY <1>3 DEF Range
  <2>2. PICK b \in Consumers : s[i] = [do |-> "send", actor |-> b, m |-> m]
    BY <1>3, <2>1
  <2>3. QED
    BY <2>2
<1> HIDE DEF s
<1>5. CASE m.way = "up" /\ m.action = "read"
  <2>1. Own(m) = <<t>>
    BY <1>5 DEF Own
  <2>2. QED
    BY <1>1, <1>5, <2>1, SMT
<1>6. CASE m.way = "up" /\ m.action # "read"
  <2>1. Own(m) = <<a>> \o <<u>>
    BY <1>6 DEF Own, propagate
  <2>2. /\ <<a>> \in Seq(Calls) /\ Len(<<a>>) = 1 /\ <<a>>[1] = a
        /\ <<u>> \in Seq(Calls) /\ Len(<<u>>) = 1 /\ <<u>>[1] = u
    BY <1>1, EmptyFacts
  <2>3. /\ Own(m) \in Seq(Calls) /\ Len(Own(m)) = 2 /\ DOMAIN Own(m) = 1..2
        /\ Own(m)[1] = a /\ Own(m)[2] = u
    <3> DEFINE h == <<a>> k == <<u>>
    <3>1. h \in Seq(Calls) /\ Len(h) = 1 /\ k \in Seq(Calls) /\ Len(k) = 1 /\ 1 \in 1..1
      BY <2>2
    <3> HIDE DEF h, k
    <3>2. /\ h \o k \in Seq(Calls) /\ Len(h \o k) = 1 + 1 /\ DOMAIN (h \o k) = 1..(1 + 1)
          /\ (h \o k)[1] = h[1] /\ (h \o k)[1 + 1] = k[1]
      BY <3>1, JoinFacts
    <3>3. QED
      BY <2>1, <2>2, <3>2 DEF h, k
  <2>4. QED
    BY <1>6, <2>3, SMT
<1>7. CASE m.way = "down"
  <2>1. Own(m) = <<a>> \o s
    BY <1>7, Zenon DEF Own, propagate, s
  <2>2. <<a>> \in Seq(Calls) /\ Len(<<a>>) = 1 /\ <<a>>[1] = a
    BY <1>1, EmptyFacts
  <2>3. /\ Own(m) \in Seq(Calls) /\ Len(Own(m)) = 1 + Len(s) /\ DOMAIN Own(m) = 1..(1 + Len(s))
        /\ Own(m)[1] = a
        /\ \A i \in 1..Len(s) : Own(m)[1 + i] = s[i]
        /\ Range(s) \subseteq Range(Own(m))
    <3> DEFINE h == <<a>>
    <3>1. h \in Seq(Calls) /\ Len(h) = 1 /\ h[1] = a /\ 1 \in 1..1
      BY <2>2
    <3>2. Own(m) = h \o s
      BY <2>1
    <3> HIDE DEF h
    <3>3. /\ h \o s \in Seq(Calls) /\ Len(h \o s) = 1 + Len(s)
          /\ DOMAIN (h \o s) = 1..(1 + Len(s))
          /\ (h \o s)[1] = h[1]
          /\ \A i \in 1..Len(s) : (h \o s)[1 + i] = s[i]
          /\ Range(h \o s) = Range(h) \cup Range(s)
      <4>1. /\ h \o s \in Seq(Calls) /\ Len(h \o s) = Len(h) + Len(s)
            /\ DOMAIN h = 1..Len(h)
            /\ DOMAIN (h \o s) = 1..(Len(h) + Len(s))
            /\ \A i \in 1..Len(h) : (h \o s)[i] = h[i]
            /\ \A i \in 1..Len(s) : (h \o s)[Len(h) + i] = s[i]
            /\ Range(h \o s) = Range(h) \cup Range(s)
        <5>1. h \in Seq(Calls) /\ s \in Seq(Calls)
          BY <1>3, <3>1
        <5>2. QED
          BY <5>1, JoinFacts
      <4>2. QED
        BY <3>1, <4>1
    <3>4. QED
      BY <3>1, <3>2, <3>3
  <2>4. \A i \in 2..Len(Own(m)) : i - 1 \in 1..Len(s) /\ Own(m)[i] = s[i - 1]
    BY <1>3, <2>3, SMT
  <2>5. a.do = "apply" /\ Own(m)[1].do = "apply"
    BY <2>3
  <2>6. \A i, j \in 1..Len(Own(m)) :
          Own(m)[i].do = "send" /\ Own(m)[j].do = "send" /\ Own(m)[i].actor = Own(m)[j].actor => i = j
    <3> SUFFICES ASSUME NEW i \in 1..Len(Own(m)), NEW j \in 1..Len(Own(m)),
                        Own(m)[i].do = "send", Own(m)[j].do = "send",
                        Own(m)[i].actor = Own(m)[j].actor
                 PROVE  i = j
      OBVIOUS
    <3>1. i # 1 /\ j # 1
      BY <2>5
    <3>2. i \in 2..Len(Own(m)) /\ j \in 2..Len(Own(m))
      BY <1>3, <2>3, <3>1, SMT
    <3>3. i - 1 = j - 1
      BY <1>3, <2>4, <3>2
    <3>4. QED
      BY <3>2, <3>3, SMT
  <2>7. Len(Own(m)) >= 1
    BY <1>3, <2>3, SMT
  <2>8. \A i \in 2..Len(Own(m)) : Own(m)[i].do = "send" /\ Own(m)[i].m = m
    BY <1>4, <2>4
  <2>9. \A b \in Consumers : [do |-> "send", actor |-> b, m |-> m] \in Range(Own(m))
    BY <1>3, <2>3
  <2>10. QED
    BY <1>7, <2>3, <2>6, <2>7, <2>8, <2>9
<1>8. QED
  BY <1>2, <1>5, <1>6, <1>7

\* The calls of push_message, all of them about its message.
LEMMA PushFacts ==
    ASSUME NEW m \in Message
    PROVE  /\ push_message(m) \in Seq(Calls)
           /\ DOMAIN push_message(m) = 1..Len(push_message(m)) /\ Len(push_message(m)) >= 1
           /\ push_message(m)[1] =
                [do |-> IF m.way = "up" /\ m.action = "read" THEN "trigger" ELSE "apply", m |-> m]
           /\ \A i \in 2..Len(push_message(m)) :
                /\ push_message(m)[i].m = m
                /\ \/ /\ push_message(m)[i].do = "listen"
                      /\ push_message(m)[i].point \in Range(Listeners[m.point])
                   \/ push_message(m)[i].do = "upstream" /\ m.way = "up" /\ m.action # "read"
                   \/ push_message(m)[i].do = "send" /\ m.way = "down"
           /\ \A l \in Range(Listeners[m.point]) :
                [do |-> "listen", point |-> l, m |-> m] \in Range(push_message(m))
           /\ m.way = "down" => \A a \in Consumers :
                [do |-> "send", actor |-> a, m |-> m] \in Range(push_message(m))
           /\ \A i, j \in 1..Len(push_message(m)) :
                /\ push_message(m)[i].do = "send" /\ push_message(m)[j].do = "send"
                /\ push_message(m)[i].actor = push_message(m)[j].actor
                => i = j
<1> DEFINE o == Own(m) l == listen(m) s == push_message(m)
<1>1. s = o \o l
  BY Zenon DEF push_message, Own
<1>2. m.way \in {"up", "down"}
  BY DEF Message
<1>3. /\ l \in Seq(Calls) /\ DOMAIN l = 1..Len(l) /\ Len(l) \in Nat
      /\ Range(l) = {[do |-> "listen", point |-> p, m |-> m] : p \in Range(Listeners[m.point])}
  BY ListenFacts, LenProperties
<1>4. \A i \in 1..Len(l) : l[i].do = "listen" /\ l[i].m = m /\ l[i].point \in Range(Listeners[m.point])
  <2> SUFFICES ASSUME NEW i \in 1..Len(l)
               PROVE  l[i].do = "listen" /\ l[i].m = m /\ l[i].point \in Range(Listeners[m.point])
    OBVIOUS
  <2>1. l[i] \in Range(l)
    BY <1>3 DEF Range
  <2>2. PICK p \in Range(Listeners[m.point]) : l[i] = [do |-> "listen", point |-> p, m |-> m]
    BY <1>3, <2>1
  <2>3. QED
    BY <2>2
<1>5. o \in Seq(Calls) /\ Len(o) \in Nat /\ Len(o) >= 1
  BY OwnFacts, LenProperties
<1>51. \A i \in 2..Len(o) :
          /\ o[i].do = (IF m.way = "up" THEN "upstream" ELSE "send") /\ o[i].m = m
          /\ ~ (m.way = "up" /\ m.action = "read")
  BY OwnFacts
<1>52. \A i, j \in 1..Len(o) :
          o[i].do = "send" /\ o[j].do = "send" /\ o[i].actor = o[j].actor => i = j
  BY OwnFacts
<1> HIDE DEF s, l
<1>6. /\ s \in Seq(Calls) /\ Len(s) = Len(o) + Len(l) /\ DOMAIN s = 1..(Len(o) + Len(l))
      /\ \A i \in 1..Len(o) : s[i] = o[i]
      /\ \A i \in 1..Len(l) : s[Len(o) + i] = l[i]
      /\ Range(s) = Range(o) \cup Range(l)
  BY <1>1, <1>3, <1>5, JoinFacts, SMT
<1> HIDE DEF o
<1>7. \A i \in 1..Len(s) : i \notin 1..Len(o) =>
         s[i].do = "listen" /\ s[i].m = m /\ s[i].point \in Range(Listeners[m.point])
  <2> SUFFICES ASSUME NEW i \in 1..Len(s), i \notin 1..Len(o)
               PROVE  s[i].do = "listen" /\ s[i].m = m /\ s[i].point \in Range(Listeners[m.point])
    OBVIOUS
  <2>1. i - Len(o) \in 1..Len(l) /\ Len(o) + (i - Len(o)) = i
    BY <1>3, <1>5, <1>6, SMT
  <2>2. QED
    BY <1>4, <1>6, <2>1
<1>8. s[1] = o[1]
  BY <1>5, <1>6, SMT
<1>9. \A i \in 2..Len(s) : i \in 1..Len(s) /\ (i \in 1..Len(o) => i \in 2..Len(o))
  BY <1>3, <1>5, <1>6, SMT
<1>10. \A i \in 2..Len(s) :
         /\ s[i].m = m
         /\ \/ s[i].do = "listen" /\ s[i].point \in Range(Listeners[m.point])
            \/ s[i].do = "upstream" /\ m.way = "up" /\ m.action # "read"
            \/ s[i].do = "send" /\ m.way = "down"
  <2> SUFFICES ASSUME NEW i \in 2..Len(s)
               PROVE  /\ s[i].m = m
                      /\ \/ s[i].do = "listen" /\ s[i].point \in Range(Listeners[m.point])
                         \/ s[i].do = "upstream" /\ m.way = "up" /\ m.action # "read"
                         \/ s[i].do = "send" /\ m.way = "down"
    OBVIOUS
  <2>1. CASE i \in 1..Len(o)
    <3>1. i \in 2..Len(o) /\ s[i] = o[i]
      BY <1>6, <1>9, <2>1
    <3>2. QED
      BY <1>2, <3>1, <1>51
  <2>2. CASE i \notin 1..Len(o)
    BY <1>7, <1>9, <2>2
  <2>3. QED
    BY <2>1, <2>2
<1>11. \A i, j \in 1..Len(s) :
         s[i].do = "send" /\ s[j].do = "send" /\ s[i].actor = s[j].actor => i = j
  <2> SUFFICES ASSUME NEW i \in 1..Len(s), NEW j \in 1..Len(s),
                      s[i].do = "send", s[j].do = "send", s[i].actor = s[j].actor
               PROVE  i = j
    OBVIOUS
  <2>1. i \in 1..Len(o) /\ j \in 1..Len(o)
    BY <1>7
  <2>2. s[i] = o[i] /\ s[j] = o[j]
    BY <1>6, <2>1
  <2>3. QED
    BY <2>1, <2>2, <1>52
<1>12. Len(s) >= 1 /\ DOMAIN s = 1..Len(s)
  BY <1>3, <1>5, <1>6, SMT
<1>13. \A p \in Range(Listeners[m.point]) : [do |-> "listen", point |-> p, m |-> m] \in Range(s)
  BY <1>3, <1>6
<1>14. m.way = "down" => \A a \in Consumers : [do |-> "send", actor |-> a, m |-> m] \in Range(s)
  BY <1>6, OwnFacts DEF o
<1>15. s[1] = [do |-> IF m.way = "up" /\ m.action = "read" THEN "trigger" ELSE "apply", m |-> m]
  BY <1>8, OwnFacts DEF o
<1>16. QED
  BY <1>6, <1>10, <1>11, <1>12, <1>13, <1>14, <1>15 DEF s

---------------------------------------------------------------------------
(* The messages that calls and actors have *)

\* m is a read of p on its way up.
AskedFor(m, p) == m.way = "up" /\ m.action = "read" /\ m.point = p

\* What is updated and what is asked for are points, and not those that listen.
LEMMA PointFacts ==
    /\ Updated \subseteq Point /\ Asking \subseteq Point /\ Placing \subseteq Asking
    /\ Updated \cup Asking = Kept \cup Asking /\ (Updated \cup Asking) \cap Listening = {}
    /\ \A p \in Asking : p \notin Placing => p \notin Updated
  BY PointAssumption DEF Updated

\* What is updated and what is asked for are told apart by the action; and
\* nothing but a read on its way up is without a value.
Fits(m) ==
    /\ m \in Message
    /\ m.point \in (IF m.action = "update" THEN Updated ELSE Asking)
    /\ m.way = "down" \/ m.action = "update" => m.payload # NoValue

\* What a producer read is what it has found; it is not asked for what has a
\* placeholder.
Known(m) == m.action = "read" => m.payload = Found /\ m.point \notin Placing
Goes(m) == Fits(m) /\ m.way = "up" /\ (m.action = "read" => m.point \notin Placing)

\* What the messages of the calls are: only what comes down is sent, only reads
\* are looked for, and what is read is applied as it was found.
GoodCall(c) ==
    /\ c.do \in {"apply", "trigger", "upstream", "listen", "send"} => Fits(c.m)
    /\ c.do \in {"trigger", "upstream"} => c.m.way = "up"
    /\ c.do = "trigger" => c.m.action = "read"
    /\ c.do = "upstream" => Goes(c.m)
    /\ c.do = "listen" => c.point \in Range(Listeners[c.m.point])
    /\ c.do = "send" => c.m.way = "down"
    /\ c.do = "apply" => Known(c.m) /\ (c.m.action = "read" => c.m.way = "down")

\* The same for the messages that are waiting, each at the producer of its
\* point, and for those that were heard.
MessagesFit ==
    /\ \A c \in Range(todo) : GoodCall(c)
    /\ \A a \in Producers : \A i \in DOMAIN waiting[a] :
         Goes(waiting[a][i]) /\ ProducerOf[waiting[a][i].point] = a
    /\ \A a \in Consumers : \A i \in DOMAIN heard[a] : Fits(heard[a][i])

Typed == TypeOK /\ MessagesFit

\* The fields a call has.
LEMMA CallFields ==
    ASSUME NEW c \in Calls
    PROVE  /\ c.do \in {"producer_init", "consumer_init", "apply", "trigger", "upstream", "listen",
                        "send", "notify", "tell"}
           /\ c.do \in {"apply", "trigger", "upstream", "listen", "send"} => c.m \in Message
           /\ c.do = "producer_init" => c.actor \in Producers
           /\ c.do \in {"consumer_init", "send"} => c.actor \in Consumers
           /\ c.do \in {"notify", "tell"} => c.actor \in StateConsumers
           /\ c.do \in {"listen", "notify", "tell"} => c.point \in Point
           /\ c.do = "tell" => c.value \in 0..Found
  BY SMT DEF Calls

\* The fields a message has.
LEMMA MessageFields ==
    ASSUME NEW m \in Message
    PROVE  /\ m.way \in {"up", "down"} /\ m.action \in {"update", "read"}
           /\ m.point \in Point /\ m.payload \in 0..Found
  BY DEF Message

\* What goes down in answer to a message is a message about the same point.
LEMMA DownFields ==
    ASSUME NEW m \in Message, NEW x \in 0..Found
    PROVE  /\ Down(m, x) \in Message
           /\ Down(m, x).way = "down" /\ Down(m, x).action = m.action
           /\ Down(m, x).point = m.point /\ Down(m, x).payload = x
           /\ Fits(m) /\ x # NoValue => Fits(Down(m, x))
<1>1. Down(m, x) \in Message
  BY MessageFields, SMT DEF Down, Message
<1>2. /\ Down(m, x).way = "down" /\ Down(m, x).action = m.action
      /\ Down(m, x).point = m.point /\ Down(m, x).payload = x
  BY DEF Down
<1>3. QED
  BY <1>1, <1>2 DEF Fits

\* The payloads that stand for no value and for what is found.
LEMMA Numbers == NoValue \in 0..Found /\ Found \in 0..Found /\ NoValue # Found /\ Found \in Nat
  BY BoundAssumption, SMT DEF NoValue, Found

\* The call that is next, in a state that is typed.
LEMMA CallFacts ==
    ASSUME Typed, todo # <<>>
    PROVE  /\ Call = todo[1] /\ todo[1] \in Calls /\ todo[1] \in Range(todo) /\ GoodCall(todo[1])
           /\ Rest = Tail(todo) /\ Range(todo) = {todo[1]} \cup Range(Rest)
  BY RestFacts, Zenon DEF Typed, TypeOK, MessagesFit, Call

\* A call changes the store at p and has the state consumers notified.
Changes(new, p, x) ==
    /\ p \in Point /\ x \in 0..Found
    /\ store' = [store EXCEPT ![p] = x]
    /\ Range(new) = {[do |-> "notify", actor |-> a, point |-> p] : a \in StateConsumers}

\* apply_message: what comes down changes the store.
LEMMA ApplyFacts ==
    ASSUME Typed, todo # <<>>, Apply
    PROVE  /\ todo[1].do = "apply" /\ Fits(todo[1].m)
           /\ UNCHANGED <<waiting, heard, view, pushed, busy, prompt>>
           /\ \E new \in Seq(Calls) :
                /\ todo' = new \o Rest
                /\ \/ /\ todo[1].m.way = "down"
                      /\ Changes(new, todo[1].m.point, todo[1].m.payload)
                      /\ placeholders' = placeholders \ {todo[1].m.point}
                   \/ todo[1].m.way = "up" /\ new = <<>> /\ UNCHANGED <<store, placeholders>>
<1> DEFINE m == todo[1].m
<1>1. /\ Call = todo[1] /\ Rest = Tail(todo) /\ todo[1].do = "apply" /\ Fits(m)
  BY CallFacts DEF Apply, GoodCall
<1>2. /\ m \in Message /\ m.point \in Point /\ m.payload \in 0..Found /\ m.way \in {"up", "down"}
      /\ m.point \in Kept \cup Asking
  BY <1>1, MessageFields, PointFacts DEF Fits
<1> HIDE DEF m
<1>3. Applies(m) <=> m.way = "down"
  BY <1>2 DEF Applies
<1>4. CASE m.way = "down"
  <2>1. store' = [store EXCEPT ![m.point] = m.payload] /\ placeholders' = placeholders \ {m.point}
        /\ todo' = notify_state_consumers(m.point) \o Rest
    BY <1>1, <1>3, <1>4 DEF Apply, Then, m
  <2>2. Changes(notify_state_consumers(m.point), m.point, m.payload)
    BY <1>2, <2>1, NotifyFacts DEF Changes
  <2>3. notify_state_consumers(m.point) \in Seq(Calls)
    BY <1>2, NotifyFacts
  <2>4. UNCHANGED <<waiting, heard, view, pushed, busy, prompt>>
    BY DEF Apply
  <2>5. QED
    BY <1>1, <1>4, <2>1, <2>2, <2>3, <2>4 DEF m
<1>5. CASE m.way = "up"
  <2>1. UNCHANGED <<store, placeholders>> /\ todo' = <<>> \o Rest
    BY <1>1, <1>3, <1>5 DEF Apply, Then, m
  <2>2. UNCHANGED <<waiting, heard, view, pushed, busy, prompt>>
    BY DEF Apply
  <2>3. QED
    BY <1>1, <1>5, <2>1, <2>2, EmptyFacts DEF m
<1>6. QED
  BY <1>2, <1>4, <1>5

\* apply_foreign_message: a listening store takes what an update brings down.
LEMMA ListenStepFacts ==
    ASSUME Typed, todo # <<>>, Listen
    PROVE  /\ todo[1].do = "listen" /\ Fits(todo[1].m)
           /\ UNCHANGED <<waiting, heard, view, pushed, busy, prompt, placeholders>>
           /\ \E new \in Seq(Calls) :
                /\ todo' = new \o Rest
                /\ \/ /\ todo[1].m.way = "down" /\ todo[1].m.action = "update"
                      /\ todo[1].point \in Listening
                      /\ Changes(new, todo[1].point, todo[1].m.payload)
                   \/ /\ ~ (/\ todo[1].m.way = "down" /\ todo[1].m.action = "update"
                            /\ todo[1].point \in Listening)
                      /\ new = <<>> /\ UNCHANGED store
<1> DEFINE c == todo[1]
           Takes == c.m.way = "down" /\ c.m.action = "update" /\ c.point \in Listening
<1>1. /\ Call = c /\ Rest = Tail(todo) /\ c.do = "listen" /\ Fits(c.m) /\ c \in Calls
  BY CallFacts DEF Listen, GoodCall
<1>2. c.m.payload \in 0..Found /\ c.point \in Point
  BY <1>1, MessageFields, CallFields DEF Fits
<1>3. UNCHANGED <<waiting, heard, view, pushed, busy, prompt, placeholders>>
  BY DEF Listen
<1>4. CASE Takes
  <2>1. store' = [store EXCEPT ![c.point] = c.m.payload]
        /\ todo' = notify_state_consumers(c.point) \o Rest
    BY <1>1, <1>4 DEF Listen, Then
  <2>2. Changes(notify_state_consumers(c.point), c.point, c.m.payload)
    BY <1>2, <2>1, NotifyFacts DEF Changes
  <2>3. notify_state_consumers(c.point) \in Seq(Calls)
    BY <1>2, NotifyFacts
  <2>4. QED
    BY <1>1, <1>3, <1>4, <2>1, <2>2, <2>3
<1>5. CASE ~ Takes
  <2>1. UNCHANGED store /\ todo' = <<>> \o Rest
    BY <1>1, <1>5 DEF Listen, Then
  <2>2. QED
    BY <1>1, <1>3, <1>5, <2>1, EmptyFacts
<1>6. QED
  BY <1>4, <1>5

\* A read goes up to the producer, or leaves a placeholder, or it is answered with
\* what the store has.
LEMMA TriggerFacts ==
    ASSUME Typed, todo # <<>>, Trigger
    PROVE  /\ todo[1].do = "trigger" /\ Fits(todo[1].m)
           /\ todo[1].m.way = "up" /\ todo[1].m.action = "read" /\ todo[1].m.point \in Asking
           /\ UNCHANGED <<store, waiting, heard, view, pushed, busy, prompt>>
           /\ \/ /\ store[todo[1].m.point] = NoValue
                 /\ todo[1].m.point \notin Placing
                 /\ UNCHANGED placeholders
                 /\ [do |-> "upstream", m |-> todo[1].m] \in Calls
                 /\ todo' = <<[do |-> "upstream", m |-> todo[1].m]>> \o Rest
              \/ /\ store[todo[1].m.point] = NoValue
                 /\ todo[1].m.point \in Placing
                 /\ placeholders' = placeholders \cup {todo[1].m.point}
                 /\ todo' = <<>> \o Rest
              \/ /\ store[todo[1].m.point] # NoValue
                 /\ UNCHANGED placeholders
                 /\ \E m \in Message :
                      /\ Fits(m) /\ m.way = "down" /\ m.action = "read"
                      /\ m.point = todo[1].m.point
                      /\ m.payload = store[todo[1].m.point]
                      /\ todo' = propagate_downstream(m) \o Rest
<1> DEFINE m == todo[1].m
           r == Down(m, store[m.point])
<1>1. /\ Call = todo[1] /\ Rest = Tail(todo) /\ todo[1].do = "trigger" /\ Fits(m)
      /\ m.way = "up" /\ m.action = "read"
  BY CallFacts DEF Trigger, GoodCall
<1>2. m \in Message /\ m.point \in Point /\ m.point \in Asking
  BY <1>1, MessageFields DEF Fits
<1>3. store[m.point] \in 0..Found
  BY <1>2 DEF Typed, TypeOK
<1>4. r \in Message /\ r.way = "down" /\ r.action = "read" /\ r.point = m.point
      /\ r.payload = store[m.point]
  BY <1>1, <1>2, <1>3, DownFields
<1>5. store[m.point] # NoValue => Fits(r)
  BY <1>2, <1>4 DEF Fits
<1>6. [do |-> "upstream", m |-> m] \in Calls
  BY <1>2 DEF Calls
<1>7. UNCHANGED <<store, waiting, heard, view, pushed, busy, prompt>>
  BY DEF Trigger
<1>8. /\ placeholders' = placeholders \cup {q \in {m.point} \cap Placing : Unset(q)}
      /\ todo' = (IF Unset(m.point)
                  THEN IF m.point \in Placing THEN <<>> ELSE <<[do |-> "upstream", m |-> m]>>
                  ELSE propagate_downstream(r)) \o Rest
  BY <1>1, Zenon DEF Trigger, Then
<1>9. Unset(m.point) <=> store[m.point] = NoValue
  BY <1>2 DEF Unset
<1> HIDE DEF r
<1>10. CASE store[m.point] = NoValue /\ m.point \notin Placing
  <2>1. UNCHANGED placeholders /\ todo' = <<[do |-> "upstream", m |-> m]>> \o Rest
    BY <1>8, <1>9, <1>10
  <2>2. QED
    BY <1>1, <1>2, <1>6, <1>7, <1>10, <2>1
<1>11. CASE store[m.point] = NoValue /\ m.point \in Placing
  <2>1. placeholders' = placeholders \cup {m.point} /\ todo' = <<>> \o Rest
    BY <1>8, <1>9, <1>11
  <2>2. QED
    BY <1>1, <1>2, <1>7, <1>11, <2>1
<1>12. CASE store[m.point] # NoValue
  <2>1. UNCHANGED placeholders /\ todo' = propagate_downstream(r) \o Rest
    BY <1>8, <1>9, <1>12
  <2>2. QED
    BY <1>1, <1>2, <1>4, <1>5, <1>7, <1>12, <2>1
<1>13. QED
  BY <1>10, <1>11, <1>12

---------------------------------------------------------------------------
(* What actors push *)

\* A call that changes nothing but what is asked for.
Quiet(c, p) == c.do \in {"trigger", "upstream", "listen"} /\ AskedFor(c.m, p)

\* What the calls of push_message may be, for a message that fits.
LEMMA PushIsGood ==
    ASSUME NEW m, Fits(m), m.way = "up" \/ Known(m),
           NEW c \in Range(push_message(m))
    PROVE  c \in Calls /\ GoodCall(c) /\ c.m = m
           /\ c.do \in {"apply", "trigger", "upstream", "listen", "send"}
           /\ (c.do = "trigger" <=> c.do # "listen" /\ m.way = "up" /\ m.action = "read")
           /\ (c.do = "upstream" => m.way = "up" /\ m.action = "update")
           /\ (c.do = "send" => m.way = "down")
<1> DEFINE s == push_message(m)
<1>1. /\ m \in Message /\ m.way \in {"up", "down"} /\ m.action \in {"update", "read"}
  BY MessageFields DEF Fits
<1>2. /\ s \in Seq(Calls) /\ DOMAIN s = 1..Len(s) /\ Len(s) \in Nat /\ Len(s) >= 1
      /\ s[1] = [do |-> IF m.way = "up" /\ m.action = "read" THEN "trigger" ELSE "apply", m |-> m]
      /\ \A i \in 2..Len(s) :
           /\ s[i].m = m
           /\ \/ s[i].do = "listen" /\ s[i].point \in Range(Listeners[m.point])
              \/ s[i].do = "upstream" /\ m.way = "up" /\ m.action # "read"
              \/ s[i].do = "send" /\ m.way = "down"
  BY <1>1, PushFacts, LenProperties
<1> HIDE DEF s
<1>3. PICK i \in 1..Len(s) : c = s[i]
  BY <1>2 DEF Range, s
<1>4. c \in Calls
  BY <1>2, <1>3, ElementOfSeq
<1>5. CASE i = 1
  <2>1. c.m = m /\ c.do = IF m.way = "up" /\ m.action = "read" THEN "trigger" ELSE "apply"
    BY <1>2, <1>3, <1>5
  <2>2. QED
    BY <1>1, <1>4, <2>1 DEF GoodCall, Known
<1>6. CASE i # 1
  <2>1. i \in 2..Len(s)
    BY <1>2, <1>3, <1>6, SMT
  <2>2. /\ c.m = m
        /\ \/ c.do = "listen" /\ c.point \in Range(Listeners[m.point])
           \/ c.do = "upstream" /\ m.way = "up" /\ m.action # "read"
           \/ c.do = "send" /\ m.way = "down"
    BY <1>2, <1>3, <2>1
  <2>3. QED
    BY <1>1, <1>4, <2>2 DEF GoodCall, Goes
<1>7. QED
  BY <1>5, <1>6

\* The read that match pushes for what is missing.
Reading(p) == [way |-> "up", action |-> "read", point |-> p, payload |-> NoValue]

\* It is asked for where it is missing.
LEMMA ReadingFits ==
    ASSUME NEW p \in Asking
    PROVE  Fits(Reading(p)) /\ AskedFor(Reading(p), p)
<1>1. p \in Point
  BY PointFacts
<1>2. Reading(p) \in Message
  BY <1>1, Numbers, SMT DEF Reading, Message
<1>3. QED
  BY <1>2 DEF Reading, Fits, AskedFor

\* What is pushed as an update is about a point that is kept.
LEMMA UpdateFits ==
    ASSUME Typed, pushed < MaxPushes, NEW way \in {"up", "down"}, NEW p \in Updated
    PROVE  /\ Fits(Update(way, p)) /\ Update(way, p).way = way /\ Update(way, p).action = "update"
           /\ Update(way, p).point = p
           /\ pushed + 1 \in 0..MaxPushes
<1>1. p \in Point
  BY PointFacts
<1>2. pushed + 1 \in 0..MaxPushes /\ pushed + 1 \in 0..Found
  BY BoundAssumption, SMT DEF Typed, TypeOK, Found
<1>3. pushed + 1 # NoValue
  BY <1>2, SMT DEF Typed, TypeOK, NoValue
<1>4. Update(way, p) \in Message
  BY <1>1, <1>2, SMT DEF Update, Message
<1>5. QED
  BY <1>2, <1>3, <1>4 DEF Update, Fits

\* The call of the function given to match, with what the store has.
TellCall(a, p) == [do |-> "tell", actor |-> a, point |-> p, value |-> store[p]]

\* What match calls: what is missing is asked for, and then comes the answer.
LEMMA MatchFacts ==
    ASSUME Typed, NEW a \in StateConsumers, NEW p \in Point
    PROVE  /\ match(a, p) \in Seq(Calls)
           /\ Len(match(a, p)) \in Nat /\ Len(match(a, p)) >= 1
           /\ match(a, p)[Len(match(a, p))] = TellCall(a, p)
           /\ \A i \in 1..(Len(match(a, p)) - 1) :
                /\ Missing(p)
                /\ Quiet(match(a, p)[i], p) /\ GoodCall(match(a, p)[i])
                /\ match(a, p)[i].do = (IF i = 1 THEN "trigger" ELSE "listen")
           /\ Missing(p) => Len(match(a, p)) > 1
<1> DEFINE t == <<TellCall(a, p)>>
           s == push_message(Reading(p))
<1>1. t \in Seq(Calls) /\ Len(t) = 1 /\ t[1] = TellCall(a, p)
  <2>1. TellCall(a, p) \in Calls
    BY SMT DEF TellCall, Calls, Typed, TypeOK
  <2>2. QED
    BY <2>1, EmptyFacts
<1> HIDE DEF t
<1>2. CASE Missing(p)
  <2>1. match(a, p) = s \o t
    BY <1>2, Zenon DEF match, Reading, TellCall, t
  <2>2. Fits(Reading(p)) /\ AskedFor(Reading(p), p) /\ Reading(p) \in Message
        /\ Reading(p).way = "up" /\ Reading(p).action = "read"
    BY <1>2, ReadingFits DEF Missing, Unset, Fits, Reading
  <2>3. /\ s \in Seq(Calls) /\ DOMAIN s = 1..Len(s) /\ Len(s) >= 1 /\ Len(s) \in Nat
        /\ s[1] = [do |-> "trigger", m |-> Reading(p)]
        /\ \A i \in 2..Len(s) : /\ s[i].m = Reading(p) /\ s[i].do = "listen"
                               /\ s[i].point \in Range(Listeners[Reading(p).point])
    BY <2>2, PushFacts, LenProperties
  <2> HIDE DEF s
  <2>4. \A i \in 1..Len(s) : /\ s[i].m = Reading(p)
                             /\ s[i].do = (IF i = 1 THEN "trigger" ELSE "listen")
                             /\ i = 1 \/ s[i].point \in Range(Listeners[Reading(p).point])
    <3>1. s[1].m = Reading(p) /\ s[1].do = "trigger"
      BY <2>3
    <3>2. \A i \in 1..Len(s) : i # 1 => i \in 2..Len(s)
      BY <2>3, SMT
    <3>3. QED
      BY <2>3, <3>1, <3>2
  <2>5. \A i \in 1..Len(s) : Quiet(s[i], p) /\ GoodCall(s[i])
    BY <2>2, <2>4 DEF Quiet, GoodCall
  <2>6. /\ s \o t \in Seq(Calls) /\ Len(s \o t) = Len(s) + Len(t)
        /\ \A i \in 1..Len(s) : (s \o t)[i] = s[i]
        /\ \A i \in 1..Len(t) : (s \o t)[Len(s) + i] = t[i]
    <3>1. s \in Seq(Calls) /\ t \in Seq(Calls)
      BY <1>1, <2>3
    <3>2. QED
      BY <3>1, JoinFacts
  <2>7. /\ Len(s \o t) = Len(s) + 1 /\ (s \o t)[Len(s) + 1] = TellCall(a, p)
        /\ Len(s \o t) - 1 = Len(s) /\ Len(s \o t) > 1
    BY <1>1, <2>3, <2>6, SMT
  <2>8. QED
    BY <1>2, <2>1, <2>3, <2>4, <2>5, <2>6, <2>7
<1>3. CASE ~ Missing(p)
  <2>1. match(a, p) = <<>> \o t
    BY <1>3, Zenon DEF match, TellCall, t
  <2>2. match(a, p) = t
    BY <1>1, <2>1, ConcatEmptySeq
  <2>3. Len(t) \in Nat /\ Len(t) >= 1 /\ t[Len(t)] = TellCall(a, p) /\ 1..(Len(t) - 1) = {}
    BY <1>1, SMT
  <2>4. QED
    BY <1>1, <1>3, <2>2, <2>3, Zenon
<1>4. QED
  BY <1>2, <1>3

\* What an actor pushes in return comes behind what it was called for.
LEMMA ReactFacts ==
    ASSUME Typed, todo # <<>>, NEW calls \in Seq(Calls), React(calls)
    PROVE  /\ pushed' \in 0..MaxPushes
           /\ \E more \in Seq(Calls) :
                /\ todo' = (calls \o more) \o Rest
                /\ \/ more = <<>>
                   \/ /\ busy # {}
                      /\ \E m : /\ Fits(m) /\ m.way = "up" /\ m.action = "update"
                                /\ more = push_message(m)
<1>1. Call = todo[1] /\ Rest = Tail(todo)
  BY CallFacts
<1>2. CASE Then(calls) /\ UNCHANGED pushed
  <2>1. calls \o <<>> = calls
    BY ConcatEmptySeq
  <2>2. todo' = (calls \o <<>>) \o Rest
    BY <1>1, <1>2, <2>1 DEF Then
  <2>3. pushed' \in 0..MaxPushes
    BY <1>2 DEF Typed, TypeOK
  <2>4. QED
    BY <2>2, <2>3, EmptyFacts
<1>3. ASSUME Call.actor \in busy, pushed < MaxPushes, pushed' = pushed + 1,
             NEW p \in Updated, Then(calls \o push_message(Update("up", p)))
      PROVE  /\ pushed' \in 0..MaxPushes
             /\ \E more \in Seq(Calls) :
                  /\ todo' = (calls \o more) \o Rest
                  /\ busy # {}
                  /\ \E m : /\ Fits(m) /\ m.way = "up" /\ m.action = "update"
                            /\ more = push_message(m)
  <2> DEFINE m == Update("up", p)
  <2>1. Fits(m) /\ m.way = "up" /\ m.action = "update" /\ pushed' \in 0..MaxPushes
    BY <1>3, UpdateFits
  <2> HIDE DEF m
  <2>2. push_message(m) \in Seq(Calls)
    BY <2>1, PushFacts DEF Fits
  <2>3. todo' = (calls \o push_message(m)) \o Rest
    BY <1>1, <1>3 DEF Then, m
  <2>4. QED
    BY <1>3, <2>1, <2>2, <2>3
<1>4. QED
  BY <1>2, <1>3, Zenon DEF React

---------------------------------------------------------------------------
(* What each action does *)

\* A state consumer that is notified of a point reads it: what is missing is
\* asked for first, then it is told, then comes what it pushes in return.
LEMMA NotifyStepFacts ==
    ASSUME Typed, todo # <<>>, Notify
    PROVE  /\ todo[1].do = "notify"
           /\ UNCHANGED <<store, waiting, heard, view, busy, prompt, placeholders>>
           /\ pushed' \in 0..MaxPushes
           /\ \E new \in Seq(Calls) : \E k \in 1..Len(new) :
                /\ todo' = new \o Rest
                /\ new[k] = TellCall(todo[1].actor, todo[1].point)
                /\ \A i \in 1..(k - 1) :
                     /\ Missing(todo[1].point)
                     /\ Quiet(new[i], todo[1].point) /\ GoodCall(new[i])
                     /\ new[i].do = (IF i = 1 THEN "trigger" ELSE "listen")
                /\ Missing(todo[1].point) => k > 1
                /\ \A i \in 1..Len(new) :
                     i > k => busy # {} /\ GoodCall(new[i]) /\ new[i].do # "tell"
<1> DEFINE a == todo[1].actor
           p == todo[1].point
           s == match(a, p)
           k == Len(s)
<1>1. Call = todo[1] /\ Rest = Tail(todo) /\ todo[1].do = "notify"
      /\ a \in StateConsumers /\ p \in Point
  BY CallFacts, CallFields DEF Notify
<1>2. UNCHANGED <<store, waiting, heard, view, busy, prompt, placeholders>> /\ React(s)
  BY <1>1 DEF Notify
<1>3. /\ s \in Seq(Calls) /\ k \in Nat /\ k >= 1 /\ s[k] = TellCall(a, p)
      /\ \A i \in 1..(k - 1) :
           /\ Missing(p) /\ Quiet(s[i], p) /\ GoodCall(s[i])
           /\ s[i].do = (IF i = 1 THEN "trigger" ELSE "listen")
      /\ Missing(p) => k > 1
  BY <1>1, MatchFacts, Zenon
<1>4. pushed' \in 0..MaxPushes
  BY <1>2, <1>3, ReactFacts
<1>5. PICK more \in Seq(Calls) :
         /\ todo' = (s \o more) \o Rest
         /\ \/ more = <<>>
            \/ /\ busy # {}
               /\ \E m : Fits(m) /\ m.way = "up" /\ m.action = "update" /\ more = push_message(m)
  BY <1>2, <1>3, ReactFacts
<1>6. \A i \in 1..Len(more) : busy # {} /\ GoodCall(more[i]) /\ more[i].do # "tell"
  <2>1. CASE more = <<>>
    BY <2>1, EmptyFacts, SMT
  <2>2. CASE more # <<>>
    <3>1. PICK m : Fits(m) /\ m.way = "up" /\ m.action = "update" /\ more = push_message(m)
      BY <1>5, <2>2
    <3>2. \A i \in 1..Len(more) : more[i] \in Range(more)
      BY LenProperties DEF Range
    <3>3. \A c \in Range(more) : GoodCall(c) /\ c.do # "tell"
      <4> SUFFICES ASSUME NEW c \in Range(more) PROVE GoodCall(c) /\ c.do # "tell"
        OBVIOUS
      <4>1. c \in Range(push_message(m)) /\ (m.way = "up" \/ Known(m))
        BY <3>1
      <4>2. GoodCall(c) /\ c.do \in {"apply", "trigger", "upstream", "listen", "send"}
        BY <3>1, <4>1, PushIsGood
      <4>3. QED
        BY <4>2
    <3>4. QED
      BY <1>5, <2>2, <3>2, <3>3
  <2>3. QED
    BY <2>1, <2>2
<1> DEFINE new == s \o more
<1> HIDE DEF s
<1>7. /\ new \in Seq(Calls) /\ Len(new) = k + Len(more) /\ Len(more) \in Nat
      /\ \A i \in 1..k : new[i] = s[i]
      /\ \A i \in 1..Len(more) : new[k + i] = more[i]
  BY <1>3, LenProperties, JoinFacts
<1> HIDE DEF k, new
<1>8. \A i \in 1..Len(new) :
         i > k => i - k \in 1..Len(more) /\ k + (i - k) = i
  BY <1>3, <1>7, SMT
<1>9. \A i \in 1..Len(new) : i > k => busy # {} /\ GoodCall(new[i]) /\ new[i].do # "tell"
  <2> SUFFICES ASSUME NEW i \in 1..Len(new), i > k
               PROVE  busy # {} /\ GoodCall(new[i]) /\ new[i].do # "tell"
    OBVIOUS
  <2>1. new[i] = more[i - k]
    BY <1>7, <1>8
  <2>2. QED
    BY <1>6, <1>8, <2>1
<1>10. k \in 1..Len(new) /\ k \in 1..k /\ \A i \in 1..(k - 1) : i \in 1..k
  BY <1>3, <1>7, SMT
<1>11. new[k] = TellCall(a, p)
  BY <1>3, <1>7, <1>10
<1>12. \A i \in 1..(k - 1) :
           /\ Missing(p) /\ Quiet(new[i], p) /\ GoodCall(new[i])
           /\ new[i].do = (IF i = 1 THEN "trigger" ELSE "listen")
  BY <1>3, <1>7, <1>10
<1>13. todo' = new \o Rest
  BY <1>5 DEF new
<1> HIDE DEF a, p
<1>14. \E nw \in Seq(Calls) : \E j \in 1..Len(nw) :
                /\ todo' = nw \o Rest
                /\ nw[j] = TellCall(a, p)
                /\ \A i \in 1..(j - 1) :
                     /\ Missing(p)
                     /\ Quiet(nw[i], p) /\ GoodCall(nw[i])
                     /\ nw[i].do = (IF i = 1 THEN "trigger" ELSE "listen")
                /\ Missing(p) => j > 1
                /\ \A i \in 1..Len(nw) :
                     i > j => busy # {} /\ GoodCall(nw[i]) /\ nw[i].do # "tell"
  BY <1>3, <1>7, <1>9, <1>10, <1>11, <1>12, <1>13, Zenon
<1>15. QED
  BY <1>1, <1>2, <1>4, <1>14 DEF a, p

\* The view becomes what is told.
LEMMA TellFacts ==
    ASSUME Typed, todo # <<>>, Tell
    PROVE  /\ todo[1].do = "tell" /\ todo[1].actor \in StateConsumers
           /\ todo[1].point \in Point /\ todo[1].value \in 0..Found
           /\ view' = [view EXCEPT ![todo[1].actor][todo[1].point] = todo[1].value]
           /\ UNCHANGED <<store, waiting, heard, pushed, busy, prompt, placeholders>>
           /\ todo' = <<>> \o Rest
<1>1. Call = todo[1] /\ Rest = Tail(todo) /\ todo[1].do = "tell" /\ todo[1] \in Calls
  BY CallFacts DEF Tell
<1>2. /\ todo[1].actor \in StateConsumers
      /\ todo[1].point \in Point /\ todo[1].value \in 0..Found
  BY <1>1, CallFields
<1>3. QED
  BY <1>1, <1>2 DEF Tell, Then

\* A consumer hears the message, and may push an update.
LEMMA SendFacts ==
    ASSUME Typed, todo # <<>>, Send
    PROVE  /\ todo[1].do = "send" /\ todo[1].actor \in Consumers /\ Fits(todo[1].m)
           /\ heard' = [heard EXCEPT ![todo[1].actor] = Append(@, todo[1].m)]
           /\ UNCHANGED <<store, waiting, view, busy, prompt, placeholders>>
           /\ pushed' \in 0..MaxPushes
           /\ \E new \in Seq(Calls) :
                /\ todo' = new \o Rest
                /\ \/ new = <<>>
                   \/ /\ busy # {}
                      /\ \E m : /\ Fits(m) /\ m.way = "up" /\ m.action = "update"
                                /\ new = push_message(m)
<1>1. /\ Call = todo[1] /\ todo[1].do = "send" /\ todo[1].actor \in Consumers /\ Fits(todo[1].m)
  BY CallFacts, CallFields DEF Send, GoodCall
<1>2. /\ heard' = [heard EXCEPT ![todo[1].actor] = Append(@, todo[1].m)]
      /\ UNCHANGED <<store, waiting, view, busy, prompt, placeholders>> /\ React(<<>>)
  BY <1>1 DEF Send
<1>3. <<>> \in Seq(Calls)
  BY EmptyFacts
<1>4. PICK more \in Seq(Calls) :
                /\ todo' = (<<>> \o more) \o Rest
                /\ \/ more = <<>>
                   \/ /\ busy # {}
                      /\ \E m : /\ Fits(m) /\ m.way = "up" /\ m.action = "update"
                                /\ more = push_message(m)
  BY <1>2, <1>3, ReactFacts
<1>5. pushed' \in 0..MaxPushes
  BY <1>2, <1>3, ReactFacts
<1>6. <<>> \o more = more
  BY ConcatEmptySeq
<1>7. QED
  BY <1>1, <1>2, <1>4, <1>5, <1>6

\* What comes down in answer is known.
LEMMA ReplyFits ==
    ASSUME NEW m, Goes(m)
    PROVE  /\ Fits(Reply(m)) /\ Reply(m).way = "down" /\ Reply(m).action = m.action
           /\ Reply(m).point = m.point /\ Known(Reply(m))
<1> DEFINE x == IF m.action = "read" THEN Found ELSE m.payload
<1>1. m \in Message /\ m.action \in {"update", "read"} /\ m.payload \in 0..Found /\ Fits(m)
  BY MessageFields DEF Goes, Fits
<1>2. x \in 0..Found /\ x # NoValue
  BY <1>1, Numbers DEF Fits
<1>3. m.action = "read" => x = Found
  OBVIOUS
<1>4. Reply(m) = Down(m, x)
  BY Zenon DEF Reply
<1> HIDE DEF x
<1>5. /\ Fits(Down(m, x)) /\ Down(m, x).way = "down" /\ Down(m, x).action = m.action
      /\ Down(m, x).point = m.point /\ Down(m, x).payload = x
  BY <1>1, <1>2, DownFields
<1>6. QED
  BY <1>3, <1>4, <1>5 DEF Known, Goes

\* The producer answers at once, or it keeps the message.
LEMMA UpstreamFacts ==
    ASSUME Typed, todo # <<>>, Upstream
    PROVE  /\ todo[1].do = "upstream" /\ Goes(todo[1].m)
           /\ UNCHANGED <<store, heard, view, pushed, busy, prompt, placeholders>>
           /\ \/ /\ todo[1].m.action = "update" \/ todo[1].m.point \in prompt
                 /\ UNCHANGED waiting
                 /\ \E m : /\ Fits(m) /\ m.way = "down" /\ m.action = todo[1].m.action
                           /\ m.point = todo[1].m.point /\ Known(m)
                           /\ todo' = push_message(m) \o Rest
              \/ /\ waiting' = [waiting EXCEPT ![ProducerOf[todo[1].m.point]]
                                                = Append(@, todo[1].m)]
                 /\ todo' = <<>> \o Rest
<1> DEFINE m == todo[1].m
<1>1. /\ Call = todo[1] /\ Rest = Tail(todo) /\ todo[1].do = "upstream" /\ Goes(m)
  BY CallFacts DEF Upstream, GoodCall
<1>2. /\ Fits(Reply(m)) /\ Reply(m).way = "down" /\ Reply(m).action = m.action
      /\ Reply(m).point = m.point /\ Known(Reply(m))
  BY <1>1, ReplyFits
<1>3. UNCHANGED <<store, heard, view, pushed, busy, prompt, placeholders>>
  BY DEF Upstream
<1>4. CASE /\ m.action = "update" \/ m.point \in prompt
           /\ todo' = push_message(Reply(m)) \o Rest /\ UNCHANGED waiting
  BY <1>1, <1>2, <1>3, <1>4
<1>5. CASE /\ waiting' = [waiting EXCEPT ![ProducerOf[m.point]] = Append(@, m)]
           /\ todo' = <<>> \o Rest
  BY <1>1, <1>3, <1>5
<1>6. QED
  BY <1>1, <1>4, <1>5, Zenon DEF Upstream, Then

\* A producer may start with an update.
LEMMA ProducerInitFacts ==
    ASSUME Typed, todo # <<>>, ProducerInit
    PROVE  /\ todo[1].do = "producer_init"
           /\ UNCHANGED <<store, waiting, heard, view, busy, prompt, placeholders>>
           /\ pushed' \in 0..MaxPushes
           /\ \/ todo' = <<>> \o Rest
              \/ \E m : /\ Fits(m) /\ m.way = "down" /\ m.action = "update"
                        /\ todo' = push_message(m) \o Rest
<1>1. Call = todo[1] /\ Rest = Tail(todo) /\ todo[1].do = "producer_init"
  BY CallFacts DEF ProducerInit
<1>2. UNCHANGED <<store, waiting, heard, view, busy, prompt, placeholders>>
  BY DEF ProducerInit
<1>3. CASE Then(<<>>) /\ UNCHANGED pushed
  BY <1>1, <1>2, <1>3 DEF Then, Typed, TypeOK
<1>4. ASSUME NEW p \in Updated, pushed < MaxPushes, pushed' = pushed + 1,
             Then(push_message(Update("down", p)))
      PROVE  /\ pushed' \in 0..MaxPushes
             /\ \E m : /\ Fits(m) /\ m.way = "down" /\ m.action = "update"
                       /\ todo' = push_message(m) \o Rest
  <2> DEFINE m == Update("down", p)
  <2>1. Fits(m) /\ m.way = "down" /\ m.action = "update" /\ pushed' \in 0..MaxPushes
    BY <1>4, UpdateFits
  <2> HIDE DEF m
  <2>2. todo' = push_message(m) \o Rest
    BY <1>1, <1>4 DEF Then, m
  <2>3. QED
    BY <2>1, <2>2
<1>5. QED
  BY <1>1, <1>2, <1>3, <1>4, Zenon DEF ProducerInit

\* A state consumer reads every point when it is initialised.
LEMMA ConsumerInitFacts ==
    ASSUME Typed, todo # <<>>, ConsumerInit
    PROVE  /\ todo[1].do = "consumer_init"
           /\ UNCHANGED <<store, waiting, heard, view, pushed, busy, prompt, placeholders>>
           /\ \E new \in Seq(Calls) :
                /\ todo' = new \o Rest
                /\ \A c \in Range(new) : c.do = "notify"
                /\ todo[1].actor \in StateConsumers => \A p \in Point :
                     [do |-> "notify", actor |-> todo[1].actor, point |-> p] \in Range(new)
<1> DEFINE a == todo[1].actor
           N == {[do |-> "notify", actor |-> a, point |-> p] : p \in Point}
<1>1. Call = todo[1] /\ Rest = Tail(todo) /\ todo[1].do = "consumer_init"
  BY CallFacts DEF ConsumerInit
<1>2. UNCHANGED <<store, waiting, heard, view, pushed, busy, prompt, placeholders>>
  BY DEF ConsumerInit
<1>3. CASE a \in StateConsumers
  <2>1. IsFiniteSet(N)
    <3> DEFINE f == [p \in Point |-> [do |-> "notify", actor |-> a, point |-> p]]
    <3>1. f \in Surjection(Point, N)
      BY Zenon DEF Surjection
    <3>2. QED
      BY <3>1, PointAssumption, FS_Surjection
  <2>2. N \subseteq Calls
    BY <1>3, SMT DEF Calls
  <2>3. SetToSeq(N) \in Seq(N) /\ Range(SetToSeq(N)) = N
    BY <2>1, SetToSeqFacts
  <2>4. todo' = SetToSeq(N) \o Rest
    BY <1>1, <1>3, Zenon DEF ConsumerInit, Then
  <2> DEFINE new == SetToSeq(N)
  <2>5. new \in Seq(Calls)
    BY <2>2, <2>3, SeqMonotonic
  <2>6. /\ \A c \in Range(new) : c.do = "notify"
        /\ \A p \in Point : [do |-> "notify", actor |-> a, point |-> p] \in Range(new)
    BY <2>3
  <2> HIDE DEF new
  <2>7. QED
    BY <1>1, <1>2, <2>4, <2>5, <2>6 DEF new
<1>4. CASE a \notin StateConsumers
  <2>1. todo' = <<>> \o Rest
    BY <1>1, <1>4 DEF ConsumerInit, Then
  <2>2. QED
    BY <1>1, <1>2, <1>4, <2>1, EmptyFacts
<1>5. QED
  BY <1>3, <1>4

\* What is pushed when no call is being made.
LEMMA PushStepFacts ==
    ASSUME Typed, Push
    PROVE  /\ todo = <<>> /\ Rest = <<>>
           /\ UNCHANGED <<store, waiting, heard, view, busy, prompt, placeholders>>
           /\ pushed' \in 0..MaxPushes
           /\ \E m : /\ Fits(m) /\ m.way = "up"
                     /\ todo' = push_message(m) \o Rest
<1>1. todo = <<>> /\ Rest = <<>> /\ pushed < MaxPushes
  BY DEF Push, Idle, Rest
<1>2. pushed + 1 \in 0..MaxPushes
  BY <1>1, BoundAssumption, SMT DEF Typed, TypeOK
<1>3. /\ UNCHANGED <<store, waiting, heard, view, busy, prompt, placeholders>> /\ pushed' \in 0..MaxPushes
  BY <1>2 DEF Push
<1>4. PICK p \in Point :
         \/ p \in Updated /\ todo' = push_message(Update("up", p))
         \/ p \in Asking /\ todo' = push_message(Reading(p))
  BY Zenon DEF Push, Reading
<1>5. \E m : Fits(m) /\ m.way = "up" /\ todo' = push_message(m)
  <2>1. CASE p \in Updated /\ todo' = push_message(Update("up", p))
    BY <1>1, <2>1, UpdateFits
  <2>2. CASE p \in Asking /\ todo' = push_message(Reading(p))
    <3>1. Fits(Reading(p)) /\ Reading(p).way = "up"
      BY <2>2, ReadingFits DEF Reading
    <3>2. QED
      BY <2>2, <3>1
  <2>3. QED
    BY <1>4, <2>1, <2>2
<1>6. \A m : Fits(m) => push_message(m) \o Rest = push_message(m)
  BY <1>1, PushFacts, ConcatEmptySeq DEF Fits
<1>7. QED
  BY <1>1, <1>3, <1>5, <1>6

\* The answer to the message that has waited longest.
LEMMA AnswerFacts ==
    ASSUME Typed, NEW a \in Producers, Answer(a)
    PROVE  /\ todo = <<>> /\ Rest = <<>>
           /\ UNCHANGED <<store, heard, view, pushed, busy, prompt, placeholders>>
           /\ waiting[a] # <<>>
           /\ waiting' = [waiting EXCEPT ![a] = Tail(@)]
           /\ \E m : /\ Fits(m) /\ m.way = "down" /\ m.point = waiting[a][1].point
                     /\ m.action = waiting[a][1].action /\ Known(m)
                     /\ todo' = push_message(m) \o Rest
<1> DEFINE q == waiting[a][1]
<1>1. todo = <<>> /\ Rest = <<>> /\ waiting[a] # <<>>
  BY DEF Answer, Idle, Rest
<1>2. waiting[a] \in Seq(Message)
  BY DEF Typed, TypeOK
<1>3. Head(waiting[a]) = q /\ 1 \in DOMAIN waiting[a]
  BY <1>1, <1>2, SMT
<1>4. Goes(q)
  BY <1>3 DEF Typed, MessagesFit
<1>5. /\ Fits(Reply(q)) /\ Reply(q).way = "down" /\ Reply(q).action = q.action
      /\ Reply(q).point = q.point /\ Known(Reply(q))
  BY <1>4, ReplyFits
<1>6. /\ UNCHANGED <<store, heard, view, pushed, busy, prompt, placeholders>>
      /\ waiting' = [waiting EXCEPT ![a] = Tail(@)]
      /\ todo' = push_message(Reply(q))
  BY <1>3 DEF Answer
<1>7. push_message(Reply(q)) \o Rest = push_message(Reply(q))
  BY <1>1, <1>5, PushFacts, ConcatEmptySeq DEF Fits
<1>8. QED
  BY <1>1, <1>5, <1>6, <1>7

---------------------------------------------------------------------------
(* Types, kept by every step *)

\* If new calls are good then all calls are.
LEMMA GoodThen ==
    ASSUME Typed, NEW new \in Seq(Calls), todo' = new \o Rest,
           \A c \in Range(new) : GoodCall(c)
    PROVE  todo' \in Seq(Calls) /\ \A c \in Range(todo') : GoodCall(c)
<1>0. todo \in Seq(Calls)
  BY DEF Typed, TypeOK
<1>1. Range(Rest) \subseteq Range(todo)
  BY <1>0, RestFacts, Zenon
<1>2. todo' \in Seq(Calls) /\ Range(todo') = Range(new) \cup Range(Rest)
  BY <1>0, ThenFacts, Zenon
<1>3. QED
  BY <1>1, <1>2 DEF Typed, MessagesFit

\* The same, for what is pushed.
LEMMA PushThen ==
    ASSUME Typed, NEW m, Fits(m), m.way = "up" \/ Known(m),
           todo' = push_message(m) \o Rest
    PROVE  todo' \in Seq(Calls) /\ \A c \in Range(todo') : GoodCall(c)
<1>1. push_message(m) \in Seq(Calls)
  BY PushFacts DEF Fits
<1>2. \A c \in Range(push_message(m)) : GoodCall(c)
  BY PushIsGood
<1>3. QED
  BY <1>1, <1>2, GoodThen

\* The same, when nothing is called.
LEMMA NothingThen ==
    ASSUME Typed, todo' = <<>> \o Rest
    PROVE  todo' \in Seq(Calls) /\ \A c \in Range(todo') : GoodCall(c)
<1>1. <<>> \in Seq(Calls) /\ \A c \in Range(<<>>) : GoodCall(c)
  BY EmptyFacts
<1>2. QED
  BY <1>1, GoodThen

\* Calls that notify have no message.
LEMMA NotifyGood ==
    ASSUME NEW s, \A c \in Range(s) : c.do = "notify"
    PROVE  \A c \in Range(s) : GoodCall(c)
  BY DEF GoodCall

\* The store keeps its type when it is changed.
LEMMA ChangesGood ==
    ASSUME Typed, NEW new, (\E p, x : Changes(new, p, x)) \/ (new = <<>> /\ UNCHANGED store)
    PROVE  store' \in [Point -> 0..Found] /\ \A c \in Range(new) : GoodCall(c)
<1>1. store \in [Point -> 0..Found]
  BY DEF Typed, TypeOK
<1>2. ASSUME NEW p, NEW x, Changes(new, p, x)
      PROVE  store' \in [Point -> 0..Found] /\ \A c \in Range(new) : GoodCall(c)
  <2>1. store' \in [Point -> 0..Found]
    BY <1>1, <1>2 DEF Changes
  <2>2. \A c \in Range(new) : c.do = "notify"
    BY <1>2 DEF Changes
  <2>3. QED
    BY <2>1, <2>2, NotifyGood
<1>3. CASE new = <<>> /\ UNCHANGED store
  BY <1>1, <1>3, EmptyFacts
<1>4. QED
  BY <1>2, <1>3

\* The initial state is typed.
LEMMA TypedInit == Init => Typed
<1> SUFFICES ASSUME Init PROVE Typed
  OBVIOUS
<1>1. /\ todo \in Seq(Calls)
      /\ \A c \in Range(todo) : c.do \in {"producer_init", "consumer_init"}
  BY InitActorsFacts DEF Init
<1>2. \A c \in Range(todo) : GoodCall(c)
  BY <1>1 DEF GoodCall
<1>3. pushed \in 0..MaxPushes
  BY BoundAssumption DEF Init
<1>4. TypeOK
  BY <1>1, <1>3, Numbers, EmptySeq DEF Init, TypeOK
<1>5. DOMAIN <<>> = {}
  OBVIOUS
<1>6. MessagesFit
  BY <1>2, <1>5 DEF Init, MessagesFit
<1>7. QED
  BY <1>4, <1>6 DEF Typed

\* What a step does to the messages that producers have and consumers had.
Waited == /\ waiting' \in [Producers -> Seq(Message)]
          /\ \A a \in Producers : \A i \in DOMAIN waiting'[a] :
               Goes(waiting'[a][i]) /\ ProducerOf[waiting'[a][i].point] = a

\* Nothing happens to the messages that are waiting.
LEMMA WaitingSame == ASSUME Typed, UNCHANGED waiting PROVE Waited
  BY DEF Typed, TypeOK, MessagesFit, Waited

\* One more message is waiting for its producer.
LEMMA WaitingMore ==
    ASSUME Typed, NEW m, Goes(m),
           waiting' = [waiting EXCEPT ![ProducerOf[m.point]] = Append(@, m)]
    PROVE  Waited
<1> DEFINE o == ProducerOf[m.point]
<1>1. o \in Producers /\ m \in Message
  BY MessageFields, ActorAssumption DEF Goes, Fits
<1> HIDE DEF o
<1>2. waiting \in [Producers -> Seq(Message)]
  BY DEF Typed, TypeOK
<1>3. Append(waiting[o], m) \in Seq(Message)
  BY <1>1, <1>2, AppendProperties
<1>4. waiting' = [waiting EXCEPT ![o] = Append(waiting[o], m)]
  BY DEF o
<1>5. waiting' \in [Producers -> Seq(Message)]
  BY <1>1, <1>2, <1>3, <1>4
<1>6. ASSUME NEW a \in Producers, NEW i \in DOMAIN waiting'[a]
      PROVE  Goes(waiting'[a][i]) /\ ProducerOf[waiting'[a][i].point] = a
  <2>1. CASE a # o
    BY <1>2, <1>4, <1>6, <2>1 DEF Typed, MessagesFit
  <2>2. CASE a = o
    <3>1. waiting'[a] = Append(waiting[o], m)
      BY <1>1, <1>2, <1>4, <2>2
    <3>2. waiting[o] \in Seq(Message) /\ DOMAIN waiting[o] = 1..Len(waiting[o])
          /\ Len(waiting[o]) \in Nat
      BY <1>1, <1>2, LenProperties
    <3>3. i \in 1..(Len(waiting[o]) + 1)
      BY <1>1, <1>6, <3>1, <3>2, AppendProperties
    <3>4. CASE i \in 1..Len(waiting[o])
      <4>1. waiting'[a][i] = waiting[o][i]
        BY <1>1, <3>1, <3>2, <3>4, AppendProperties
      <4>2. QED
        BY <1>1, <2>2, <3>2, <3>4, <4>1 DEF Typed, MessagesFit
    <3>5. CASE i = Len(waiting[o]) + 1
      <4>1. waiting'[a][i] = m
        BY <1>1, <3>1, <3>2, <3>5, AppendProperties
      <4>2. QED
        BY <2>2, <4>1 DEF o
    <3>6. QED
      BY <3>2, <3>3, <3>4, <3>5, SMT
  <2>3. QED
    BY <2>1, <2>2
<1>7. QED
  BY <1>5, <1>6 DEF Waited

\* The first message has been answered.
LEMMA WaitingLess ==
    ASSUME Typed, NEW a \in Producers, waiting[a] # <<>>,
           waiting' = [waiting EXCEPT ![a] = Tail(@)]
    PROVE  Waited
<1>1. waiting \in [Producers -> Seq(Message)]
  BY DEF Typed, TypeOK
<1>2. /\ Tail(waiting[a]) \in Seq(Message) /\ Len(Tail(waiting[a])) \in Nat
      /\ DOMAIN waiting[a] = 1..Len(waiting[a])
      /\ DOMAIN Tail(waiting[a]) = 1..Len(Tail(waiting[a]))
      /\ Len(waiting[a]) = Len(Tail(waiting[a])) + 1
      /\ \A i \in 1..Len(Tail(waiting[a])) : Tail(waiting[a])[i] = waiting[a][i + 1]
  BY <1>1, TailFacts
<1>3. \A i \in 1..Len(Tail(waiting[a])) : i + 1 \in DOMAIN waiting[a]
  BY <1>2, SMT
<1>4. waiting' \in [Producers -> Seq(Message)]
  BY <1>1, <1>2
<1>5. ASSUME NEW b \in Producers, NEW i \in DOMAIN waiting'[b]
      PROVE  Goes(waiting'[b][i]) /\ ProducerOf[waiting'[b][i].point] = b
  <2>1. CASE b # a
    BY <1>1, <1>5, <2>1 DEF Typed, MessagesFit
  <2>2. CASE b = a
    <3>1. waiting'[b] = Tail(waiting[a])
      BY <1>1, <2>2
    <3>2. waiting'[b][i] = waiting[a][i + 1] /\ i + 1 \in DOMAIN waiting[a]
      BY <1>2, <1>3, <1>5, <3>1
    <3>3. QED
      BY <2>2, <3>2 DEF Typed, MessagesFit
  <2>3. QED
    BY <2>1, <2>2
<1>6. QED
  BY <1>4, <1>5 DEF Waited

\* The same, for what has been heard.
Hearing == /\ heard' \in [Consumers -> Seq(Message)]
           /\ \A a \in Consumers : \A i \in DOMAIN heard'[a] : Fits(heard'[a][i])

\* Nothing is heard.
LEMMA HeardSame == ASSUME Typed, UNCHANGED heard PROVE Hearing
  BY DEF Typed, TypeOK, MessagesFit, Hearing

\* One more message is heard.
LEMMA HeardMore ==
    ASSUME Typed, NEW o \in Consumers, NEW m, Fits(m),
           heard' = [heard EXCEPT ![o] = Append(@, m)]
    PROVE  Hearing
<1>1. m \in Message
  BY DEF Fits
<1>2. heard \in [Consumers -> Seq(Message)]
  BY DEF Typed, TypeOK
<1>3. Append(heard[o], m) \in Seq(Message)
  BY <1>1, <1>2, AppendProperties
<1>4. heard' \in [Consumers -> Seq(Message)]
  BY <1>2, <1>3
<1>5. ASSUME NEW a \in Consumers, NEW i \in DOMAIN heard'[a]
      PROVE  Fits(heard'[a][i])
  <2>1. CASE a # o
    BY <1>2, <1>5, <2>1 DEF Typed, MessagesFit
  <2>2. CASE a = o
    <3>1. heard'[a] = Append(heard[o], m)
      BY <1>2, <2>2
    <3>2. heard[o] \in Seq(Message) /\ DOMAIN heard[o] = 1..Len(heard[o]) /\ Len(heard[o]) \in Nat
      BY <1>2, LenProperties
    <3>3. i \in 1..(Len(heard[o]) + 1)
      BY <1>1, <1>5, <3>1, <3>2, AppendProperties
    <3>4. CASE i \in 1..Len(heard[o])
      <4>1. heard'[a][i] = heard[o][i]
        BY <1>1, <3>1, <3>2, <3>4, AppendProperties
      <4>2. QED
        BY <3>2, <3>4, <4>1 DEF Typed, MessagesFit
    <3>5. CASE i = Len(heard[o]) + 1
      <4>1. heard'[a][i] = m
        BY <1>1, <3>1, <3>2, <3>5, AppendProperties
      <4>2. QED
        BY <4>1
    <3>6. QED
      BY <3>2, <3>3, <3>4, <3>5, SMT
  <2>3. QED
    BY <2>1, <2>2
<1>6. QED
  BY <1>4, <1>5 DEF Hearing

\* Every step keeps the types, and the messages where they fit.
LEMMA TypedStep == Typed /\ [Next]_vars => Typed'
<1> SUFFICES ASSUME Typed, [Next]_vars PROVE Typed'
  OBVIOUS
<1> USE DEF Typed
<1>1. /\ todo \in Seq(Calls) /\ \A c \in Range(todo) : GoodCall(c)
      /\ store \in [Point -> 0..Found] /\ pushed \in 0..MaxPushes
      /\ view \in [StateConsumers -> [Point -> 0..Found]]
      /\ busy \in SUBSET (Consumers \cup StateConsumers) /\ prompt \in SUBSET (Asking \ Placing)
      /\ placeholders \in SUBSET Placing
  BY DEF TypeOK, MessagesFit
\* It is enough to look at one thing at a time.
<1>2. ASSUME todo' \in Seq(Calls), \A c \in Range(todo') : GoodCall(c),
             store' \in [Point -> 0..Found], view' \in [StateConsumers -> [Point -> 0..Found]],
             Waited, Hearing, pushed' \in 0..MaxPushes, UNCHANGED <<busy, prompt>>,
             placeholders' \in SUBSET Placing
      PROVE  Typed'
  BY <1>1, <1>2 DEF TypeOK, MessagesFit, Waited, Hearing
<1>3. ASSUME todo # <<>>, Apply PROVE Typed'
  <2>1. UNCHANGED <<waiting, heard, view, pushed, busy, prompt>>
    BY <1>3, ApplyFacts
  <2>2. PICK new \in Seq(Calls) :
           /\ todo' = new \o Rest
           /\ (\E p, x : Changes(new, p, x)) \/ (new = <<>> /\ UNCHANGED store)
           /\ placeholders' \subseteq placeholders
    BY <1>3, ApplyFacts
  <2>3. store' \in [Point -> 0..Found] /\ \A c \in Range(new) : GoodCall(c)
    BY <2>2, ChangesGood
  <2>4. QED
    BY <1>1, <1>2, <2>1, <2>2, <2>3, GoodThen, WaitingSame, HeardSame
<1>4. ASSUME todo # <<>>, Trigger PROVE Typed'
  <2>1. UNCHANGED <<store, waiting, heard, view, pushed, busy, prompt>> /\ Fits(todo[1].m)
        /\ todo[1].m.way = "up" /\ placeholders' \in SUBSET Placing
    BY <1>1, <1>4, TriggerFacts
  <2>2. todo' \in Seq(Calls) /\ \A c \in Range(todo') : GoodCall(c)
    <3>1. CASE /\ [do |-> "upstream", m |-> todo[1].m] \in Calls
               /\ todo[1].m.point \notin Placing
               /\ todo' = <<[do |-> "upstream", m |-> todo[1].m]>> \o Rest
      <4> DEFINE c == [do |-> "upstream", m |-> todo[1].m]
      <4>1. GoodCall(c)
        BY <2>1, <3>1 DEF GoodCall, Goes
      <4> HIDE DEF c
      <4>2. c \in Calls /\ todo' = <<c>> \o Rest
        BY <3>1 DEF c
      <4>3. QED
        BY <4>1, <4>2, EmptyFacts, GoodThen
    <3>2. ASSUME NEW m \in Message, Fits(m), m.way = "down",
                 todo' = propagate_downstream(m) \o Rest
          PROVE  todo' \in Seq(Calls) /\ \A c \in Range(todo') : GoodCall(c)
      <4>1. /\ propagate_downstream(m) \in Seq(Calls)
            /\ Range(propagate_downstream(m)) = {[do |-> "send", actor |-> a, m |-> m] : a \in Consumers}
        BY SendToFacts
      <4>2. \A c \in Range(propagate_downstream(m)) : GoodCall(c)
        BY <3>2, <4>1 DEF GoodCall
      <4>3. QED
        BY <3>2, <4>1, <4>2, GoodThen
    <3>3. QED
      BY <1>4, <3>1, <3>2, NothingThen, TriggerFacts
  <2>3. QED
    BY <1>1, <1>2, <2>1, <2>2, WaitingSame, HeardSame
<1>5. ASSUME todo # <<>>, Listen PROVE Typed'
  <2>1. UNCHANGED <<waiting, heard, view, pushed, busy, prompt, placeholders>>
    BY <1>5, ListenStepFacts
  <2>2. PICK new \in Seq(Calls) :
           /\ todo' = new \o Rest
           /\ (\E p, x : Changes(new, p, x)) \/ (new = <<>> /\ UNCHANGED store)
    BY <1>5, ListenStepFacts
  <2>3. store' \in [Point -> 0..Found] /\ \A c \in Range(new) : GoodCall(c)
    BY <2>2, ChangesGood
  <2>4. QED
    BY <1>1, <1>2, <2>1, <2>2, <2>3, GoodThen, WaitingSame, HeardSame
<1>6. ASSUME todo # <<>>, Notify PROVE Typed'
  <2>1. UNCHANGED <<store, waiting, heard, view, busy, prompt, placeholders>> /\ pushed' \in 0..MaxPushes
    BY <1>6, NotifyStepFacts
  <2>2. PICK new \in Seq(Calls) : \E k \in 1..Len(new) :
           /\ todo' = new \o Rest
           /\ new[k] = TellCall(todo[1].actor, todo[1].point)
           /\ \A i \in 1..(k - 1) : GoodCall(new[i])
           /\ \A i \in 1..Len(new) : i > k => GoodCall(new[i])
    BY <1>6, NotifyStepFacts
  <2>3. GoodCall(TellCall(todo[1].actor, todo[1].point))
    BY DEF GoodCall, TellCall
  <2>4. \A i \in 1..Len(new) : GoodCall(new[i])
    BY <2>2, <2>3, LenProperties, SMT
  <2>5. \A c \in Range(new) : GoodCall(c)
    BY <2>4, LenProperties DEF Range
  <2>6. QED
    BY <1>1, <1>2, <2>1, <2>2, <2>5, GoodThen, WaitingSame, HeardSame
<1>7. ASSUME todo # <<>>, Tell PROVE Typed'
  <2>1. /\ todo[1].actor \in StateConsumers /\ todo[1].point \in Point /\ todo[1].value \in 0..Found
        /\ view' = [view EXCEPT ![todo[1].actor][todo[1].point] = todo[1].value]
        /\ UNCHANGED <<store, waiting, heard, pushed, busy, prompt, placeholders>>
        /\ todo' = <<>> \o Rest
    BY <1>7, TellFacts
  <2>2. view' \in [StateConsumers -> [Point -> 0..Found]]
    BY <1>1, <2>1
  <2>3. QED
    BY <1>1, <1>2, <2>1, <2>2, NothingThen, WaitingSame, HeardSame
<1>8. ASSUME todo # <<>>, Send PROVE Typed'
  <2>1. /\ todo[1].actor \in Consumers /\ Fits(todo[1].m)
        /\ heard' = [heard EXCEPT ![todo[1].actor] = Append(@, todo[1].m)]
        /\ UNCHANGED <<store, waiting, view, busy, prompt, placeholders>> /\ pushed' \in 0..MaxPushes
    BY <1>8, SendFacts
  <2>2. todo' \in Seq(Calls) /\ \A c \in Range(todo') : GoodCall(c)
    <3>1. PICK new \in Seq(Calls) :
                /\ todo' = new \o Rest
                /\ \/ new = <<>>
                   \/ /\ busy # {}
                      /\ \E m : /\ Fits(m) /\ m.way = "up" /\ m.action = "update"
                                /\ new = push_message(m)
      BY <1>8, SendFacts
    <3>2. QED
      BY <3>1, NothingThen, PushThen
  <2>3. QED
    BY <1>1, <1>2, <2>1, <2>2, WaitingSame, HeardMore
<1>9. ASSUME todo # <<>>, Upstream PROVE Typed'
  <2>1. /\ Goes(todo[1].m)
        /\ UNCHANGED <<store, heard, view, pushed, busy, prompt, placeholders>>
    BY <1>9, UpstreamFacts
  <2>2. CASE /\ waiting' = [waiting EXCEPT ![ProducerOf[todo[1].m.point]]
                                              = Append(@, todo[1].m)]
             /\ todo' = <<>> \o Rest
    BY <1>1, <1>2, <2>1, <2>2, NothingThen, WaitingMore, HeardSame
  <2>3. ASSUME UNCHANGED waiting, NEW m, Fits(m), Known(m),
               todo' = push_message(m) \o Rest
        PROVE  Typed'
    BY <1>1, <1>2, <2>1, <2>3, PushThen, WaitingSame, HeardSame
  <2>4. QED
    BY <1>9, <2>2, <2>3, UpstreamFacts
<1>10. ASSUME todo # <<>>, ProducerInit PROVE Typed'
  <2>1. UNCHANGED <<store, waiting, heard, view, busy, prompt, placeholders>> /\ pushed' \in 0..MaxPushes
    BY <1>10, ProducerInitFacts
  <2>2. todo' \in Seq(Calls) /\ \A c \in Range(todo') : GoodCall(c)
    <3>1. ASSUME NEW m, Fits(m), m.action = "update", todo' = push_message(m) \o Rest
          PROVE  todo' \in Seq(Calls) /\ \A c \in Range(todo') : GoodCall(c)
      BY <3>1, PushThen DEF Known
    <3>2. QED
      BY <1>10, <3>1, ProducerInitFacts, NothingThen
  <2>3. QED
    BY <1>1, <1>2, <2>1, <2>2, WaitingSame, HeardSame
<1>11. ASSUME todo # <<>>, ConsumerInit PROVE Typed'
  <2>1. UNCHANGED <<store, waiting, heard, view, pushed, busy, prompt, placeholders>>
    BY <1>11, ConsumerInitFacts
  <2>2. PICK new \in Seq(Calls) : todo' = new \o Rest /\ \A c \in Range(new) : c.do = "notify"
    BY <1>11, ConsumerInitFacts
  <2>3. QED
    BY <1>1, <1>2, <2>1, <2>2, NotifyGood, GoodThen, WaitingSame, HeardSame
<1>12. ASSUME Push PROVE Typed'
  <2>1. UNCHANGED <<store, waiting, heard, view, busy, prompt, placeholders>> /\ pushed' \in 0..MaxPushes
    BY <1>12, PushStepFacts
  <2>2. todo' \in Seq(Calls) /\ \A c \in Range(todo') : GoodCall(c)
    BY <1>12, PushStepFacts, PushThen
  <2>3. QED
    BY <1>1, <1>2, <2>1, <2>2, WaitingSame, HeardSame
<1>13. ASSUME NEW a \in Producers, Answer(a) PROVE Typed'
  <2>1. /\ UNCHANGED <<store, heard, view, pushed, busy, prompt, placeholders>>
        /\ waiting[a] # <<>> /\ waiting' = [waiting EXCEPT ![a] = Tail(@)]
    BY <1>13, AnswerFacts
  <2>2. todo' \in Seq(Calls) /\ \A c \in Range(todo') : GoodCall(c)
    BY <1>13, AnswerFacts, PushThen
  <2>3. QED
    BY <1>1, <1>2, <2>1, <2>2, WaitingLess, HeardSame
<1>14. CASE UNCHANGED vars
  BY <1>1, <1>2, <1>14, WaitingSame, HeardSame DEF vars
<1>15. QED
  BY <1>3, <1>4, <1>5, <1>6, <1>7, <1>8, <1>9, <1>10, <1>11, <1>12, <1>13, <1>14
     DEF Next, Step

\* Stores, calls, messages and views have the types that the code gives them.
THEOREM TypesAreKept == Spec => []TypeOK
<1>1. Init => Typed
  BY TypedInit
<1>2. Typed /\ [Next]_vars => Typed'
  BY TypedStep
<1>3. Typed => TypeOK
  BY DEF Typed
<1>4. QED
  BY <1>1, <1>2, <1>3, PTL DEF Spec

---------------------------------------------------------------------------
(* Views: what is about to be told is so, or was when it was asked for *)

\* A call that gives p a value.
Applying(c, p) == c.do = "apply" /\ c.m.way = "down" /\ c.m.point = p

\* What a state consumer is about to be told is so.  Before it is told nothing
\* is done but asking, if there is no value; only where the producer answers at
\* once it may be told that there is none when there is, and only one is.
TellsAreTrue ==
    /\ \A j \in DOMAIN todo :
         todo[j].do = "tell" =>
            /\ todo[j].value = store[todo[j].point] \/ (todo[j].point \in prompt /\ todo[j].value = NoValue)
            /\ j # 1 => todo[j].value = NoValue /\ todo[j].point \in Asking
            /\ j # 1 /\ store[todo[j].point] = NoValue =>
                 \/ \A i \in 1..(j - 1) : Quiet(todo[i], todo[j].point)
                 \/ todo[j].point \in prompt /\ Applying(todo[1], todo[j].point)
    /\ \A i, j \in DOMAIN todo :
         /\ todo[i].do = "tell" /\ todo[j].do = "tell" /\ todo[i].point = todo[j].point
         /\ todo[i].value = NoValue /\ todo[j].value = NoValue
         => i = j

\* What a step has to keep for what is told behind it: it gives no value behind
\* the back of one that asked, but where the producer answers at once.
Keeps(new) ==
    \A p \in Point :
        /\ \/ store'[p] = store[p]
           \/ store'[p] # NoValue /\ ~ Quiet(todo[1], p)
        /\ Quiet(todo[1], p) /\ store'[p] = NoValue =>
             \/ \A i \in 1..Len(new) : Quiet(new[i], p)
             \/ p \in prompt /\ new # <<>> /\ Applying(new[1], p)
        /\ Applying(todo[1], p) => store'[p] # NoValue

\* Where a call behind the first is after a step.
LEMMA Behind1 ==
    ASSUME Typed, todo # <<>>, NEW new \in Seq(Calls), todo' = new \o Rest,
           NEW j \in DOMAIN todo', j \notin 1..Len(new)
    PROVE  \E k \in DOMAIN todo :
               /\ k = j - Len(new) + 1 /\ k # 1 /\ 1 \in 1..(k - 1)
               /\ todo'[j] = todo[k]
               /\ \A i \in 1..(j - 1) : i \notin 1..Len(new) =>
                    \E h \in 1..(k - 1) : todo'[i] = todo[h]
<1>1. /\ DOMAIN todo = 1..Len(todo) /\ Len(Rest) \in Nat
      /\ \A i \in 1..Len(Rest) : Rest[i] = todo[i + 1] /\ i + 1 \in 1..Len(todo)
  BY RestFacts, Zenon DEF Typed, TypeOK
<1>2. /\ DOMAIN todo' = 1..(Len(new) + Len(Rest)) /\ Len(new) \in Nat
      /\ \A i \in 1..(Len(new) + Len(Rest)) :
           i \notin 1..Len(new) =>
               /\ i - Len(new) \in 1..Len(Rest)
               /\ todo'[i] = Rest[i - Len(new)]
  BY ThenFacts, Zenon DEF Typed, TypeOK
<1> DEFINE n == Len(new)
           r == Len(Rest)
<1> HIDE DEF n, r
<1>3. /\ n \in Nat /\ r \in Nat /\ j \in 1..(n + r) /\ j \notin 1..n
      /\ \A i \in 1..r : i + 1 \in DOMAIN todo /\ Rest[i] = todo[i + 1]
      /\ \A i \in 1..(n + r) : i \notin 1..n => i - n \in 1..r /\ todo'[i] = Rest[i - n]
  BY <1>1, <1>2 DEF n, r
<1>4. j - n \in 1..r /\ todo'[j] = Rest[j - n]
  BY <1>3
<1> DEFINE k == j - n + 1
<1>5. k \in DOMAIN todo /\ todo'[j] = todo[k] /\ k # 1 /\ 1 \in 1..(k - 1)
  BY <1>3, <1>4, SMT
<1>6. ASSUME NEW i \in 1..(j - 1), i \notin 1..n
      PROVE  i - n + 1 \in 1..(k - 1) /\ todo'[i] = todo[i - n + 1]
  <2>1. i \in 1..(n + r)
    BY <1>3, SMT
  <2>2. i - n \in 1..r /\ todo'[i] = Rest[i - n]
    BY <1>3, <1>6, <2>1
  <2>3. todo'[i] = todo[i - n + 1]
    BY <1>3, <2>2
  <2>4. QED
    BY <1>3, <2>2, <2>3, SMT
<1>7. k = j - Len(new) + 1 /\ n = Len(new)
  BY DEF n
<1> HIDE DEF k
<1>8. \A i \in 1..(j - 1) : i \notin 1..Len(new) => \E h \in 1..(k - 1) : todo'[i] = todo[h]
  BY <1>6, <1>7, Zenon
<1>9. QED
  BY <1>5, <1>7, <1>8, Zenon

\* What is told behind a step is as true as before.
LEMMA TellsBehind ==
    ASSUME Typed, TellsAreTrue, todo # <<>>, UNCHANGED prompt,
           NEW new \in Seq(Calls), todo' = new \o Rest, Keeps(new),
           NEW j \in DOMAIN todo', j \notin 1..Len(new), todo'[j].do = "tell"
    PROVE  /\ \/ todo'[j].value = store'[todo'[j].point]
              \/ todo'[j].point \in prompt /\ todo'[j].value = NoValue
           /\ todo'[j].value = NoValue /\ todo'[j].point \in Asking
           /\ store'[todo'[j].point] = NoValue =>
                \/ \A i \in 1..(j - 1) : Quiet(todo'[i], todo'[j].point)
                \/ j # 1 => todo'[j].point \in prompt /\ Applying(todo'[1], todo'[j].point)
<1> DEFINE n == Len(new)
           p == todo'[j].point
<1>1. PICK k \in DOMAIN todo :
         /\ k # 1 /\ todo'[j] = todo[k] /\ 1 \in 1..(k - 1)
         /\ \A i \in 1..(j - 1) : i \notin 1..n => \E h \in 1..(k - 1) : todo'[i] = todo[h]
  BY Behind1, Zenon
<1>2. p \in Point
  <2>1. todo[k] \in Calls
    BY <1>1, RestFacts DEF Typed, TypeOK, Range
  <2>2. QED
    BY <1>1, <2>1, CallFields
<1>3. /\ todo[k].do = "tell" /\ todo[k].point = p
      /\ todo[k].value = store[p] \/ (p \in prompt /\ todo[k].value = NoValue)
      /\ todo[k].value = NoValue /\ p \in Asking
      /\ store[p] = NoValue => \/ \A i \in 1..(k - 1) : Quiet(todo[i], p)
                               \/ p \in prompt /\ Applying(todo[1], p)
  BY <1>1 DEF TellsAreTrue
<1> HIDE DEF p
<1>4. store'[p] = store[p] \/ (store'[p] # NoValue /\ ~ Quiet(todo[1], p))
  BY <1>2 DEF Keeps
<1>5. todo'[j].value = store'[p] \/ (p \in prompt /\ todo'[j].value = NoValue)
  BY <1>1, <1>3, <1>4
<1>6. ASSUME store'[p] = NoValue
      PROVE  \/ \A i \in 1..(j - 1) : Quiet(todo'[i], p)
             \/ j # 1 => p \in prompt /\ Applying(todo'[1], p)
  <2>1. /\ \A i \in 1..(k - 1) : Quiet(todo[i], p)
        /\ Quiet(todo[1], p)
    BY <1>1, <1>2, <1>3, <1>4, <1>6 DEF Keeps
  <2>2. CASE \A i \in 1..n : Quiet(new[i], p)
    <3>1. \A i \in 1..n : todo'[i] = new[i]
      BY ThenFacts DEF Typed, TypeOK
    <3>2. QED
      BY <1>1, <2>1, <2>2, <3>1
  <2>3. CASE p \in prompt /\ new # <<>> /\ Applying(new[1], p)
    <3>1. todo'[1] = new[1]
      <4>1. 1 \in 1..n
        BY <2>3, SMT
      <4>2. QED
        BY <4>1, ThenFacts DEF Typed, TypeOK
    <3>2. QED
      BY <2>3, <3>1
  <2>4. QED
    BY <1>2, <1>6, <2>1, <2>2, <2>3 DEF Keeps
<1>7. QED
  BY <1>1, <1>3, <1>5, <1>6 DEF p

\* If nothing is about to be told then nothing false is.
LEMMA TellsGone ==
    ASSUME Typed, NEW new \in Seq(Calls), todo' = new \o Rest,
           \A c \in Range(new) \cup Range(Rest) : c.do # "tell"
    PROVE  TellsAreTrue'
<1>1. Range(todo') = Range(new) \cup Range(Rest)
  BY ThenFacts DEF Typed, TypeOK
<1>2. \A j \in DOMAIN todo' : todo'[j].do # "tell"
  BY <1>1 DEF Range
<1>3. QED
  BY <1>2 DEF TellsAreTrue

\* A step that tells nothing itself.
LEMMA TellsKept ==
    ASSUME Typed, TellsAreTrue, todo # <<>>, UNCHANGED prompt,
           NEW new \in Seq(Calls), todo' = new \o Rest, Keeps(new),
           \A c \in Range(new) : c.do # "tell"
    PROVE  TellsAreTrue'
<1>1. ASSUME NEW j \in DOMAIN todo', todo'[j].do = "tell" PROVE j \notin 1..Len(new)
  <2> SUFFICES ASSUME j \in 1..Len(new) PROVE FALSE
    OBVIOUS
  <2>1. todo'[j] = new[j] /\ new[j] \in Range(new)
    BY ThenFacts, LenProperties DEF Typed, TypeOK, Range
  <2>2. QED
    BY <1>1, <2>1
<1>2. \A j \in DOMAIN todo' :
         todo'[j].do = "tell" =>
            /\ todo'[j].value = store'[todo'[j].point] \/ (todo'[j].point \in prompt' /\ todo'[j].value = NoValue)
            /\ j # 1 => todo'[j].value = NoValue /\ todo'[j].point \in Asking
            /\ j # 1 /\ store'[todo'[j].point] = NoValue =>
                 \/ \A i \in 1..(j - 1) : Quiet(todo'[i], todo'[j].point)
                 \/ todo'[j].point \in prompt' /\ Applying(todo'[1], todo'[j].point)
  BY <1>1, TellsBehind
<1>3. ASSUME NEW i \in DOMAIN todo', NEW j \in DOMAIN todo',
             todo'[i].do = "tell", todo'[j].do = "tell", todo'[i].point = todo'[j].point,
             todo'[i].value = NoValue, todo'[j].value = NoValue
      PROVE  i = j
  <2>1. i \notin 1..Len(new) /\ j \notin 1..Len(new)
    BY <1>1, <1>3
  <2>2. /\ i - Len(new) + 1 \in DOMAIN todo /\ todo'[i] = todo[i - Len(new) + 1]
        /\ j - Len(new) + 1 \in DOMAIN todo /\ todo'[j] = todo[j - Len(new) + 1]
    <3>1. PICK k \in DOMAIN todo : k = i - Len(new) + 1 /\ todo'[i] = todo[k]
      BY <2>1, Behind1, Zenon
    <3>2. PICK k1 \in DOMAIN todo : k1 = j - Len(new) + 1 /\ todo'[j] = todo[k1]
      BY <2>1, Behind1, Zenon
    <3>3. QED
      BY <3>1, <3>2
  <2>3. i - Len(new) + 1 = j - Len(new) + 1
    BY <1>3, <2>2 DEF TellsAreTrue
  <2>4. Len(new) \in Int /\ i \in Int /\ j \in Int
    BY ThenFacts, RestFacts, SMT DEF Typed, TypeOK
  <2>5. QED
    BY <2>3, <2>4, SMT
<1>4. QED
  BY <1>2, <1>3, Zenon DEF TellsAreTrue

\* push_message itself tells nothing: it has others notified.
LEMMA PushTellsNothing ==
    ASSUME NEW m, Fits(m), m.way = "up" \/ Known(m)
    PROVE  push_message(m) \in Seq(Calls) /\ \A c \in Range(push_message(m)) : c.do # "tell"
  BY PushIsGood, PushFacts DEF Fits

\* A call that changes no store, and that nothing that is asked for depends on.
LEMMA LoudKeeps ==
    ASSUME UNCHANGED store, NEW new,
           todo[1].do \notin {"apply", "trigger", "upstream", "listen"}
    PROVE  Keeps(new)
  BY DEF Keeps, Quiet, Applying

\* A store that changes has a value then.
LEMMA ChangesKeeps ==
    ASSUME Typed, NEW new, NEW p, NEW x, Changes(new, p, x), x # NoValue,
           todo[1].do = "apply" => todo[1].m.point = p,
           \A q \in Point : ~ Quiet(todo[1], q)
    PROVE  Keeps(new)
<1> SUFFICES ASSUME NEW q \in Point
             PROVE  /\ store'[q] = store[q] \/ store'[q] # NoValue
                    /\ Applying(todo[1], q) => store'[q] # NoValue
  BY DEF Keeps
<1>1. store'[q] = IF q = p THEN x ELSE store[q]
  BY DEF Changes, Typed, TypeOK
<1>2. QED
  BY <1>1 DEF Applying

\* Every step keeps true what is about to be told: before a store changes
\* everything that was read from it has been told, as only calls that change
\* nothing stand before it; unless the producer answers at once.
LEMMA TellsStep == Typed /\ TellsAreTrue /\ [Next]_vars => TellsAreTrue'
<1> SUFFICES ASSUME Typed, TellsAreTrue, [Next]_vars PROVE TellsAreTrue'
  OBVIOUS
<1>2. <<>> \in Seq(Calls) /\ Len(<<>>) = 0 /\ \A c \in Range(<<>>) : c.do # "tell"
  BY EmptyFacts
\* A call that is neither asking nor applying, with nothing called or a push.
<1>3. ASSUME todo # <<>>, UNCHANGED <<store, prompt>>,
             todo[1].do \notin {"apply", "trigger", "upstream", "listen"},
             todo' = <<>> \o Rest \/ \E m : Fits(m) /\ m.action = "update" /\ todo' = push_message(m) \o Rest
      PROVE  TellsAreTrue'
  <2>1. CASE todo' = <<>> \o Rest
    BY <1>2, <1>3, <2>1, LoudKeeps, TellsKept
  <2>2. ASSUME NEW m, Fits(m), m.action = "update", todo' = push_message(m) \o Rest
        PROVE  TellsAreTrue'
    <3>1. push_message(m) \in Seq(Calls) /\ \A c \in Range(push_message(m)) : c.do # "tell"
      BY <2>2, PushTellsNothing DEF Known
    <3>2. Keeps(push_message(m))
      BY <1>3, LoudKeeps
    <3>3. QED
      BY <1>3, <2>2, <3>1, <3>2, TellsKept
  <2>3. QED
    BY <1>3, <2>1, <2>2
<1>4. ASSUME todo # <<>>, Apply PROVE TellsAreTrue'
  <2>1. \A p : ~ Quiet(todo[1], p)
    BY <1>4, ApplyFacts DEF Quiet
  <2>2. UNCHANGED prompt /\ Fits(todo[1].m)
    BY <1>4, ApplyFacts
  <2>3. PICK new \in Seq(Calls) :
           /\ todo' = new \o Rest
           /\ \/ todo[1].m.way = "down" /\ Changes(new, todo[1].m.point, todo[1].m.payload)
              \/ todo[1].m.way = "up" /\ new = <<>> /\ UNCHANGED store
    BY <1>4, ApplyFacts
  <2>4. \A c \in Range(new) : c.do # "tell"
    BY <1>2, <2>3 DEF Changes
  <2>5. CASE todo[1].m.way = "down" /\ Changes(new, todo[1].m.point, todo[1].m.payload)
    <3>1. todo[1].m.payload # NoValue
      BY <2>2, <2>5 DEF Fits
    <3>2. QED
      BY <2>1, <2>5, <3>1, ChangesKeeps, <1>4, <2>2, <2>3, <2>4, TellsKept
  <2>6. CASE todo[1].m.way = "up" /\ UNCHANGED store
    <3>1. Keeps(new)
      BY <2>1, <2>6 DEF Keeps, Applying
    <3>2. QED
      BY <3>1, <1>4, <2>2, <2>3, <2>4, TellsKept
  <2>7. QED
    BY <2>3, <2>5, <2>6
<1>5. ASSUME todo # <<>>, Trigger PROVE TellsAreTrue'
  <2>1. UNCHANGED <<store, prompt>> /\ todo[1].do = "trigger"
    BY <1>5, TriggerFacts
  <2>2. CASE /\ [do |-> "upstream", m |-> todo[1].m] \in Calls
             /\ todo' = <<[do |-> "upstream", m |-> todo[1].m]>> \o Rest
    <3> DEFINE c == [do |-> "upstream", m |-> todo[1].m]
    <3>1. c.do # "tell" /\ \A p : Quiet(todo[1], p) => Quiet(c, p)
      BY DEF Quiet
    <3>2. c \in Calls /\ todo' = <<c>> \o Rest
      BY <2>2
    <3> HIDE DEF c
    <3>3. /\ <<c>> \in Seq(Calls) /\ \A i \in 1..Len(<<c>>) : <<c>>[i] = c
          /\ \A d \in Range(<<c>>) : d = c
      BY <3>2, EmptyFacts, SMT
    <3>4. Keeps(<<c>>)
      BY <2>1, <3>1, <3>3 DEF Keeps, Applying
    <3>5. QED
      BY <1>5, <2>1, <3>1, <3>2, <3>3, <3>4, TellsKept
  <2>3. CASE todo' = <<>> \o Rest
    <3>1. 1..Len(<<>>) = {}
      BY SMT
    <3>2. Keeps(<<>>)
      BY <2>1, <3>1 DEF Keeps, Applying
    <3>3. QED
      BY <1>2, <1>5, <2>1, <2>3, <3>2, TellsKept
  <2>4. ASSUME store[todo[1].m.point] # NoValue,
               NEW m \in Message, todo' = propagate_downstream(m) \o Rest
        PROVE  TellsAreTrue'
    <3>1. Keeps(propagate_downstream(m))
      BY <2>1, <2>4 DEF Keeps, Applying, Quiet, AskedFor
    <3>2. /\ propagate_downstream(m) \in Seq(Calls)
          /\ \A c \in Range(propagate_downstream(m)) : c.do # "tell"
      BY SendToFacts
    <3>3. QED
      BY <1>5, <2>1, <2>4, <3>1, <3>2, TellsKept
  <2>5. QED
    BY <1>5, <2>2, <2>3, <2>4, TriggerFacts
<1>6. ASSUME todo # <<>>, Listen PROVE TellsAreTrue'
  <2>0. UNCHANGED prompt /\ Fits(todo[1].m) /\ todo[1].do = "listen"
    BY <1>6, ListenStepFacts
  <2>1. PICK new \in Seq(Calls) :
           /\ todo' = new \o Rest
           /\ \/ todo[1].m.action = "update" /\ Changes(new, todo[1].point, todo[1].m.payload)
              \/ new = <<>> /\ UNCHANGED store
    BY <1>6, ListenStepFacts
  <2>2. CASE todo[1].m.action = "update" /\ Changes(new, todo[1].point, todo[1].m.payload)
    <3>1. \A p : ~ Quiet(todo[1], p)
      BY <2>2 DEF Quiet, AskedFor
    <3>2. \A c \in Range(new) : c.do # "tell"
      BY <2>2 DEF Changes
    <3>3. todo[1].m.payload # NoValue
      BY <2>0, <2>2 DEF Fits
    <3>4. Keeps(new)
      BY <2>0, <2>2, <3>1, <3>3, ChangesKeeps
    <3>5. QED
      BY <1>6, <2>0, <2>1, <3>2, <3>4, TellsKept
  <2>3. CASE new = <<>> /\ UNCHANGED store
    <3>1. 1..Len(new) = {} /\ \A c \in Range(new) : c.do # "tell"
      BY <1>2, <2>3, SMT
    <3>2. Keeps(new)
      BY <2>0, <2>3, <3>1 DEF Keeps, Applying
    <3>3. QED
      BY <1>6, <2>0, <2>1, <3>1, <3>2, TellsKept
  <2>4. QED
    BY <2>1, <2>2, <2>3
<1>7. ASSUME todo # <<>>, Notify PROVE TellsAreTrue'
  <2>1. todo[1].do = "notify" /\ UNCHANGED <<store, prompt>>
    BY <1>7, NotifyStepFacts
  <2> DEFINE p == todo[1].point
  <2>2. PICK new \in Seq(Calls) : \E k \in 1..Len(new) :
                /\ todo' = new \o Rest
                /\ new[k] = TellCall(todo[1].actor, p)
                /\ \A i \in 1..(k - 1) : Missing(p) /\ Quiet(new[i], p)
                /\ \A i \in 1..Len(new) : i > k => new[i].do # "tell"
    BY <1>7, NotifyStepFacts
  <2>3. PICK k \in 1..Len(new) :
                /\ todo' = new \o Rest
                /\ new[k] = TellCall(todo[1].actor, p)
                /\ \A i \in 1..(k - 1) : Missing(p) /\ Quiet(new[i], p)
                /\ \A i \in 1..Len(new) : i > k => new[i].do # "tell"
    BY <2>2
  <2>4. /\ Len(new) \in Nat
        /\ \A i \in 1..Len(new) : todo'[i] = new[i]
        /\ DOMAIN todo' \subseteq Nat
    BY <2>3, ThenFacts, SMT DEF Typed, TypeOK
  <2>5. \A i \in 1..(k - 1) : i \in 1..Len(new) /\ new[i].do # "tell"
    BY <2>3, <2>4, SMT DEF Quiet
  <2>6. ASSUME NEW j \in 1..Len(new), todo'[j].do = "tell" PROVE j = k
    <3>1. new[j].do = "tell"
      BY <2>4, <2>6
    <3>2. ~ (j > k) /\ ~ (j \in 1..(k - 1))
      BY <2>3, <2>5, <3>1
    <3>3. QED
      BY <2>4, <3>2, SMT
  <2>7. /\ todo'[k] = TellCall(todo[1].actor, p) /\ todo'[k].point = p /\ todo'[k].value = store[p]
        /\ todo'[k].do = "tell"
    BY <2>3, <2>4 DEF TellCall
  <2>8. \A i \in 1..(k - 1) : Missing(p) /\ Quiet(todo'[i], p)
    BY <2>3, <2>4, <2>5
  <2>9. k # 1 => 1 \in 1..(k - 1)
    BY <2>4, SMT
  <2>10. Keeps(new)
    BY <2>1, LoudKeeps
\* What was to be told before was asked for, and has been answered since.
  <2>11. ASSUME NEW j \in DOMAIN todo', todo'[j].do = "tell", j \notin 1..Len(new)
         PROVE  /\ store[todo'[j].point] # NoValue /\ todo'[j].point \in prompt
                /\ todo'[j].value = NoValue /\ todo'[j].point \in Asking
    <3>1. PICK i \in DOMAIN todo : i # 1 /\ todo'[j] = todo[i] /\ 1 \in 1..(i - 1)
      BY <1>7, <2>3, <2>11, Behind1, Zenon
    <3>2. ~ Quiet(todo[1], todo[i].point) /\ ~ Applying(todo[1], todo[i].point)
      BY <2>1 DEF Quiet, Applying
    <3>3. QED
      BY <2>11, <3>1, <3>2 DEF TellsAreTrue
  <2> HIDE DEF p
  <2>12. ASSUME NEW j \in DOMAIN todo', todo'[j].do = "tell"
         PROVE  /\ todo'[j].value = store'[todo'[j].point] \/ (todo'[j].point \in prompt' /\ todo'[j].value = NoValue)
                /\ j # 1 => todo'[j].value = NoValue /\ todo'[j].point \in Asking
                /\ j # 1 /\ store'[todo'[j].point] = NoValue =>
                     \/ \A i \in 1..(j - 1) : Quiet(todo'[i], todo'[j].point)
                     \/ todo'[j].point \in prompt' /\ Applying(todo'[1], todo'[j].point)
    <3>1. CASE j \in 1..Len(new)
      <4>1. j = k
        BY <2>6, <2>12, <3>1
      <4>2. k # 1 => Missing(p)
        BY <2>8, <2>9
      <4>3. QED
        BY <2>1, <2>7, <2>8, <4>1, <4>2 DEF Missing, Unset
    <3>2. CASE j \notin 1..Len(new)
      BY <2>1, <2>11, <2>12, <3>2
    <3>3. QED
      BY <3>1, <3>2
  <2>13. ASSUME NEW i \in DOMAIN todo', NEW j \in DOMAIN todo',
                todo'[i].do = "tell", todo'[j].do = "tell", todo'[i].point = todo'[j].point,
                todo'[i].value = NoValue, todo'[j].value = NoValue
         PROVE  i = j
    <3>1. CASE i \in 1..Len(new) /\ j \in 1..Len(new)
      BY <2>6, <2>13, <3>1
    <3>2. ASSUME NEW h \in {i, j}, NEW l \in {i, j}, h \in 1..Len(new), l \notin 1..Len(new)
          PROVE  FALSE
      <4>1. h = k
        BY <2>6, <2>13, <3>2
      <4>2. store[p] = NoValue /\ todo'[l].point = p
        BY <2>7, <2>13, <4>1
      <4>3. QED
        BY <2>11, <2>13, <3>2, <4>2
    <3>3. CASE i \notin 1..Len(new) /\ j \notin 1..Len(new)
      <4>1. /\ i - Len(new) + 1 \in DOMAIN todo /\ todo'[i] = todo[i - Len(new) + 1]
            /\ j - Len(new) + 1 \in DOMAIN todo /\ todo'[j] = todo[j - Len(new) + 1]
        <5>1. PICK h \in DOMAIN todo : h = i - Len(new) + 1 /\ todo'[i] = todo[h]
          BY <1>7, <2>3, <3>3, Behind1, Zenon
        <5>2. PICK h1 \in DOMAIN todo : h1 = j - Len(new) + 1 /\ todo'[j] = todo[h1]
          BY <1>7, <2>3, <3>3, Behind1, Zenon
        <5>3. QED
          BY <5>1, <5>2
      <4>2. i - Len(new) + 1 = j - Len(new) + 1
        BY <2>13, <4>1 DEF TellsAreTrue
      <4>3. QED
        BY <2>4, <4>2, SMT
    <3>4. QED
      BY <3>1, <3>2, <3>3
  <2>14. QED
    BY <2>12, <2>13, Zenon DEF TellsAreTrue
<1>8. ASSUME todo # <<>>, Tell PROVE TellsAreTrue'
  BY <1>3, <1>8, TellFacts
<1>9. ASSUME todo # <<>>, Send PROVE TellsAreTrue'
  BY <1>3, <1>9, SendFacts
<1>10. ASSUME todo # <<>>, Upstream PROVE TellsAreTrue'
  <2>1. UNCHANGED <<store, prompt>> /\ todo[1].do = "upstream"
    BY <1>10, CallFacts DEF Upstream
  <2>2. ASSUME todo[1].m.action = "update" \/ todo[1].m.point \in prompt,
               NEW m, Fits(m), m.way = "down", m.action = todo[1].m.action,
               m.point = todo[1].m.point, Known(m), todo' = push_message(m) \o Rest
        PROVE  TellsAreTrue'
    <3> DEFINE new == push_message(m)
    <3>1. new \in Seq(Calls) /\ \A c \in Range(new) : c.do # "tell"
      BY <2>2, PushTellsNothing
    <3>2. new # <<>> /\ Applying(new[1], m.point)
      <4>1. Len(new) >= 1 /\ new[1] = [do |-> "apply", m |-> m]
        BY <2>2, PushFacts DEF Fits
      <4> HIDE DEF new
      <4>2. QED
        BY <1>2, <2>2, <4>1, SMT DEF Applying
    <3> HIDE DEF new
    <3>3. Keeps(new)
      <4> SUFFICES ASSUME NEW p \in Point, Quiet(todo[1], p)
                   PROVE  p \in prompt /\ new # <<>> /\ Applying(new[1], p)
        BY <2>1 DEF Keeps, Applying
      <4>1. QED
        BY <2>2, <3>2 DEF Quiet, AskedFor
    <3>4. QED
      BY <1>10, <2>1, <2>2, <3>1, <3>3, TellsKept DEF new
  <2>3. CASE todo' = <<>> \o Rest
    <3>1. 1..Len(<<>>) = {}
      BY SMT
    <3>2. Keeps(<<>>)
      BY <2>1, <3>1 DEF Keeps, Applying
    <3>3. QED
      BY <1>2, <1>10, <2>1, <2>3, <3>2, TellsKept
  <2>4. QED
    BY <1>10, <2>2, <2>3, UpstreamFacts, Zenon
<1>11. ASSUME todo # <<>>, ProducerInit PROVE TellsAreTrue'
  BY <1>3, <1>11, ProducerInitFacts
<1>12. ASSUME todo # <<>>, ConsumerInit PROVE TellsAreTrue'
  <2>1. todo[1].do = "consumer_init" /\ UNCHANGED <<store, prompt>>
    BY <1>12, ConsumerInitFacts
  <2>2. PICK new \in Seq(Calls) : todo' = new \o Rest /\ \A c \in Range(new) : c.do = "notify"
    BY <1>12, ConsumerInitFacts
  <2>3. Keeps(new)
    BY <2>1, LoudKeeps
  <2>4. QED
    BY <1>12, <2>1, <2>2, <2>3, TellsKept
<1>13. ASSUME Rest = <<>>, NEW m, Fits(m), m.way = "up" \/ Known(m),
              todo' = push_message(m) \o Rest
       PROVE  TellsAreTrue'
  <2>1. push_message(m) \in Seq(Calls) /\ \A c \in Range(push_message(m)) : c.do # "tell"
    BY <1>13, PushTellsNothing
  <2>2. \A c \in Range(push_message(m)) \cup Range(Rest) : c.do # "tell"
    BY <1>2, <1>13, <2>1
  <2>3. QED
    BY <1>13, <2>1, <2>2, TellsGone
<1>14. ASSUME Push PROVE TellsAreTrue'
  BY <1>13, <1>14, PushStepFacts
<1>15. ASSUME NEW a \in Producers, Answer(a) PROVE TellsAreTrue'
  BY <1>13, <1>15, AnswerFacts
<1>16. CASE UNCHANGED vars
  BY <1>16 DEF vars, TellsAreTrue
<1>17. QED
  BY <1>4, <1>5, <1>6, <1>7, <1>8, <1>9, <1>10, <1>11, <1>12, <1>14, <1>15, <1>16
     DEF Next, Step

\* A call that will have a told what p is now.
TellsOf(c, a, p) ==
    /\ c.do \in {"notify", "tell"} /\ c.actor = a /\ c.point = p
    /\ c.do = "tell" => c.value = store[p]

\* A call that will have one told that there is nothing at p.
TellsNone(c, p) == c.do = "tell" /\ c.point = p /\ c.value = NoValue

\* A state consumer does not show what p is and nothing is about to tell it.
Behind(a, p) == view[a][p] # store[p] /\ \A c \in Range(todo) : ~ TellsOf(c, a, p)

\* Only one is ever behind, who asked a producer that answered at once: it was
\* told last that there is nothing.
ViewsFollow ==
    \A a \in StateConsumers, p \in Point :
        Behind(a, p) =>
            /\ p \in prompt /\ view[a][p] = NoValue
            /\ \A c \in Range(todo) : ~ TellsNone(c, p)
            /\ \A b \in StateConsumers : Behind(b, p) => a = b

\* Of the calls still to be made a step takes away no more than the first.
LEMMA CallsStay ==
    ASSUME Typed, todo # <<>>, NEW new \in Seq(Calls), todo' = new \o Rest
    PROVE  Range(todo') = Range(new) \cup Range(Rest) /\ Range(todo) = {todo[1]} \cup Range(Rest)
  BY ThenFacts, CallFacts DEF Typed, TypeOK

\* It is enough that nobody is left behind that was not, and that nobody is about to
\* be told that there is nothing, who was not, where there is something.
LEMMA NoneMoreBehind ==
    ASSUME ViewsFollow, UNCHANGED <<view, prompt>>,
           \A a \in StateConsumers, p \in Point : Behind(a, p)' => Behind(a, p),
           \A p \in Point : \A c \in Range(todo') :
               TellsNone(c, p) => (\E d \in Range(todo) : TellsNone(d, p)) \/ store[p] = NoValue
    PROVE  ViewsFollow'
<1> SUFFICES ASSUME NEW a \in StateConsumers, NEW p \in Point, Behind(a, p)'
             PROVE  /\ p \in prompt' /\ view'[a][p] = NoValue
                    /\ \A c \in Range(todo') : ~ TellsNone(c, p)
                    /\ \A b \in StateConsumers : Behind(b, p)' => a = b
  BY Zenon DEF ViewsFollow, TellsNone
<1>1. Behind(a, p) /\ \A b \in StateConsumers : Behind(b, p)' => Behind(b, p)
  OBVIOUS
<1>2. /\ p \in prompt /\ view[a][p] = NoValue
      /\ \A c \in Range(todo) : ~ TellsNone(c, p)
      /\ \A b \in StateConsumers : Behind(b, p) => a = b
  BY <1>1, Zenon DEF ViewsFollow
<1>3. store[p] # NoValue
  BY <1>1, <1>2 DEF Behind
<1>4. QED
  BY <1>1, <1>2, <1>3

\* Every step keeps views in step, or has them notified.
LEMMA ViewsStep == Typed /\ TellsAreTrue /\ ViewsFollow /\ [Next]_vars => ViewsFollow'
<1> SUFFICES ASSUME Typed, TellsAreTrue, ViewsFollow, [Next]_vars PROVE ViewsFollow'
  OBVIOUS
<1>0. <<>> \in Seq(Calls) /\ \A c \in Range(<<>>) : c.do # "tell"
  BY EmptyFacts
\* A call that is not for a state consumer and changes nothing that it sees.
<1>1. ASSUME todo # <<>>, UNCHANGED <<store, view, prompt>>, todo[1].do \notin {"notify", "tell"},
             NEW new \in Seq(Calls), todo' = new \o Rest, \A c \in Range(new) : c.do # "tell"
      PROVE  ViewsFollow'
  <2>1. /\ Range(todo') = Range(new) \cup Range(Rest)
        /\ Range(todo) = {todo[1]} \cup Range(Rest)
    BY <1>1, CallsStay
  <2>2. \A a, p : Behind(a, p)' => Behind(a, p)
    BY <1>1, <2>1 DEF Behind, TellsOf
  <2>3. \A p : \A c \in Range(todo') : TellsNone(c, p) => \E d \in Range(todo) : TellsNone(d, p)
    BY <1>1, <2>1 DEF TellsNone
  <2>4. QED
    BY <1>1, <2>2, <2>3, NoneMoreBehind
<1>2. ASSUME todo # <<>>, UNCHANGED <<view, prompt>>, todo[1].do \notin {"notify", "tell"},
             NEW new \in Seq(Calls), todo' = new \o Rest, NEW p, NEW x, Changes(new, p, x)
      PROVE  ViewsFollow'
  <2>1. /\ Range(todo') = Range(new) \cup Range(Rest)
        /\ Range(todo) = {todo[1]} \cup Range(Rest)
    BY <1>2, CallsStay
  <2>2. ASSUME NEW a \in StateConsumers PROVE ~ Behind(a, p)'
    <3> DEFINE c == [do |-> "notify", actor |-> a, point |-> p]
    <3>1. c \in Range(todo')
      BY <1>2, <2>1 DEF Changes
    <3>2. TellsOf(c, a, p)'
      BY DEF TellsOf
    <3>3. QED
      BY <3>1, <3>2 DEF Behind
  <2>3. ASSUME NEW a \in StateConsumers, NEW q \in Point, Behind(a, q)' PROVE Behind(a, q)
    <3>0. q # p
      BY <2>2, <2>3
    <3>1. store'[q] = store[q]
      BY <1>2, <3>0 DEF Changes, Typed, TypeOK
    <3>2. QED
      BY <1>2, <2>1, <2>3, <3>1 DEF Behind, TellsOf
  <2>4. \A q : \A c \in Range(todo') : TellsNone(c, q) => \E d \in Range(todo) : TellsNone(d, q)
    BY <1>2, <2>1 DEF TellsNone, Changes
  <2>5. QED
    BY <1>2, <2>3, <2>4, NoneMoreBehind
<1>3. ASSUME todo # <<>>, UNCHANGED <<store, view, prompt>>, todo[1].do \notin {"notify", "tell"},
             NEW m, Fits(m), m.way = "up" \/ Known(m), todo' = push_message(m) \o Rest
      PROVE  ViewsFollow'
  BY <1>1, <1>3, PushTellsNothing
<1>4. ASSUME todo # <<>>, Apply PROVE ViewsFollow'
  <2>1. UNCHANGED <<view, prompt>> /\ todo[1].do \notin {"notify", "tell"}
    BY <1>4, ApplyFacts
  <2>2. PICK new \in Seq(Calls) :
           /\ todo' = new \o Rest
           /\ (\E p, x : Changes(new, p, x)) \/ (new = <<>> /\ UNCHANGED store)
    BY <1>4, ApplyFacts
  <2>3. QED
    BY <1>0, <1>1, <1>2, <1>4, <2>1, <2>2
<1>5. ASSUME todo # <<>>, Trigger PROVE ViewsFollow'
  <2>1. UNCHANGED <<store, view, prompt>> /\ todo[1].do \notin {"notify", "tell"}
    BY <1>5, TriggerFacts
  <2>2. \E new \in Seq(Calls) : todo' = new \o Rest /\ \A c \in Range(new) : c.do # "tell"
    <3>1. ASSUME NEW m \in Message, todo' = propagate_downstream(m) \o Rest
          PROVE  \E new \in Seq(Calls) : todo' = new \o Rest /\ \A c \in Range(new) : c.do # "tell"
      <4>1. /\ propagate_downstream(m) \in Seq(Calls)
            /\ \A c \in Range(propagate_downstream(m)) : c.do # "tell"
        BY SendToFacts
      <4>2. QED
        BY <3>1, <4>1
    <3>2. CASE /\ [do |-> "upstream", m |-> todo[1].m] \in Calls
               /\ todo' = <<[do |-> "upstream", m |-> todo[1].m]>> \o Rest
      <4> DEFINE c == [do |-> "upstream", m |-> todo[1].m]
      <4>1. c \in Calls /\ c.do # "tell" /\ todo' = <<c>> \o Rest
        BY <3>2
      <4> HIDE DEF c
      <4>2. <<c>> \in Seq(Calls) /\ Range(<<c>>) = {c}
        BY <4>1, EmptyFacts
      <4>3. QED
        BY <4>1, <4>2
    <3>3. QED
      BY <1>0, <1>5, <3>1, <3>2, TriggerFacts
  <2>3. QED
    BY <1>1, <1>5, <2>1, <2>2
<1>6. ASSUME todo # <<>>, Listen PROVE ViewsFollow'
  <2>1. UNCHANGED <<view, prompt>> /\ todo[1].do \notin {"notify", "tell"}
    BY <1>6, ListenStepFacts
  <2>2. PICK new \in Seq(Calls) :
           /\ todo' = new \o Rest
           /\ (\E p, x : Changes(new, p, x)) \/ (new = <<>> /\ UNCHANGED store)
    BY <1>6, ListenStepFacts
  <2>3. QED
    BY <1>0, <1>1, <1>2, <1>6, <2>1, <2>2
<1>7. ASSUME todo # <<>>, Notify PROVE ViewsFollow'
  <2>1. UNCHANGED <<store, view, prompt>> /\ todo[1].do = "notify"
    BY <1>7, NotifyStepFacts
  <2>2. PICK new \in Seq(Calls) : \E k \in 1..Len(new) :
           /\ todo' = new \o Rest /\ new[k] = TellCall(todo[1].actor, todo[1].point)
           /\ \A i \in 1..(k - 1) : Quiet(new[i], todo[1].point)
           /\ \A i \in 1..Len(new) : i > k => new[i].do # "tell"
    BY <1>7, NotifyStepFacts
  <2>3. PICK k \in 1..Len(new) :
           /\ todo' = new \o Rest /\ new[k] = TellCall(todo[1].actor, todo[1].point)
           /\ \A i \in 1..(k - 1) : Quiet(new[i], todo[1].point)
           /\ \A i \in 1..Len(new) : i > k => new[i].do # "tell"
    BY <2>2
  <2>31. PICK t : t = TellCall(todo[1].actor, todo[1].point)
    OBVIOUS
  <2>4. t \in Range(new) /\ \A c \in Range(new) : c.do = "tell" => c = t
    <3>1. DOMAIN new = 1..Len(new) /\ Len(new) \in Nat
      BY LenProperties
    <3>2. ASSUME NEW i \in 1..Len(new), new[i].do = "tell" PROVE i = k
      <4>1. ~ (i > k) /\ ~ (i \in 1..(k - 1))
        BY <2>3, <3>2 DEF Quiet
      <4>2. QED
        BY <3>1, <4>1, SMT
    <3>3. QED
      BY <2>3, <2>31, <3>1, <3>2 DEF Range
  <2>5. /\ Range(todo') = Range(new) \cup Range(Rest)
        /\ Range(todo) = {todo[1]} \cup Range(Rest)
    BY <1>7, <2>3, CallsStay
  <2>6. /\ \A a, p : TellsOf(todo[1], a, p) => TellsOf(t, a, p)'
        /\ \A p : TellsNone(t, p) => store[p] = NoValue
    BY <2>1, <2>31 DEF TellsOf, TellCall, TellsNone
  <2>7. \A a, p : Behind(a, p)' => Behind(a, p)
    <3> SUFFICES ASSUME NEW a, NEW p, Behind(a, p)' PROVE Behind(a, p)
      OBVIOUS
    <3>1. view[a][p] # store[p] /\ \A c \in Range(todo') : ~ TellsOf(c, a, p)'
      BY <2>1 DEF Behind, TellsOf
    <3>2. \A c : TellsOf(c, a, p)' <=> TellsOf(c, a, p)
      BY <2>1 DEF TellsOf
    <3>3. QED
      BY <2>4, <2>5, <2>6, <3>1, <3>2 DEF Behind
  <2>8. \A p : \A c \in Range(todo') :
           TellsNone(c, p) => (\E d \in Range(todo) : TellsNone(d, p)) \/ store[p] = NoValue
    <3>1. \A p : \A c \in Range(new) : TellsNone(c, p) => store[p] = NoValue
      BY <2>4, <2>6 DEF TellsNone
    <3>2. QED
      BY <2>5, <3>1
  <2>9. QED
    BY <2>1, <2>7, <2>8, NoneMoreBehind
<1>8. ASSUME todo # <<>>, Tell PROVE ViewsFollow'
  <2>0. PICK b, r, v : b = todo[1].actor /\ r = todo[1].point /\ v = todo[1].value
    OBVIOUS
  <2>1. /\ todo[1].do = "tell" /\ b \in StateConsumers /\ r \in Point
        /\ view' = [view EXCEPT ![b][r] = v]
        /\ UNCHANGED <<store, prompt>>
        /\ todo' = <<>> \o Rest
    BY <1>8, <2>0, TellFacts
  <2>2. /\ Range(todo') = Range(Rest) /\ Range(todo) = {todo[1]} \cup Range(Rest)
        /\ Range(Rest) \subseteq Range(todo)
    BY <1>0, <1>8, <2>1, CallsStay, EmptyFacts
  <2>3. v = store[r] \/ (r \in prompt /\ v = NoValue)
    <3>1. 1 \in DOMAIN todo
      BY <1>8, TailFacts, SMT DEF Typed, TypeOK
    <3>2. QED
      BY <2>0, <2>1, <3>1 DEF TellsAreTrue
\* It is the only one that tells that there is nothing.
  <2>4. ASSUME NEW c \in Range(Rest), TellsNone(c, r) PROVE v # NoValue
    <3>1. PICK i \in 1..Len(Rest) : c = todo[i + 1] /\ i + 1 \in DOMAIN todo /\ 1 \in DOMAIN todo
      <4>1. DOMAIN Rest = 1..Len(Rest) /\ DOMAIN todo = 1..Len(todo)
            /\ \A i \in 1..Len(Rest) : Rest[i] = todo[i + 1] /\ i + 1 \in 1..Len(todo)
        BY RestFacts, Zenon DEF Typed, TypeOK
      <4>2. 1 \in DOMAIN todo
        BY <1>8, TailFacts, SMT DEF Typed, TypeOK
      <4>3. QED
        BY <4>1, <4>2 DEF Range
    <3>2. i + 1 # 1
      BY SMT
    <3>3. QED
      BY <2>0, <2>1, <2>4, <3>1, <3>2 DEF TellsAreTrue, TellsNone
  <2>5. view \in [StateConsumers -> [Point -> 0..Found]]
    BY DEF Typed, TypeOK
  <2>6. ASSUME NEW a \in StateConsumers, NEW q \in Point
        PROVE  view'[a][q] = IF a = b /\ q = r THEN v ELSE view[a][q]
    BY <2>1, <2>5, <2>6
  <2>7. \A c, a, q : TellsOf(c, a, q)' <=> TellsOf(c, a, q)
    BY <2>1 DEF TellsOf
  <2>8. ASSUME NEW a \in StateConsumers, NEW q \in Point, Behind(a, q)', ~ (a = b /\ q = r)
        PROVE  Behind(a, q)
    <3>1. ~ TellsOf(todo[1], a, q)
      BY <2>0, <2>8 DEF TellsOf
    <3>2. view[a][q] # store[q] /\ \A c \in Range(todo') : ~ TellsOf(c, a, q)
      BY <2>1, <2>6, <2>7, <2>8 DEF Behind
    <3>3. QED
      BY <2>2, <3>1, <3>2 DEF Behind
  <2>9. TellsNone(todo[1], r) <=> v = NoValue
    BY <2>0, <2>1 DEF TellsNone
  <2>10. Behind(b, r)' => r \in prompt /\ v = NoValue
    BY <2>1, <2>3, <2>6 DEF Behind
  <2> SUFFICES ASSUME NEW a \in StateConsumers, NEW q \in Point, Behind(a, q)'
               PROVE  /\ q \in prompt' /\ view'[a][q] = NoValue
                      /\ \A c \in Range(todo') : ~ TellsNone(c, q)
                      /\ \A d \in StateConsumers : Behind(d, q)' => a = d
    BY Zenon DEF ViewsFollow, TellsNone
  <2>11. CASE a = b /\ q = r
    <3>1. r \in prompt /\ v = NoValue
      BY <2>10, <2>11
    <3>2. \A c \in Range(todo') : ~ TellsNone(c, r)
      BY <2>2, <2>4, <3>1
    <3>3. ASSUME NEW d \in StateConsumers, Behind(d, r)' PROVE d = b
      <4> SUFFICES ASSUME d # b PROVE FALSE
        OBVIOUS
      <4>1. Behind(d, r)
        BY <2>1, <2>8, <3>3
      <4>2. ~ TellsNone(todo[1], r)
        BY <2>1, <2>2, <4>1 DEF ViewsFollow
      <4>3. QED
        BY <2>9, <3>1, <4>2
    <3>4. QED
      BY <2>1, <2>6, <2>11, <3>1, <3>2, <3>3
  <2>12. CASE ~ (a = b /\ q = r)
    <3>1. Behind(a, q)
      BY <2>8, <2>12
    <3>2. /\ q \in prompt /\ view[a][q] = NoValue
          /\ \A c \in Range(todo) : ~ TellsNone(c, q)
          /\ \A d \in StateConsumers : Behind(d, q) => a = d
      BY <3>1, Zenon DEF ViewsFollow
    <3>3. ASSUME NEW d \in StateConsumers, Behind(d, q)' PROVE a = d
      <4>1. CASE d = b /\ q = r
        <5>1. v = NoValue
          BY <2>10, <3>3, <4>1
        <5>2. QED
          BY <2>2, <2>9, <3>2, <4>1, <5>1
      <4>2. CASE ~ (d = b /\ q = r)
        BY <2>8, <3>2, <3>3, <4>2
      <4>3. QED
        BY <4>1, <4>2
    <3>4. QED
      BY <2>1, <2>2, <2>6, <2>12, <3>2, <3>3
  <2>13. QED
    BY <2>11, <2>12
<1>9. ASSUME todo # <<>>, Send PROVE ViewsFollow'
  <2>1. /\ todo[1].do \notin {"notify", "tell"} /\ UNCHANGED <<store, view, prompt>>
        /\ \/ todo' = <<>> \o Rest
           \/ \E m : Fits(m) /\ m.way = "up" /\ todo' = push_message(m) \o Rest
    BY <1>9, SendFacts
  <2>2. QED
    BY <1>0, <1>1, <1>3, <1>9, <2>1
<1>10. ASSUME todo # <<>>, Upstream PROVE ViewsFollow'
  <2>1. /\ todo[1].do \notin {"notify", "tell"} /\ UNCHANGED <<store, view, prompt>>
        /\ \/ todo' = <<>> \o Rest
           \/ \E m : Fits(m) /\ Known(m) /\ todo' = push_message(m) \o Rest
    <3>1. todo[1].do = "upstream" /\ UNCHANGED <<store, view, prompt>>
      BY <1>10, CallFacts DEF Upstream
    <3>2. \/ todo' = <<>> \o Rest
          \/ \E m : Fits(m) /\ Known(m) /\ todo' = push_message(m) \o Rest
      BY <1>10, UpstreamFacts, Zenon
    <3>3. QED
      BY <3>1, <3>2
  <2>2. QED
    BY <1>0, <1>1, <1>3, <1>10, <2>1
<1>11. ASSUME todo # <<>>, ProducerInit PROVE ViewsFollow'
  <2>1. /\ todo[1].do \notin {"notify", "tell"} /\ UNCHANGED <<store, view, prompt>>
        /\ \/ todo' = <<>> \o Rest
           \/ \E m : Fits(m) /\ Known(m) /\ todo' = push_message(m) \o Rest
    BY <1>11, ProducerInitFacts DEF Known
  <2>2. QED
    BY <1>0, <1>1, <1>3, <1>11, <2>1
<1>12. ASSUME todo # <<>>, ConsumerInit PROVE ViewsFollow'
  <2>1. todo[1].do \notin {"notify", "tell"} /\ UNCHANGED <<store, view, prompt>>
    BY <1>12, ConsumerInitFacts
  <2>2. PICK new \in Seq(Calls) : todo' = new \o Rest /\ \A c \in Range(new) : c.do = "notify"
    BY <1>12, ConsumerInitFacts
  <2>3. QED
    BY <1>1, <1>12, <2>1, <2>2
<1>13. ASSUME todo = <<>>, UNCHANGED <<store, view, prompt>>,
              NEW m, Fits(m), m.way = "up" \/ Known(m), todo' = push_message(m) \o Rest
       PROVE  ViewsFollow'
  <2>0. Range(Rest) = {} /\ push_message(m) \in Seq(Calls)
        /\ \A c \in Range(push_message(m)) : c.do # "tell"
    BY <1>13, EmptyFacts, PushTellsNothing DEF Rest
  <2>1. \A c \in Range(todo') : c.do # "tell"
    <3>1. Range(todo') = Range(push_message(m)) \cup Range(Rest)
      BY <1>13, <2>0, ThenFacts DEF Typed, TypeOK
    <3>2. QED
      BY <2>0, <3>1
  <2>2. \A a, p : Behind(a, p)' => Behind(a, p)
    BY <1>13, EmptyFacts DEF Behind
  <2>3. \A p : \A c \in Range(todo') : ~ TellsNone(c, p)
    BY <2>1 DEF TellsNone
  <2>4. QED
    BY <1>13, <2>2, <2>3, NoneMoreBehind
<1>14. ASSUME Push PROVE ViewsFollow'
  <2>1. todo = <<>> /\ UNCHANGED <<store, view, prompt>> /\ Rest = <<>>
    BY <1>14, PushStepFacts DEF Rest
  <2>2. QED
    BY <1>13, <1>14, <2>1, PushStepFacts
<1>15. ASSUME NEW a \in Producers, Answer(a) PROVE ViewsFollow'
  BY <1>13, <1>15, AnswerFacts
<1>16. CASE UNCHANGED vars
  BY <1>16 DEF vars, ViewsFollow, Behind, TellsOf, TellsNone
<1>17. QED
  BY <1>4, <1>5, <1>6, <1>7, <1>8, <1>9, <1>10, <1>11, <1>12, <1>14, <1>15, <1>16
     DEF Next, Step

\* No store has a value and nothing is shown.
LEMMA ViewsInit == Init => TellsAreTrue /\ ViewsFollow
<1> SUFFICES ASSUME Init PROVE TellsAreTrue /\ ViewsFollow
  OBVIOUS
<1>1. \A c \in Range(todo) : c.do # "tell"
  BY InitActorsFacts DEF Init
<1>2. TellsAreTrue
  BY <1>1 DEF TellsAreTrue, Range
<1>3. ViewsFollow
  BY DEF Init, ViewsFollow, Behind
<1>4. QED
  BY <1>2, <1>3

\* Whatever actors push while they are called: when the calls have returned each
\* state consumer shows what the stores hold, where producers answer a read after
\* the call.  Where they answer within it, only the one that asked is left behind
\* and shows nothing (push_message, match, notify_state_consumers).
THEOREM ViewsAreCurrent == Spec => []ViewIsCurrent
<1>1. Init => Typed /\ TellsAreTrue /\ ViewsFollow
  BY TypedInit, ViewsInit
<1>2. Typed /\ TellsAreTrue /\ ViewsFollow /\ [Next]_vars => (Typed /\ TellsAreTrue /\ ViewsFollow)'
  BY TypedStep, TellsStep, ViewsStep
<1>3. ViewsFollow => ViewIsCurrent
  <2> SUFFICES ASSUME ViewsFollow, todo = <<>>, NEW p \in Point,
                      NEW a \in StateConsumers, view[a][p] # store[p]
               PROVE  /\ p \in prompt /\ view[a][p] = NoValue
                      /\ {b \in StateConsumers : view[b][p] # store[p]} = {a}
    BY DEF ViewIsCurrent, Idle
  <2>1. \A b \in StateConsumers : Behind(b, p) <=> view[b][p] # store[p]
    BY EmptyFacts DEF Behind
  <2>2. QED
    BY <2>1 DEF ViewsFollow
<1>4. QED
  BY <1>1, <1>2, <1>3, PTL DEF Spec

---------------------------------------------------------------------------
(* What is missing is pursued *)

\* A producer has been asked for p and has not answered.
Awaited(p) ==
    \E i \in DOMAIN waiting[ProducerOf[p]] :
        waiting[ProducerOf[p]][i].action = "read" /\ waiting[ProducerOf[p]][i].point = p

\* A call that asks for p, and one that gets it.
Asks(c, p) == c.do \in {"trigger", "upstream"} /\ AskedFor(c.m, p)
Gets(c, p) == Asks(c, p) \/ Applying(c, p)

\* A call that will have asked for p, or got it, when it returns.
Pursues(c, a, p) ==
    \/ Gets(c, p)
    \/ c.do = "notify" /\ c.actor = a /\ c.point = p
    \/ c.do = "consumer_init" /\ c.actor = a

\* There is a value for p, or it is awaited, or the store has a placeholder.
Held(p) == store[p] # NoValue \/ Awaited(p) \/ p \in placeholders

\* What is missing in a view is in the store or on its way, or a call will have
\* asked for it; and so it is when a state consumer is told that it is missing.
MissingFollows ==
    /\ \A a \in StateConsumers \cap Consumers, p \in Asking :
         view[a][p] = NoValue => Held(p) \/ \E c \in Range(todo) : Pursues(c, a, p)
    /\ \A c \in Range(todo) :
         c.do = "tell" /\ c.point \in Asking /\ c.value = NoValue =>
             Held(c.point) \/ \E d \in Range(todo) : Gets(d, c.point)

\* What is awaited stays so when a message is added.
LEMMA AwaitedMore ==
    ASSUME Typed, NEW m, Fits(m),
           waiting' = [waiting EXCEPT ![ProducerOf[m.point]] = Append(@, m)]
    PROVE  \A p \in Point : /\ Awaited(p) => Awaited(p)'
                            /\ m.action = "read" /\ p = m.point => Awaited(p)'
<1> DEFINE o == ProducerOf[m.point]
<1>1. o \in Producers /\ m \in Message
  BY MessageFields, ActorAssumption DEF Fits
<1> HIDE DEF o
<1>2. waiting \in [Producers -> Seq(Message)]
  BY DEF Typed, TypeOK
<1>3. waiting' = [waiting EXCEPT ![o] = Append(waiting[o], m)]
  BY DEF o
<1>4. waiting'[o] = Append(waiting[o], m) /\ \A b \in Producers : b # o => waiting'[b] = waiting[b]
  BY <1>1, <1>2, <1>3
<1>5. waiting[o] \in Seq(Message)
  BY <1>1, <1>2
<1>6. /\ DOMAIN Append(waiting[o], m) = 1..(Len(waiting[o]) + 1) /\ Len(waiting[o]) \in Nat
      /\ DOMAIN waiting[o] = 1..Len(waiting[o])
      /\ \A i \in 1..Len(waiting[o]) : Append(waiting[o], m)[i] = waiting[o][i]
      /\ Append(waiting[o], m)[Len(waiting[o]) + 1] = m
  BY <1>1, <1>5, AppendProperties, LenProperties
<1>7. /\ \A i \in 1..Len(waiting[o]) : i \in DOMAIN waiting'[o] /\ waiting'[o][i] = waiting[o][i]
      /\ Len(waiting[o]) + 1 \in DOMAIN waiting'[o] /\ waiting'[o][Len(waiting[o]) + 1] = m
  BY <1>4, <1>6, SMT
<1>8. ASSUME m.action = "read" PROVE Awaited(m.point)'
  <2>1. \E i \in DOMAIN waiting'[o] : waiting'[o][i] = m
    BY <1>7
  <2>2. QED
    BY <1>8, <2>1 DEF Awaited, o
<1>9. ASSUME NEW p \in Point, Awaited(p) PROVE Awaited(p)'
  <2>1. ProducerOf[p] \in Producers
    BY ActorAssumption
  <2>2. CASE ProducerOf[p] = o
    BY <1>6, <1>7, <1>9, <2>2 DEF Awaited
  <2>3. CASE ProducerOf[p] # o
    BY <1>4, <1>9, <2>1, <2>3 DEF Awaited
  <2>4. QED
    BY <2>2, <2>3
<1>10. QED
  BY <1>8, <1>9

\* What is awaited stays so when another answer arrives.
LEMMA AwaitedLess ==
    ASSUME Typed, NEW a \in Producers, waiting[a] # <<>>,
           waiting' = [waiting EXCEPT ![a] = Tail(@)], NEW p \in Point, Awaited(p)
    PROVE  Awaited(p)' \/ (waiting[a][1].action = "read" /\ waiting[a][1].point = p)
<1>1. waiting \in [Producers -> Seq(Message)] /\ ProducerOf[p] \in Producers
  BY ActorAssumption DEF Typed, TypeOK
<1>2. /\ Len(Tail(waiting[a])) \in Nat
      /\ DOMAIN waiting[a] = 1..Len(waiting[a])
      /\ DOMAIN Tail(waiting[a]) = 1..Len(Tail(waiting[a]))
      /\ Len(waiting[a]) = Len(Tail(waiting[a])) + 1
      /\ \A i \in 1..Len(Tail(waiting[a])) : Tail(waiting[a])[i] = waiting[a][i + 1]
  BY <1>1, TailFacts
<1>3. CASE ProducerOf[p] # a
  BY <1>1, <1>3 DEF Awaited
<1>4. CASE ProducerOf[p] = a
  <2>1. PICK i \in DOMAIN waiting[a] : waiting[a][i].action = "read" /\ waiting[a][i].point = p
    BY <1>4 DEF Awaited
  <2>2. CASE i = 1
    BY <2>1, <2>2
  <2>3. CASE i # 1
    <3>1. i - 1 \in 1..Len(Tail(waiting[a])) /\ i - 1 + 1 = i
      BY <1>2, <2>1, <2>3, SMT
    <3>2. Tail(waiting[a])[i - 1] = waiting[a][i]
      BY <1>2, <3>1
    <3>3. waiting'[a] = Tail(waiting[a])
      BY <1>1
    <3>4. \E j \in DOMAIN waiting'[a] : waiting'[a][j].action = "read" /\ waiting'[a][j].point = p
      BY <1>2, <2>1, <3>1, <3>2, <3>3
    <3>5. QED
      BY <1>4, <3>4 DEF Awaited
  <2>4. QED
    BY <2>2, <2>3
<1>5. QED
  BY <1>3, <1>4

\* Nothing happens to what is awaited.
LEMMA AwaitedSame ==
    ASSUME UNCHANGED waiting
    PROVE  \A p : Awaited(p) => Awaited(p)'
  BY DEF Awaited

\* The pursuit of what is missing goes on when the next call is replaced by
\* calls that go on with what it pursues.
LEMMA PursuitGoesOn ==
    ASSUME Typed, MissingFollows, todo # <<>>, UNCHANGED view,
           \A p \in Asking : Held(p) => Held(p)',
           NEW new \in Seq(Calls), todo' = new \o Rest,
           \A a \in StateConsumers \cap Consumers, p \in Asking :
               Pursues(todo[1], a, p) => Held(p)' \/ \E c \in Range(new) : Pursues(c, a, p),
           \A p \in Asking :
               Gets(todo[1], p) => Held(p)' \/ \E c \in Range(new) : Gets(c, p),
           \A c \in Range(new) :
               c.do = "tell" /\ c.point \in Asking /\ c.value = NoValue =>
                   Held(c.point)' \/ \E d \in Range(new) : Gets(d, c.point)
    PROVE  MissingFollows'
<1>1. Range(todo') = Range(new) \cup Range(Rest) /\ Range(todo) = {todo[1]} \cup Range(Rest)
  BY CallsStay
<1>2. ASSUME NEW a \in StateConsumers \cap Consumers, NEW p \in Asking, view'[a][p] = NoValue
      PROVE  Held(p)' \/ \E c \in Range(todo') : Pursues(c, a, p)
  <2>1. Held(p) \/ \E c \in Range(todo) : Pursues(c, a, p)
    BY <1>2 DEF MissingFollows
  <2>2. (\E c \in Range(todo) : Pursues(c, a, p)) =>
            Pursues(todo[1], a, p) \/ \E c \in Range(Rest) : Pursues(c, a, p)
    BY <1>1
  <2>3. QED
    BY <1>1, <2>1, <2>2
<1>3. ASSUME NEW c \in Range(todo'), c.do = "tell", c.point \in Asking, c.value = NoValue
      PROVE  Held(c.point)' \/ \E d \in Range(todo') : Gets(d, c.point)
  <2>1. CASE c \in Range(new)
    BY <1>1, <1>3, <2>1
  <2>2. CASE c \in Range(Rest)
    <3>1. Held(c.point) \/ \E d \in Range(todo) : Gets(d, c.point)
      BY <1>1, <1>3, <2>2 DEF MissingFollows
    <3>2. QED
      BY <1>1, <1>3, <3>1
  <2>3. QED
    BY <1>1, <2>1, <2>2
<1>4. QED
  BY <1>2, <1>3, Zenon DEF MissingFollows, Pursues, Gets, Asks, Applying

\* A call that pursues nothing, and what is not told.
LEMMA NothingPursued ==
    ASSUME Typed, MissingFollows, todo # <<>>, UNCHANGED view,
           \A p \in Asking : Held(p) => Held(p)',
           NEW new \in Seq(Calls), todo' = new \o Rest,
           \A a, p : ~ Pursues(todo[1], a, p),
           \A c \in Range(new) : c.do # "tell"
    PROVE  MissingFollows'
<1>1. \A p : ~ Gets(todo[1], p)
  BY DEF Pursues
<1>2. QED
  BY <1>1, PursuitGoesOn

\* What is applied is a call of push_message.
LEMMA PushApplies ==
    ASSUME NEW m, Fits(m), m.way = "down"
    PROVE  \E c \in Range(push_message(m)) : Applying(c, m.point)
<1> DEFINE s == push_message(m)
<1>1. /\ s \in Seq(Calls) /\ DOMAIN s = 1..Len(s) /\ Len(s) >= 1 /\ Len(s) \in Nat
      /\ s[1] = [do |-> "apply", m |-> m]
  BY PushFacts, LenProperties DEF Fits
<1> HIDE DEF s
<1>2. 1 \in 1..Len(s) /\ Applying(s[1], m.point)
  BY <1>1, SMT DEF Applying
<1>3. QED
  BY <1>1, <1>2 DEF Range, s

\* Nothing happens to what there is and what is awaited.
LEMMA HeldSame ==
    ASSUME UNCHANGED <<store, waiting, placeholders>>
    PROVE  \A p : Held(p) <=> Held(p)'
  BY DEF Held, Awaited

\* No step leaves something missing that nobody asks for.
LEMMA MissingStep == Typed /\ MissingFollows /\ [Next]_vars => MissingFollows'
<1> SUFFICES ASSUME Typed, MissingFollows, [Next]_vars PROVE MissingFollows'
  OBVIOUS
<1>0. /\ <<>> \in Seq(Calls) /\ \A c \in Range(<<>>) : c.do # "tell"
      /\ \A m : Fits(m) /\ (m.way = "up" \/ Known(m)) =>
            /\ push_message(m) \in Seq(Calls)
            /\ \A c \in Range(push_message(m)) : c.do # "tell"
  BY EmptyFacts, PushTellsNothing
<1>1. ASSUME NEW p \in Asking PROVE p \in Point /\ p \notin Listening
  BY PointAssumption
<1>2. ASSUME todo # <<>>, Apply PROVE MissingFollows'
  <2> DEFINE m == todo[1].m
  <2>1. todo[1].do = "apply" /\ UNCHANGED <<view, waiting>> /\ Fits(m)
    BY <1>2, ApplyFacts
  <2>2. PICK new \in Seq(Calls) :
           /\ todo' = new \o Rest
           /\ \/ /\ m.way = "down" /\ Changes(new, m.point, m.payload)
                 /\ placeholders' = placeholders \ {m.point}
              \/ m.way = "up" /\ new = <<>> /\ UNCHANGED <<store, placeholders>>
    BY <1>2, ApplyFacts
  <2>3. CASE /\ m.way = "down" /\ Changes(new, m.point, m.payload)
             /\ placeholders' = placeholders \ {m.point}
    <3>1. /\ store' = [store EXCEPT ![m.point] = m.payload] /\ m.point \in Point
          /\ \A c \in Range(new) : c.do = "notify"
      BY <2>3 DEF Changes
    <3>2. m.payload # NoValue
      BY <2>1, <2>3 DEF Fits
    <3>3. ASSUME NEW p \in Point PROVE (Held(p) => Held(p)') /\ (p = m.point => Held(p)')
      <4>1. store'[p] = IF p = m.point THEN m.payload ELSE store[p]
        BY <3>1 DEF Typed, TypeOK
      <4>2. Awaited(p) <=> Awaited(p)'
        BY <2>1 DEF Awaited
      <4>3. QED
        BY <2>3, <3>2, <4>1, <4>2 DEF Held
    <3>4. \A p : Gets(todo[1], p) => p = m.point
      BY <2>1 DEF Gets, Asks, Applying
    <3>5. \A a, p : Pursues(todo[1], a, p) => p = m.point
      BY <2>1, <3>4 DEF Pursues
    <3> HIDE DEF m
    <3>6. QED
      BY <1>1, <1>2, <2>1, <2>2, <3>1, <3>3, <3>4, <3>5, PursuitGoesOn
  <2>4. CASE m.way = "up" /\ new = <<>> /\ UNCHANGED <<store, placeholders>>
    <3>1. \A a, p : ~ Pursues(todo[1], a, p)
      BY <2>1, <2>4 DEF Pursues, Gets, Asks, Applying
    <3>2. QED
      BY <1>0, <1>2, <2>1, <2>2, <2>4, <3>1, HeldSame, NothingPursued
  <2>5. QED
    BY <2>2, <2>3, <2>4
<1>3. ASSUME todo # <<>>, Trigger PROVE MissingFollows'
  <2>0. PICK q : q = todo[1].m.point
    OBVIOUS
  <2>1. /\ todo[1].do = "trigger" /\ UNCHANGED <<store, view, waiting>> /\ q \in Asking
        /\ placeholders \subseteq placeholders'
    BY <1>3, <2>0, TriggerFacts
  <2>2. /\ \A p : Gets(todo[1], p) => p = q
        /\ \A a, p : Pursues(todo[1], a, p) => p = q
    BY <2>0, <2>1 DEF Gets, Asks, Applying, Pursues, AskedFor
  <2>3. \A p : Held(p) => Held(p)'
    BY <2>1, AwaitedSame DEF Held
  <2>4. CASE /\ [do |-> "upstream", m |-> todo[1].m] \in Calls
             /\ todo' = <<[do |-> "upstream", m |-> todo[1].m]>> \o Rest
    <3> DEFINE c == [do |-> "upstream", m |-> todo[1].m]
    <3>1. c.do = "upstream" /\ \A p : Gets(todo[1], p) => Gets(c, p)
      BY <2>1 DEF Gets, Asks, Applying
    <3>2. \A a, p : Pursues(todo[1], a, p) => Pursues(c, a, p)
      BY <2>1, <3>1 DEF Pursues
    <3>3. c \in Calls /\ todo' = <<c>> \o Rest
      BY <2>4
    <3> HIDE DEF c
    <3>4. <<c>> \in Seq(Calls) /\ Range(<<c>>) = {c}
      BY <3>3, EmptyFacts
    <3>5. QED
      BY <1>3, <2>1, <2>3, <3>1, <3>2, <3>3, <3>4, PursuitGoesOn
  <2>5. ASSUME Held(q)', NEW new \in Seq(Calls), todo' = new \o Rest,
               \A c \in Range(new) : c.do # "tell"
        PROVE  MissingFollows'
    <3>1. \A p : Gets(todo[1], p) => Held(p)'
      BY <2>2, <2>5
    <3>2. \A a, p : Pursues(todo[1], a, p) => Held(p)'
      BY <2>2, <2>5
    <3>3. QED
      BY <1>3, <2>1, <2>3, <2>5, <3>1, <3>2, PursuitGoesOn
  <2>6. ASSUME store[q] # NoValue, NEW m \in Message, todo' = propagate_downstream(m) \o Rest
        PROVE  MissingFollows'
    <3>1. /\ propagate_downstream(m) \in Seq(Calls)
          /\ \A c \in Range(propagate_downstream(m)) : c.do # "tell"
      BY SendToFacts
    <3>2. \A p : store[p] # NoValue => Held(p)'
      BY <2>1 DEF Held
    <3>3. QED
      BY <2>5, <2>6, <3>1, <3>2
  <2>7. CASE q \in placeholders' /\ todo' = <<>> \o Rest
    <3>1. \A p \in placeholders' : Held(p)'
      BY DEF Held
    <3>2. QED
      BY <1>0, <2>5, <2>7, <3>1
  <2>8. QED
    BY <1>3, <2>0, <2>4, <2>6, <2>7, TriggerFacts
<1>4. ASSUME todo # <<>>, Listen PROVE MissingFollows'
  <2>1. /\ todo[1].do = "listen" /\ UNCHANGED <<view, waiting, placeholders>>
    BY <1>4, ListenStepFacts
  <2>2. PICK new \in Seq(Calls) :
           /\ todo' = new \o Rest
           /\ \/ todo[1].point \in Listening /\ Changes(new, todo[1].point, todo[1].m.payload)
              \/ new = <<>> /\ UNCHANGED store
    BY <1>4, ListenStepFacts
  <2>3. \A p \in Asking : store'[p] = store[p]
    BY <1>1, <2>2 DEF Changes, Typed, TypeOK
  <2>4. \A c \in Range(new) : c.do # "tell"
    BY <1>0, <2>2 DEF Changes
  <2>5. \A a, p : ~ Pursues(todo[1], a, p)
    BY <2>1 DEF Pursues, Gets, Asks, Applying
  <2>51. \A p \in Asking : Held(p) => Held(p)'
    BY <2>1, <2>3, AwaitedSame DEF Held
  <2>6. QED
    BY <1>4, <2>1, <2>2, <2>4, <2>5, <2>51, NothingPursued
<1>5. ASSUME todo # <<>>, Notify PROVE MissingFollows'
  <2>0. todo[1].do = "notify" /\ UNCHANGED <<store, view, waiting, placeholders>>
    BY <1>5, NotifyStepFacts
  <2>01. PICK q : q = todo[1].point
    OBVIOUS
  <2>1. /\ \A p : ~ Gets(todo[1], p)
        /\ \A a, p : Pursues(todo[1], a, p) => p = q
    BY <2>0, <2>01 DEF Pursues, Gets, Asks, Applying
  <2>2. PICK new \in Seq(Calls) : \E k \in 1..Len(new) :
                /\ todo' = new \o Rest
                /\ new[k] = TellCall(todo[1].actor, q)
                /\ \A i \in 1..(k - 1) :
                     /\ Quiet(new[i], q)
                     /\ new[i].do = (IF i = 1 THEN "trigger" ELSE "listen")
                /\ Missing(q) => k > 1
                /\ \A i \in 1..Len(new) : i > k => new[i].do # "tell"
    BY <1>5, <2>01, NotifyStepFacts
  <2>3. PICK k \in 1..Len(new) :
                /\ todo' = new \o Rest
                /\ new[k] = TellCall(todo[1].actor, q)
                /\ \A i \in 1..(k - 1) :
                     /\ Quiet(new[i], q)
                     /\ new[i].do = (IF i = 1 THEN "trigger" ELSE "listen")
                /\ Missing(q) => k > 1
                /\ \A i \in 1..Len(new) : i > k => new[i].do # "tell"
    BY <2>2
  <2>4. DOMAIN new = 1..Len(new) /\ Len(new) \in Nat
    BY <2>2, LenProperties
  <2>5. Missing(q) => \E c \in Range(new) : Gets(c, q) /\ \A a : Pursues(c, a, q)
    <3> SUFFICES ASSUME Missing(q)
                 PROVE  \E c \in Range(new) : Gets(c, q) /\ \A a : Pursues(c, a, q)
      OBVIOUS
    <3>1. 1 \in 1..(k - 1) /\ 1 \in 1..Len(new)
      BY <2>3, <2>4, SMT
    <3>2. Quiet(new[1], q) /\ new[1].do = "trigger"
      BY <2>3, <3>1
    <3>3. Gets(new[1], q) /\ \A a : Pursues(new[1], a, q)
      BY <3>2 DEF Quiet, Gets, Asks, Pursues
    <3>4. QED
      BY <2>4, <3>1, <3>3 DEF Range
  <2>6. ASSUME NEW c \in Range(new), c.do = "tell" PROVE c = TellCall(todo[1].actor, q)
    <3>1. PICK i \in 1..Len(new) : c = new[i]
      BY <2>4 DEF Range
    <3>2. ~ (i > k)
      BY <2>3, <2>6, <3>1
    <3>3. ~ (i \in 1..(k - 1))
      <4>1. ASSUME i \in 1..(k - 1) PROVE FALSE
        <5>1. Quiet(new[i], q)
          BY <2>3, <4>1
        <5>2. QED
          BY <2>6, <3>1, <5>1 DEF Quiet
      <4>2. QED
        BY <4>1
    <3>4. i = k
      BY <2>4, <3>2, <3>3, SMT
    <3>5. QED
      BY <2>3, <3>1, <3>4
  <2>61. q \in Asking /\ ~ Missing(q) => Held(q)'
    BY <2>0 DEF Missing, Unset, Held
  <2>7. ASSUME NEW c \in Range(new), c.do = "tell", c.point \in Asking, c.value = NoValue
        PROVE  Held(c.point)' \/ \E d \in Range(new) : Gets(d, c.point)
    <3>1. c.point = q
      BY <2>6, <2>7 DEF TellCall
    <3>2. QED
      BY <2>5, <2>61, <2>7, <3>1
  <2>8. \A a \in StateConsumers \cap Consumers, p \in Asking :
          Pursues(todo[1], a, p) => Held(p)' \/ \E c \in Range(new) : Pursues(c, a, p)
    <3>1. QED
      BY <2>1, <2>5, <2>61
  <2>9. QED
    BY <1>5, <2>0, <2>1, <2>3, <2>7, <2>8, HeldSame, PursuitGoesOn
<1>6. ASSUME todo # <<>>, Tell PROVE MissingFollows'
  <2> DEFINE b == todo[1].actor r == todo[1].point
  <2>1. /\ todo[1].do = "tell" /\ b \in StateConsumers /\ r \in Point
        /\ view' = [view EXCEPT ![b][r] = todo[1].value]
        /\ UNCHANGED <<store, waiting, placeholders>>
        /\ todo' = <<>> \o Rest
    BY <1>6, TellFacts
  <2>2. /\ Range(todo') = Range(Rest) /\ Range(todo) = {todo[1]} \cup Range(Rest)
        /\ todo[1] \in Range(todo)
    BY <1>0, <1>6, <2>1, CallsStay, EmptyFacts
  <2>3. \A a, p : ~ Pursues(todo[1], a, p) /\ ~ Gets(todo[1], p)
    BY <2>1 DEF Pursues, Gets, Asks, Applying
  <2>4. view \in [StateConsumers -> [Point -> 0..Found]]
    BY DEF Typed, TypeOK
  <2>40. \A p : Held(p) <=> Held(p)'
    BY <2>1, HeldSame
  <2>5. ASSUME NEW a \in StateConsumers \cap Consumers, NEW p \in Asking, view'[a][p] = NoValue
        PROVE  Held(p)' \/ \E c \in Range(todo') : Pursues(c, a, p)
    <3>1. CASE a = b /\ p = r
      <4>1. todo[1].value = NoValue
        BY <1>1, <2>1, <2>4, <2>5, <3>1
      <4>2. Held(p) \/ \E d \in Range(todo) : Gets(d, p)
        BY <2>1, <2>2, <3>1, <4>1 DEF MissingFollows
      <4>3. QED
        BY <2>2, <2>3, <2>40, <4>2 DEF Pursues
    <3>2. CASE ~ (a = b /\ p = r)
      <4>1. view[a][p] = NoValue
        BY <1>1, <2>1, <2>4, <2>5, <3>2
      <4>2. Held(p) \/ \E c \in Range(todo) : Pursues(c, a, p)
        BY <4>1 DEF MissingFollows
      <4>3. QED
        BY <2>2, <2>3, <2>40, <4>2
    <3>3. QED
      BY <3>1, <3>2
  <2>6. ASSUME NEW c \in Range(todo'), c.do = "tell", c.point \in Asking, c.value = NoValue
        PROVE  Held(c.point)' \/ \E d \in Range(todo') : Gets(d, c.point)
    BY <2>2, <2>3, <2>6, <2>40 DEF MissingFollows
  <2>7. QED
    BY <2>5, <2>6, Zenon DEF MissingFollows, Pursues, Gets, Asks, Applying
<1>7. ASSUME todo # <<>>, Send PROVE MissingFollows'
  <2>1. /\ todo[1].do = "send" /\ UNCHANGED <<store, view, waiting, placeholders>>
        /\ \/ todo' = <<>> \o Rest
           \/ \E m : Fits(m) /\ m.way = "up" /\ todo' = push_message(m) \o Rest
    BY <1>7, SendFacts
  <2>2. \A a, p : ~ Pursues(todo[1], a, p)
    BY <2>1 DEF Pursues, Gets, Asks, Applying
  <2>3. PICK new \in Seq(Calls) : todo' = new \o Rest /\ \A c \in Range(new) : c.do # "tell"
    BY <1>0, <2>1
  <2>4. QED
    BY <1>7, <2>1, <2>2, <2>3, HeldSame, NothingPursued
<1>8. ASSUME todo # <<>>, Upstream PROVE MissingFollows'
  <2> DEFINE q == todo[1].m
  <2>1. todo[1].do = "upstream" /\ UNCHANGED <<store, view, placeholders>> /\ Fits(q)
    <3>1. todo[1].do = "upstream" /\ Goes(q)
      BY <1>8, UpstreamFacts, Zenon
    <3>2. UNCHANGED <<store, view, placeholders>>
      BY <1>8 DEF Upstream
    <3>3. QED
      BY <3>1, <3>2 DEF Goes
  <2>2. /\ \A p : Gets(todo[1], p) => q.action = "read" /\ p = q.point
        /\ \A a, p : Pursues(todo[1], a, p) => q.action = "read" /\ p = q.point
    BY <2>1 DEF Pursues, Gets, Asks, Applying, AskedFor
\* The producer answers.
  <2>3. ASSUME UNCHANGED waiting, NEW m, Fits(m), m.way = "down", Known(m), m.point = q.point,
               todo' = push_message(m) \o Rest
        PROVE  MissingFollows'
    <3> DEFINE new == push_message(m)
    <3>1. new \in Seq(Calls) /\ \A c \in Range(new) : c.do # "tell"
      BY <1>0, <2>3
    <3>2. PICK c \in Range(new) : Applying(c, m.point)
      BY <2>3, PushApplies
    <3> HIDE DEF new
    <3>3. Gets(c, q.point) /\ \A a : Pursues(c, a, q.point)
      BY <2>3, <3>2 DEF Gets, Pursues
    <3>4. \A p : Held(p) => Held(p)'
      BY <2>1, <2>3, HeldSame
    <3> HIDE DEF q
    <3>5. /\ \A p : Gets(todo[1], p) => \E d \in Range(new) : Gets(d, p)
          /\ \A a, p : Pursues(todo[1], a, p) => \E d \in Range(new) : Pursues(d, a, p)
      BY <2>2, <3>3
    <3>6. todo' = new \o Rest
      BY <2>3 DEF new
    <3>7. QED
      BY <1>8, <2>1, <3>1, <3>4, <3>5, <3>6, PursuitGoesOn
\* It will.
  <2>4. CASE /\ waiting' = [waiting EXCEPT ![ProducerOf[q.point]] = Append(@, q)]
             /\ todo' = <<>> \o Rest
    <3>1. \A p \in Asking : /\ Awaited(p) => Awaited(p)'
                            /\ q.action = "read" /\ p = q.point => Awaited(p)'
      BY <1>1, <2>1, <2>4, AwaitedMore
    <3>2. \A p \in Asking : /\ Held(p) => Held(p)'
                            /\ q.action = "read" /\ p = q.point => Held(p)'
      BY <2>1, <3>1 DEF Held
    <3> HIDE DEF q
    <3>3. \A p \in Asking : /\ Gets(todo[1], p) => Held(p)'
                            /\ \A a : Pursues(todo[1], a, p) => Held(p)'
      BY <2>2, <3>2
    <3>4. QED
      BY <1>0, <1>8, <2>1, <2>4, <3>2, <3>3, PursuitGoesOn
  <2>5. QED
    BY <1>8, <2>3, <2>4, UpstreamFacts, Zenon
<1>9. ASSUME todo # <<>>, ProducerInit PROVE MissingFollows'
  <2>1. /\ todo[1].do = "producer_init" /\ UNCHANGED <<store, view, waiting, placeholders>>
        /\ \/ todo' = <<>> \o Rest
           \/ \E m : Fits(m) /\ Known(m) /\ todo' = push_message(m) \o Rest
    BY <1>9, ProducerInitFacts DEF Known
  <2>2. \A a, p : ~ Pursues(todo[1], a, p)
    BY <2>1 DEF Pursues, Gets, Asks, Applying
  <2>3. PICK new \in Seq(Calls) : todo' = new \o Rest /\ \A c \in Range(new) : c.do # "tell"
    BY <1>0, <2>1
  <2>4. QED
    BY <1>9, <2>1, <2>2, <2>3, HeldSame, NothingPursued
<1>10. ASSUME todo # <<>>, ConsumerInit PROVE MissingFollows'
  <2>1. /\ todo[1].do = "consumer_init" /\ UNCHANGED <<store, view, waiting, placeholders>>
    BY <1>10, ConsumerInitFacts
  <2>2. PICK new \in Seq(Calls) :
          /\ todo' = new \o Rest
          /\ \A c \in Range(new) : c.do = "notify"
          /\ todo[1].actor \in StateConsumers => \A p \in Point :
               [do |-> "notify", actor |-> todo[1].actor, point |-> p] \in Range(new)
    BY <1>10, ConsumerInitFacts
  <2>3. /\ \A p : ~ Gets(todo[1], p)
        /\ \A a, p : Pursues(todo[1], a, p) => a = todo[1].actor
    BY <2>1 DEF Pursues, Gets, Asks, Applying
  <2>4. \A a, p : Pursues([do |-> "notify", actor |-> a, point |-> p], a, p)
    BY DEF Pursues
  <2>5. \A a \in StateConsumers \cap Consumers, p \in Asking :
          Pursues(todo[1], a, p) => \E c \in Range(new) : Pursues(c, a, p)
    BY <1>1, <2>2, <2>3, <2>4
  <2>6. \A c \in Range(new) : c.do # "tell"
    BY <2>2
  <2>7. QED
    BY <1>10, <2>1, <2>2, <2>3, <2>5, <2>6, HeldSame, PursuitGoesOn
\* Nothing was to be called.
<1>11. ASSUME todo = <<>>, UNCHANGED view, NEW new \in Seq(Calls), todo' = new \o Rest,
              \A p \in Asking : Held(p) => Held(p)' \/ \E c \in Range(new) : \A a : Pursues(c, a, p),
              \A c \in Range(new) : c.do # "tell"
       PROVE  MissingFollows'
  <2>1. Range(todo') = Range(new) \cup Range(Rest) /\ Range(Rest) = {} /\ Range(todo) = {}
    BY <1>11, EmptyFacts, ThenFacts DEF Typed, TypeOK, Rest
  <2>2. ASSUME NEW a \in StateConsumers \cap Consumers, NEW p \in Asking, view'[a][p] = NoValue
        PROVE  Held(p)' \/ \E c \in Range(todo') : Pursues(c, a, p)
    <3>1. Held(p)
      BY <1>11, <2>1, <2>2 DEF MissingFollows
    <3>2. QED
      BY <1>11, <2>1, <3>1
  <2>3. \A c \in Range(todo') : c.do # "tell"
    BY <1>11, <2>1
  <2>4. QED
    BY <2>2, <2>3, Zenon DEF MissingFollows, Pursues, Gets, Asks, Applying
<1>12. ASSUME Push PROVE MissingFollows'
  <2>1. todo = <<>> /\ UNCHANGED <<store, view, waiting, placeholders>>
        /\ \E m : Fits(m) /\ m.way = "up" /\ todo' = push_message(m) \o Rest
    BY <1>12, PushStepFacts
  <2>2. PICK new \in Seq(Calls) : todo' = new \o Rest /\ \A c \in Range(new) : c.do # "tell"
    BY <1>0, <2>1
  <2>3. QED
    BY <1>11, <2>1, <2>2, HeldSame
<1>13. ASSUME NEW a \in Producers, Answer(a) PROVE MissingFollows'
  <2>1. todo = <<>> /\ UNCHANGED <<store, view, placeholders>> /\ waiting[a] # <<>>
        /\ waiting' = [waiting EXCEPT ![a] = Tail(@)]
    BY <1>13, AnswerFacts
  <2>2. PICK m : /\ Fits(m) /\ m.way = "down" /\ m.point = waiting[a][1].point
                 /\ Known(m) /\ todo' = push_message(m) \o Rest
    BY <1>13, AnswerFacts
  <2>3. \E c \in Range(push_message(m)) : \A b : Pursues(c, b, m.point)
    BY <2>2, PushApplies DEF Pursues, Gets
  <2>4. ASSUME NEW p \in Asking, Held(p)
        PROVE  Held(p)' \/ \E c \in Range(push_message(m)) : \A b : Pursues(c, b, p)
    <3>1. CASE Awaited(p)
      BY <1>1, <2>1, <2>2, <2>3, <3>1, AwaitedLess DEF Held
    <3>2. CASE ~ Awaited(p)
      BY <2>1, <2>4, <3>2 DEF Held
    <3>3. QED
      BY <3>1, <3>2
  <2>5. push_message(m) \in Seq(Calls) /\ \A c \in Range(push_message(m)) : c.do # "tell"
    BY <1>0, <2>2
  <2>6. QED
    BY <1>11, <2>1, <2>2, <2>4, <2>5
<1>14. CASE UNCHANGED vars
  <2>1. MissingFollows' <=> MissingFollows
    BY <1>14 DEF vars, MissingFollows, Held, Awaited
  <2>2. QED
    BY <2>1
<1>15. QED
  BY <1>2, <1>3, <1>4, <1>5, <1>6, <1>7, <1>8, <1>9, <1>10, <1>12, <1>13, <1>14
     DEF Next, Step

\* Every consumer is still to be initialised.
LEMMA MissingInit == Init => MissingFollows
<1> SUFFICES ASSUME Init PROVE MissingFollows
  OBVIOUS
<1>1. /\ \A c \in Range(todo) : c.do # "tell"
      /\ \A a \in Consumers : \E c \in Range(todo) : c.do = "consumer_init" /\ c.actor = a
  BY InitActorsFacts DEF Init
<1>2. QED
  BY <1>1 DEF MissingFollows, Pursues

\* What a state consumer shows nothing of is asked for: its read is on its way,
\* unless the answer has been and gone while it was asked.  Where the store leaves
\* a placeholder there is that, and no read (match, trigger_read, push_message).
THEOREM MissingAsked == Spec => []MissingIsAsked
<1> DEFINE I == Typed /\ TellsAreTrue /\ ViewsFollow /\ MissingFollows
<1>1. Init => I
  BY TypedInit, ViewsInit, MissingInit
<1>2. I /\ [Next]_vars => I'
  BY TypedStep, TellsStep, ViewsStep, MissingStep
<1>3. I => MissingIsAsked
  <2> SUFFICES ASSUME I, todo = <<>>, NEW a \in StateConsumers \cap Consumers, NEW p \in Asking,
                      view[a][p] = NoValue
               PROVE  IF p \in Placing
                      THEN p \in placeholders
                      ELSE \/ \E m \in Range(waiting[ProducerOf[p]]) : m.action = "read" /\ m.point = p
                           \/ p \in prompt /\ store[p] # NoValue
    BY DEF MissingIsAsked, Idle
  <2>1. Range(todo) = {} /\ p \in Point
    BY EmptyFacts, PointAssumption
  <2>2. store[p] # NoValue => p \in prompt
    BY <2>1 DEF ViewsFollow, Behind
  <2>3. Held(p)
    BY <2>1 DEF MissingFollows
  <2>4. prompt \cap Placing = {} /\ placeholders \subseteq Placing
    BY DEF Typed, TypeOK
  <2>5. Awaited(p) =>
            /\ p \notin Placing
            /\ \E m \in Range(waiting[ProducerOf[p]]) : m.action = "read" /\ m.point = p
    <3> SUFFICES ASSUME NEW i \in DOMAIN waiting[ProducerOf[p]],
                        waiting[ProducerOf[p]][i].action = "read",
                        waiting[ProducerOf[p]][i].point = p
                 PROVE  /\ p \notin Placing
                        /\ \E m \in Range(waiting[ProducerOf[p]]) : m.action = "read" /\ m.point = p
      BY DEF Awaited
    <3>1. ProducerOf[p] \in Producers
      BY <2>1, ActorAssumption
    <3>2. QED
      BY <3>1 DEF Typed, MessagesFit, Goes, Range
  <2>6. QED
    BY <2>2, <2>3, <2>4, <2>5 DEF Held
<1>4. QED
  BY <1>1, <1>2, <1>3, PTL DEF Spec

---------------------------------------------------------------------------
(* When nobody pushes in return: the order of the calls *)

\* A call from which a message may come down, and one that brings an update to
\* a store.
Starts(c) ==
    \/ c.do \in {"producer_init", "consumer_init", "trigger", "upstream"}
    \/ c.do = "notify" /\ Missing(c.point)
Brings(c) == c.do \in {"apply", "listen"} /\ c.m.way = "down" /\ c.m.action = "update"

\* The calls of the one kind are made before those of the other.
NoneBefore(s, A, B) == \A i, j \in DOMAIN s : s[i] \in A /\ s[j] \in B => i > j

\* New calls are put first and keep the order, if there is nothing new in A,
\* when they are none of A, or no call is of B.
LEMMA OrderStep ==
    ASSUME Typed, NEW new \in Seq(Calls), todo' = new \o Rest, NEW A, NEW B, NEW C,
           NoneBefore(todo, A, B), C \subseteq A,
           Range(new) \cap C = {} \/ (Range(new) \cup Range(Rest)) \cap B = {}
    PROVE  NoneBefore(todo', C, B)
<1>1. /\ Range(todo') = Range(new) \cup Range(Rest)
      /\ DOMAIN new = 1..Len(new) /\ Len(new) \in Nat
      /\ DOMAIN todo' = 1..(Len(new) + Len(Rest))
      /\ \A i \in 1..Len(new) : todo'[i] = new[i]
      /\ \A i \in 1..(Len(new) + Len(Rest)) :
           i \notin 1..Len(new) => i - Len(new) \in 1..Len(Rest) /\ todo'[i] = Rest[i - Len(new)]
  BY ThenFacts, Zenon DEF Typed, TypeOK
<1>2. /\ DOMAIN todo = 1..Len(todo) /\ Len(Rest) \in Nat
      /\ \A i \in 1..Len(Rest) : Rest[i] = todo[i + 1] /\ i + 1 \in 1..Len(todo)
  BY RestFacts, Zenon DEF Typed, TypeOK
<1> SUFFICES ASSUME NEW i \in DOMAIN todo', NEW j \in DOMAIN todo',
                    todo'[i] \in C, todo'[j] \in B
             PROVE  i > j
  BY DEF NoneBefore
<1>3. CASE (Range(new) \cup Range(Rest)) \cap B = {}
  <2>1. todo'[j] \in Range(todo')
    BY DEF Range
  <2>2. QED
    BY <1>1, <1>3, <2>1
<1>4. CASE Range(new) \cap C = {}
  <2>1. i \notin 1..Len(new)
    <3>1. ASSUME i \in 1..Len(new) PROVE FALSE
      <4>1. new[i] \in Range(new) /\ todo'[i] = new[i]
        BY <1>1, <3>1 DEF Range
      <4>2. QED
        BY <1>4, <4>1
    <3>2. QED
      BY <3>1
  <2>2. CASE j \in 1..Len(new)
    BY <1>1, <2>1, <2>2, SMT
  <2>3. CASE j \notin 1..Len(new)
    <3>1. /\ todo'[i] = todo[i - Len(new) + 1] /\ i - Len(new) + 1 \in DOMAIN todo
          /\ todo'[j] = todo[j - Len(new) + 1] /\ j - Len(new) + 1 \in DOMAIN todo
      BY <1>1, <1>2, <2>1, <2>3
    <3>2. i - Len(new) + 1 > j - Len(new) + 1
      BY <3>1 DEF NoneBefore
    <3>3. QED
      BY <1>1, <3>2, SMT
  <2>4. QED
    BY <2>2, <2>3
<1>5. QED
  BY <1>3, <1>4

\* Nothing of B is behind one of A that is next.
LEMMA HeadFirst ==
    ASSUME Typed, todo # <<>>, NEW A, NEW B, NoneBefore(todo, A, B), todo[1] \in A
    PROVE  Range(Rest) \cap B = {}
<1> SUFFICES ASSUME NEW c \in Range(Rest), c \in B PROVE FALSE
  OBVIOUS
<1>1. /\ DOMAIN todo = 1..Len(todo) /\ Len(Rest) \in Nat /\ Len(todo) \in Nat
      /\ DOMAIN Rest = 1..Len(Rest)
      /\ \A i \in 1..Len(Rest) : Rest[i] = todo[i + 1] /\ i + 1 \in 1..Len(todo)
  BY RestFacts, Zenon DEF Typed, TypeOK
<1>2. PICK i \in 1..Len(Rest) : c = todo[i + 1] /\ i + 1 \in 1..Len(todo)
  BY <1>1 DEF Range
<1>3. 1 \in 1..Len(todo) /\ ~ (1 > i + 1)
  BY <1>1, <1>2, SMT
<1>4. QED
  BY <1>1, <1>2, <1>3 DEF NoneBefore

\* Only the call that is next applies, or looks for a value.
FirstOnly == \A j \in DOMAIN todo : todo[j].do \in {"apply", "trigger"} => j = 1

\* New calls keep that order, if only the first of them applies.
LEMMA FirstOnlyStep ==
    ASSUME Typed, FirstOnly, NEW new \in Seq(Calls), todo' = new \o Rest,
           \A i \in 1..Len(new) : new[i].do \in {"apply", "trigger"} => i = 1
    PROVE  FirstOnly'
<1>1. /\ DOMAIN todo' = 1..(Len(new) + Len(Rest)) /\ Len(new) \in Nat
      /\ \A i \in 1..Len(new) : todo'[i] = new[i]
      /\ \A i \in 1..(Len(new) + Len(Rest)) :
           i \notin 1..Len(new) => i - Len(new) \in 1..Len(Rest) /\ todo'[i] = Rest[i - Len(new)]
  BY ThenFacts DEF Typed, TypeOK
<1>2. /\ DOMAIN todo = 1..Len(todo) /\ Len(Rest) \in Nat
      /\ \A i \in 1..Len(Rest) : Rest[i] = todo[i + 1] /\ i + 1 \in 1..Len(todo)
  BY RestFacts, Zenon DEF Typed, TypeOK
<1>3. \A i \in 1..Len(Rest) : i + 1 # 1
  BY <1>2, SMT
<1>4. \A i \in 1..Len(Rest) : Rest[i].do \notin {"apply", "trigger"}
  BY <1>2, <1>3 DEF FirstOnly
<1>5. ASSUME NEW j \in DOMAIN todo', todo'[j].do \in {"apply", "trigger"} PROVE j = 1
  BY <1>1, <1>4, <1>5
<1>6. QED
  BY <1>5 DEF FirstOnly

\* So those behind the first do not.
LEMMA FirstOnlyFacts ==
    ASSUME Typed, FirstOnly, todo # <<>>
    PROVE  \A c \in Range(Rest) : c.do \notin {"apply", "trigger"}
<1>1. /\ DOMAIN todo = 1..Len(todo) /\ Len(Rest) \in Nat /\ DOMAIN Rest = 1..Len(Rest)
      /\ \A i \in 1..Len(Rest) : Rest[i] = todo[i + 1] /\ i + 1 \in 1..Len(todo)
  BY RestFacts, Zenon DEF Typed, TypeOK
<1>2. \A i \in 1..Len(Rest) : i + 1 # 1
  BY <1>1, SMT
<1>3. \A i \in 1..Len(Rest) : Rest[i].do \notin {"apply", "trigger"}
  BY <1>1, <1>2 DEF FirstOnly
<1>4. QED
  BY <1>1, <1>3 DEF Range

\* The call that is next after a step.
LEMMA HeadAfter ==
    ASSUME Typed, NEW new \in Seq(Calls), todo' = new \o Rest, todo' # <<>>
    PROVE  \/ 1 \in 1..Len(new) /\ todo'[1] = new[1]
           \/ Len(new) = 0 /\ todo'[1] \in Range(Rest)
<1>1. /\ DOMAIN todo' = 1..(Len(new) + Len(Rest)) /\ Len(new) \in Nat
      /\ \A i \in 1..Len(new) : todo'[i] = new[i]
      /\ \A i \in 1..(Len(new) + Len(Rest)) :
           i \notin 1..Len(new) => i - Len(new) \in 1..Len(Rest) /\ todo'[i] = Rest[i - Len(new)]
      /\ todo' \in Seq(Calls)
  BY ThenFacts, Zenon DEF Typed, TypeOK
<1>2. DOMAIN Rest = 1..Len(Rest)
  BY RestFacts, Zenon DEF Typed, TypeOK
<1>3. 1 \in DOMAIN todo'
  BY <1>1, TailFacts, SMT
<1>4. CASE 1 \in 1..Len(new)
  BY <1>1, <1>4
<1>5. CASE 1 \notin 1..Len(new)
  <2>1. Len(new) = 0
    BY <1>1, <1>5, SMT
  <2>2. QED
    BY <1>1, <1>2, <1>3, <1>5, <2>1 DEF Range
<1>6. QED
  BY <1>4, <1>5

---------------------------------------------------------------------------
(* What a step is where consumers do not push *)

\* Calls that bring nothing and, but for one that starts something, start nothing.
Plain(new) ==
    \A i \in 1..Len(new) :
        /\ Starts(new[i])' => Starts(todo[1])
        /\ ~ Brings(new[i]) /\ new[i].do \notin {"send", "apply"}
        /\ new[i].do = "trigger" => i = 1

\* The step has a message come down, an update or what was read at once.
Brought(new) ==
    /\ Starts(todo[1]) /\ UNCHANGED <<store, heard>>
    /\ \E m : Fits(m) /\ m.way = "down" /\ Known(m) /\ new = push_message(m)

\* The step answers a read with what the store has.
Answered(new) ==
    /\ todo[1].do = "trigger" /\ store[todo[1].m.point] # NoValue /\ UNCHANGED <<store, heard>>
    /\ \E m : /\ Fits(m) /\ m.way = "down" /\ m.action = "read" /\ m.payload = store[m.point]
              /\ m.point = todo[1].m.point /\ new = propagate_downstream(m)

\* The step applies what came down.
Applied(new) ==
    /\ todo[1].do = "apply" /\ todo[1].m.way = "down" /\ UNCHANGED heard
    /\ Changes(new, todo[1].m.point, todo[1].m.payload)

\* The step has a listening store take its value.
Derived(new) ==
    /\ todo[1].do = "listen" /\ Brings(todo[1]) /\ todo[1].point \in Listening /\ UNCHANGED heard
    /\ Changes(new, todo[1].point, todo[1].m.payload)

\* The step has a consumer hear a message.
Sent(new) ==
    /\ todo[1].do = "send" /\ todo[1].actor \in Consumers /\ UNCHANGED store /\ new = <<>>
    /\ heard' = [heard EXCEPT ![todo[1].actor] = Append(@, todo[1].m)]

\* The step does none of these.
Else(new) ==
    /\ todo[1].do # "send" /\ UNCHANGED <<store, heard>> /\ Plain(new)
    /\ ~ (todo[1].do = "apply" /\ todo[1].m.way = "down")
    /\ ~ (todo[1].do = "listen" /\ Brings(todo[1]) /\ todo[1].point \in Listening)

\* Calls that only notify of what is not missing are plain.
LEMMA NotifiesArePlain ==
    ASSUME NEW new \in Seq(Calls),
           \A c \in Range(new) : c.do = "notify" /\ (Missing(c.point)' => Starts(todo[1]))
    PROVE  Plain(new)
<1> SUFFICES ASSUME NEW i \in 1..Len(new)
             PROVE  /\ Starts(new[i])' => Starts(todo[1])
                    /\ ~ Brings(new[i]) /\ new[i].do \notin {"send", "apply"}
                    /\ new[i].do = "trigger" => i = 1
  BY DEF Plain
<1>1. PICK c \in Range(new) : c = new[i]
  BY LenProperties DEF Range
<1>2. c.do = "notify" /\ (Missing(c.point)' => Starts(todo[1]))
  OBVIOUS
<1>3. Starts(c)' => Starts(todo[1])
  BY <1>2 DEF Starts
<1>4. ~ Brings(c) /\ c.do \notin {"send", "apply", "trigger"}
  BY <1>2 DEF Brings
<1>5. QED
  BY <1>1, <1>3, <1>4

\* A change of a store leaves it with a value, if it is one that is asked for.
LEMMA ChangesFound ==
    ASSUME Typed, NEW new, NEW p, NEW x, Changes(new, p, x), x # NoValue \/ p \in Listening
    PROVE  ~ Missing(p)'
<1>1. store'[p] = x /\ (p \in Asking => p \notin Listening)
  BY PointFacts DEF Changes, Typed, TypeOK
<1>2. QED
  BY <1>1 DEF Missing, Unset

\* What a change of a store calls is plain.
LEMMA ChangesPlain ==
    ASSUME Typed, NEW new \in Seq(Calls), NEW p, NEW x, Changes(new, p, x),
           x # NoValue \/ p \in Listening
    PROVE  Plain(new)
<1>1. \A c \in Range(new) : c.do = "notify" /\ c.point = p
  BY DEF Changes
<1>2. \A c \in Range(new) : ~ Missing(c.point)'
  BY <1>1, ChangesFound
<1>3. QED
  BY <1>1, <1>2, NotifiesArePlain

\* What is not missing will not be.
LEMMA MissingLess ==
    ASSUME Typed, Next
    PROVE  \A p : Missing(p)' => Missing(p)
<1>1. ASSUME UNCHANGED store, placeholders \subseteq placeholders'
      PROVE  \A p : Missing(p)' => Missing(p)
  BY <1>1 DEF Missing, Unset
<1>2. ASSUME todo # <<>>, Apply PROVE \A p : Missing(p)' => Missing(p)
  <2>0. PICK q, x : q = todo[1].m.point /\ x = todo[1].m.payload
    OBVIOUS
  <2>1. todo[1].m.way = "down" => x # NoValue
    BY <1>2, <2>0, ApplyFacts DEF Fits
  <2>2. CASE UNCHANGED <<store, placeholders>>
    BY <1>1, <2>2
  <2>3. ASSUME NEW new, todo[1].m.way = "down", Changes(new, q, x),
               placeholders' = placeholders \ {q}
        PROVE  \A p : Missing(p)' => Missing(p)
    <3>1. store'[q] # NoValue
      BY <2>1, <2>3 DEF Changes, Typed, TypeOK
    <3>2. \A p \in Asking : p # q => store'[p] = store[p]
      BY <2>3, PointFacts DEF Changes, Typed, TypeOK
    <3>3. ASSUME NEW p, Missing(p)' PROVE Missing(p)
      <4>1. p # q
        BY <3>1, <3>3 DEF Missing, Unset
      <4>2. QED
        BY <2>3, <3>2, <3>3, <4>1 DEF Missing, Unset
    <3>4. QED
      BY <3>3
  <2>4. QED
    BY <1>2, <2>0, <2>2, <2>3, ApplyFacts
<1>3. ASSUME todo # <<>>, Listen PROVE \A p : Missing(p)' => Missing(p)
  <2>1. CASE UNCHANGED store
    BY <1>1, <1>3, <2>1, ListenStepFacts
  <2>2. ASSUME NEW new, todo[1].point \in Listening,
               Changes(new, todo[1].point, todo[1].m.payload)
        PROVE  \A p : Missing(p)' => Missing(p)
    <3>1. \A p \in Asking : store'[p] = store[p]
      BY <2>2, PointFacts DEF Changes, Typed, TypeOK
    <3>2. UNCHANGED placeholders
      BY <1>3, ListenStepFacts
    <3>3. QED
      BY <3>1, <3>2 DEF Missing, Unset
  <2>3. QED
    BY <1>3, <2>1, <2>2, ListenStepFacts
<1>4. ASSUME todo # <<>>, Trigger PROVE \A p : Missing(p)' => Missing(p)
  BY <1>1, <1>4 DEF Trigger
<1>5. ASSUME Notify \/ Tell \/ Send \/ Upstream \/ ProducerInit \/ ConsumerInit \/ Push
      PROVE  \A p : Missing(p)' => Missing(p)
  BY <1>1, <1>5 DEF Notify, Tell, Send, Upstream, ProducerInit, ConsumerInit, Push
<1>6. ASSUME NEW a \in Producers, Answer(a) PROVE \A p : Missing(p)' => Missing(p)
  BY <1>1, <1>6 DEF Answer
<1>7. QED
  BY <1>2, <1>3, <1>4, <1>5, <1>6 DEF Next, Step

\* When nobody pushes in return every step is of one of these kinds.
LEMMA StepKinds ==
    ASSUME Typed, busy = {}, todo # <<>>, Step
    PROVE  \E new \in Seq(Calls) :
             /\ todo' = new \o Rest
             /\ Brought(new) \/ Answered(new) \/ Applied(new) \/ Derived(new) \/ Sent(new) \/ Else(new)
<1>0. <<>> \in Seq(Calls) /\ Plain(<<>>)
  BY EmptyFacts, NotifiesArePlain
<1>1. ASSUME Apply
      PROVE  \E new \in Seq(Calls) : todo' = new \o Rest /\ (Applied(new) \/ Else(new))
  <2>1. todo[1].do = "apply" /\ UNCHANGED heard
    BY <1>1, ApplyFacts
  <2>2. PICK new \in Seq(Calls) :
          /\ todo' = new \o Rest
          /\ \/ todo[1].m.way = "down" /\ Changes(new, todo[1].m.point, todo[1].m.payload)
             \/ todo[1].m.way = "up" /\ new = <<>> /\ UNCHANGED store
    BY <1>1, ApplyFacts
  <2>3. QED
    BY <1>0, <2>1, <2>2 DEF Applied, Else
<1>2. ASSUME Trigger
      PROVE  \E new \in Seq(Calls) : todo' = new \o Rest /\ (Answered(new) \/ Else(new))
  <2>1. todo[1].do = "trigger" /\ UNCHANGED <<store, heard>> /\ Starts(todo[1])
    BY <1>2, TriggerFacts DEF Starts
  <2>2. CASE /\ [do |-> "upstream", m |-> todo[1].m] \in Calls
             /\ todo' = <<[do |-> "upstream", m |-> todo[1].m]>> \o Rest
    <3>1. PICK c : c = [do |-> "upstream", m |-> todo[1].m]
      OBVIOUS
    <3>2. c \in Calls /\ todo' = <<c>> \o Rest /\ c.do = "upstream" /\ ~ Brings(c)
      BY <2>2, <3>1 DEF Brings
    <3>3. <<c>> \in Seq(Calls) /\ Len(<<c>>) = 1 /\ <<c>>[1] = c
      BY <3>2, EmptyFacts
    <3>4. \A i \in 1..Len(<<c>>) : <<c>>[i] = c
      BY <3>3, SMT
    <3>5. Plain(<<c>>)
      BY <2>1, <3>2, <3>4 DEF Plain
    <3>6. QED
      BY <2>1, <3>2, <3>3, <3>5 DEF Else
  <2>3. ASSUME store[todo[1].m.point] # NoValue, NEW m \in Message, Fits(m), m.way = "down",
               m.action = "read", m.point = todo[1].m.point, m.payload = store[todo[1].m.point],
               todo' = propagate_downstream(m) \o Rest
        PROVE  \E new \in Seq(Calls) : todo' = new \o Rest /\ Answered(new)
    <3>1. propagate_downstream(m) \in Seq(Calls)
      BY SendToFacts
    <3>2. Answered(propagate_downstream(m))
      BY <2>1, <2>3 DEF Answered
    <3>3. QED
      BY <2>3, <3>1, <3>2
  <2>4. CASE todo' = <<>> \o Rest
    BY <1>0, <2>1, <2>4 DEF Else
  <2>5. QED
    BY <1>2, <2>2, <2>3, <2>4, TriggerFacts
<1>3. ASSUME Listen
      PROVE  \E new \in Seq(Calls) : todo' = new \o Rest /\ (Derived(new) \/ Else(new))
  <2>1. todo[1].do = "listen" /\ UNCHANGED heard
    BY <1>3, ListenStepFacts
  <2> DEFINE Takes == todo[1].m.way = "down" /\ todo[1].m.action = "update"
                        /\ todo[1].point \in Listening
  <2>2. PICK new \in Seq(Calls) :
          /\ todo' = new \o Rest
          /\ \/ Takes /\ Changes(new, todo[1].point, todo[1].m.payload)
             \/ ~ Takes /\ new = <<>> /\ UNCHANGED store
    BY <1>3, ListenStepFacts
  <2>3. Takes <=> Brings(todo[1]) /\ todo[1].point \in Listening
    BY <2>1 DEF Brings
  <2>4. QED
    BY <1>0, <2>1, <2>2, <2>3 DEF Derived, Else
<1>4. ASSUME Notify
      PROVE  \E new \in Seq(Calls) : todo' = new \o Rest /\ Else(new)
  <2> DEFINE q == todo[1].point
  <2>1. todo[1].do = "notify" /\ UNCHANGED <<store, heard>>
    BY <1>4, NotifyStepFacts
  <2>2. PICK new \in Seq(Calls) : \E k \in 1..Len(new) :
                /\ todo' = new \o Rest
                /\ new[k] = TellCall(todo[1].actor, q)
                /\ \A i \in 1..(k - 1) :
                     /\ Missing(q) /\ Quiet(new[i], q)
                     /\ new[i].do = (IF i = 1 THEN "trigger" ELSE "listen")
                /\ \A i \in 1..Len(new) : i > k => busy # {}
    BY <1>4, NotifyStepFacts
  <2>3. PICK k \in 1..Len(new) :
                /\ new[k] = TellCall(todo[1].actor, q)
                /\ \A i \in 1..(k - 1) :
                     /\ Missing(q) /\ Quiet(new[i], q)
                     /\ new[i].do = (IF i = 1 THEN "trigger" ELSE "listen")
                /\ \A i \in 1..Len(new) : i > k => busy # {}
    BY <2>2
  <2>4. Len(new) \in Nat
    BY LenProperties
  <2>5. ASSUME NEW i \in 1..Len(new)
        PROVE  /\ Starts(new[i])' => Starts(todo[1])
               /\ ~ Brings(new[i]) /\ new[i].do \notin {"send", "apply"}
               /\ new[i].do = "trigger" => i = 1
    <3>1. i = k \/ i \in 1..(k - 1)
      BY <2>3, <2>4, SMT
    <3>2. CASE i = k
      BY <2>3, <3>2 DEF TellCall, Starts, Brings
    <3>3. CASE i \in 1..(k - 1)
      BY <2>1, <2>3, <3>3 DEF Quiet, AskedFor, Starts, Brings
    <3>4. QED
      BY <3>1, <3>2, <3>3
  <2>6. Plain(new)
    BY <2>5 DEF Plain
  <2>7. QED
    BY <2>1, <2>2, <2>6 DEF Else
<1>5. ASSUME Tell
      PROVE  \E new \in Seq(Calls) : todo' = new \o Rest /\ Else(new)
  BY <1>0, <1>5, TellFacts DEF Else
<1>6. ASSUME Send
      PROVE  \E new \in Seq(Calls) : todo' = new \o Rest /\ Sent(new)
  BY <1>6, SendFacts DEF Sent
<1>7. ASSUME Upstream
      PROVE  \E new \in Seq(Calls) : todo' = new \o Rest /\ (Brought(new) \/ Else(new))
  <2>1. todo[1].do = "upstream" /\ UNCHANGED <<store, heard>>
    <3>1. todo[1].do = "upstream"
      BY <1>7, UpstreamFacts, Zenon
    <3>2. QED
      BY <1>7, <3>1 DEF Upstream
  <2>2. ASSUME NEW m, Fits(m), m.way = "down", Known(m), todo' = push_message(m) \o Rest
        PROVE  \E new \in Seq(Calls) : todo' = new \o Rest /\ Brought(new)
    <3>1. push_message(m) \in Seq(Calls)
      BY <2>2, PushFacts DEF Fits
    <3>2. Brought(push_message(m))
      BY <2>1, <2>2 DEF Brought, Starts, Known
    <3>3. QED
      BY <2>2, <3>1, <3>2
  <2>3. CASE todo' = <<>> \o Rest
    BY <1>0, <2>1, <2>3 DEF Else
  <2>4. todo' = <<>> \o Rest \/ \E m : /\ Fits(m) /\ m.way = "down" /\ Known(m)
                                      /\ todo' = push_message(m) \o Rest
    BY <1>7, UpstreamFacts, Zenon
  <2>5. QED
    BY <2>2, <2>3, <2>4
<1>8. ASSUME ProducerInit
      PROVE  \E new \in Seq(Calls) : todo' = new \o Rest /\ (Brought(new) \/ Else(new))
  <2>1. todo[1].do = "producer_init" /\ UNCHANGED <<store, heard>>
    BY <1>8, ProducerInitFacts
  <2>2. ASSUME NEW m, Fits(m), m.way = "down", m.action = "update", todo' = push_message(m) \o Rest
        PROVE  \E new \in Seq(Calls) : todo' = new \o Rest /\ Brought(new)
    <3>1. push_message(m) \in Seq(Calls)
      BY <2>2, PushFacts DEF Fits
    <3>2. Brought(push_message(m))
      BY <2>1, <2>2 DEF Brought, Starts, Known
    <3>3. QED
      BY <2>2, <3>1, <3>2
  <2>3. CASE todo' = <<>> \o Rest
    BY <1>0, <2>1, <2>3 DEF Else
  <2>4. QED
    BY <1>8, <2>2, <2>3, ProducerInitFacts
<1>9. ASSUME ConsumerInit
      PROVE  \E new \in Seq(Calls) : todo' = new \o Rest /\ Else(new)
  <2>1. todo[1].do = "consumer_init" /\ UNCHANGED <<store, heard>>
    BY <1>9, ConsumerInitFacts
  <2>2. PICK new \in Seq(Calls) : todo' = new \o Rest /\ \A c \in Range(new) : c.do = "notify"
    BY <1>9, ConsumerInitFacts
  <2>3. Plain(new)
    BY <2>1, <2>2, NotifiesArePlain DEF Starts
  <2>4. QED
    BY <2>1, <2>2, <2>3 DEF Else
<1>10. QED
  BY <1>1, <1>2, <1>3, <1>4, <1>5, <1>6, <1>7, <1>8, <1>9, Zenon DEF Step

---------------------------------------------------------------------------
(* One update at a time *)

\* What comes down is applied, sent to all consumers, and heard of by all that
\* listen.
LEMMA PushDown ==
    ASSUME NEW m, Fits(m), m.way = "down", Known(m)
    PROVE  /\ push_message(m) \in Seq(Calls) /\ 1 \in 1..Len(push_message(m))
           /\ push_message(m)[1].do = "apply" /\ push_message(m)[1].m = m
           /\ \A i \in 1..Len(push_message(m)) :
                push_message(m)[i].do \in {"apply", "trigger"} => i = 1
           /\ \A c \in Range(push_message(m)) :
                c.m = m /\ c.do \in {"apply", "listen", "send"}
           /\ \A l \in Range(Listeners[m.point]) :
                [do |-> "listen", point |-> l, m |-> m] \in Range(push_message(m))
           /\ \A a \in Consumers :
                [do |-> "send", actor |-> a, m |-> m] \in Range(push_message(m))
           /\ \A i, j \in 1..Len(push_message(m)) :
                /\ push_message(m)[i].do = "send" /\ push_message(m)[j].do = "send"
                /\ push_message(m)[i].actor = push_message(m)[j].actor
                => i = j
<1> DEFINE s == push_message(m)
<1>1. /\ s \in Seq(Calls) /\ DOMAIN s = 1..Len(s) /\ Len(s) >= 1
      /\ s[1] = [do |-> IF m.way = "up" /\ m.action = "read" THEN "trigger" ELSE "apply", m |-> m]
      /\ \A i \in 2..Len(s) : s[i].do \in {"listen", "upstream", "send"}
      /\ \A l \in Range(Listeners[m.point]) : [do |-> "listen", point |-> l, m |-> m] \in Range(s)
      /\ \A a \in Consumers : [do |-> "send", actor |-> a, m |-> m] \in Range(s)
      /\ \A i, j \in 1..Len(s) : s[i].do = "send" /\ s[j].do = "send" /\ s[i].actor = s[j].actor
            => i = j
  BY PushFacts DEF Fits
<1>2. \A c \in Range(s) : /\ c.do \in {"apply", "trigger", "upstream", "listen", "send"}
                          /\ c.do = "trigger" => m.way = "up"
                          /\ c.do = "upstream" => m.way = "up"
                          /\ c.m = m
  BY PushIsGood
<1> HIDE DEF s
<1>3. s[1].do = "apply" /\ s[1].m = m
  BY <1>1
<1>4. Len(s) \in Nat
  BY <1>1, LenProperties
<1>5. 1 \in 1..Len(s) /\ \A i \in 1..Len(s) : i = 1 \/ i \in 2..Len(s)
  BY <1>1, <1>4, SMT
<1>6. \A i \in 1..Len(s) : s[i].do \in {"apply", "trigger"} => i = 1
  BY <1>1, <1>5
<1>7. \A c \in Range(s) : c.m = m /\ c.do \in {"apply", "listen", "send"}
  BY <1>2
<1>8. QED
  BY <1>1, <1>3, <1>5, <1>6, <1>7, Zenon DEF s

\* What goes up is neither sent nor brought to a store.
LEMMA PushUp ==
    ASSUME NEW m, Fits(m), m.way = "up"
    PROVE  /\ push_message(m) \in Seq(Calls) /\ 1 \in 1..Len(push_message(m))
           /\ push_message(m)[1].do \in {"apply", "trigger"} /\ push_message(m)[1].m = m
           /\ \A i \in 1..Len(push_message(m)) :
                push_message(m)[i].do \in {"apply", "trigger"} => i = 1
           /\ \A c \in Range(push_message(m)) : ~ Brings(c) /\ c.do # "send"
<1> DEFINE s == push_message(m)
<1>1. /\ s \in Seq(Calls) /\ DOMAIN s = 1..Len(s) /\ Len(s) >= 1
      /\ s[1] = [do |-> IF m.way = "up" /\ m.action = "read" THEN "trigger" ELSE "apply", m |-> m]
      /\ \A i \in 2..Len(s) : s[i].do \in {"listen", "upstream", "send"}
  BY PushFacts DEF Fits
<1>2. \A c \in Range(s) : c.m = m /\ (c.do = "send" => m.way = "down")
  BY PushIsGood
<1> HIDE DEF s
<1>3. s[1].do \in {"apply", "trigger"} /\ s[1].m = m
  BY <1>1
<1>4. Len(s) \in Nat
  BY <1>1, LenProperties
<1>5. 1 \in 1..Len(s) /\ \A i \in 1..Len(s) : i = 1 \/ i \in 2..Len(s)
  BY <1>1, <1>4, SMT
<1>6. \A i \in 1..Len(s) : s[i].do \in {"apply", "trigger"} => i = 1
  BY <1>1, <1>5
<1>7. \A c \in Range(s) : ~ Brings(c) /\ c.do # "send"
  BY <1>2 DEF Brings
<1>8. QED
  BY <1>1, <1>3, <1>5, <1>6, <1>7, Zenon DEF s

---------------------------------------------------------------------------
(* One update is brought at a time *)

\* The calls of each kind, as sets.
Starting == {c \in Calls : Starts(c)}
Bringing == {c \in Calls : Brings(c)}
Sending == {c \in Calls : c.do = "send"}

\* No call becomes one from which a message may come down.
LEMMA StartsLess == ASSUME Typed, Next PROVE Starting' \subseteq Starting
<1> SUFFICES ASSUME NEW c \in Calls, Starts(c)' PROVE Starts(c)
  BY DEF Starting
<1>1. Missing(c.point)' => Missing(c.point)
  BY MissingLess DEF Missing, Unset
<1>2. QED
  BY <1>1 DEF Starts

\* The update that is brought is applied first, and no other is started while
\* there are stores that it has still to be brought to.
OneAtATime ==
    /\ FirstOnly
    /\ \A c, d \in Range(todo) : Brings(c) /\ Brings(d) => c.m = d.m
    /\ NoneBefore(todo, Starting, Bringing)
    /\ \A c \in Range(todo) : Brings(c) =>
         (todo[1].do = "apply" /\ Brings(todo[1])) \/ store[c.m.point] = c.m.payload

\* A step that brings nothing new keeps it.
LEMMA NoMoreIsBrought ==
    ASSUME Typed, OneAtATime, Next, NEW new \in Seq(Calls), todo' = new \o Rest,
           \A i \in 1..Len(new) : new[i].do \in {"apply", "trigger"} => i = 1,
           \A c \in Range(new) : ~ Brings(c),
           (\A c \in Range(new) : ~ Starts(c)') \/ (\A c \in Range(Rest) : ~ Brings(c)),
           \A c \in Range(Rest) : Brings(c) => store'[c.m.point] = c.m.payload
    PROVE  OneAtATime'
<1>1. /\ Range(todo') = Range(new) \cup Range(Rest) /\ Range(Rest) \subseteq Range(todo)
  BY ThenFacts, RestFacts, Zenon DEF Typed, TypeOK
<1>2. FirstOnly'
  BY FirstOnlyStep DEF OneAtATime
<1>3. NoneBefore(todo, Starting, Bringing)'
  <2>1. PICK A, B, C : A = Starting /\ B = Bringing /\ C = Starting'
    OBVIOUS
  <2>2. NoneBefore(todo, A, B) /\ C \subseteq A
    BY <2>1, StartsLess DEF OneAtATime
  <2>3. Range(new) \cap C = {} \/ (Range(new) \cup Range(Rest)) \cap B = {}
    BY <2>1 DEF Starting, Bringing
  <2>4. NoneBefore(todo', C, B)
    BY <2>2, <2>3, OrderStep
  <2>5. QED
    BY <2>1, <2>4 DEF NoneBefore, Bringing
<1>4. \A c, d \in Range(todo') : Brings(c) /\ Brings(d) => c.m = d.m
  BY <1>1 DEF OneAtATime
<1>5. \A c \in Range(todo') : Brings(c) => store'[c.m.point] = c.m.payload
  BY <1>1
<1>6. QED
  BY <1>2, <1>3, <1>4, <1>5 DEF OneAtATime

\* A new update is brought when none was.
LEMMA OneIsBrought ==
    ASSUME Typed, OneAtATime, Next, \A c \in Range(Rest) : ~ Brings(c),
           NEW m, Fits(m), m.way = "down", Known(m),
           todo' = push_message(m) \o Rest
    PROVE  OneAtATime'
<1> DEFINE new == push_message(m)
<1>1. /\ new \in Seq(Calls) /\ 1 \in 1..Len(new)
      /\ new[1].do = "apply" /\ new[1].m = m
      /\ \A i \in 1..Len(new) : new[i].do \in {"apply", "trigger"} => i = 1
      /\ \A c \in Range(new) : c.m = m /\ c.do \in {"apply", "listen", "send"}
  BY PushDown, Zenon
<1> HIDE DEF new
<1>2. todo' = new \o Rest
  BY DEF new
<1>3. Range(todo') = Range(new) \cup Range(Rest) /\ todo'[1] = new[1]
  BY <1>1, <1>2, ThenFacts DEF Typed, TypeOK
<1>4. FirstOnly'
  BY <1>1, <1>2, FirstOnlyStep DEF OneAtATime
<1>5. NoneBefore(todo, Starting, Bringing)'
  <2>1. PICK A, B, C : A = Starting /\ B = Bringing /\ C = Starting'
    OBVIOUS
  <2>2. NoneBefore(todo, A, B) /\ C \subseteq A
    BY <2>1, StartsLess DEF OneAtATime
  <2>3. Range(new) \cap C = {}
    BY <1>1, <2>1 DEF Starting, Starts
  <2>4. NoneBefore(todo', C, B)
    BY <1>1, <1>2, <2>2, <2>3, OrderStep
  <2>5. QED
    BY <2>1, <2>4 DEF NoneBefore, Bringing
<1>6. \A c \in Range(todo') : Brings(c) => c.m = m
  BY <1>1, <1>3
<1>7. ASSUME NEW c \in Range(todo'), Brings(c) PROVE Brings(todo'[1])
  BY <1>1, <1>3, <1>6, <1>7 DEF Brings
<1>8. QED
  BY <1>1, <1>3, <1>4, <1>5, <1>6, <1>7 DEF OneAtATime

\* While a call from which an update comes is next, nothing is brought.
LEMMA NothingIsBrought ==
    ASSUME Typed, OneAtATime, todo # <<>>, Starts(todo[1])
    PROVE  \A c \in Range(Rest) : ~ Brings(c)
<1> DEFINE A == Starting B == Bringing
<1>1. todo[1] \in A /\ NoneBefore(todo, A, B) /\ Range(Rest) \subseteq Calls
  BY CallFacts, RestFacts DEF OneAtATime, Starting, Typed, TypeOK
<1> HIDE DEF A, B
<1>2. Range(Rest) \cap B = {}
  BY <1>1, HeadFirst
<1>3. QED
  BY <1>1, <1>2 DEF B, Bringing

\* What plain calls are not.
LEMMA PlainFacts ==
    ASSUME NEW new \in Seq(Calls), Plain(new)
    PROVE  /\ \A c \in Range(new) : ~ Brings(c) /\ c.do \notin {"send", "apply"}
           /\ \A c \in Range(new) : Starts(c)' => Starts(todo[1])
           /\ \A i \in 1..Len(new) : new[i].do \in {"apply", "trigger"} => i = 1
<1>1. \A c \in Range(new) : \E i \in 1..Len(new) : c = new[i]
  BY LenProperties DEF Range
<1>2. ASSUME NEW c \in Range(new)
      PROVE  ~ Brings(c) /\ c.do \notin {"send", "apply"} /\ (Starts(c)' => Starts(todo[1]))
  <2>1. PICK i \in 1..Len(new) : c = new[i]
    BY <1>1
  <2>2. /\ ~ Brings(new[i]) /\ new[i].do \notin {"send", "apply"}
        /\ Starts(new[i])' => Starts(todo[1])
    BY DEF Plain
  <2>3. QED
    BY <2>1, <2>2
<1>3. \A i \in 1..Len(new) : new[i].do \in {"apply", "trigger"} => i = 1
  BY DEF Plain
<1>4. QED
  BY <1>2, <1>3

\* propagate_downstream does nothing but send its message.
LEMMA SendsOnly ==
    ASSUME NEW m, Fits(m)
    PROVE  /\ propagate_downstream(m) \in Seq(Calls)
           /\ \A c \in Range(propagate_downstream(m)) : c.do = "send" /\ c.m = m
           /\ \A i \in 1..Len(propagate_downstream(m)) : propagate_downstream(m)[i].do = "send"
<1>1. /\ propagate_downstream(m) \in Seq(Calls)
      /\ Range(propagate_downstream(m)) = {[do |-> "send", actor |-> a, m |-> m] : a \in Consumers}
  BY SendToFacts DEF Fits
<1>2. \A c \in Range(propagate_downstream(m)) : c.do = "send" /\ c.m = m
  BY <1>1
<1>3. DOMAIN propagate_downstream(m) = 1..Len(propagate_downstream(m))
  BY <1>1, LenProperties
<1>4. QED
  BY <1>1, <1>2, <1>3 DEF Range

\* When nobody pushes in return, updates come one at a time.
LEMMA OneAtATimeStep ==
    ASSUME Typed, OneAtATime, busy = {}, Next
    PROVE  OneAtATime'
<1>0. Next
  OBVIOUS
<1>1. ASSUME todo # <<>>, Step PROVE OneAtATime'
  <2>1. PICK new \in Seq(Calls) :
           /\ todo' = new \o Rest
           /\ Brought(new) \/ Answered(new) \/ Applied(new) \/ Derived(new) \/ Sent(new) \/ Else(new)
    BY <1>1, StepKinds
  <2>2. /\ Range(todo) = {todo[1]} \cup Range(Rest) /\ todo[1] \in Calls /\ GoodCall(todo[1])
        /\ todo[1] \in Range(todo)
    BY <1>1, CallFacts
  <2>3. \A c \in Range(todo) : Brings(c) => c.m.point \in Updated /\ c.m.point \in Point
    BY MessageFields, PointFacts DEF Brings, Typed, MessagesFit, GoodCall, Fits
  <2>4. store \in [Point -> 0..Found]
    BY DEF Typed, TypeOK
  <2>5. CASE Brought(new)
    <3>1. Starts(todo[1]) /\ \E m : Fits(m) /\ m.way = "down" /\ Known(m) /\ new = push_message(m)
      BY <2>5 DEF Brought
    <3>2. \A c \in Range(Rest) : ~ Brings(c)
      BY <1>1, <3>1, NothingIsBrought
    <3>3. PICK m : Fits(m) /\ m.way = "down" /\ Known(m) /\ new = push_message(m)
      BY <3>1
    <3>4. todo' = push_message(m) \o Rest
      BY <2>1, <3>3
    <3>5. QED
      BY <1>0, <3>2, <3>3, <3>4, OneIsBrought, Zenon
  \* In the other steps it is enough that the store is kept.
  <2>6. ASSUME \A i \in 1..Len(new) : new[i].do \in {"apply", "trigger"} => i = 1,
               \A c \in Range(new) : ~ Brings(c) /\ (Starts(c)' => Starts(todo[1])),
               \A c \in Range(Rest) : Brings(c) => store'[c.m.point] = c.m.payload
        PROVE  OneAtATime'
    <3>1. Starts(todo[1]) => \A c \in Range(Rest) : ~ Brings(c)
      BY <1>1, NothingIsBrought
    <3>2. QED
      BY <1>0, <2>1, <2>6, <3>1, NoMoreIsBrought
  <2>7. ASSUME ~ (todo[1].do = "apply" /\ Brings(todo[1])), \A p \in Updated : store'[p] = store[p]
        PROVE  \A c \in Range(Rest) : Brings(c) => store'[c.m.point] = c.m.payload
    BY <2>2, <2>3, <2>7 DEF OneAtATime
  <2>8. CASE Answered(new)
    <3>1. PICK m : Fits(m) /\ new = propagate_downstream(m)
      BY <2>8 DEF Answered
    <3>2. /\ \A c \in Range(new) : ~ Brings(c)
          /\ \A i \in 1..Len(new) : new[i].do \in {"apply", "trigger"} => i = 1
          /\ Starts(todo[1])
      BY <2>8, <3>1, SendsOnly DEF Answered, Starts, Brings
    <3>3. QED
      BY <2>6, <2>7, <2>8, <3>2 DEF Answered
  <2>9. CASE Applied(new)
    <3>1. Plain(new)
      BY <2>2, <2>9, ChangesPlain DEF Applied, GoodCall, Fits
    <3>2. store' = [store EXCEPT ![todo[1].m.point] = todo[1].m.payload] /\ todo[1].m.point \in Point
      BY <2>9 DEF Applied, Changes
    <3>3. \A c \in Range(Rest) : Brings(c) => store'[c.m.point] = c.m.payload
      <4>1. CASE Brings(todo[1])
        <5>1. \A c \in Range(Rest) : Brings(c) => c.m = todo[1].m
          BY <2>2, <4>1 DEF OneAtATime
        <5>2. QED
          BY <2>4, <3>2, <5>1
      <4>2. CASE ~ Brings(todo[1])
        <5>1. /\ todo[1].m.action # "update" /\ Fits(todo[1].m) /\ Known(todo[1].m)
              /\ todo[1].m.action \in {"update", "read"}
          BY <2>2, <2>9, <4>2, MessageFields DEF Applied, Brings, GoodCall, Fits
        <5>2. todo[1].m.point \notin Updated
          BY <5>1, PointFacts DEF Fits, Known
        <5>3. \A p \in Updated : store'[p] = store[p]
          BY <2>4, <3>2, <5>2
        <5>4. QED
          BY <2>7, <4>2, <5>3
      <4>3. QED
        BY <4>1, <4>2
    <3>4. QED
      BY <2>6, <3>1, <3>3, PlainFacts
  <2>10. CASE Derived(new)
    <3>1. Plain(new)
      BY <2>10, ChangesPlain DEF Derived
    <3>2. store' = [store EXCEPT ![todo[1].point] = todo[1].m.payload] /\ todo[1].point \in Listening
      BY <2>10 DEF Derived, Changes
    <3>3. todo[1].point \notin Updated /\ todo[1].do # "apply"
      BY <2>10, <3>2, PointFacts DEF Derived
    <3>4. \A p \in Updated : store'[p] = store[p]
      BY <2>4, <3>2, <3>3
    <3>5. QED
      BY <2>6, <2>7, <3>1, <3>3, <3>4, PlainFacts
  <2>11. CASE Sent(new)
    <3>1. Plain(new) /\ UNCHANGED store /\ todo[1].do = "send"
      BY <2>11, EmptyFacts, NotifiesArePlain DEF Sent
    <3>2. QED
      BY <2>6, <2>7, <3>1, PlainFacts
  <2>12. CASE Else(new)
    <3>1. Plain(new) /\ UNCHANGED store /\ ~ (todo[1].do = "apply" /\ Brings(todo[1]))
      BY <2>12 DEF Else, Brings
    <3>2. QED
      BY <2>6, <2>7, <3>1, PlainFacts
  <2>13. QED
    BY <2>1, <2>5, <2>8, <2>9, <2>10, <2>11, <2>12
<1>2. Rest = <<>> => \A c \in Range(Rest) : ~ Brings(c)
  BY EmptyFacts
<1>3. ASSUME Push PROVE OneAtATime'
  <2>1. Rest = <<>> /\ \E m : Fits(m) /\ m.way = "up" /\ todo' = push_message(m) \o Rest
    BY <1>3, PushStepFacts
  <2>2. QED
    BY <1>0, <1>2, <2>1, PushUp, NoMoreIsBrought
<1>4. ASSUME NEW a \in Producers, Answer(a) PROVE OneAtATime'
  <2>1. Rest = <<>> /\ \E m : /\ Fits(m) /\ m.way = "down" /\ Known(m)
                             /\ todo' = push_message(m) \o Rest
    BY <1>4, AnswerFacts, Zenon
  <2>2. PICK m : Fits(m) /\ m.way = "down" /\ Known(m) /\ todo' = push_message(m) \o Rest
    BY <2>1
  <2>3. QED
    BY <1>0, <1>2, <2>1, <2>2, OneIsBrought, Zenon
<1>5. QED
  BY <1>1, <1>3, <1>4 DEF Next, Step

\* Nothing is brought in the beginning.
LEMMA OneAtATimeInit == Init => OneAtATime
<1> SUFFICES ASSUME Init PROVE OneAtATime
  OBVIOUS
<1>1. \A c \in Range(todo) : c.do \in {"producer_init", "consumer_init"}
  BY InitActorsFacts DEF Init
<1>2. \A i \in DOMAIN todo : todo[i] \in Range(todo)
  BY DEF Range
<1>3. QED
  BY <1>1, <1>2 DEF OneAtATime, FirstOnly, NoneBefore, Brings, Bringing

---------------------------------------------------------------------------
(* Listening stores *)

\* The call that has l derive its value from what is brought to p.
Derives(c, l, p) == c.do = "listen" /\ Brings(c) /\ c.point = l /\ c.m.point = p

\* A listening store has what its point has, or it is about to be brought; and
\* while an update is applied all that listen are still to hear of it.
ListenersFollow ==
    /\ \A p \in Updated : \A l \in Range(Listeners[p]) \cap Listening :
         store[l] = store[p] \/ \E c \in Range(todo) : Derives(c, l, p)
    /\ todo # <<>> /\ todo[1].do = "apply" /\ Brings(todo[1]) =>
         \A l \in Range(Listeners[todo[1].m.point]) :
             \E c \in Range(todo) : Derives(c, l, todo[1].m.point)

\* A step that neither brings an update nor derives a value.
LEMMA ListenersStay ==
    ASSUME Typed, OneAtATime, ListenersFollow, NEW new \in Seq(Calls), todo' = new \o Rest,
           \A p \in Updated \cup Listening : store'[p] = store[p],
           todo # <<>> => \A l \in Listening : \A p : ~ Derives(todo[1], l, p),
           \A c \in Range(new) : ~ Brings(c)
    PROVE  ListenersFollow'
<1>1. /\ Range(todo') = Range(new) \cup Range(Rest)
      /\ Range(todo) = IF todo = <<>> THEN {} ELSE {todo[1]} \cup Range(Rest)
  BY ThenFacts, RestFacts, Zenon DEF Typed, TypeOK
<1>2. ASSUME NEW p \in Updated, NEW l \in Range(Listeners[p]) \cap Listening
      PROVE  store'[l] = store'[p] \/ \E c \in Range(todo') : Derives(c, l, p)
  <2>1. store[l] = store[p] \/ \E c \in Range(todo) : Derives(c, l, p)
    BY DEF ListenersFollow
  <2>2. QED
    BY <1>1, <2>1
<1>3. ~ (todo' # <<>> /\ todo'[1].do = "apply" /\ Brings(todo'[1]))
  <2> SUFFICES ASSUME todo' # <<>>, todo'[1].do = "apply", Brings(todo'[1]) PROVE FALSE
    OBVIOUS
  <2>1. CASE 1 \in 1..Len(new) /\ todo'[1] = new[1]
    <3>1. new[1] \in Range(new)
      BY <2>1, LenProperties DEF Range
    <3>2. QED
      BY <2>1, <3>1
  <2>2. CASE Len(new) = 0 /\ todo'[1] \in Range(Rest)
    <3>1. todo # <<>>
      BY <2>2, EmptyFacts DEF Rest
    <3>2. QED
      BY <2>2, <3>1, FirstOnlyFacts DEF OneAtATime
  <2>3. QED
    BY <2>1, <2>2, HeadAfter
<1>4. QED
  BY <1>2, <1>3 DEF ListenersFollow

\* An update comes down: the new calls reach all that listen.
LEMMA ListenersHear ==
    ASSUME Typed, OneAtATime, ListenersFollow, UNCHANGED store,
           todo # <<>> => \A l \in Listening : \A p : ~ Derives(todo[1], l, p),
           NEW m, Fits(m), m.way = "down", Known(m),
           todo' = push_message(m) \o Rest
    PROVE  ListenersFollow'
<1> DEFINE new == push_message(m)
<1>1. /\ new \in Seq(Calls) /\ 1 \in 1..Len(new) /\ new[1].m = m
      /\ \A l \in Range(Listeners[m.point]) : [do |-> "listen", point |-> l, m |-> m] \in Range(new)
  BY PushDown
<1> HIDE DEF new
<1>2. todo' = new \o Rest
  BY DEF new
<1>3. /\ Range(todo') = Range(new) \cup Range(Rest) /\ todo'[1] = new[1]
      /\ Range(todo) = IF todo = <<>> THEN {} ELSE {todo[1]} \cup Range(Rest)
  BY <1>1, <1>2, ThenFacts, RestFacts, Zenon DEF Typed, TypeOK
<1>4. ASSUME NEW p \in Updated, NEW l \in Range(Listeners[p]) \cap Listening
      PROVE  store'[l] = store'[p] \/ \E c \in Range(todo') : Derives(c, l, p)
  <2>1. store[l] = store[p] \/ \E c \in Range(todo) : Derives(c, l, p)
    BY DEF ListenersFollow
  <2>2. QED
    BY <1>3, <2>1
<1>5. ASSUME Brings(todo'[1]), NEW l \in Range(Listeners[m.point])
      PROVE  \E c \in Range(todo') : Derives(c, l, m.point)
  <2> DEFINE c == [do |-> "listen", point |-> l, m |-> m]
  <2>1. m.action = "update"
    BY <1>1, <1>3, <1>5 DEF Brings
  <2>2. Derives(c, l, m.point)
    BY <2>1 DEF Derives, Brings
  <2>3. c \in Range(todo')
    BY <1>1, <1>3
  <2>4. QED
    BY <2>2, <2>3
<1>6. todo'[1].m = m
  BY <1>1, <1>3
<1>7. QED
  BY <1>4, <1>5, <1>6 DEF ListenersFollow

\* When nobody pushes in return, no step leaves a listening store behind.
LEMMA ListenersStep ==
    ASSUME Typed, OneAtATime, ListenersFollow, busy = {}, Next
    PROVE  ListenersFollow'
<1>0. /\ store \in [Point -> 0..Found] /\ \A p \in Updated \cup Listening : p \in Point
      /\ \A p \in Listening : p \notin Updated \cup Asking
  BY PointAssumption, PointFacts DEF Typed, TypeOK
<1>1. ASSUME todo # <<>>, Step PROVE ListenersFollow'
  <2>1. PICK new \in Seq(Calls) :
           /\ todo' = new \o Rest
           /\ Brought(new) \/ Answered(new) \/ Applied(new) \/ Derived(new) \/ Sent(new) \/ Else(new)
    BY <1>1, StepKinds
  <2>2. /\ Range(todo) = {todo[1]} \cup Range(Rest) /\ GoodCall(todo[1]) /\ todo[1] \in Range(todo)
        /\ Range(todo') = Range(new) \cup Range(Rest)
    BY <1>1, <2>1, CallFacts, CallsStay
  <2>3. CASE Brought(new)
    <3>1. /\ Starts(todo[1]) /\ UNCHANGED store
          /\ \E m : Fits(m) /\ m.way = "down" /\ Known(m) /\ new = push_message(m)
      BY <2>3 DEF Brought
    <3>2. \A l, p : ~ Derives(todo[1], l, p)
      BY <3>1 DEF Starts, Derives
    <3>3. QED
      <4>1. PICK m : Fits(m) /\ m.way = "down" /\ Known(m) /\ new = push_message(m)
        BY <3>1
      <4>2. todo' = push_message(m) \o Rest
        BY <2>1, <4>1
      <4>3. QED
        BY <3>1, <3>2, <4>1, <4>2, ListenersHear
  <2>4. CASE Answered(new)
    <3>1. todo[1].do = "trigger" /\ UNCHANGED store /\ \E m : Fits(m) /\ new = propagate_downstream(m)
      BY <2>4 DEF Answered
    <3>2. \A c \in Range(new) : ~ Brings(c)
      BY <3>1, SendsOnly DEF Brings
    <3>3. \A l, p : ~ Derives(todo[1], l, p)
      BY <3>1 DEF Derives
    <3>4. QED
      BY <2>1, <3>1, <3>2, <3>3, ListenersStay
  <2>5. CASE Applied(new)
    <3> DEFINE q == todo[1].m.point
    <3>1. /\ todo[1].do = "apply" /\ todo[1].m.way = "down" /\ Fits(todo[1].m)
          /\ Known(todo[1].m) /\ store' = [store EXCEPT ![q] = todo[1].m.payload]
          /\ \A c \in Range(new) : ~ Brings(c) /\ c.do # "apply"
      <4>1. Plain(new)
        BY <2>2, <2>5, ChangesPlain DEF Applied, GoodCall, Fits
      <4>2. QED
        BY <2>2, <2>5, <4>1, PlainFacts DEF Applied, Changes, GoodCall
    <3>2. \A l, p : ~ Derives(todo[1], l, p)
      BY <3>1 DEF Derives
    <3>3. CASE ~ Brings(todo[1])
      <4>1. q \in Asking /\ q \notin Updated
        BY <3>1, <3>3, MessageFields, PointFacts DEF Brings, Fits, Known
      <4>2. \A p \in Updated \cup Listening : store'[p] = store[p]
        BY <1>0, <3>1, <4>1
      <4>3. QED
        BY <2>1, <3>1, <3>2, <4>2, ListenersStay
    <3>4. CASE Brings(todo[1])
      <4>1. q \in Updated /\ q \in Point
        BY <1>0, <3>1, <3>4 DEF Brings, Fits
      <4>2. ASSUME NEW p \in Updated, NEW l \in Range(Listeners[p]) \cap Listening
            PROVE  store'[l] = store'[p] \/ \E c \in Range(todo') : Derives(c, l, p)
        <5>1. CASE p = q
          <6>1. \E c \in Range(todo) : Derives(c, l, q)
            BY <1>1, <3>1, <3>4, <5>1 DEF ListenersFollow
          <6>2. QED
            BY <2>2, <3>2, <5>1, <6>1
        <5>2. CASE p # q
          <6>1. l # q
            BY <1>0, <4>1
          <6>2. store'[l] = store[l] /\ store'[p] = store[p]
            BY <1>0, <3>1, <5>2, <6>1
          <6>3. store[l] = store[p] \/ \E c \in Range(todo) : Derives(c, l, p)
            BY DEF ListenersFollow
          <6>4. QED
            BY <2>2, <3>2, <6>2, <6>3
        <5>3. QED
          BY <5>1, <5>2
      <4>3. ~ (todo' # <<>> /\ todo'[1].do = "apply")
        <5> SUFFICES ASSUME todo' # <<>>, todo'[1].do = "apply" PROVE FALSE
          OBVIOUS
        <5>1. CASE 1 \in 1..Len(new) /\ todo'[1] = new[1]
          <6>1. new[1] \in Range(new)
            BY <5>1, LenProperties DEF Range
          <6>2. QED
            BY <3>1, <5>1, <6>1
        <5>2. CASE todo'[1] \in Range(Rest)
          BY <1>1, <5>2, FirstOnlyFacts DEF OneAtATime
        <5>3. QED
          BY <2>1, <5>1, <5>2, HeadAfter
      <4>4. QED
        BY <4>2, <4>3 DEF ListenersFollow
    <3>5. QED
      BY <3>3, <3>4
  <2>6. CASE Derived(new)
    <3> DEFINE k == todo[1].point q == todo[1].m.point
    <3>1. /\ todo[1].do = "listen" /\ Brings(todo[1]) /\ k \in Listening /\ Fits(todo[1].m)
          /\ store' = [store EXCEPT ![k] = todo[1].m.payload]
          /\ \A c \in Range(new) : ~ Brings(c) /\ c.do # "apply"
      <4>1. Plain(new)
        BY <2>6, ChangesPlain DEF Derived
      <4>2. QED
        BY <2>2, <2>6, <4>1, PlainFacts DEF Derived, Changes, GoodCall
    <3>2. q \in Updated /\ k \in Range(Listeners[q])
      BY <2>2, <3>1 DEF Brings, Fits, GoodCall
    <3>3. store[q] = todo[1].m.payload
      BY <2>2, <3>1 DEF OneAtATime
    <3>4. /\ k \in Point /\ store'[k] = store[q]
          /\ \A p \in Point : p # k => store'[p] = store[p]
      BY <1>0, <3>1, <3>3
    <3>5. \A l, p : Derives(todo[1], l, p) => l = k
      BY DEF Derives
    <3>6. ASSUME NEW p \in Updated, NEW l \in Range(Listeners[p]) \cap Listening
          PROVE  store'[l] = store'[p] \/ \E c \in Range(todo') : Derives(c, l, p)
      <4>1. p # k /\ p \in Point /\ l \in Point
        BY <1>0, <3>1
      <4>2. CASE l = k
        <5>1. k \in Range(Listeners[p]) \cap Range(Listeners[q]) \cap Listening
          BY <3>1, <3>2, <4>2
        <5>2. p = q
          BY <3>2, <5>1, SourceAssumption
        <5>3. QED
          BY <3>4, <4>1, <4>2, <5>2
      <4>3. CASE l # k
        <5>1. store[l] = store[p] \/ \E c \in Range(todo) : Derives(c, l, p)
          BY DEF ListenersFollow
        <5>2. QED
          BY <2>2, <3>4, <3>5, <4>1, <4>3, <5>1
      <4>4. QED
        BY <4>2, <4>3
    <3>7. ~ (todo' # <<>> /\ todo'[1].do = "apply")
      <4> SUFFICES ASSUME todo' # <<>>, todo'[1].do = "apply" PROVE FALSE
        OBVIOUS
      <4>1. CASE 1 \in 1..Len(new) /\ todo'[1] = new[1]
        <5>1. new[1] \in Range(new)
          BY <4>1, LenProperties DEF Range
        <5>2. QED
          BY <3>1, <4>1, <5>1
      <4>2. CASE todo'[1] \in Range(Rest)
        BY <1>1, <4>2, FirstOnlyFacts DEF OneAtATime
      <4>3. QED
        BY <2>1, <4>1, <4>2, HeadAfter
    <3>8. QED
      BY <3>6, <3>7 DEF ListenersFollow
  <2>7. CASE Sent(new)
    <3>1. todo[1].do = "send" /\ UNCHANGED store /\ \A c \in Range(new) : ~ Brings(c)
      BY <2>7, EmptyFacts DEF Sent
    <3>2. \A l, p : ~ Derives(todo[1], l, p)
      BY <3>1 DEF Derives
    <3>3. QED
      BY <2>1, <3>1, <3>2, ListenersStay
  <2>8. CASE Else(new)
    <3>1. /\ UNCHANGED store /\ \A c \in Range(new) : ~ Brings(c)
          /\ \A l \in Listening : \A p : ~ Derives(todo[1], l, p)
      BY <2>8, PlainFacts DEF Else, Derives
    <3>2. QED
      BY <2>1, <3>1, ListenersStay
  <2>9. QED
    BY <2>1, <2>3, <2>4, <2>5, <2>6, <2>7, <2>8
<1>2. ASSUME Push PROVE ListenersFollow'
  <2>1. /\ todo = <<>> /\ UNCHANGED store
        /\ \E m : Fits(m) /\ m.way = "up" /\ todo' = push_message(m) \o Rest
    BY <1>2, PushStepFacts
  <2>2. QED
    BY <2>1, PushUp, ListenersStay
<1>3. ASSUME NEW a \in Producers, Answer(a) PROVE ListenersFollow'
  <2>1. todo = <<>> /\ UNCHANGED store
    BY <1>3, AnswerFacts
  <2>2. PICK m : Fits(m) /\ m.way = "down" /\ Known(m) /\ todo' = push_message(m) \o Rest
    BY <1>3, AnswerFacts, Zenon
  <2>3. QED
    BY <2>1, <2>2, ListenersHear
<1>4. QED
  BY <1>1, <1>2, <1>3 DEF Next, Step

\* No store has a value.
LEMMA ListenersInit == Init => ListenersFollow
<1> SUFFICES ASSUME Init PROVE ListenersFollow
  OBVIOUS
<1>1. todo \in Seq(Calls) /\ \A c \in Range(todo) : c.do \in {"producer_init", "consumer_init"}
  BY InitActorsFacts DEF Init
<1>2. \A p \in Updated \cup Listening : store[p] = NoValue
  BY PointAssumption, PointFacts DEF Init
<1>3. todo # <<>> => todo[1] \in Range(todo)
  BY <1>1, TailFacts
<1>4. QED
  BY <1>1, <1>2, <1>3 DEF ListenersFollow

\* Who pushes in return does not change.
LEMMA BusySame == [Next]_vars => UNCHANGED busy
  BY DEF Next, Step, Apply, Trigger, Listen, Notify, Tell, Send, Upstream, ProducerInit,
         ConsumerInit, Push, Answer, vars

\* When nobody pushes in return a listening store holds what it derives from the
\* point that it listens to (push_message, apply_foreign_message).
THEOREM ListenersAreNotBehind == Spec => []ListenerFollows
<1> DEFINE I == Typed /\ (busy = {} => OneAtATime /\ ListenersFollow)
<1>1. Init => I
  BY TypedInit, OneAtATimeInit, ListenersInit
<1>2. I /\ [Next]_vars => I'
  <2> SUFFICES ASSUME I, [Next]_vars PROVE I'
    OBVIOUS
  <2>1. Typed' /\ UNCHANGED busy
    BY TypedStep, BusySame
  <2>2. CASE busy = {} /\ Next
    BY <2>1, <2>2, OneAtATimeStep, ListenersStep
  <2>3. CASE UNCHANGED vars
    <3>1. OneAtATime' <=> OneAtATime
      BY <2>3 DEF vars, OneAtATime, FirstOnly, NoneBefore, Starting, Starts, Missing, Unset
    <3>2. ListenersFollow' <=> ListenersFollow
      BY <2>3 DEF vars, ListenersFollow
    <3>3. QED
      BY <2>1, <3>1, <3>2
  <2>4. QED
    BY <2>1, <2>2, <2>3
<1>3. I => ListenerFollows
  BY EmptyFacts DEF ListenersFollow, ListenerFollows, Idle
<1>4. QED
  BY <1>1, <1>2, <1>3, PTL DEF Spec

---------------------------------------------------------------------------
(* One message at a time *)

\* All that is being sent is one message, to each consumer once.
SendsAlike(s) ==
    \A i, j \in DOMAIN s :
        s[i].do = "send" /\ s[j].do = "send" => s[i].m = s[j].m /\ (s[i].actor = s[j].actor => i = j)

\* While it is sent nothing else that would be sent is started.
OneIsSent == SendsAlike(todo) /\ NoneBefore(todo, Starting, Sending)

\* New calls keep it, if either they or the others send nothing.
LEMMA SendsStep ==
    ASSUME Typed, SendsAlike(todo), NEW new \in Seq(Calls), todo' = new \o Rest,
           \/ \A c \in Range(new) : c.do # "send"
           \/ SendsAlike(new) /\ \A c \in Range(Rest) : c.do # "send"
    PROVE  SendsAlike(todo)'
<1>1. /\ DOMAIN new = 1..Len(new) /\ Len(new) \in Nat
      /\ DOMAIN todo' = 1..(Len(new) + Len(Rest))
      /\ \A i \in 1..Len(new) : todo'[i] = new[i]
      /\ \A i \in 1..(Len(new) + Len(Rest)) :
           i \notin 1..Len(new) => i - Len(new) \in 1..Len(Rest) /\ todo'[i] = Rest[i - Len(new)]
  BY ThenFacts DEF Typed, TypeOK
<1>2. /\ DOMAIN todo = 1..Len(todo) /\ Len(Rest) \in Nat /\ DOMAIN Rest = 1..Len(Rest)
      /\ \A i \in 1..Len(Rest) : Rest[i] = todo[i + 1] /\ i + 1 \in 1..Len(todo)
  BY RestFacts, Zenon DEF Typed, TypeOK
<1> SUFFICES ASSUME NEW i \in DOMAIN todo', NEW j \in DOMAIN todo',
                    todo'[i].do = "send", todo'[j].do = "send"
             PROVE  todo'[i].m = todo'[j].m /\ (todo'[i].actor = todo'[j].actor => i = j)
  BY DEF SendsAlike
<1>3. CASE \A c \in Range(new) : c.do # "send"
  <2>1. \A k \in 1..Len(new) : todo'[k].do # "send"
    BY <1>1, <1>3 DEF Range
  <2>2. i \notin 1..Len(new) /\ j \notin 1..Len(new)
    BY <2>1
  <2>3. /\ todo'[i] = todo[i - Len(new) + 1] /\ i - Len(new) + 1 \in DOMAIN todo
        /\ todo'[j] = todo[j - Len(new) + 1] /\ j - Len(new) + 1 \in DOMAIN todo
    BY <1>1, <1>2, <2>2
  <2>4. i - Len(new) + 1 = j - Len(new) + 1 => i = j
    BY <1>1, <2>3, SMT
  <2>5. QED
    BY <2>3, <2>4 DEF SendsAlike
<1>4. CASE SendsAlike(new) /\ \A c \in Range(Rest) : c.do # "send"
  <2>1. \A k \in 1..Len(Rest) : Rest[k].do # "send"
    BY <1>2, <1>4 DEF Range
  <2>2. i \in 1..Len(new) /\ j \in 1..Len(new)
    BY <1>1, <2>1
  <2>3. QED
    BY <1>1, <1>4, <2>2 DEF SendsAlike
<1>5. QED
  BY <1>3, <1>4

\* The same relation, for sets of calls that are not expanded.
LEMMA SendOrder ==
    ASSUME Typed, NoneBefore(todo, Starting, Sending), Next,
           NEW new \in Seq(Calls), todo' = new \o Rest,
           \/ \A c \in Range(new) : ~ Starts(c)'
           \/ \A c \in Range(new) \cup Range(Rest) : c.do # "send"
    PROVE  NoneBefore(todo, Starting, Sending)'
<1>1. PICK A, B, C : A = Starting /\ B = Sending /\ C = Starting'
  OBVIOUS
<1>2. NoneBefore(todo, A, B) /\ C \subseteq A
  BY <1>1, StartsLess
<1>3. Range(new) \cap C = {} \/ (Range(new) \cup Range(Rest)) \cap B = {}
  BY <1>1 DEF Starting, Sending
<1>4. NoneBefore(todo', C, B)
  BY <1>2, <1>3, OrderStep
<1>5. QED
  BY <1>1, <1>4 DEF NoneBefore, Sending

\* While a call from which a message may come down is next, nothing is sent.
LEMMA NothingIsSent ==
    ASSUME Typed, OneIsSent, todo # <<>>, Starts(todo[1])
    PROVE  \A c \in Range(todo) : c.do # "send"
<1> DEFINE A == Starting B == Sending
<1>1. todo[1] \in A /\ NoneBefore(todo, A, B) /\ Range(Rest) \subseteq Calls
      /\ Range(todo) = {todo[1]} \cup Range(Rest)
  BY CallFacts, RestFacts DEF OneIsSent, Starting, Typed, TypeOK
<1> HIDE DEF A, B
<1>2. Range(Rest) \cap B = {}
  BY <1>1, HeadFirst
<1>3. QED
  BY <1>1, <1>2 DEF B, Sending, Starts

\* A step after which nothing new is sent keeps it.
LEMMA NoMoreIsSent ==
    ASSUME Typed, OneIsSent, Next, NEW new \in Seq(Calls), todo' = new \o Rest,
           \A c \in Range(new) : c.do # "send",
           (\A c \in Range(new) : ~ Starts(c)') \/ (\A c \in Range(Rest) : c.do # "send")
    PROVE  OneIsSent'
<1>1. SendsAlike(todo)'
  BY SendsStep DEF OneIsSent
<1>2. NoneBefore(todo, Starting, Sending)'
  BY SendOrder DEF OneIsSent
<1>3. QED
  BY <1>1, <1>2 DEF OneIsSent

\* One message is sent when none was.
LEMMA OneMoreIsSent ==
    ASSUME Typed, OneIsSent, Next, NEW new \in Seq(Calls), todo' = new \o Rest,
           \A c \in Range(Rest) : c.do # "send",
           SendsAlike(new), \A c \in Range(new) : c.do \in {"apply", "listen", "send"}
    PROVE  OneIsSent'
<1>1. SendsAlike(todo)'
  BY SendsStep DEF OneIsSent
<1>2. \A c \in Range(new) : ~ Starts(c)'
  BY DEF Starts
<1>3. NoneBefore(todo, Starting, Sending)'
  BY <1>2, SendOrder DEF OneIsSent
<1>4. QED
  BY <1>1, <1>3 DEF OneIsSent

\* What comes down is sent to each consumer once.
LEMMA PushAlike ==
    ASSUME NEW m, Fits(m), m.way = "down", Known(m)
    PROVE  SendsAlike(push_message(m))
<1> DEFINE s == push_message(m)
<1>1. /\ s \in Seq(Calls) /\ \A c \in Range(s) : c.m = m
      /\ \A i, j \in 1..Len(s) :
            s[i].do = "send" /\ s[j].do = "send" /\ s[i].actor = s[j].actor => i = j
  BY PushDown
<1> HIDE DEF s
<1>2. DOMAIN s = 1..Len(s) /\ \A i \in DOMAIN s : s[i].m = m
  BY <1>1, LenProperties DEF Range
<1>3. QED
  BY <1>1, <1>2 DEF SendsAlike, s

\* And so is the answer to a read.
LEMMA PropagateAlike == ASSUME NEW m, Fits(m) PROVE SendsAlike(propagate_downstream(m))
<1> DEFINE s == propagate_downstream(m)
<1>1. /\ \A c \in Range(s) : c.m = m
      /\ \A i, j \in DOMAIN s : s[i].actor = s[j].actor => i = j
  BY SendsOnly, SendToFacts DEF Fits
<1> HIDE DEF s
<1>2. \A i \in DOMAIN s : s[i].m = m
  BY <1>1 DEF Range
<1>3. QED
  BY <1>1, <1>2 DEF SendsAlike, s

\* When nobody pushes in return, messages are sent one at a time.
LEMMA OneIsSentStep ==
    ASSUME Typed, OneIsSent, busy = {}, Next
    PROVE  OneIsSent'
<1>0. Next
  OBVIOUS
<1>1. ASSUME todo # <<>>, Step PROVE OneIsSent'
  <2>1. PICK new \in Seq(Calls) :
           /\ todo' = new \o Rest
           /\ Brought(new) \/ Answered(new) \/ Applied(new) \/ Derived(new) \/ Sent(new) \/ Else(new)
    BY <1>1, StepKinds
  <2>2. /\ Range(todo) = {todo[1]} \cup Range(Rest) /\ todo[1] \in Range(todo)
        /\ GoodCall(todo[1])
    BY <1>1, CallFacts
  <2>3. Starts(todo[1]) => \A c \in Range(Rest) : c.do # "send"
    BY <1>1, <2>2, NothingIsSent
  <2>4. CASE Brought(new)
    <3>1. PICK m : Fits(m) /\ m.way = "down" /\ Known(m) /\ new = push_message(m)
      BY <2>4 DEF Brought
    <3>2. SendsAlike(new)
      BY <3>1, PushAlike
    <3>3. \A c \in Range(new) : c.do \in {"apply", "listen", "send"}
      BY <3>1, PushDown
    <3>4. QED
      BY <1>0, <2>1, <2>3, <2>4, <3>2, <3>3, OneMoreIsSent DEF Brought
  <2>5. CASE Answered(new)
    <3>1. PICK m : /\ Fits(m) /\ m.way = "down" /\ new = propagate_downstream(m)
      BY <2>5 DEF Answered
    <3>2. SendsAlike(new)
      BY <3>1, PropagateAlike
    <3>3. \A c \in Range(new) : c.do \in {"apply", "listen", "send"}
      BY <3>1, SendsOnly
    <3>4. Starts(todo[1])
      BY <2>5 DEF Answered, Starts
    <3>5. QED
      BY <1>0, <2>1, <2>3, <3>2, <3>3, <3>4, OneMoreIsSent
  <2>6. ASSUME Plain(new) PROVE OneIsSent'
    <3>1. \A c \in Range(new) : c.do # "send" /\ (Starts(c)' => Starts(todo[1]))
      BY <2>6, PlainFacts
    <3>2. QED
      BY <1>0, <2>1, <2>3, <3>1, NoMoreIsSent
  <2>7. CASE Applied(new) \/ Derived(new)
    BY <2>2, <2>6, <2>7, ChangesPlain DEF Applied, Derived, GoodCall, Fits
  <2>8. CASE Sent(new)
    BY <2>6, <2>8, EmptyFacts, NotifiesArePlain DEF Sent
  <2>9. CASE Else(new)
    BY <2>6, <2>9 DEF Else
  <2>10. QED
    BY <2>1, <2>4, <2>5, <2>7, <2>8, <2>9
<1>2. Rest = <<>> => \A c \in Range(Rest) : c.do # "send"
  BY EmptyFacts
<1>3. ASSUME Push PROVE OneIsSent'
  <2>1. Rest = <<>> /\ \E m : Fits(m) /\ m.way = "up" /\ todo' = push_message(m) \o Rest
    BY <1>3, PushStepFacts
  <2>2. QED
    BY <1>0, <1>2, <2>1, PushUp, NoMoreIsSent
<1>4. ASSUME NEW a \in Producers, Answer(a) PROVE OneIsSent'
  <2>1. Rest = <<>>
    BY <1>4, AnswerFacts
  <2>2. PICK m : Fits(m) /\ m.way = "down" /\ Known(m) /\ todo' = push_message(m) \o Rest
    BY <1>4, AnswerFacts, Zenon
  <2>3. SendsAlike(push_message(m))
    BY <2>2, PushAlike
  <2>4. push_message(m) \in Seq(Calls)
    BY <2>2, PushDown
  <2>5. \A c \in Range(push_message(m)) : c.do \in {"apply", "listen", "send"}
    BY <2>2, PushDown
  <2>6. QED
    BY <1>0, <1>2, <2>1, <2>2, <2>3, <2>4, <2>5, OneMoreIsSent
<1>5. QED
  BY <1>1, <1>3, <1>4 DEF Next, Step

---------------------------------------------------------------------------
(* One history for all consumers *)

\* The call sends something to a.
SendsTo(c, a) == c.do = "send" /\ c.actor = a

\* What a store will have when the call that is next is done.
WillHold(p) ==
    IF todo # <<>> /\ todo[1].do = "apply" /\ todo[1].m.way = "down" /\ todo[1].m.point = p
    THEN todo[1].m.payload ELSE store[p]

\* There is one history H, which each consumer has heard, or will have heard
\* when what is being sent has reached it; and of each point it tells what the
\* store has, or will have when what is being applied is there.
FollowersFollow ==
    \E H \in Seq(Message) :
        /\ \A i \in DOMAIN H :
             Fits(H[i]) /\ (IsLast(H, i) => H[i].payload = WillHold(H[i].point))
        /\ \A a \in Consumers :
             /\ \A c \in Range(todo) : SendsTo(c, a) => H = Append(heard[a], c.m)
             /\ heard[a] = H \/ \E c \in Range(todo) : SendsTo(c, a)

\* What is last about its point when a message is added.
LEMMA LastOfMore ==
    ASSUME NEW H \in Seq(Message), NEW m \in Message, NEW i \in DOMAIN Append(H, m)
    PROVE  \/ Append(H, m)[i] = m
           \/ /\ i \in DOMAIN H /\ Append(H, m)[i] = H[i]
              /\ IsLast(Append(H, m), i) => IsLast(H, i) /\ H[i].point # m.point
<1>1. /\ DOMAIN H = 1..Len(H) /\ Len(H) \in Nat /\ DOMAIN Append(H, m) = 1..(Len(H) + 1)
      /\ \A j \in 1..Len(H) : Append(H, m)[j] = H[j]
      /\ Append(H, m)[Len(H) + 1] = m
  BY AppendProperties, LenProperties
<1>2. CASE i = Len(H) + 1
  BY <1>1, <1>2
<1>3. CASE i # Len(H) + 1
  <2>1. i \in 1..Len(H) /\ Len(H) + 1 > i /\ Len(H) + 1 \in DOMAIN Append(H, m)
    BY <1>1, <1>3, SMT
  <2>2. \A j \in DOMAIN H : j \in DOMAIN Append(H, m) /\ Append(H, m)[j] = H[j]
    BY <1>1, SMT
  <2>3. QED
    BY <1>1, <2>1, <2>2 DEF IsLast
<1>4. QED
  BY <1>2, <1>3

\* A step in which nothing is sent and no store of a message changes.
LEMMA NothingIsHeard ==
    ASSUME Typed, FollowersFollow, UNCHANGED heard, NEW new \in Seq(Calls), todo' = new \o Rest,
           \A c \in Range(new) : c.do # "send", todo # <<>> => todo[1].do # "send",
           \A p \in Updated \cup Asking : WillHold(p)' = WillHold(p)
    PROVE  FollowersFollow'
<1>1. /\ Range(todo') = Range(new) \cup Range(Rest)
      /\ Range(todo) = IF todo = <<>> THEN {} ELSE {todo[1]} \cup Range(Rest)
  BY ThenFacts, RestFacts, Zenon DEF Typed, TypeOK
<1>2. \A a : /\ \A c \in Range(todo') : SendsTo(c, a) => c \in Range(todo)
             /\ \A c \in Range(todo) : SendsTo(c, a) => c \in Range(todo')
  <2>1. Rest # <<>> => todo # <<>>
    BY DEF Rest
  <2>2. Range(Rest) # {} => Rest # <<>>
    BY EmptyFacts
  <2>3. QED
    BY <1>1, <2>1, <2>2 DEF SendsTo
<1>3. PICK H \in Seq(Message) :
        /\ \A i \in DOMAIN H :
             Fits(H[i]) /\ (IsLast(H, i) => H[i].payload = WillHold(H[i].point))
        /\ \A a \in Consumers :
             /\ \A c \in Range(todo) : SendsTo(c, a) => H = Append(heard[a], c.m)
             /\ heard[a] = H \/ \E c \in Range(todo) : SendsTo(c, a)
  BY DEF FollowersFollow
<1>4. \A i \in DOMAIN H : H[i].point \in Updated \cup Asking
  BY <1>3 DEF Fits
<1>5. \A i \in DOMAIN H : \A p : p = H[i].point => WillHold(p)' = WillHold(p)
  BY <1>4
<1>6. \A i \in DOMAIN H : IsLast(H, i) => \A p : p = H[i].point => H[i].payload = WillHold(p)'
  BY <1>3, <1>5
<1>7. \A a \in Consumers :
             /\ \A c \in Range(todo') : SendsTo(c, a) => H = Append(heard'[a], c.m)
             /\ heard'[a] = H \/ \E c \in Range(todo') : SendsTo(c, a)
  BY <1>2, <1>3
<1>8. \A i \in DOMAIN H : Fits(H[i]) /\ (IsLast(H, i) => H[i].payload = WillHold(H[i].point)')
  BY <1>3, <1>6
<1>9. QED
  BY <1>7, <1>8, Zenon DEF FollowersFollow

\* One message is sent to all consumers, and says what its store has.
LEMMA OneIsHeard ==
    ASSUME Typed, FollowersFollow, UNCHANGED heard, NEW new \in Seq(Calls), todo' = new \o Rest,
           \A c \in Range(todo) : c.do # "send",
           NEW m, Fits(m), \A c \in Range(new) : c.do = "send" => c.m = m,
           \A a \in Consumers : \E c \in Range(new) : SendsTo(c, a),
           WillHold(m.point)' = m.payload,
           \A p \in Updated \cup Asking : p # m.point => WillHold(p)' = WillHold(p)
    PROVE  FollowersFollow'
<1>1. /\ Range(todo') = Range(new) \cup Range(Rest) /\ Range(Rest) \subseteq Range(todo)
  BY ThenFacts, RestFacts, Zenon DEF Typed, TypeOK
<1>2. PICK H \in Seq(Message) :
        /\ \A i \in DOMAIN H :
             Fits(H[i]) /\ (IsLast(H, i) => H[i].payload = WillHold(H[i].point))
        /\ \A a \in Consumers :
             /\ \A c \in Range(todo) : SendsTo(c, a) => H = Append(heard[a], c.m)
             /\ heard[a] = H \/ \E c \in Range(todo) : SendsTo(c, a)
  BY DEF FollowersFollow
<1>3. \A a \in Consumers : heard[a] = H
  BY <1>2 DEF SendsTo
<1>4. m \in Message
  BY DEF Fits
<1>5. Append(H, m) \in Seq(Message)
  BY <1>4, AppendProperties
<1>6. ASSUME NEW i \in DOMAIN Append(H, m)
      PROVE  /\ Fits(Append(H, m)[i])
             /\ IsLast(Append(H, m), i) => Append(H, m)[i].payload = WillHold(Append(H, m)[i].point)'
  <2>1. CASE Append(H, m)[i] = m
    BY <2>1
  <2>2. CASE /\ i \in DOMAIN H /\ Append(H, m)[i] = H[i]
             /\ IsLast(Append(H, m), i) => IsLast(H, i) /\ H[i].point # m.point
    <3>1. Fits(H[i]) /\ H[i].point \in Updated \cup Asking
      BY <1>2, <2>2 DEF Fits
    <3>2. IsLast(Append(H, m), i) => H[i].payload = WillHold(H[i].point)'
      BY <1>2, <2>2, <3>1
    <3>3. QED
      BY <2>2, <3>1, <3>2
  <2>3. QED
    BY <1>4, <1>6, <2>1, <2>2, LastOfMore
<1>7. \A a \in Consumers :
             /\ \A c \in Range(todo') : SendsTo(c, a) => Append(H, m) = Append(heard'[a], c.m)
             /\ \E c \in Range(todo') : SendsTo(c, a)
  <2>1. \A c \in Range(todo') : c.do = "send" => c.m = m
    BY <1>1
  <2>2. QED
    BY <1>1, <1>3, <2>1 DEF SendsTo
<1>8. QED
  BY <1>5, <1>6, <1>7, Zenon DEF FollowersFollow

\* If no message is about to be applied the stores have what they will hold,
LEMMA NotApplied ==
    ASSUME ~ (todo # <<>> /\ todo[1].do = "apply" /\ todo[1].m.way = "down")
    PROVE  \A p : WillHold(p) = store[p]
  BY DEF WillHold

\* and so they have after a step that calls for none to be applied.
LEMMA NotAppliedAfter ==
    ASSUME Typed, FirstOnly, NEW new \in Seq(Calls), todo' = new \o Rest,
           \A i \in 1..Len(new) : ~ (new[i].do = "apply" /\ new[i].m.way = "down")
    PROVE  \A p : WillHold(p)' = store'[p]
<1>1. ~ (todo' # <<>> /\ todo'[1].do = "apply" /\ todo'[1].m.way = "down")
  <2> SUFFICES ASSUME todo' # <<>>, todo'[1].do = "apply", todo'[1].m.way = "down" PROVE FALSE
    OBVIOUS
  <2>1. CASE 1 \in 1..Len(new) /\ todo'[1] = new[1]
    BY <2>1
  <2>2. CASE Len(new) = 0 /\ todo'[1] \in Range(Rest)
    <3>1. todo # <<>>
      BY <2>2, EmptyFacts DEF Rest
    <3>2. QED
      BY <2>2, <3>1, FirstOnlyFacts
  <2>3. QED
    BY <2>1, <2>2, HeadAfter
<1>2. QED
  BY <1>1 DEF WillHold

\* What is pushed down is what the store will have.
LEMMA AppliedAfter ==
    ASSUME Typed, NEW new \in Seq(Calls), todo' = new \o Rest, 1 \in 1..Len(new),
           NEW m, new[1].do = "apply", new[1].m = m, m.way = "down", UNCHANGED store
    PROVE  WillHold(m.point)' = m.payload /\ \A p : p # m.point => WillHold(p)' = store[p]
<1>1. todo' # <<>> /\ todo'[1] = new[1]
  <2>1. /\ todo' \in Seq(Calls) /\ todo'[1] = new[1] /\ Len(new) \in Nat /\ Len(Rest) \in Nat
        /\ DOMAIN todo' = 1..(Len(new) + Len(Rest))
    BY ThenFacts, RestFacts, Zenon DEF Typed, TypeOK
  <2>2. 1 \in DOMAIN todo'
    BY <2>1, SMT
  <2>3. QED
    BY <2>1, <2>2
<1>2. QED
  BY <1>1 DEF WillHold

\* When nobody pushes in return, every step lets the consumers follow.
LEMMA FollowersStep ==
    ASSUME Typed, FirstOnly, OneIsSent, FollowersFollow, busy = {}, Next
    PROVE  FollowersFollow'
<1>0. store \in [Point -> 0..Found]
      /\ \A p \in Updated \cup Asking : p \in Point /\ p \notin Listening
  BY PointFacts DEF Typed, TypeOK
<1>1. ASSUME todo # <<>>, Step PROVE FollowersFollow'
  <2>1. PICK new \in Seq(Calls) :
           /\ todo' = new \o Rest
           /\ Brought(new) \/ Answered(new) \/ Applied(new) \/ Derived(new) \/ Sent(new) \/ Else(new)
    BY <1>1, StepKinds
  <2>2. /\ Range(todo) = {todo[1]} \cup Range(Rest) /\ todo[1] \in Range(todo) /\ GoodCall(todo[1])
        /\ Range(todo') = Range(new) \cup Range(Rest)
    BY <1>1, <2>1, CallFacts, CallsStay
  <2>3. CASE Brought(new)
    <3>1. PICK m : Fits(m) /\ m.way = "down" /\ Known(m) /\ new = push_message(m)
      BY <2>3 DEF Brought
    <3>2. /\ Starts(todo[1]) /\ UNCHANGED <<store, heard>> /\ \A c \in Range(todo) : c.do # "send"
      BY <1>1, <2>3, NothingIsSent DEF Brought
    <3>3. /\ 1 \in 1..Len(new) /\ new[1].do = "apply" /\ new[1].m = m
          /\ \A c \in Range(new) : c.do = "send" => c.m = m
          /\ \A a \in Consumers : [do |-> "send", actor |-> a, m |-> m] \in Range(new)
      BY <3>1, PushDown
    <3>4. WillHold(m.point)' = m.payload /\ \A p : p # m.point => WillHold(p)' = store[p]
      BY <2>1, <3>1, <3>2, <3>3, AppliedAfter
    <3>5. \A p : WillHold(p) = store[p]
      BY <3>2, NotApplied DEF Starts
    <3>6. \A a \in Consumers : \E c \in Range(new) : SendsTo(c, a)
      BY <3>3 DEF SendsTo
    <3>7. QED
      BY <2>1, <3>1, <3>2, <3>3, <3>4, <3>5, <3>6, OneIsHeard
  <2>4. CASE Answered(new)
    <3>1. PICK m : /\ Fits(m) /\ m.way = "down" /\ m.payload = store[m.point]
                   /\ new = propagate_downstream(m)
      BY <2>4 DEF Answered
    <3>2. todo[1].do = "trigger" /\ UNCHANGED <<store, heard>> /\ \A c \in Range(todo) : c.do # "send"
      BY <1>1, <2>4, NothingIsSent DEF Answered, Starts
    <3>3. /\ \A c \in Range(new) : c.do = "send" /\ c.m = m
          /\ \A i \in 1..Len(new) : new[i].do = "send"
          /\ Range(new) = {[do |-> "send", actor |-> a, m |-> m] : a \in Consumers}
      BY <3>1, SendsOnly, SendToFacts DEF Fits
    <3>4. \A p : WillHold(p)' = store[p]
      BY <2>1, <3>2, <3>3, NotAppliedAfter
    <3>5. \A p : WillHold(p) = store[p]
      BY <3>2, NotApplied
    <3>6. \A a \in Consumers : [do |-> "send", actor |-> a, m |-> m] \in Range(new)
      <4>1. TAKE a \in Consumers
      <4>2. [do |-> "send", actor |-> a, m |-> m] \in {[do |-> "send", actor |-> b, m |-> m] : b \in Consumers}
        OBVIOUS
      <4>3. QED
        BY <3>3, <4>2
    <3>7. \A a \in Consumers : \E c \in Range(new) : SendsTo(c, a)
      BY <3>6 DEF SendsTo
    <3>8. QED
      BY <2>1, <3>1, <3>2, <3>3, <3>4, <3>5, <3>7, OneIsHeard
  \* In the steps that send nothing it is enough that the stores have what
  \* they were to have.
  <2>5. ASSUME todo[1].do # "send", UNCHANGED heard, Plain(new),
               \A p \in Updated \cup Asking : store'[p] = WillHold(p)
        PROVE  FollowersFollow'
    <3>1. \A c \in Range(new) : c.do \notin {"send", "apply"}
      BY <2>5, PlainFacts
    <3>2. \A i \in 1..Len(new) : new[i].do # "apply"
      BY <3>1, LenProperties DEF Range
    <3>3. \A p : WillHold(p)' = store'[p]
      BY <2>1, <3>2, NotAppliedAfter
    <3>4. QED
      BY <2>1, <2>5, <3>1, <3>3, NothingIsHeard
  <2>6. CASE Applied(new)
    <3>1. /\ todo[1].do = "apply" /\ todo[1].m.way = "down" /\ UNCHANGED heard
          /\ store' = [store EXCEPT ![todo[1].m.point] = todo[1].m.payload]
          /\ Plain(new)
      BY <2>2, <2>6, ChangesPlain DEF Applied, Changes, GoodCall, Fits
    <3>2. \A p \in Point : store'[p] = WillHold(p)
      BY <1>0, <1>1, <3>1 DEF WillHold
    <3>3. QED
      BY <1>0, <2>5, <3>1, <3>2
  <2>7. CASE Derived(new)
    <3>1. /\ todo[1].do = "listen" /\ todo[1].point \in Listening /\ UNCHANGED heard
          /\ store' = [store EXCEPT ![todo[1].point] = todo[1].m.payload]
          /\ Plain(new)
      BY <2>7, ChangesPlain DEF Derived, Changes
    <3>2. \A p \in Updated \cup Asking : store'[p] = store[p]
      BY <1>0, <3>1
    <3>3. \A p : WillHold(p) = store[p]
      BY <3>1, NotApplied
    <3>4. QED
      BY <2>5, <3>1, <3>2, <3>3
  <2>8. CASE Sent(new)
    <3> DEFINE b == todo[1].actor n == todo[1].m
    <3>1. /\ todo[1].do = "send" /\ b \in Consumers /\ UNCHANGED store /\ new = <<>>
          /\ heard' = [heard EXCEPT ![b] = Append(heard[b], n)] /\ heard \in [Consumers -> Seq(Message)]
      BY <2>8 DEF Sent, Typed, TypeOK
    <3>2. Range(todo') = Range(Rest) /\ \A i \in 1..Len(new) : FALSE
      BY <2>2, <3>1, EmptyFacts, SMT
    <3>3. \A p : WillHold(p)' = WillHold(p)
      <4>1. \A p : WillHold(p)' = store[p]
        BY <2>1, <3>1, <3>2, NotAppliedAfter
      <4>2. \A p : WillHold(p) = store[p]
        BY <3>1, NotApplied
      <4>3. QED
        BY <4>1, <4>2
    \* No other call sends to it.
    <3>4. \A c \in Range(Rest) : ~ SendsTo(c, b)
      <4>1. /\ DOMAIN todo = 1..Len(todo) /\ Len(Rest) \in Nat /\ DOMAIN Rest = 1..Len(Rest)
            /\ \A i \in 1..Len(Rest) : Rest[i] = todo[i + 1] /\ i + 1 \in 1..Len(todo)
            /\ Len(todo) = Len(Rest) + 1
        BY <1>1, RestFacts, Zenon DEF Typed, TypeOK
      <4>2. ASSUME NEW i \in 1..Len(Rest), SendsTo(Rest[i], b) PROVE FALSE
        <5>1. i + 1 \in DOMAIN todo /\ 1 \in DOMAIN todo /\ i + 1 # 1
          BY <4>1, SMT
        <5>2. todo[i + 1].do = "send" /\ todo[i + 1].actor = b
          BY <4>1, <4>2 DEF SendsTo
        <5>3. QED
          BY <3>1, <5>1, <5>2 DEF OneIsSent, SendsAlike
      <4>3. QED
        BY <4>1, <4>2 DEF Range
    <3>5. PICK H \in Seq(Message) :
            /\ \A i \in DOMAIN H :
                 Fits(H[i]) /\ (IsLast(H, i) => H[i].payload = WillHold(H[i].point))
            /\ \A a \in Consumers :
                 /\ \A c \in Range(todo) : SendsTo(c, a) => H = Append(heard[a], c.m)
                 /\ heard[a] = H \/ \E c \in Range(todo) : SendsTo(c, a)
      BY DEF FollowersFollow
    <3>6. SendsTo(todo[1], b) /\ \A a : SendsTo(todo[1], a) => a = b
      BY <3>1 DEF SendsTo
    <3>7. H = Append(heard[b], n)
      BY <2>2, <3>1, <3>5, <3>6
    <3>8. heard'[b] = H /\ \A a \in Consumers : a # b => heard'[a] = heard[a]
      BY <3>1, <3>7
    <3> HIDE DEF b, n
    <3>9. \A a \in Consumers :
                 /\ \A c \in Range(todo') : SendsTo(c, a) => H = Append(heard'[a], c.m)
                 /\ heard'[a] = H \/ \E c \in Range(todo') : SendsTo(c, a)
      <4> SUFFICES ASSUME NEW a \in Consumers
                   PROVE  /\ \A c \in Range(todo') : SendsTo(c, a) => H = Append(heard'[a], c.m)
                          /\ heard'[a] = H \/ \E c \in Range(todo') : SendsTo(c, a)
        OBVIOUS
      <4>1. CASE a = b
        BY <3>2, <3>4, <3>8, <4>1
      <4>2. CASE a # b
        BY <2>2, <3>2, <3>5, <3>6, <3>8, <4>2
      <4>3. QED
        BY <4>1, <4>2
    <3>10. \A i \in DOMAIN H : \A p : p = H[i].point => WillHold(p)' = WillHold(p)
      BY <3>3
    <3>11. \A i \in DOMAIN H :
             Fits(H[i]) /\ (IsLast(H, i) => H[i].payload = WillHold(H[i].point)')
      BY <3>5, <3>10
    <3>12. QED
      BY <3>9, <3>11 DEF FollowersFollow
  <2>9. CASE Else(new)
    <3>1. todo[1].do # "send" /\ UNCHANGED <<store, heard>> /\ Plain(new)
          /\ ~ (todo[1].do = "apply" /\ todo[1].m.way = "down")
      BY <2>9 DEF Else
    <3>2. \A p : WillHold(p) = store[p]
      BY <3>1, NotApplied
    <3>3. QED
      BY <2>5, <3>1, <3>2
  <2>10. QED
    BY <2>1, <2>3, <2>4, <2>6, <2>7, <2>8, <2>9
<1>2. ASSUME todo = <<>>
      PROVE  (\A c \in Range(todo) : c.do # "send") /\ \A p : WillHold(p) = store[p]
  BY <1>2, EmptyFacts, NotApplied
<1>3. ASSUME Push PROVE FollowersFollow'
  <2>1. todo = <<>> /\ UNCHANGED <<store, heard>>
    BY <1>3, PushStepFacts
  <2>2. PICK m : Fits(m) /\ m.way = "up" /\ todo' = push_message(m) \o Rest
    BY <1>3, PushStepFacts
  <2> DEFINE new == push_message(m)
  <2>3. /\ new \in Seq(Calls) /\ \A c \in Range(new) : c.do # "send" /\ c.m = m
    BY <2>2, PushUp, PushIsGood
  <2> HIDE DEF new
  <2>4. todo' = new \o Rest
    BY <2>2 DEF new
  <2>5. \A i \in 1..Len(new) : new[i].m.way # "down"
    BY <2>2, <2>3, LenProperties DEF Range
  <2>6. \A p : WillHold(p)' = store[p]
    BY <2>1, <2>3, <2>4, <2>5, NotAppliedAfter
  <2>7. \A p : WillHold(p) = store[p]
    BY <1>2, <2>1
  <2>8. QED
    BY <2>1, <2>3, <2>4, <2>6, <2>7, NothingIsHeard
<1>4. ASSUME NEW b \in Producers, Answer(b) PROVE FollowersFollow'
  <2>1. todo = <<>> /\ UNCHANGED <<store, heard>>
    BY <1>4, AnswerFacts
  <2>2. PICK m : /\ Fits(m) /\ m.way = "down"
                 /\ Known(m)
                 /\ todo' = push_message(m) \o Rest
    BY <1>4, AnswerFacts, Zenon
  <2> DEFINE new == push_message(m)
  <2>3. /\ new \in Seq(Calls) /\ 1 \in 1..Len(new) /\ new[1].do = "apply" /\ new[1].m = m
        /\ \A c \in Range(new) : c.do = "send" => c.m = m
        /\ \A a \in Consumers : [do |-> "send", actor |-> a, m |-> m] \in Range(new)
    BY <2>2, PushDown
  <2> HIDE DEF new
  <2>4. todo' = new \o Rest
    BY <2>2 DEF new
  <2>5. WillHold(m.point)' = m.payload /\ \A p : p # m.point => WillHold(p)' = store[p]
    BY <2>1, <2>2, <2>3, <2>4, AppliedAfter
  <2>6. \A a \in Consumers : \E c \in Range(new) : SendsTo(c, a)
    BY <2>3 DEF SendsTo
  <2>7. QED
    BY <1>2, <2>1, <2>2, <2>3, <2>4, <2>5, <2>6, OneIsHeard
<1>5. QED
  BY <1>1, <1>3, <1>4 DEF Next, Step

\* Nothing has been heard.
LEMMA FollowersInit == Init => OneIsSent /\ FollowersFollow
<1> SUFFICES ASSUME Init PROVE OneIsSent /\ FollowersFollow
  OBVIOUS
<1>1. /\ todo \in Seq(Calls) /\ \A c \in Range(todo) : c.do \in {"producer_init", "consumer_init"}
  BY InitActorsFacts DEF Init
<1>2. \A i \in DOMAIN todo : todo[i] \in Range(todo)
  BY DEF Range
<1>3. todo # <<>> => todo[1] \in Range(todo)
  BY <1>1, TailFacts
<1>4. OneIsSent
  BY <1>1, <1>2, <1>3 DEF OneIsSent, SendsAlike, NoneBefore, Sending
<1>5. <<>> \in Seq(Message) /\ DOMAIN <<>> = {}
  BY SMT
<1>6. FollowersFollow
  BY <1>1, <1>5 DEF Init, FollowersFollow, SendsTo
<1>7. QED
  BY <1>4, <1>6

\* When nobody pushes in return all consumers are sent the same messages in the
\* same order, and the last one about a point says what its store has
\* (propagate_downstream, apply_message).
THEOREM FollowersAlwaysAgree == Spec => []FollowersAgree
<1> DEFINE I == Typed /\ (busy = {} => OneAtATime /\ OneIsSent /\ FollowersFollow)
<1>1. Init => I
  BY TypedInit, OneAtATimeInit, FollowersInit
<1>2. I /\ [Next]_vars => I'
  <2> SUFFICES ASSUME I, [Next]_vars PROVE I'
    OBVIOUS
  <2>1. Typed' /\ UNCHANGED busy
    BY TypedStep, BusySame
  <2>2. CASE busy = {} /\ Next
    BY <2>1, <2>2, OneAtATimeStep, OneIsSentStep, FollowersStep DEF OneAtATime
  <2>3. CASE UNCHANGED vars
    <3>1. OneAtATime' <=> OneAtATime
      BY <2>3 DEF vars, OneAtATime, FirstOnly, NoneBefore, Starting, Starts, Missing, Unset
    <3>2. OneIsSent' <=> OneIsSent
      BY <2>3 DEF vars, OneIsSent, SendsAlike, NoneBefore, Starting, Starts, Missing, Unset
    <3>3. FollowersFollow' <=> FollowersFollow
      BY <2>3 DEF vars, FollowersFollow, WillHold
    <3>4. QED
      BY <2>1, <3>1, <3>2, <3>3
  <2>4. QED
    BY <2>1, <2>2, <2>3
<1>3. I => FollowersAgree
  <2> SUFFICES ASSUME I, busy = {}, todo = <<>>
               PROVE  /\ \A a, b \in Consumers : heard[a] = heard[b]
                      /\ \A a \in Consumers : \A i \in DOMAIN heard[a] :
                           IsLast(heard[a], i) => heard[a][i].payload = store[heard[a][i].point]
    BY DEF FollowersAgree, Idle
  <2>1. Range(todo) = {} /\ \A p : WillHold(p) = store[p]
    BY EmptyFacts, NotApplied
  <2>2. PICK H \in Seq(Message) :
          /\ \A i \in DOMAIN H :
               Fits(H[i]) /\ (IsLast(H, i) => H[i].payload = WillHold(H[i].point))
          /\ \A a \in Consumers :
               /\ \A c \in Range(todo) : SendsTo(c, a) => H = Append(heard[a], c.m)
               /\ heard[a] = H \/ \E c \in Range(todo) : SendsTo(c, a)
    BY DEF FollowersFollow
  <2>3. \A a \in Consumers : heard[a] = H
    BY <2>1, <2>2
  <2>4. QED
    BY <2>1, <2>2, <2>3
<1>4. QED
  BY <1>1, <1>2, <1>3, PTL DEF Spec
=============================================================================

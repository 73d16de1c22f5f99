------------------------- MODULE LocalVersionProofs -------------------------
(***************************************************************************)
(* What replicas show, for any number of replicas, fields and changes.     *)
(* Converged is not inductive: while changes are on their way, a replica   *)
(* owes its agreement with the root producer to what it will still be      *)
(* told, field by field.  IInv says who owes what: a field that a          *)
(* confirmed change on its way sets will be what the last such change says *)
(* (Told), a field that nothing on its way sets is already right, in       *)
(* pending_delta or, where that is silent, in the value (Settled).         *)
(*                                                                         *)
(* The second half is about the user's view of one replica, NotReverted:   *)
(* its own changes keep their order through both queues, and the latest of *)
(* them is what is shown of a field that no foreign change has overtaken.  *)
(***************************************************************************)
EXTENDS LocalVersion, TLAPS

\* What the replica will show of the field once nothing of its own waits.
Kept(r, f) ==
    IF f \in DOMAIN pending_delta[r] THEN pending_delta[r][f] ELSE value[r][f]

Silent(s, f) == \A i \in 1..Len(s) : f \notin DOMAIN s[i].delta

Told(r) ==
    \A f \in Field : \A i \in 1..Len(confirmed[r]) :
        /\ f \in DOMAIN confirmed[r][i].delta
        /\ \A j \in 1..Len(confirmed[r]) :
              j > i => f \notin DOMAIN confirmed[r][j].delta
        => confirmed[r][i].delta[f] = root[f]

Settled(r) ==
    \A f \in Field :
        Silent(confirmed[r], f) /\ Silent(requests[r], f) => Kept(r, f) = root[f]

NothingWaits(r) ==
    local_uids[r] = {} =>
        \A f \in DOMAIN pending_delta[r] : pending_delta[r][f] = value[r][f]

OnTheirWay(r) ==
    \A u \in local_uids[r] :
        \/ \E i \in 1..Len(confirmed[r]) : confirmed[r][i].uid = u
        \/ \E i \in 1..Len(requests[r]) : requests[r][i].uid = u

IInv ==
    /\ TypeOK
    /\ \A r \in Replica : Told(r) /\ Settled(r) /\ NothingWaits(r) /\ OnTheirWay(r)

---------------------------------------------------------------------------
(* Deltas *)

LEMMA DeltaType ==
    /\ \A d \in Delta : DOMAIN d \subseteq Field /\ \A f \in DOMAIN d : d[f] \in Value
    /\ DOMAIN NoDelta = {}
    /\ \A x \in Entity : DOMAIN x = Field /\ \A f \in Field : x[f] \in Value
  BY DEF Delta, NoDelta, Entity

LEMMA ApplyDelta ==
    ASSUME NEW d, NEW x
    PROVE  /\ DOMAIN apply_delta(d, x) = DOMAIN d \cup DOMAIN x
           /\ \A f \in DOMAIN d \cup DOMAIN x :
                apply_delta(d, x)[f] = IF f \in DOMAIN d THEN d[f] ELSE x[f]
  BY DEF apply_delta

\* A delta applied to what is pending is a delta, applied to an entity an entity.
LEMMA ApplyType ==
    ASSUME NEW d \in Delta
    PROVE  /\ \A x \in Delta \cup {NoDelta} : apply_delta(d, x) \in Delta
           /\ \A x \in Entity : apply_delta(d, x) \in Entity
  <1>1. ASSUME NEW x \in Delta \cup {NoDelta}
        PROVE  apply_delta(d, x) \in Delta
    <2>1. PICK A \in (SUBSET Field) \ {{}} : d \in [A -> Value]
      BY DEF Delta
    <2>2. PICK B \in SUBSET Field : DOMAIN x = B /\ \A f \in B : x[f] \in Value
      BY DeltaType
    <2>3. apply_delta(d, x) = [f \in A \cup B |-> IF f \in A THEN d[f] ELSE x[f]]
      BY <2>1, <2>2 DEF apply_delta
    <2>4. apply_delta(d, x) \in [A \cup B -> Value]
      BY <2>1, <2>2, <2>3
    <2>5. A \cup B \in (SUBSET Field) \ {{}}
      BY <2>1, <2>2
    <2> QED
      BY <2>4, <2>5 DEF Delta
  <1>2. ASSUME NEW x \in Entity
        PROVE  apply_delta(d, x) \in Entity
    <2>1. PICK A \in (SUBSET Field) \ {{}} : d \in [A -> Value]
      BY DEF Delta
    <2>2. apply_delta(d, x) = [f \in A \cup Field |-> IF f \in A THEN d[f] ELSE x[f]]
      BY <2>1 DEF apply_delta, Entity
    <2>3. A \cup Field = Field
      BY <2>1
    <2> QED
      BY <2>1, <2>2, <2>3 DEF Entity
  <1> QED
    BY <1>1, <1>2

\* A delta decides the fields it sets and no other.
LEMMA ApplyToEntity ==
    ASSUME NEW d, NEW x \in Entity, NEW f \in Field
    PROVE  apply_delta(d, x)[f] = IF f \in DOMAIN d THEN d[f] ELSE x[f]
  BY DEF apply_delta, Entity

LEMMA ApplyElsewhere ==
    ASSUME NEW d, NEW p, NEW x \in Entity, NEW f \in Field, f \notin DOMAIN d
    PROVE  /\ f \in DOMAIN apply_delta(d, p) <=> f \in DOMAIN p
           /\ f \in DOMAIN p => apply_delta(d, p)[f] = p[f]
           /\ apply_delta(d, x)[f] = x[f]
  BY ApplyToEntity DEF apply_delta

---------------------------------------------------------------------------
(* Changes on their way *)

LEMMA Appended ==
    ASSUME NEW S, NEW s \in Seq(S), NEW m \in S
    PROVE  /\ Append(s, m) \in Seq(S)
           /\ Len(s) \in Nat
           /\ Len(Append(s, m)) = Len(s) + 1
           /\ \A i \in 1..Len(s) : Append(s, m)[i] = s[i]
           /\ Append(s, m)[Len(s) + 1] = m
  OBVIOUS

LEMMA Removed ==
    ASSUME NEW S, NEW s \in Seq(S), s # <<>>
    PROVE  /\ Tail(s) \in Seq(S)
           /\ Len(s) \in Nat /\ Len(s) >= 1
           /\ Len(Tail(s)) = Len(s) - 1
           /\ \A i \in 1..Len(Tail(s)) : Tail(s)[i] = s[i + 1]
           /\ Head(s) = s[1]
           /\ Head(s) \in S
  OBVIOUS

\* A field is silent in a queue with one more change iff it was before and
\* the change leaves it alone; in a queue without its first, likewise.
LEMMA SilentAppended ==
    ASSUME NEW s \in Seq(Change), NEW m \in Change, NEW f
    PROVE  Silent(Append(s, m), f) <=> Silent(s, f) /\ f \notin DOMAIN m.delta
  <1>1. Silent(Append(s, m), f) => Silent(s, f) /\ f \notin DOMAIN m.delta
    BY Appended DEF Silent
  <1>2. Silent(s, f) /\ f \notin DOMAIN m.delta => Silent(Append(s, m), f)
    <2> SUFFICES ASSUME Silent(s, f), f \notin DOMAIN m.delta,
                        NEW i \in 1..Len(Append(s, m))
                 PROVE  f \notin DOMAIN Append(s, m)[i].delta
      BY DEF Silent
    <2>1. CASE i \in 1..Len(s)
      BY <2>1, Appended DEF Silent
    <2>2. CASE i = Len(s) + 1
      BY <2>2, Appended
    <2> QED
      BY <2>1, <2>2, Appended
  <1> QED
    BY <1>1, <1>2

LEMMA SilentRemoved ==
    ASSUME NEW s \in Seq(Change), s # <<>>, NEW f
    PROVE  Silent(s, f) <=> Silent(Tail(s), f) /\ f \notin DOMAIN Head(s).delta
  <1>1. Silent(s, f) => Silent(Tail(s), f) /\ f \notin DOMAIN Head(s).delta
    <2>1. \A i \in 1..Len(Tail(s)) : i + 1 \in 1..Len(s) /\ Tail(s)[i] = s[i + 1]
      BY Removed
    <2>2. 1 \in 1..Len(s) /\ Head(s) = s[1]
      BY Removed
    <2> QED
      BY <2>1, <2>2 DEF Silent
  <1>2. Silent(Tail(s), f) /\ f \notin DOMAIN Head(s).delta => Silent(s, f)
    <2> SUFFICES ASSUME Silent(Tail(s), f), f \notin DOMAIN Head(s).delta,
                        NEW i \in 1..Len(s)
                 PROVE  f \notin DOMAIN s[i].delta
      BY DEF Silent
    <2>1. CASE i = 1
      BY <2>1, Removed
    <2>2. CASE i # 1
      <3>1. i - 1 \in 1..Len(Tail(s)) /\ Tail(s)[i - 1] = s[i]
        BY <2>2, Removed
      <3> QED
        BY <3>1 DEF Silent
    <2> QED
      BY <2>1, <2>2
  <1> QED
    BY <1>1, <1>2

---------------------------------------------------------------------------
LEMMA Start == Init => IInv
  <1> SUFFICES ASSUME Init PROVE IInv
    OBVIOUS
  <1>1. [f \in Field |-> Initial] \in Entity
    BY LocalVersionAssumption DEF Entity
  <1>2. TypeOK
    BY <1>1, LocalVersionAssumption DEF Init, TypeOK
  <1>3. ASSUME NEW r \in Replica
        PROVE  Told(r) /\ Settled(r) /\ NothingWaits(r) /\ OnTheirWay(r)
    <2>1. /\ value[r] = root /\ pending_delta[r] = NoDelta /\ local_uids[r] = {}
          /\ confirmed[r] = <<>>
      BY DEF Init
    <2> QED
      BY <2>1, DeltaType DEF Told, Settled, NothingWaits, OnTheirWay, Kept
  <1> QED
    BY <1>2, <1>3 DEF IInv

---------------------------------------------------------------------------
(* A change made at a replica *)

LEMMA RequestStep ==
    ASSUME IInv, NEW r \in Replica, NEW d \in Delta, Request(r, d)
    PROVE  IInv'
  <1> DEFINE m == [uid |-> <<r, changes + 1>>, delta |-> d]
  <1>1. /\ changes + 1 \in 1..MaxChanges
        /\ m \in Change
    BY LocalVersionAssumption DEF IInv, TypeOK, Request, Change, Uid
  <1>2. /\ local_uids' = [local_uids EXCEPT ![r] = @ \cup {m.uid}]
        /\ pending_delta' = [pending_delta EXCEPT ![r] = apply_delta(d, @)]
        /\ value' = [value EXCEPT ![r] = apply_delta(d, @)]
        /\ requests' = [requests EXCEPT ![r] = Append(@, m)]
        /\ shown' = [shown EXCEPT ![r] = apply_delta(d, @)]
        /\ changes' = changes + 1
        /\ UNCHANGED <<root, confirmed, overtaken>>
    BY DEF Request, apply_local_delta
  <1>3. TypeOK'
    <2>1. /\ value' \in [Replica -> Entity]
          /\ shown' \in [Replica -> Entity]
          /\ pending_delta' \in [Replica -> Delta \cup {NoDelta}]
      BY <1>2, ApplyType DEF IInv, TypeOK
    <2>2. requests' \in [Replica -> Seq(Change)]
      BY <1>1, <1>2, Appended DEF IInv, TypeOK
    <2>3. local_uids' \in [Replica -> SUBSET Uid]
      BY <1>1, <1>2 DEF IInv, TypeOK, Change
    <2> QED
      BY <1>1, <1>2, <2>1, <2>2, <2>3 DEF IInv, TypeOK
  <1> HIDE DEF m
  <1>4. ASSUME NEW q \in Replica, q # r
        PROVE  (Told(q) /\ Settled(q) /\ NothingWaits(q) /\ OnTheirWay(q))'
    <2>1. /\ value'[q] = value[q] /\ pending_delta'[q] = pending_delta[q]
          /\ local_uids'[q] = local_uids[q] /\ requests'[q] = requests[q]
          /\ confirmed' = confirmed /\ root' = root
      BY <1>2, <1>4 DEF IInv, TypeOK
    <2> QED
      BY <2>1 DEF IInv, Told, Settled, NothingWaits, OnTheirWay, Kept
  <1>5. (Told(r) /\ Settled(r) /\ NothingWaits(r) /\ OnTheirWay(r))'
    <2>1. /\ value'[r] = apply_delta(d, value[r])
          /\ pending_delta'[r] = apply_delta(d, pending_delta[r])
          /\ local_uids'[r] = local_uids[r] \cup {m.uid}
          /\ requests'[r] = Append(requests[r], m)
          /\ requests[r] \in Seq(Change)
          /\ confirmed' = confirmed /\ root' = root
          /\ m.delta = d
      BY <1>2 DEF IInv, TypeOK, m
    <2>2. Told(r)'
      BY <2>1 DEF IInv, Told
    <2>3. Settled(r)'
      <3> SUFFICES ASSUME NEW f \in Field, Silent(confirmed[r], f),
                          Silent(Append(requests[r], m), f)
                   PROVE  Kept(r, f)' = root[f]
        BY <2>1 DEF Settled
      <3>1. Silent(requests[r], f) /\ f \notin DOMAIN d
        BY <1>1, <2>1, SilentAppended
      <3>2. Kept(r, f) = root[f]
        BY <3>1 DEF IInv, Settled
      <3>3. value[r] \in Entity
        BY DEF IInv, TypeOK
      <3> QED
        <4>1. /\ f \in DOMAIN pending_delta'[r] <=> f \in DOMAIN pending_delta[r]
              /\ f \in DOMAIN pending_delta[r] =>
                    pending_delta'[r][f] = pending_delta[r][f]
              /\ value'[r][f] = value[r][f]
          BY <2>1, <3>1, <3>3, ApplyElsewhere
        <4> QED
          BY <3>2, <4>1 DEF Kept
    <2>4. NothingWaits(r)'
      BY <2>1 DEF NothingWaits
    <2>5. OnTheirWay(r)'
      <3> SUFFICES ASSUME NEW u \in local_uids[r] \cup {m.uid}
                   PROVE  \/ \E i \in 1..Len(confirmed[r]) : confirmed[r][i].uid = u
                          \/ \E i \in 1..Len(Append(requests[r], m)) :
                                Append(requests[r], m)[i].uid = u
        BY <2>1 DEF OnTheirWay
      <3>1. /\ Len(requests[r]) \in Nat
            /\ Len(Append(requests[r], m)) = Len(requests[r]) + 1
            /\ \A i \in 1..Len(requests[r]) : Append(requests[r], m)[i] = requests[r][i]
            /\ Append(requests[r], m)[Len(requests[r]) + 1] = m
        BY <1>1, <2>1, Appended
      <3>2. CASE u = m.uid
        BY <3>1, <3>2
      <3>3. CASE u \in local_uids[r]
        BY <3>1, <3>3 DEF IInv, OnTheirWay
      <3> QED
        BY <3>2, <3>3
    <2> QED
      BY <2>2, <2>3, <2>4, <2>5
  <1> QED
    BY <1>3, <1>4, <1>5 DEF IInv

---------------------------------------------------------------------------
(* The root producer takes a change *)

LEMMA RootStep ==
    ASSUME IInv, NEW r \in Replica, RootConfirms(r)
    PROVE  IInv'
  <1> DEFINE m == Head(requests[r])
  <1>1. /\ requests[r] \in Seq(Change) /\ requests[r] # <<>>
        /\ m \in Change
        /\ Tail(requests[r]) \in Seq(Change)
    BY Removed DEF IInv, TypeOK, RootConfirms
  <1>2. m.delta \in Delta
    BY <1>1 DEF Change
  <1>3. /\ requests' = [requests EXCEPT ![r] = Tail(@)]
        /\ root' = apply_delta(m.delta, root)
        /\ confirmed' = [s \in Replica |-> Append(confirmed[s], m)]
        /\ UNCHANGED <<storeVars, changes, history>>
    BY DEF RootConfirms
  <1> HIDE DEF m
  <1>4. TypeOK'
    <2>1. root' \in Entity
      BY <1>2, <1>3, ApplyType DEF IInv, TypeOK
    <2>2. requests' \in [Replica -> Seq(Change)]
      BY <1>1, <1>3 DEF IInv, TypeOK
    <2>3. confirmed' \in [Replica -> Seq(Change)]
      BY <1>1, <1>3, Appended DEF IInv, TypeOK
    <2> QED
      BY <1>3, <2>1, <2>2, <2>3 DEF IInv, TypeOK, storeVars, history
  <1>5. ASSUME NEW q \in Replica
        PROVE  (Told(q) /\ Settled(q) /\ NothingWaits(q) /\ OnTheirWay(q))'
    <2> DEFINE c == confirmed[q]
    <2>1. /\ value' = value /\ pending_delta' = pending_delta
          /\ local_uids' = local_uids
          /\ confirmed'[q] = Append(c, m)
          /\ c \in Seq(Change)
          /\ root \in Entity
      BY <1>3 DEF IInv, TypeOK, storeVars
    <2>2. /\ Len(c) \in Nat
          /\ Len(Append(c, m)) = Len(c) + 1
          /\ \A i \in 1..Len(c) : Append(c, m)[i] = c[i]
          /\ Append(c, m)[Len(c) + 1] = m
      BY <1>1, <2>1, Appended
    <2>3. \A f \in Field : root'[f] = IF f \in DOMAIN m.delta THEN m.delta[f] ELSE root[f]
      BY <1>3, <2>1, ApplyToEntity
    <2>4. Told(q)'
      <3> SUFFICES ASSUME NEW f \in Field, NEW i \in 1..Len(Append(c, m)),
                          f \in DOMAIN Append(c, m)[i].delta,
                          \A j \in 1..Len(Append(c, m)) :
                              j > i => f \notin DOMAIN Append(c, m)[j].delta
                   PROVE  Append(c, m)[i].delta[f] = root'[f]
        BY <2>1 DEF Told
      <3>1. CASE i = Len(c) + 1
        BY <2>2, <2>3, <3>1
      <3>2. CASE i \in 1..Len(c)
        <4>1. f \notin DOMAIN m.delta
          BY <2>2, <3>2
        <4>2. c[i].delta[f] = root[f]
          <5>1. f \in DOMAIN c[i].delta
            BY <2>2, <3>2
          <5>2. \A j \in 1..Len(c) : j > i => f \notin DOMAIN c[j].delta
            BY <2>2
          <5> QED
            BY <3>2, <5>1, <5>2 DEF IInv, Told
        <4> QED
          BY <2>2, <2>3, <3>2, <4>1, <4>2
      <3> QED
        BY <2>2, <3>1, <3>2
    <2>5. Settled(q)'
      <3> SUFFICES ASSUME NEW f \in Field, Silent(Append(c, m), f),
                          Silent(requests'[q], f)
                   PROVE  Kept(q, f)' = root'[f]
        BY <2>1 DEF Settled
      <3>1. Silent(c, f) /\ f \notin DOMAIN m.delta
        BY <1>1, <2>1, SilentAppended
      <3>2. Silent(requests[q], f)
        <4>1. CASE q = r
          <5>1. requests'[q] = Tail(requests[q])
            BY <1>3, <4>1 DEF IInv, TypeOK
          <5>2. Silent(requests[q], f) <=>
                    Silent(Tail(requests[q]), f) /\ f \notin DOMAIN Head(requests[q]).delta
            BY <1>1, <4>1, SilentRemoved
          <5> QED
            BY <3>1, <4>1, <5>1, <5>2 DEF m
        <4>2. CASE q # r
          BY <1>3, <4>2 DEF IInv, TypeOK
        <4> QED
          BY <4>1, <4>2
      <3>3. Kept(q, f) = root[f]
        BY <3>1, <3>2 DEF IInv, Settled
      <3> QED
        BY <2>1, <2>3, <3>1, <3>3 DEF Kept
    <2>6. NothingWaits(q)'
      BY <2>1 DEF IInv, NothingWaits
    <2>7. OnTheirWay(q)'
      <3> SUFFICES ASSUME NEW u \in local_uids[q]
                   PROVE  \/ \E i \in 1..Len(Append(c, m)) : Append(c, m)[i].uid = u
                          \/ \E i \in 1..Len(requests'[q]) : requests'[q][i].uid = u
        BY <2>1 DEF OnTheirWay
      <3>1. CASE \E i \in 1..Len(c) : c[i].uid = u
        BY <2>2, <3>1
      <3>2. CASE \E i \in 1..Len(requests[q]) : requests[q][i].uid = u
        <4>1. CASE q # r
          BY <1>3, <3>2, <4>1 DEF IInv, TypeOK
        <4>2. CASE q = r
          <5>1. PICK i \in 1..Len(requests[r]) : requests[r][i].uid = u
            BY <3>2, <4>2
          <5>2. CASE i = 1
            <6>1. m.uid = u
              BY <1>1, <5>1, <5>2, Removed DEF m
            <6> QED
              BY <2>2, <6>1
          <5>3. CASE i # 1
            <6>1. /\ i - 1 \in 1..Len(Tail(requests[r]))
                  /\ Tail(requests[r])[i - 1] = requests[r][i]
              BY <1>1, <5>3, Removed
            <6>2. requests'[q] = Tail(requests[r])
              BY <1>3, <4>2 DEF IInv, TypeOK
            <6> QED
              BY <5>1, <6>1, <6>2
          <5> QED
            BY <5>2, <5>3
        <4> QED
          BY <4>1, <4>2
      <3> QED
        BY <3>1, <3>2 DEF IInv, OnTheirWay
    <2> QED
      BY <2>4, <2>5, <2>6, <2>7
  <1> QED
    BY <1>4, <1>5 DEF IInv

---------------------------------------------------------------------------
(* A confirmed change arrives *)

\* Whether the change is the replica's own or not, and whether or not others
\* of its own still wait: the replica keeps what the change says.
LEMMA ConfirmEffect ==
    ASSUME TypeOK, NEW r \in Replica, NEW m \in Change,
           \/ ConfirmOwn(r, m.uid, m.delta)
           \/ ConfirmForeign(r, m.uid, m.delta)
    PROVE  /\ value' \in [Replica -> Entity]
           /\ pending_delta' \in [Replica -> Delta \cup {NoDelta}]
           /\ local_uids' \in [Replica -> SUBSET Uid]
           /\ \A q \in Replica : q # r =>
                 /\ value'[q] = value[q] /\ pending_delta'[q] = pending_delta[q]
                 /\ local_uids'[q] = local_uids[q]
           /\ local_uids'[r] \subseteq local_uids[r] \ {m.uid}
           /\ \A f \in Field :
                 Kept(r, f)' = IF f \in DOMAIN m.delta THEN m.delta[f] ELSE Kept(r, f)
           /\ NothingWaits(r) => NothingWaits(r)'
  <1> DEFINE d == m.delta
             p == pending_delta[r]
             x == value[r]
  <1>1. /\ d \in Delta /\ p \in Delta \cup {NoDelta} /\ x \in Entity
        /\ value \in [Replica -> Entity]
        /\ pending_delta \in [Replica -> Delta \cup {NoDelta}]
        /\ local_uids \in [Replica -> SUBSET Uid]
    BY DEF TypeOK, Change
  <1> HIDE DEF d
  <1>2. /\ apply_delta(d, p) \in Delta
        /\ apply_delta(d, x) \in Entity
        /\ apply_delta(apply_delta(d, p), x) \in Entity
    BY <1>1, ApplyType
  <1>3. \A f \in Field :
          /\ f \in DOMAIN apply_delta(d, p) <=> f \in DOMAIN d \/ f \in DOMAIN p
          /\ f \in DOMAIN d => apply_delta(d, p)[f] = d[f]
          /\ f \notin DOMAIN d /\ f \in DOMAIN p => apply_delta(d, p)[f] = p[f]
          /\ apply_delta(d, x)[f] = IF f \in DOMAIN d THEN d[f] ELSE x[f]
          /\ apply_delta(apply_delta(d, p), x)[f] =
                IF f \in DOMAIN apply_delta(d, p) THEN apply_delta(d, p)[f] ELSE x[f]
    <2>1. ASSUME NEW f \in Field
          PROVE  /\ f \in DOMAIN apply_delta(d, p) <=> f \in DOMAIN d \/ f \in DOMAIN p
                 /\ f \in DOMAIN d => apply_delta(d, p)[f] = d[f]
                 /\ f \notin DOMAIN d /\ f \in DOMAIN p => apply_delta(d, p)[f] = p[f]
      BY DEF apply_delta
    <2>2. ASSUME NEW f \in Field
          PROVE  /\ apply_delta(d, x)[f] = IF f \in DOMAIN d THEN d[f] ELSE x[f]
                 /\ apply_delta(apply_delta(d, p), x)[f] =
                      IF f \in DOMAIN apply_delta(d, p) THEN apply_delta(d, p)[f] ELSE x[f]
      BY <1>1, ApplyToEntity
    <2> QED
      BY <2>1, <2>2
  <1>4. CASE ConfirmForeign(r, m.uid, m.delta)
    <2>1. /\ pending_delta' = [pending_delta EXCEPT ![r] = apply_delta(d, p)]
          /\ value' = [value EXCEPT ![r] = apply_delta(d, x)]
          /\ local_uids' = local_uids
          /\ m.uid \notin local_uids[r]
      BY <1>4 DEF ConfirmForeign, d
    <2>2. /\ pending_delta'[r] = apply_delta(d, p)
          /\ value'[r] = apply_delta(d, x)
      BY <1>1, <2>1
    <2>3. \A f \in Field : Kept(r, f)' = IF f \in DOMAIN d THEN d[f] ELSE Kept(r, f)
      BY <1>3, <2>2 DEF Kept
    <2>4. NothingWaits(r) => NothingWaits(r)'
      <3> SUFFICES ASSUME local_uids[r] = {}, NothingWaits(r),
                          NEW f \in DOMAIN apply_delta(d, p)
                   PROVE  apply_delta(d, p)[f] = apply_delta(d, x)[f]
        BY <2>1, <2>2 DEF NothingWaits
      <3>1. f \in Field
        BY <1>2, DeltaType
      <3> QED
        BY <1>3, <3>1 DEF NothingWaits
    <2> QED
      BY <1>1, <1>2, <2>1, <2>3, <2>4 DEF d
  <1>5. CASE ConfirmOwn(r, m.uid, m.delta) /\ local_uids[r] \ {m.uid} # {}
    <2>1. /\ pending_delta' = [pending_delta EXCEPT ![r] = apply_delta(d, p)]
          /\ value' = value
          /\ local_uids' = [local_uids EXCEPT ![r] = local_uids[r] \ {m.uid}]
      BY <1>5 DEF ConfirmOwn, d
    <2>2. /\ pending_delta'[r] = apply_delta(d, p)
          /\ local_uids'[r] = local_uids[r] \ {m.uid}
      BY <1>1, <2>1
    <2>3. \A f \in Field : Kept(r, f)' = IF f \in DOMAIN d THEN d[f] ELSE Kept(r, f)
      BY <1>3, <2>1, <2>2 DEF Kept
    <2>4. NothingWaits(r)'
      BY <1>5, <2>2 DEF NothingWaits
    <2> QED
      BY <1>1, <1>2, <2>1, <2>2, <2>3, <2>4 DEF d
  <1>6. CASE ConfirmOwn(r, m.uid, m.delta) /\ local_uids[r] \ {m.uid} = {}
    <2>1. /\ pending_delta' = [pending_delta EXCEPT ![r] = NoDelta]
          /\ value' = [value EXCEPT ![r] = apply_delta(apply_delta(d, p), x)]
          /\ local_uids' = [local_uids EXCEPT ![r] = local_uids[r] \ {m.uid}]
      BY <1>6 DEF ConfirmOwn, d
    <2>2. /\ pending_delta'[r] = NoDelta
          /\ value'[r] = apply_delta(apply_delta(d, p), x)
          /\ local_uids'[r] = local_uids[r] \ {m.uid}
      BY <1>1, <2>1
    <2>3. \A f \in Field : Kept(r, f)' = IF f \in DOMAIN d THEN d[f] ELSE Kept(r, f)
      BY <1>3, <2>2, DeltaType DEF Kept
    <2>4. NothingWaits(r)'
      BY <2>2, DeltaType DEF NothingWaits
    <2> QED
      BY <1>1, <1>2, <2>1, <2>2, <2>3, <2>4 DEF d
  <1> QED
    BY <1>4, <1>5, <1>6

LEMMA ConfirmStep ==
    ASSUME IInv, NEW r \in Replica, Confirm(r)
    PROVE  IInv'
  <1> DEFINE c == confirmed[r]
             m == Head(c)
  <1>1. /\ c \in Seq(Change) /\ c # <<>>
        /\ m \in Change
    BY Removed DEF IInv, TypeOK, Confirm
  <1>2. /\ Tail(c) \in Seq(Change)
        /\ Len(c) \in Nat /\ Len(c) >= 1
        /\ Len(Tail(c)) = Len(c) - 1
        /\ \A i \in 1..Len(Tail(c)) : Tail(c)[i] = c[i + 1]
        /\ m = c[1]
    BY <1>1, Removed
  <1>3. /\ confirmed' = [confirmed EXCEPT ![r] = Tail(c)]
        /\ ConfirmOwn(r, m.uid, m.delta) \/ ConfirmForeign(r, m.uid, m.delta)
        /\ shown' = IF m.uid[1] = r THEN shown
                    ELSE [shown EXCEPT ![r] = apply_delta(m.delta, @)]
        /\ overtaken' = IF m.uid[1] = r \/ local_uids[r] = {} THEN overtaken
                        ELSE [overtaken EXCEPT ![r] = @ \cup DOMAIN m.delta]
        /\ UNCHANGED <<root, requests, changes>>
    BY DEF Confirm
  <1> HIDE DEF m
  <1>4. TypeOK
    BY DEF IInv
  <1>5. /\ value' \in [Replica -> Entity]
        /\ pending_delta' \in [Replica -> Delta \cup {NoDelta}]
        /\ local_uids' \in [Replica -> SUBSET Uid]
        /\ \A q \in Replica : q # r =>
              /\ value'[q] = value[q] /\ pending_delta'[q] = pending_delta[q]
              /\ local_uids'[q] = local_uids[q]
        /\ local_uids'[r] \subseteq local_uids[r] \ {m.uid}
        /\ \A f \in Field :
              Kept(r, f)' = IF f \in DOMAIN m.delta THEN m.delta[f] ELSE Kept(r, f)
        /\ NothingWaits(r) => NothingWaits(r)'
    BY <1>1, <1>3, <1>4, ConfirmEffect
  <1>6. TypeOK'
    <2>1. m.delta \in Delta /\ DOMAIN m.delta \subseteq Field
      BY <1>1, DeltaType DEF Change
    <2>2. shown' \in [Replica -> Entity]
      BY <1>3, <1>4, <2>1, ApplyType DEF TypeOK
    <2>3. overtaken' \in [Replica -> SUBSET Field]
      BY <1>3, <1>4, <2>1 DEF TypeOK
    <2>4. confirmed' \in [Replica -> Seq(Change)]
      BY <1>2, <1>3, <1>4 DEF TypeOK
    <2> QED
      BY <1>3, <1>4, <1>5, <2>2, <2>3, <2>4 DEF TypeOK
  <1>7. ASSUME NEW q \in Replica, q # r
        PROVE  (Told(q) /\ Settled(q) /\ NothingWaits(q) /\ OnTheirWay(q))'
    <2>1. /\ value'[q] = value[q] /\ pending_delta'[q] = pending_delta[q]
          /\ local_uids'[q] = local_uids[q]
      BY <1>5, <1>7
    <2>2. confirmed'[q] = confirmed[q] /\ requests' = requests /\ root' = root
      BY <1>3, <1>4, <1>7 DEF TypeOK
    <2> QED
      BY <2>1, <2>2 DEF IInv, Told, Settled, NothingWaits, OnTheirWay, Kept
  <1>8. (Told(r) /\ Settled(r) /\ NothingWaits(r) /\ OnTheirWay(r))'
    <2>1. confirmed'[r] = Tail(c) /\ requests' = requests /\ root' = root
      BY <1>3, <1>4 DEF TypeOK
    <2>2. \A i \in 1..Len(Tail(c)) : i + 1 \in 1..Len(c) /\ Tail(c)[i] = c[i + 1]
      BY <1>2
    <2>3. \A i \in 1..Len(c) : i > 1 =>
             i - 1 \in 1..Len(Tail(c)) /\ Tail(c)[i - 1] = c[i]
      BY <1>2
    <2>4. Told(r)'
      <3> SUFFICES ASSUME NEW f \in Field, NEW i \in 1..Len(Tail(c)),
                          f \in DOMAIN Tail(c)[i].delta,
                          \A j \in 1..Len(Tail(c)) :
                              j > i => f \notin DOMAIN Tail(c)[j].delta
                   PROVE  Tail(c)[i].delta[f] = root[f]
        BY <2>1 DEF Told
      <3>1. i + 1 \in 1..Len(c) /\ f \in DOMAIN c[i + 1].delta
        BY <2>2
      <3>2. ASSUME NEW j \in 1..Len(c), j > i + 1
            PROVE  f \notin DOMAIN c[j].delta
        <4>1. j - 1 \in 1..Len(Tail(c)) /\ j - 1 > i /\ Tail(c)[j - 1] = c[j]
          BY <2>3, <3>2
        <4> QED
          BY <4>1
      <3>3. c[i + 1].delta[f] = root[f]
        BY <3>1, <3>2 DEF IInv, Told
      <3> QED
        BY <2>2, <3>3
    <2>5. Settled(r)'
      <3> SUFFICES ASSUME NEW f \in Field, Silent(Tail(c), f), Silent(requests[r], f)
                   PROVE  Kept(r, f)' = root[f]
        BY <2>1 DEF Settled
      <3>1. CASE f \in DOMAIN m.delta
        <4>1. \A j \in 1..Len(c) : j > 1 => f \notin DOMAIN c[j].delta
          BY <2>3 DEF Silent
        <4>2. c[1].delta[f] = root[f]
          BY <1>2, <3>1, <4>1 DEF IInv, Told
        <4> QED
          BY <1>2, <1>5, <3>1, <4>2
      <3>2. CASE f \notin DOMAIN m.delta
        <4>1. Silent(c, f)
          BY <1>1, <3>2, SilentRemoved DEF m
        <4>2. Kept(r, f) = root[f]
          BY <4>1 DEF IInv, Settled
        <4> QED
          BY <1>5, <3>2, <4>2
      <3> QED
        BY <3>1, <3>2
    <2>6. NothingWaits(r)'
      BY <1>5 DEF IInv
    <2>7. OnTheirWay(r)'
      <3> SUFFICES ASSUME NEW u \in local_uids'[r]
                   PROVE  \/ \E i \in 1..Len(Tail(c)) : Tail(c)[i].uid = u
                          \/ \E i \in 1..Len(requests[r]) : requests[r][i].uid = u
        BY <2>1 DEF OnTheirWay
      <3>1. u \in local_uids[r] /\ u # m.uid
        BY <1>5
      <3>2. CASE \E i \in 1..Len(c) : c[i].uid = u
        <4>1. PICK i \in 1..Len(c) : c[i].uid = u
          BY <3>2
        <4>2. i > 1
          BY <1>2, <3>1, <4>1
        <4> QED
          BY <2>3, <4>1, <4>2
      <3> QED
        BY <3>1, <3>2 DEF IInv, OnTheirWay
    <2> QED
      BY <2>4, <2>5, <2>6, <2>7
  <1> QED
    BY <1>6, <1>7, <1>8 DEF IInv

---------------------------------------------------------------------------
(* The results *)

(* Each replica owes what it does not show yet to a change on its way, and what
   nothing on its way sets is right already (confirm_delta). *)
THEOREM Invariance == Spec => []IInv
  <1>1. IInv /\ [Next]_vars => IInv'
    <2> SUFFICES ASSUME IInv, [Next]_vars PROVE IInv'
      OBVIOUS
    <2>1. CASE Next
      <3>1. PICK r \in Replica :
               \/ \E delta \in Delta : Request(r, delta)
               \/ RootConfirms(r)
               \/ Confirm(r)
        BY <2>1 DEF Next
      <3>2. CASE \E delta \in Delta : Request(r, delta)
        BY <3>2, RequestStep
      <3>3. CASE RootConfirms(r)
        BY <3>3, RootStep
      <3>4. CASE Confirm(r)
        BY <3>4, ConfirmStep
      <3> QED
        BY <3>1, <3>2, <3>3, <3>4
    <2>2. CASE UNCHANGED vars
      <3>1. /\ value' = value /\ pending_delta' = pending_delta
            /\ local_uids' = local_uids /\ root' = root /\ requests' = requests
            /\ confirmed' = confirmed /\ changes' = changes
            /\ shown' = shown /\ overtaken' = overtaken
        BY <2>2 DEF vars, storeVars, history
      <3>2. TypeOK'
        BY <3>1 DEF IInv, TypeOK
      <3>3. ASSUME NEW r \in Replica
            PROVE  (Told(r) /\ Settled(r) /\ NothingWaits(r) /\ OnTheirWay(r))'
        BY <3>1 DEF IInv, Told, Settled, NothingWaits, OnTheirWay, Kept
      <3> QED
        BY <3>2, <3>3 DEF IInv
    <2> QED
      BY <2>1, <2>2
  <1> QED
    BY <1>1, Start, PTL DEF Spec

\* A replica that has heard of every change, none of its own on its way,
\* shows what the root producer has, however its own changes and those of
\* others were interleaved: local_version.hpp's confirm_delta.
THEOREM ReplicasConverge == Spec => []Converged
  <1>1. IInv => Converged
    <2> SUFFICES ASSUME IInv, NEW r \in Replica,
                        requests[r] = <<>>, confirmed[r] = <<>>
                 PROVE  value[r] = root
      BY DEF Converged
    <2>1. value[r] \in Entity /\ root \in Entity
      BY DEF IInv, TypeOK
    <2>2. local_uids[r] = {}
      BY DEF IInv, OnTheirWay
    <2>3. ASSUME NEW f \in Field
          PROVE  value[r][f] = root[f]
      <3>1. Silent(confirmed[r], f) /\ Silent(requests[r], f)
        BY DEF Silent
      <3>2. Kept(r, f) = root[f]
        BY <3>1 DEF IInv, Settled
      <3> QED
        BY <2>2, <3>2 DEF IInv, NothingWaits, Kept
    <2> QED
      BY <2>1, <2>3 DEF Entity
  <1> QED
    BY <1>1, Invariance, PTL

---------------------------------------------------------------------------
(* That a confirmation reverts nothing a user has seen (NotReverted).  The
   invariant follows the changes of the replica itself through the two queues
   they take, to the root producer and back (Stream): they keep their order,
   and for a field no foreign change has overtaken, what is shown is what the
   latest of them says, or what pending_delta says once none of them sets it. *)

\* Everything between the replica and the root producer, the oldest first.
Stream(r) == confirmed[r] \o requests[r]

\* The i-th change of the stream is the latest of the replica that sets f.
Latest(s, r, f, i) ==
    /\ s[i].uid[1] = r
    /\ f \in DOMAIN s[i].delta
    /\ \A j \in 1..Len(s) : j > i /\ s[j].uid[1] = r => f \notin DOMAIN s[j].delta

NoneSets(s, r, f) ==
    \A i \in 1..Len(s) : s[i].uid[1] = r => f \notin DOMAIN s[i].delta

\* A replica's own changes are waited for, and stay in the order they were made.
Ordered(s, r, uids, n) ==
    /\ \A i \in 1..Len(s) : /\ s[i].uid[2] <= n
                            /\ s[i].uid[1] = r => s[i].uid \in uids
    /\ \A i, j \in 1..Len(s) :
          i < j /\ s[i].uid[1] = r /\ s[j].uid[1] = r => s[i].uid[2] < s[j].uid[2]

\* For the field f: v is shown, p is the pending delta.
ShowsLatest(s, r, f, v, p) ==
    /\ \A i \in 1..Len(s) : Latest(s, r, f, i) => s[i].delta[f] = v
    /\ NoneSets(s, r, f) /\ f \in DOMAIN p => p[f] = v

OwnAreOwn(r) ==
    /\ \A u \in local_uids[r] : u[1] = r
    /\ \A i \in 1..Len(requests[r]) : requests[r][i].uid[1] = r

ShownInv ==
    \A r \in Replica :
        /\ OwnAreOwn(r)
        /\ Ordered(Stream(r), r, local_uids[r], changes)
        /\ \A f \in Field \ overtaken[r] :
              /\ value[r][f] = shown[r][f]
              /\ ShowsLatest(Stream(r), r, f, value[r][f], pending_delta[r])

---------------------------------------------------------------------------
(* Streams *)

LEMMA UidType ==
    \A m \in Change : m.uid[1] \in Replica /\ m.uid[2] \in Nat /\ m.delta \in Delta
  <1> SUFFICES ASSUME NEW m \in Change
               PROVE  m.uid[1] \in Replica /\ m.uid[2] \in Nat /\ m.delta \in Delta
    OBVIOUS
  <1>1. m.uid \in Replica \X (1..MaxChanges) /\ m.delta \in Delta
    BY DEF Change, Uid
  <1> QED
    BY <1>1, LocalVersionAssumption

\* The replica makes one more change.
LEMMA OrderedAppended ==
    ASSUME NEW s \in Seq(Change), NEW m \in Change, NEW r, NEW uids, NEW n \in Nat,
           m.uid = <<r, n + 1>>, Ordered(s, r, uids, n)
    PROVE  Ordered(Append(s, m), r, uids \cup {m.uid}, n + 1)
  <1> DEFINE t == Append(s, m)
  <1>1. /\ Len(s) \in Nat /\ Len(t) = Len(s) + 1
        /\ \A i \in 1..Len(s) : t[i] = s[i]
        /\ t[Len(s) + 1] = m
    BY Appended
  <1>2. \A i \in 1..Len(s) : s[i] \in Change
    OBVIOUS
  <1> HIDE DEF t
  <1>3. ASSUME NEW i \in 1..Len(t)
        PROVE  t[i].uid[2] <= n + 1 /\ (t[i].uid[1] = r => t[i].uid \in uids \cup {m.uid})
    <2>1. CASE i \in 1..Len(s)
      <3>1. s[i].uid[2] \in Nat /\ s[i].uid[2] <= n
        BY <1>2, <2>1, UidType DEF Ordered
      <3>2. t[i] = s[i] /\ (s[i].uid[1] = r => s[i].uid \in uids)
        BY <1>1, <2>1 DEF Ordered
      <3> QED
        BY <3>1, <3>2
    <2>2. CASE i = Len(s) + 1
      <3>1. t[i] = m /\ m.uid[2] = n + 1 /\ m.uid \in uids \cup {m.uid}
        BY <1>1, <2>2
      <3>2. m.uid[2] <= n + 1
        BY <3>1
      <3> QED
        BY <3>1, <3>2
    <2> QED
      BY <1>1, <2>1, <2>2
  <1>4. ASSUME NEW i \in 1..Len(t), NEW j \in 1..Len(t), i < j,
               t[i].uid[1] = r, t[j].uid[1] = r
        PROVE  t[i].uid[2] < t[j].uid[2]
    <2>1. i \in 1..Len(s)
      BY <1>1, <1>4
    <2>2. CASE j \in 1..Len(s)
      BY <1>1, <1>4, <2>1, <2>2 DEF Ordered
    <2>3. CASE j = Len(s) + 1
      <3>1. s[i].uid[2] \in Nat /\ s[i].uid[2] <= n
        BY <1>2, <2>1, UidType DEF Ordered
      <3>2. t[i] = s[i] /\ t[j].uid[2] = n + 1
        BY <1>1, <2>1, <2>3
      <3> QED
        BY <3>1, <3>2
    <2> QED
      BY <1>1, <2>2, <2>3
  <1> QED
    BY <1>3, <1>4 DEF Ordered, t

LEMMA ShownAppended ==
    ASSUME NEW s \in Seq(Change), NEW m \in Change, NEW r, m.uid[1] = r,
           NEW f \in Field, NEW x \in Entity, NEW p,
           ShowsLatest(s, r, f, x[f], p)
    PROVE  ShowsLatest(Append(s, m), r, f, apply_delta(m.delta, x)[f],
                       apply_delta(m.delta, p))
  <1> DEFINE t == Append(s, m)
             v == apply_delta(m.delta, x)[f]
  <1>1. /\ Len(s) \in Nat /\ Len(t) = Len(s) + 1
        /\ \A i \in 1..Len(s) : t[i] = s[i]
        /\ t[Len(s) + 1] = m
    BY Appended
  <1>2. v = IF f \in DOMAIN m.delta THEN m.delta[f] ELSE x[f]
    BY ApplyToEntity
  <1> HIDE DEF t, v
  <1>3. ASSUME NEW i \in 1..Len(t), Latest(t, r, f, i)
        PROVE  t[i].delta[f] = v
    <2>1. CASE i = Len(s) + 1
      BY <1>1, <1>2, <1>3, <2>1 DEF Latest
    <2>2. CASE i \in 1..Len(s)
      <3>1. Len(s) + 1 \in 1..Len(t) /\ Len(s) + 1 > i
        BY <1>1, <2>2
      <3>2. f \notin DOMAIN m.delta
        BY <1>1, <1>3, <3>1 DEF Latest
      <3>3. \A j \in 1..Len(s) : j \in 1..Len(t)
        BY <1>1
      <3>4. Latest(s, r, f, i)
        BY <1>1, <1>3, <2>2, <3>3 DEF Latest
      <3>5. s[i].delta[f] = x[f]
        BY <2>2, <3>4 DEF ShowsLatest
      <3> QED
        BY <1>1, <1>2, <2>2, <3>2, <3>5
    <2> QED
      BY <1>1, <2>1, <2>2
  <1>4. ASSUME NoneSets(t, r, f), f \in DOMAIN apply_delta(m.delta, p)
        PROVE  apply_delta(m.delta, p)[f] = v
    <2>1. f \notin DOMAIN m.delta
      BY <1>1, <1>4 DEF NoneSets
    <2>2. \A j \in 1..Len(s) : j \in 1..Len(t)
      BY <1>1
    <2>3. NoneSets(s, r, f)
      BY <1>1, <1>4, <2>2 DEF NoneSets
    <2>4. f \in DOMAIN p /\ apply_delta(m.delta, p)[f] = p[f]
      BY <1>4, <2>1 DEF apply_delta
    <2> QED
      BY <1>2, <2>1, <2>3, <2>4 DEF ShowsLatest
  <1> QED
    BY <1>3, <1>4 DEF ShowsLatest, t, v

\* A foreign change enters the stream somewhere behind the n-th.
LEMMA Inserted ==
    ASSUME NEW s \in Seq(Change), NEW t \in Seq(Change), NEW m \in Change, NEW r,
           m.uid[1] # r, NEW n \in 0..Len(s), Len(t) = Len(s) + 1,
           \A i \in 1..n : t[i] = s[i],
           t[n + 1] = m,
           \A i \in (n + 2)..Len(t) : t[i] = s[i - 1]
    PROVE  /\ \A uids : \A k \in Nat :
                 Ordered(s, r, uids, k) /\ m.uid[2] <= k => Ordered(t, r, uids, k)
           /\ \A f, v, p : ShowsLatest(s, r, f, v, p) => ShowsLatest(t, r, f, v, p)
  <1> DEFINE g(i) == IF i <= n THEN i ELSE i - 1
             h(i) == IF i <= n THEN i ELSE i + 1
  <1>1. Len(s) \in Nat /\ n \in Nat
    OBVIOUS
  <1>2. ASSUME NEW i \in 1..Len(t), t[i].uid[1] = r
        PROVE  g(i) \in 1..Len(s) /\ s[g(i)] = t[i] /\ i # n + 1
    <2>1. i # n + 1
      BY <1>2
    <2>2. CASE i \in 1..n
      BY <1>1, <2>1, <2>2
    <2>3. CASE i \in (n + 2)..Len(t)
      <3>1. g(i) = i - 1 /\ i - 1 \in 1..Len(s)
        BY <1>1, <2>3
      <3>2. t[i] = s[i - 1]
        BY <2>3
      <3> QED
        BY <2>1, <3>1, <3>2
    <2> QED
      BY <1>1, <2>1, <2>2, <2>3
  <1>3. ASSUME NEW i \in 1..Len(s)
        PROVE  h(i) \in 1..Len(t) /\ t[h(i)] = s[i]
    <2>1. CASE i <= n
      BY <1>1, <2>1
    <2>2. CASE i > n
      <3>1. /\ i + 1 \in (n + 2)..Len(t) /\ (i + 1) - 1 = i
            /\ i + 1 \in 1..Len(t)
            /\ h(i) = i + 1
        BY <1>1, <2>2
      <3>2. t[i + 1] = s[(i + 1) - 1]
        BY <3>1
      <3> QED
        BY <3>1, <3>2
    <2> QED
      BY <1>1, <2>1, <2>2
  <1>4. \A i, j \in 1..Len(t) : i < j /\ i # n + 1 /\ j # n + 1 => g(i) < g(j)
    BY <1>1
  <1>5. \A i \in 1..Len(t) : \A j \in 1..Len(s) :
           i # n + 1 /\ j > g(i) => h(j) > i
    BY <1>1
  <1> HIDE DEF g, h
  <1>6. ASSUME NEW uids, NEW k \in Nat, Ordered(s, r, uids, k), m.uid[2] <= k
        PROVE  Ordered(t, r, uids, k)
    <2>1. ASSUME NEW i \in 1..Len(t)
          PROVE  t[i].uid[2] <= k /\ (t[i].uid[1] = r => t[i].uid \in uids)
      <3>1. CASE i = n + 1
        BY <1>6, <3>1
      <3>2. CASE i \in 1..n
        <4>1. i \in 1..Len(s) /\ t[i] = s[i]
          BY <1>1, <3>2
        <4> QED
          BY <1>6, <4>1 DEF Ordered
      <3>3. CASE i \in (n + 2)..Len(t)
        <4>1. i - 1 \in 1..Len(s) /\ t[i] = s[i - 1]
          BY <1>1, <3>3
        <4> QED
          BY <1>6, <4>1 DEF Ordered
      <3> QED
        BY <1>1, <3>1, <3>2, <3>3
    <2>2. ASSUME NEW i \in 1..Len(t), NEW j \in 1..Len(t), i < j,
                 t[i].uid[1] = r, t[j].uid[1] = r
          PROVE  t[i].uid[2] < t[j].uid[2]
      <3>1. /\ g(i) \in 1..Len(s) /\ s[g(i)] = t[i] /\ i # n + 1
            /\ g(j) \in 1..Len(s) /\ s[g(j)] = t[j] /\ j # n + 1
        BY <1>2, <2>2
      <3>2. g(i) < g(j)
        BY <1>4, <2>2, <3>1
      <3> QED
        BY <1>6, <2>2, <3>1, <3>2 DEF Ordered
    <2> QED
      BY <2>1, <2>2 DEF Ordered
  <1>7. ASSUME NEW f, NEW v, NEW p, ShowsLatest(s, r, f, v, p)
        PROVE  ShowsLatest(t, r, f, v, p)
    <2>1. ASSUME NEW i \in 1..Len(t), Latest(t, r, f, i)
          PROVE  t[i].delta[f] = v
      <3>1. g(i) \in 1..Len(s) /\ s[g(i)] = t[i] /\ i # n + 1
        BY <1>2, <2>1 DEF Latest
      <3>2. \A j \in 1..Len(s) : j > g(i) /\ s[j].uid[1] = r => f \notin DOMAIN s[j].delta
        BY <1>3, <1>5, <2>1, <3>1 DEF Latest
      <3>3. Latest(s, r, f, g(i))
        BY <2>1, <3>1, <3>2 DEF Latest
      <3> QED
        BY <1>7, <3>1, <3>3 DEF ShowsLatest
    <2>2. NoneSets(t, r, f) => NoneSets(s, r, f)
      BY <1>3 DEF NoneSets
    <2> QED
      BY <1>7, <2>1, <2>2 DEF ShowsLatest
  <1> QED
    BY <1>6, <1>7

\* The first change leaves the stream.
LEMMA OrderedRemoved ==
    ASSUME NEW s \in Seq(Change), s # <<>>, NEW r, NEW uids, NEW n,
           Ordered(s, r, uids, n)
    PROVE  /\ Head(s).uid[1] = r => Ordered(Tail(s), r, uids \ {Head(s).uid}, n)
           /\ Head(s).uid[1] # r => Ordered(Tail(s), r, uids, n)
           /\ Head(s).uid[1] = r => Head(s).uid \in uids
  <1> DEFINE t == Tail(s)
             m == Head(s)
  <1>1. /\ Len(s) \in Nat /\ m = s[1] /\ 1 \in 1..Len(s)
        /\ \A i \in 1..Len(t) : i + 1 \in 1..Len(s) /\ t[i] = s[i + 1] /\ 1 < i + 1
        /\ Len(t) \in Nat
    BY Removed
  <1>2. \A i \in 1..Len(s) : s[i].uid[2] \in Nat
    BY UidType
  <1> HIDE DEF t, m
  <1>3. ASSUME NEW i \in 1..Len(t)
        PROVE  /\ t[i].uid[2] <= n
               /\ t[i].uid[1] = r => t[i].uid \in uids
               /\ t[i].uid[1] = r /\ m.uid[1] = r => t[i].uid # m.uid
    <2>1. i + 1 \in 1..Len(s) /\ t[i] = s[i + 1] /\ 1 < i + 1
      BY <1>1
    <2>2. s[i + 1].uid[2] <= n /\ (s[i + 1].uid[1] = r => s[i + 1].uid \in uids)
      BY <2>1 DEF Ordered
    <2>3. s[i + 1].uid[1] = r /\ s[1].uid[1] = r => s[1].uid[2] < s[i + 1].uid[2]
      BY <1>1, <2>1 DEF Ordered
    <2>4. s[i + 1].uid[2] \in Nat
      BY <1>2, <2>1
    <2> QED
      BY <1>1, <2>1, <2>2, <2>3, <2>4
  <1>4. ASSUME NEW i \in 1..Len(t), NEW j \in 1..Len(t), i < j,
               t[i].uid[1] = r, t[j].uid[1] = r
        PROVE  t[i].uid[2] < t[j].uid[2]
    <2>1. i + 1 < j + 1
      BY <1>1, <1>4
    <2> QED
      BY <1>1, <1>4, <2>1 DEF Ordered
  <1>5. m.uid[1] = r => m.uid \in uids
    BY <1>1 DEF Ordered
  <1> QED
    BY <1>3, <1>4, <1>5 DEF Ordered, t, m

LEMMA ShownForeignRemoved ==
    ASSUME NEW s \in Seq(Change), s # <<>>, NEW r, Head(s).uid[1] # r,
           NEW f, NEW v, NEW p, f \notin DOMAIN Head(s).delta,
           ShowsLatest(s, r, f, v, p)
    PROVE  ShowsLatest(Tail(s), r, f, v, apply_delta(Head(s).delta, p))
  <1> DEFINE t == Tail(s)
             q == apply_delta(Head(s).delta, p)
  <1>1. /\ Len(s) \in Nat /\ Head(s) = s[1]
        /\ \A i \in 1..Len(t) : i + 1 \in 1..Len(s) /\ t[i] = s[i + 1]
        /\ \A i \in 1..Len(s) : i > 1 => i - 1 \in 1..Len(t) /\ t[i - 1] = s[i]
    BY Removed
  <1>2. (f \in DOMAIN q <=> f \in DOMAIN p) /\ (f \in DOMAIN p => q[f] = p[f])
    BY DEF apply_delta
  <1> HIDE DEF t, q
  <1>3. ASSUME NEW i \in 1..Len(t), Latest(t, r, f, i)
        PROVE  t[i].delta[f] = v
    <2>1. \A j \in 1..Len(s) : j > i + 1 => j > 1 /\ j - 1 > i
      OBVIOUS
    <2>2. Latest(s, r, f, i + 1)
      BY <1>1, <1>3, <2>1 DEF Latest
    <2> QED
      BY <1>1, <2>2 DEF ShowsLatest
  <1>4. NoneSets(t, r, f) => NoneSets(s, r, f)
    <2> SUFFICES ASSUME NoneSets(t, r, f), NEW i \in 1..Len(s), s[i].uid[1] = r
                 PROVE  f \notin DOMAIN s[i].delta
      BY DEF NoneSets
    <2>1. i > 1
      BY <1>1
    <2> QED
      BY <1>1, <2>1 DEF NoneSets
  <1> QED
    BY <1>2, <1>3, <1>4 DEF ShowsLatest, t, q

LEMMA ShownOwnRemoved ==
    ASSUME NEW s \in Seq(Change), s # <<>>, NEW r, Head(s).uid[1] = r,
           NEW f, NEW v, NEW p, ShowsLatest(s, r, f, v, p)
    PROVE  ShowsLatest(Tail(s), r, f, v, apply_delta(Head(s).delta, p))
  <1> DEFINE t == Tail(s)
             d == Head(s).delta
             q == apply_delta(d, p)
  <1>1. /\ Len(s) \in Nat /\ Head(s) = s[1] /\ 1 \in 1..Len(s)
        /\ \A i \in 1..Len(t) : i + 1 \in 1..Len(s) /\ t[i] = s[i + 1]
        /\ \A i \in 1..Len(s) : i > 1 => i - 1 \in 1..Len(t) /\ t[i - 1] = s[i]
    BY Removed
  <1>2. /\ f \in DOMAIN q <=> f \in DOMAIN d \/ f \in DOMAIN p
        /\ f \in DOMAIN d => q[f] = d[f]
        /\ f \notin DOMAIN d /\ f \in DOMAIN p => q[f] = p[f]
    BY DEF apply_delta
  <1>3. d = s[1].delta
    BY <1>1
  <1> HIDE DEF t, q, d
  <1>4. ASSUME NEW i \in 1..Len(t), Latest(t, r, f, i)
        PROVE  t[i].delta[f] = v
    <2>1. \A j \in 1..Len(s) : j > i + 1 => j > 1 /\ j - 1 > i
      OBVIOUS
    <2>2. Latest(s, r, f, i + 1)
      BY <1>1, <1>4, <2>1 DEF Latest
    <2> QED
      BY <1>1, <2>2 DEF ShowsLatest
  <1>5. ASSUME NoneSets(t, r, f), f \in DOMAIN q
        PROVE  q[f] = v
    <2>1. \A j \in 1..Len(s) : j > 1 /\ s[j].uid[1] = r => f \notin DOMAIN s[j].delta
      BY <1>1, <1>5 DEF NoneSets
    <2>2. CASE f \in DOMAIN d
      <3>1. Latest(s, r, f, 1)
        BY <1>1, <1>3, <2>1, <2>2 DEF Latest
      <3> QED
        BY <1>1, <1>2, <1>3, <2>2, <3>1 DEF ShowsLatest
    <2>3. CASE f \notin DOMAIN d
      <3>1. NoneSets(s, r, f)
        <4> SUFFICES ASSUME NEW j \in 1..Len(s), s[j].uid[1] = r
                     PROVE  f \notin DOMAIN s[j].delta
          BY DEF NoneSets
        <4>1. CASE j = 1
          BY <1>3, <2>3, <4>1
        <4>2. CASE j > 1
          BY <2>1, <4>2
        <4> QED
          BY <4>1, <4>2
      <3> QED
        BY <1>2, <1>5, <2>3, <3>1 DEF ShowsLatest
    <2> QED
      BY <2>2, <2>3
  <1> QED
    BY <1>4, <1>5 DEF ShowsLatest, t, q, d

\* With nothing waited for, the stream holds no change of the replica itself.
LEMMA NoneWaited ==
    ASSUME NEW s \in Seq(Change), NEW r, NEW n, Ordered(s, r, {}, n), NEW f, NEW v, NEW p,
           f \in DOMAIN p => p[f] = v
    PROVE  NoneSets(s, r, f) /\ ShowsLatest(s, r, f, v, p)
  BY DEF Ordered, NoneSets, ShowsLatest, Latest

---------------------------------------------------------------------------
LEMMA Streams ==
    ASSUME NEW c \in Seq(Change), NEW q \in Seq(Change)
    PROVE  /\ c \o q \in Seq(Change)
           /\ \A m \in Change : c \o Append(q, m) = Append(c \o q, m)
           /\ q # <<>> => /\ Append(c, Head(q)) \o Tail(q) = c \o q
                          /\ Len(c) + 1 \in 1..Len(c \o q)
                          /\ (c \o q)[Len(c) + 1] = Head(q)
           /\ c # <<>> => /\ c \o q # <<>>
                          /\ Head(c \o q) = Head(c)
                          /\ Tail(c \o q) = Tail(c) \o q
  <1>1. c \o q \in Seq(Change)
    OBVIOUS
  <1>2. \A m \in Change : c \o Append(q, m) = Append(c \o q, m)
    OBVIOUS
  <1>3. ASSUME q # <<>>
        PROVE  /\ Append(c, Head(q)) \o Tail(q) = c \o q
               /\ Len(c) + 1 \in 1..Len(c \o q)
               /\ (c \o q)[Len(c) + 1] = Head(q)
    BY <1>3
  <1>4. ASSUME c # <<>>
        PROVE  /\ c \o q # <<>>
               /\ Head(c \o q) = Head(c)
               /\ Tail(c \o q) = Tail(c) \o q
    BY <1>4
  <1> QED
    BY <1>1, <1>2, <1>3, <1>4

\* Between the two queues a change enters the stream in the middle.
LEMMA MiddleInserted ==
    ASSUME NEW c \in Seq(Change), NEW q \in Seq(Change), NEW m \in Change
    PROVE  LET s == c \o q
               t == Append(c, m) \o q
               n == Len(c)
           IN  /\ t \in Seq(Change)
               /\ n \in 0..Len(s)
               /\ Len(t) = Len(s) + 1
               /\ \A i \in 1..n : t[i] = s[i]
               /\ t[n + 1] = m
               /\ \A i \in (n + 2)..Len(t) : t[i] = s[i - 1]
  <1> DEFINE s == c \o q
             a == Append(c, m)
             t == a \o q
             n == Len(c)
  <1>1. /\ n \in Nat /\ Len(q) \in Nat
        /\ a \in Seq(Change) /\ Len(a) = n + 1
        /\ \A i \in 1..n : a[i] = c[i]
        /\ a[n + 1] = m
    BY Appended
  <1>2. /\ Len(s) = n + Len(q)
        /\ \A i \in 1..n : s[i] = c[i]
        /\ \A i \in (n + 1)..Len(s) : s[i] = q[i - n]
    OBVIOUS
  <1> HIDE DEF a, n, s
  <1>3. /\ t \in Seq(Change)
        /\ Len(t) = Len(a) + Len(q)
        /\ \A i \in 1..Len(a) : t[i] = a[i]
        /\ \A i \in (Len(a) + 1)..Len(t) : t[i] = q[i - Len(a)]
    BY <1>1
  <1> HIDE DEF t
  <1>4. \A i \in 1..n : t[i] = s[i]
    <2>1. \A i \in 1..n : i \in 1..Len(a)
      BY <1>1
    <2> QED
      BY <1>1, <1>2, <1>3, <2>1
  <1>5. t[n + 1] = m
    BY <1>1, <1>3
  <1>6. ASSUME NEW i \in (n + 2)..Len(t)
        PROVE  t[i] = s[i - 1]
    <2>1. /\ i \in (Len(a) + 1)..Len(t) /\ i - Len(a) = (i - 1) - n
          /\ i - 1 \in (n + 1)..Len(s)
      BY <1>1, <1>2, <1>3
    <2>2. t[i] = q[i - Len(a)] /\ s[i - 1] = q[(i - 1) - n]
      BY <1>2, <1>3, <2>1
    <2> QED
      BY <2>1, <2>2
  <1>7. n \in 0..Len(s) /\ Len(t) = Len(s) + 1
    BY <1>1, <1>2, <1>3
  <1> QED
    BY <1>3, <1>4, <1>5, <1>6, <1>7 DEF a, n, s, t

LEMMA ShownStart == Init => ShownInv
  <1> SUFFICES ASSUME Init, NEW r \in Replica
               PROVE  /\ OwnAreOwn(r)
                      /\ Ordered(Stream(r), r, local_uids[r], changes)
                      /\ \A f \in Field \ overtaken[r] :
                            /\ value[r][f] = shown[r][f]
                            /\ ShowsLatest(Stream(r), r, f, value[r][f], pending_delta[r])
    BY DEF ShownInv
  <1>1. /\ confirmed[r] = <<>> /\ requests[r] = <<>> /\ local_uids[r] = {}
        /\ shown = value /\ pending_delta[r] = NoDelta
    BY DEF Init
  <1>2. Stream(r) = <<>>
    BY <1>1 DEF Stream
  <1> QED
    BY <1>1, <1>2, DeltaType DEF OwnAreOwn, Ordered, ShowsLatest, Latest, NoneSets

---------------------------------------------------------------------------
(* What the invariant says of one replica *)

Shown(r) ==
    /\ OwnAreOwn(r)
    /\ Ordered(Stream(r), r, local_uids[r], changes)
    /\ \A f \in Field \ overtaken[r] :
          /\ value[r][f] = shown[r][f]
          /\ ShowsLatest(Stream(r), r, f, value[r][f], pending_delta[r])

LEMMA ShownParts == ShownInv <=> \A r \in Replica : Shown(r)
  BY DEF ShownInv, Shown

LEMMA StreamType ==
    ASSUME TypeOK, NEW r \in Replica
    PROVE  /\ confirmed[r] \in Seq(Change) /\ requests[r] \in Seq(Change)
           /\ Stream(r) \in Seq(Change)
           /\ value[r] \in Entity /\ shown[r] \in Entity
           /\ pending_delta[r] \in Delta \cup {NoDelta}
           /\ changes \in Nat
  <1>1. confirmed[r] \in Seq(Change) /\ requests[r] \in Seq(Change)
    BY DEF TypeOK
  <1>2. Stream(r) \in Seq(Change)
    BY <1>1, Streams DEF Stream
  <1> QED
    BY <1>1, <1>2, LocalVersionAssumption DEF TypeOK

\* More changes made elsewhere leave the order alone.
LEMMA OrderedLater ==
    ASSUME NEW s \in Seq(Change), NEW r, NEW uids, NEW n \in Nat, Ordered(s, r, uids, n)
    PROVE  Ordered(s, r, uids, n + 1)
  <1>1. \A i \in 1..Len(s) : s[i].uid[2] \in Nat
    BY UidType
  <1>2. \A i \in 1..Len(s) : s[i].uid[2] <= n + 1
    BY <1>1 DEF Ordered
  <1> QED
    BY <1>2 DEF Ordered

LEMMA ShownRequest ==
    ASSUME IInv, ShownInv, NEW r \in Replica, NEW d \in Delta, Request(r, d)
    PROVE  ShownInv'
  <1> DEFINE m == [uid |-> <<r, changes + 1>>, delta |-> d]
  <1>1. TypeOK
    BY DEF IInv
  <1>2. /\ m \in Change /\ m.uid = <<r, changes + 1>> /\ m.uid[1] = r /\ m.delta = d
        /\ changes \in Nat
    BY <1>1, LocalVersionAssumption DEF TypeOK, Request, Change, Uid
  <1>3. /\ local_uids' = [local_uids EXCEPT ![r] = @ \cup {m.uid}]
        /\ pending_delta' = [pending_delta EXCEPT ![r] = apply_delta(d, @)]
        /\ value' = [value EXCEPT ![r] = apply_delta(d, @)]
        /\ requests' = [requests EXCEPT ![r] = Append(@, m)]
        /\ shown' = [shown EXCEPT ![r] = apply_delta(d, @)]
        /\ changes' = changes + 1
        /\ UNCHANGED <<root, confirmed, overtaken>>
    BY DEF Request, apply_local_delta
  <1> HIDE DEF m
  <1>4. ASSUME NEW q \in Replica, q # r
        PROVE  Shown(q)'
    <2>1. /\ value'[q] = value[q] /\ pending_delta'[q] = pending_delta[q]
          /\ local_uids'[q] = local_uids[q] /\ requests'[q] = requests[q]
          /\ shown'[q] = shown[q] /\ confirmed' = confirmed
          /\ overtaken' = overtaken /\ changes' = changes + 1
      BY <1>1, <1>3, <1>4 DEF TypeOK
    <2>2. Stream(q)' = Stream(q)
      BY <2>1 DEF Stream
    <2>3. Shown(q)
      BY ShownParts
    <2>4. Ordered(Stream(q), q, local_uids[q], changes + 1)
      BY <1>1, <2>3, StreamType, OrderedLater DEF Shown
    <2> QED
      BY <2>1, <2>2, <2>3, <2>4 DEF Shown, OwnAreOwn
  <1>5. Shown(r)'
    <2>1. /\ value'[r] = apply_delta(d, value[r])
          /\ shown'[r] = apply_delta(d, shown[r])
          /\ pending_delta'[r] = apply_delta(d, pending_delta[r])
          /\ local_uids'[r] = local_uids[r] \cup {m.uid}
          /\ requests'[r] = Append(requests[r], m)
          /\ confirmed' = confirmed /\ overtaken' = overtaken
          /\ changes' = changes + 1
      BY <1>1, <1>3 DEF TypeOK
    <2>2. Shown(r)
      BY ShownParts
    <2>3. Stream(r)' = Append(Stream(r), m)
      <3>1. confirmed[r] \in Seq(Change) /\ requests[r] \in Seq(Change)
        BY <1>1, StreamType
      <3>2. confirmed[r] \o Append(requests[r], m) = Append(confirmed[r] \o requests[r], m)
        BY <1>2, <3>1, Streams
      <3>3. Stream(r)' = confirmed[r] \o Append(requests[r], m)
        BY <2>1 DEF Stream
      <3> QED
        BY <3>2, <3>3 DEF Stream
    <2>4. OwnAreOwn(r)'
      <3>1. /\ Len(requests[r]) \in Nat
            /\ Len(Append(requests[r], m)) = Len(requests[r]) + 1
            /\ \A i \in 1..Len(requests[r]) : Append(requests[r], m)[i] = requests[r][i]
            /\ Append(requests[r], m)[Len(requests[r]) + 1] = m
        BY <1>1, <1>2, StreamType, Appended
      <3>2. ASSUME NEW i \in 1..Len(Append(requests[r], m))
            PROVE  Append(requests[r], m)[i].uid[1] = r
        <4>1. CASE i = Len(requests[r]) + 1
          BY <1>2, <3>1, <4>1
        <4>2. CASE i \in 1..Len(requests[r])
          BY <2>2, <3>1, <4>2 DEF Shown, OwnAreOwn
        <4> QED
          BY <3>1, <4>1, <4>2
      <3>3. \A u \in local_uids[r] \cup {m.uid} : u[1] = r
        BY <1>2, <2>2 DEF Shown, OwnAreOwn
      <3> QED
        BY <2>1, <3>2, <3>3 DEF OwnAreOwn
    <2>5. Ordered(Stream(r)', r, local_uids'[r], changes')
      <3>1. Ordered(Stream(r), r, local_uids[r], changes)
        BY <2>2 DEF Shown
      <3>2. Ordered(Append(Stream(r), m), r, local_uids[r] \cup {m.uid}, changes + 1)
        BY <1>1, <1>2, <3>1, StreamType, OrderedAppended
      <3> QED
        BY <2>1, <2>3, <3>2
    <2>6. ASSUME NEW f \in Field \ overtaken[r]
          PROVE  /\ value'[r][f] = shown'[r][f]
                 /\ ShowsLatest(Stream(r)', r, f, value'[r][f], pending_delta'[r])
      <3>1. /\ value[r][f] = shown[r][f]
            /\ ShowsLatest(Stream(r), r, f, value[r][f], pending_delta[r])
        BY <2>2 DEF Shown
      <3>2. value'[r][f] = shown'[r][f]
        BY <1>1, <2>1, <3>1, StreamType, ApplyToEntity
      <3>3. ShowsLatest(Append(Stream(r), m), r, f, apply_delta(m.delta, value[r])[f],
                        apply_delta(m.delta, pending_delta[r]))
        BY <1>1, <1>2, <3>1, StreamType, ShownAppended
      <3> QED
        BY <1>2, <2>1, <2>3, <3>2, <3>3
    <2> QED
      BY <2>1, <2>4, <2>5, <2>6 DEF Shown
  <1>6. \A q \in Replica : Shown(q)'
    BY <1>4, <1>5
  <1> QED
    BY <1>6 DEF ShownInv, Shown

LEMMA ShownRoot ==
    ASSUME IInv, ShownInv, NEW r \in Replica, RootConfirms(r)
    PROVE  ShownInv'
  <1> DEFINE m == Head(requests[r])
  <1>1. TypeOK
    BY DEF IInv
  <1>2. /\ requests[r] \in Seq(Change) /\ requests[r] # <<>>
        /\ m \in Change
        /\ m.uid[1] = r
    <2>1. /\ requests[r] \in Seq(Change) /\ requests[r] # <<>>
          /\ m \in Change
      BY <1>1, Removed DEF TypeOK, RootConfirms
    <2>2. OwnAreOwn(r)
      BY DEF ShownInv
    <2>3. m = requests[r][1] /\ 1 \in 1..Len(requests[r])
      BY <2>1, Removed
    <2> QED
      BY <2>1, <2>2, <2>3 DEF OwnAreOwn
  <1>3. /\ requests' = [requests EXCEPT ![r] = Tail(@)]
        /\ confirmed' = [s \in Replica |-> Append(confirmed[s], m)]
        /\ UNCHANGED <<storeVars, changes, history>>
    BY DEF RootConfirms
  <1>4. /\ value' = value /\ pending_delta' = pending_delta
        /\ local_uids' = local_uids /\ changes' = changes
        /\ shown' = shown /\ overtaken' = overtaken
    BY <1>3 DEF storeVars, history
  <1>5. m.uid[2] <= changes
    <2>1. /\ Len(confirmed[r]) + 1 \in 1..Len(Stream(r))
          /\ Stream(r)[Len(confirmed[r]) + 1] = m
      BY <1>1, <1>2, StreamType, Streams DEF Stream
    <2> QED
      BY <2>1 DEF ShownInv, Ordered
  <1>6. Shown(r)'
    <2>1. Stream(r)' = Stream(r)
      <3>1. requests'[r] = Tail(requests[r]) /\ confirmed'[r] = Append(confirmed[r], m)
        BY <1>1, <1>3 DEF TypeOK
      <3>2. confirmed[r] \in Seq(Change)
        BY <1>1, StreamType
      <3>3. Append(confirmed[r], m) \o Tail(requests[r]) = confirmed[r] \o requests[r]
        BY <1>2, <3>2, Streams
      <3>4. Stream(r)' = Append(confirmed[r], m) \o Tail(requests[r])
        BY <3>1 DEF Stream
      <3> QED
        BY <3>3, <3>4 DEF Stream
    <2>2. OwnAreOwn(r)'
      <3>1. requests'[r] = Tail(requests[r])
        BY <1>1, <1>3 DEF TypeOK
      <3>2. \A i \in 1..Len(Tail(requests[r])) :
               i + 1 \in 1..Len(requests[r]) /\ Tail(requests[r])[i] = requests[r][i + 1]
        BY <1>2, Removed
      <3>3. OwnAreOwn(r)
        BY DEF ShownInv
      <3> QED
        BY <1>4, <3>1, <3>2, <3>3 DEF OwnAreOwn
    <2> QED
      BY <1>4, <2>1, <2>2 DEF ShownInv, Shown
  <1>7. ASSUME NEW q \in Replica, q # r
        PROVE  Shown(q)'
    <2> DEFINE c == confirmed[q]
               s == Stream(q)
               t == Append(c, m) \o requests[q]
               n == Len(c)
    <2>1. /\ requests'[q] = requests[q]
          /\ confirmed'[q] = Append(c, m)
      BY <1>1, <1>3, <1>7 DEF TypeOK
    <2>2. Stream(q)' = t
      BY <2>1 DEF Stream
    <2>3. /\ c \in Seq(Change) /\ requests[q] \in Seq(Change) /\ s \in Seq(Change)
          /\ Append(c, m) \in Seq(Change)
      BY <1>1, <1>2, StreamType, Appended
    <2>4. /\ t \in Seq(Change)
          /\ n \in 0..Len(s)
          /\ Len(t) = Len(s) + 1
          /\ \A i \in 1..n : t[i] = s[i]
          /\ t[n + 1] = m
          /\ \A i \in (n + 2)..Len(t) : t[i] = s[i - 1]
      BY <1>2, <2>3, MiddleInserted DEF Stream
    <2>5. m.uid[1] # q
      BY <1>2, <1>7
    <2> HIDE DEF t, s, n
    <2>6. changes \in Nat
      BY <1>1, StreamType
    <2>7. /\ Ordered(s, q, local_uids[q], changes) =>
                Ordered(t, q, local_uids[q], changes)
          /\ \A f, v, p : ShowsLatest(s, q, f, v, p) => ShowsLatest(t, q, f, v, p)
      BY <1>2, <1>5, <2>3, <2>4, <2>5, <2>6, Inserted
    <2>8. Shown(q)
      BY ShownParts
    <2> QED
      BY <1>4, <2>1, <2>2, <2>7, <2>8 DEF Shown, OwnAreOwn, s
  <1>8. \A q \in Replica : Shown(q)'
    BY <1>6, <1>7
  <1> QED
    BY <1>8 DEF ShownInv, Shown

LEMMA ShownConfirm ==
    ASSUME IInv, ShownInv, NEW r \in Replica, Confirm(r)
    PROVE  ShownInv'
  <1> DEFINE c == confirmed[r]
             m == Head(c)
             d == m.delta
             p == pending_delta[r]
             x == value[r]
             s == Stream(r)
             u == local_uids[r]
  <1>1. TypeOK
    BY DEF IInv
  <1>2. /\ c \in Seq(Change) /\ c # <<>> /\ requests[r] \in Seq(Change)
        /\ m \in Change
        /\ s \in Seq(Change) /\ s # <<>> /\ Head(s) = m
        /\ Tail(s) = Tail(c) \o requests[r]
        /\ x \in Entity /\ p \in Delta \cup {NoDelta}
        /\ d \in Delta
    <2>1. c \in Seq(Change) /\ c # <<>> /\ requests[r] \in Seq(Change)
      BY <1>1, StreamType DEF Confirm
    <2>2. m \in Change
      BY <2>1, Removed
    <2>3. c \o requests[r] # <<>> /\ Head(c \o requests[r]) = m
          /\ Tail(c \o requests[r]) = Tail(c) \o requests[r]
      BY <2>1, Streams
    <2> QED
      BY <1>1, <2>1, <2>2, <2>3, StreamType, UidType DEF Stream
  <1>3. /\ confirmed' = [confirmed EXCEPT ![r] = Tail(c)]
        /\ ConfirmOwn(r, m.uid, d) \/ ConfirmForeign(r, m.uid, d)
        /\ shown' = IF m.uid[1] = r THEN shown
                    ELSE [shown EXCEPT ![r] = apply_delta(d, @)]
        /\ overtaken' = IF m.uid[1] = r \/ u = {} THEN overtaken
                        ELSE [overtaken EXCEPT ![r] = @ \cup DOMAIN d]
        /\ UNCHANGED <<root, requests, changes>>
    BY DEF Confirm
  <1>4. Stream(r)' = Tail(s)
    <2>1. confirmed'[r] = Tail(c) /\ requests' = requests
      BY <1>1, <1>3 DEF TypeOK
    <2>2. Stream(r)' = Tail(c) \o requests[r]
      BY <2>1 DEF Stream
    <2> QED
      BY <1>2, <2>2
  <1>5. Shown(r)
    BY ShownParts
  <1> HIDE DEF m, s
  <1>6. ASSUME NEW q \in Replica, q # r
        PROVE  Shown(q)'
    <2>1. /\ value'[q] = value[q] /\ pending_delta'[q] = pending_delta[q]
          /\ local_uids'[q] = local_uids[q]
      BY <1>1, <1>2, <1>3, <1>6, ConfirmEffect
    <2>2. /\ confirmed'[q] = confirmed[q] /\ requests' = requests
          /\ shown'[q] = shown[q] /\ overtaken'[q] = overtaken[q]
          /\ changes' = changes
      BY <1>1, <1>3, <1>6 DEF TypeOK
    <2>3. Stream(q)' = Stream(q)
      BY <2>2 DEF Stream
    <2>4. Shown(q)
      BY ShownParts
    <2> QED
      BY <2>1, <2>2, <2>3, <2>4 DEF Shown, OwnAreOwn
  <1>7. ASSUME m.uid[1] = r
        PROVE  Shown(r)'
    <2>1. m.uid \in u
      BY <1>2, <1>5, <1>7, OrderedRemoved DEF Shown, s
    <2>2. ConfirmOwn(r, m.uid, d)
      BY <1>3, <2>1 DEF ConfirmForeign
    <2>3. /\ local_uids'[r] = u \ {m.uid}
          /\ shown' = shown /\ overtaken' = overtaken
          /\ requests' = requests /\ changes' = changes
      BY <1>1, <1>3, <1>7, <2>2 DEF ConfirmOwn, TypeOK
    <2>4. Ordered(Tail(s), r, u \ {m.uid}, changes)
      BY <1>2, <1>5, <1>7, OrderedRemoved DEF Shown, s
    <2>5. ASSUME NEW f \in Field \ overtaken[r]
          PROVE  /\ value'[r][f] = x[f]
                 /\ ShowsLatest(Tail(s), r, f, x[f], pending_delta'[r])
      <3>1. ShowsLatest(s, r, f, x[f], p)
        BY <1>5 DEF Shown, s
      <3>2. ShowsLatest(Tail(s), r, f, x[f], apply_delta(d, p))
        BY <1>2, <1>7, <3>1, ShownOwnRemoved
      <3>3. CASE u \ {m.uid} # {}
        <4>1. value'[r] = x /\ pending_delta'[r] = apply_delta(d, p)
          BY <1>1, <2>2, <3>3 DEF ConfirmOwn, TypeOK
        <4> QED
          BY <3>2, <4>1
      <3>4. CASE u \ {m.uid} = {}
        <4>1. /\ value'[r] = apply_delta(apply_delta(d, p), x)
              /\ pending_delta'[r] = NoDelta
          BY <1>1, <2>2, <3>4 DEF ConfirmOwn, TypeOK
        <4>2. Ordered(Tail(s), r, {}, changes)
          BY <2>4, <3>4
        <4>3. NoneSets(Tail(s), r, f) /\ ShowsLatest(Tail(s), r, f, x[f], NoDelta)
          <5>1. Tail(s) \in Seq(Change)
            BY <1>2
          <5>2. f \in DOMAIN NoDelta => NoDelta[f] = x[f]
            BY DeltaType
          <5> QED
            BY <4>2, <5>1, <5>2, NoneWaited
        <4>4. f \in DOMAIN apply_delta(d, p) => apply_delta(d, p)[f] = x[f]
          BY <3>2, <4>3 DEF ShowsLatest
        <4>5. value'[r][f] = x[f]
          BY <1>2, <4>1, <4>4, ApplyToEntity
        <4> QED
          BY <4>1, <4>3, <4>5
      <3> QED
        BY <3>3, <3>4
    <2>6. OwnAreOwn(r)'
      BY <1>5, <2>3 DEF Shown, OwnAreOwn
    <2>7. ASSUME NEW f \in Field \ overtaken[r]
          PROVE  /\ value'[r][f] = shown'[r][f]
                 /\ ShowsLatest(Stream(r)', r, f, value'[r][f], pending_delta'[r])
      BY <1>4, <1>5, <2>3, <2>5 DEF Shown
    <2> QED
      BY <1>4, <2>3, <2>4, <2>6, <2>7 DEF Shown
  <1>8. ASSUME m.uid[1] # r
        PROVE  Shown(r)'
    <2>1. m.uid \notin u
      BY <1>5, <1>8 DEF Shown, OwnAreOwn
    <2>2. ConfirmForeign(r, m.uid, d)
      BY <1>3, <2>1 DEF ConfirmOwn
    <2>3. /\ local_uids' = local_uids
          /\ value'[r] = apply_delta(d, x)
          /\ pending_delta'[r] = apply_delta(d, p)
          /\ shown'[r] = apply_delta(d, shown[r])
          /\ requests' = requests /\ changes' = changes
      BY <1>1, <1>3, <1>8, <2>2 DEF ConfirmForeign, TypeOK
    <2>4. Ordered(Tail(s), r, u, changes)
      BY <1>2, <1>5, <1>8, OrderedRemoved DEF Shown, s
    <2>5. ASSUME NEW f \in Field \ overtaken'[r]
          PROVE  /\ value'[r][f] = shown'[r][f]
                 /\ ShowsLatest(Tail(s), r, f, value'[r][f], pending_delta'[r])
      <3>1. f \notin overtaken[r] /\ (f \in DOMAIN d => u = {})
        BY <1>1, <1>3, <1>8 DEF TypeOK
      <3>2. x[f] = shown[r][f] /\ ShowsLatest(s, r, f, x[f], p)
        BY <1>5, <3>1 DEF Shown, s
      <3>3. value'[r][f] = shown'[r][f]
        BY <1>1, <1>2, <2>3, <3>2, StreamType, ApplyToEntity
      <3>4. CASE f \in DOMAIN d
        <4>1. Ordered(Tail(s), r, {}, changes)
          BY <2>4, <3>1, <3>4
        <4>2. apply_delta(d, p)[f] = d[f]
          BY <3>4 DEF apply_delta
        <4>3. value'[r][f] = d[f]
          BY <1>2, <2>3, <3>4, ApplyToEntity
        <4> QED
          <5>1. Tail(s) \in Seq(Change)
            BY <1>2
          <5>2. f \in DOMAIN pending_delta'[r] => pending_delta'[r][f] = value'[r][f]
            BY <2>3, <4>2, <4>3
          <5>3. ShowsLatest(Tail(s), r, f, value'[r][f], pending_delta'[r])
            BY <4>1, <5>1, <5>2, NoneWaited
          <5> QED
            BY <3>3, <5>3
      <3>5. CASE f \notin DOMAIN d
        <4>1. ShowsLatest(Tail(s), r, f, x[f], apply_delta(d, p))
          BY <1>2, <1>8, <3>2, <3>5, ShownForeignRemoved
        <4>2. value'[r][f] = x[f]
          BY <1>2, <2>3, <3>5, ApplyToEntity
        <4> QED
          BY <2>3, <3>3, <4>1, <4>2
      <3> QED
        BY <3>4, <3>5
    <2>6. OwnAreOwn(r)'
      BY <1>5, <2>3 DEF Shown, OwnAreOwn
    <2> QED
      BY <1>4, <2>3, <2>4, <2>5, <2>6 DEF Shown
  <1>9. \A q \in Replica : Shown(q)'
    BY <1>6, <1>7, <1>8
  <1> QED
    BY <1>9 DEF ShownInv, Shown

---------------------------------------------------------------------------
(* The result *)

\* A field shows the last change to it, made here or by others, whatever older
\* changes are confirmed meanwhile, unless a foreign change met one of the
\* replica's own that waited: apply_local_delta and confirm_delta.
THEOREM NothingIsReverted == Spec => []NotReverted
  <1>1. IInv /\ ShownInv /\ [Next]_vars => ShownInv'
    <2> SUFFICES ASSUME IInv, ShownInv, [Next]_vars PROVE ShownInv'
      OBVIOUS
    <2>1. CASE Next
      <3>1. PICK r \in Replica :
               \/ \E delta \in Delta : Request(r, delta)
               \/ RootConfirms(r)
               \/ Confirm(r)
        BY <2>1 DEF Next
      <3>2. CASE \E delta \in Delta : Request(r, delta)
        BY <3>2, ShownRequest
      <3>3. CASE RootConfirms(r)
        BY <3>3, ShownRoot
      <3>4. CASE Confirm(r)
        BY <3>4, ShownConfirm
      <3> QED
        BY <3>1, <3>2, <3>3, <3>4
    <2>2. CASE UNCHANGED vars
      <3>1. /\ value' = value /\ pending_delta' = pending_delta
            /\ local_uids' = local_uids /\ requests' = requests
            /\ confirmed' = confirmed /\ changes' = changes
            /\ shown' = shown /\ overtaken' = overtaken
        BY <2>2 DEF vars, storeVars, history
      <3>2. ASSUME NEW r \in Replica
            PROVE  Shown(r)'
        <4>1. Shown(r)
          BY ShownParts
        <4>2. Stream(r)' = Stream(r)
          BY <3>1 DEF Stream
        <4> QED
          BY <3>1, <4>1, <4>2 DEF Shown, OwnAreOwn
      <3> QED
        BY <3>2 DEF ShownInv, Shown
    <2> QED
      BY <2>1, <2>2
  <1>2. ShownInv => NotReverted
    BY DEF ShownInv, NotReverted
  <1> QED
    BY <1>1, <1>2, ShownStart, Invariance, PTL DEF Spec
=============================================================================

---------------------------- MODULE LocalVersion ----------------------------
(***************************************************************************)
(* local_version.hpp: a replica that shows the changes made at it at once  *)
(* and learns later in which order the root producer took them.  A change  *)
(* is a delta (delta.hpp): values for some of the fields of the entity.    *)
(* The root producer confirms every change to every replica in one order,  *)
(* a change's own replica included; it is not in the repository and taken  *)
(* from test/nbdl/core/local_version.cpp.                                  *)
(***************************************************************************)
EXTENDS Naturals, Sequences

CONSTANTS Replica, Field, Value, Initial, MaxChanges

ASSUME LocalVersionAssumption ==
    /\ Initial \in Value
    /\ MaxChanges \in Nat

VARIABLES
    value,          \* per replica, the entity it shows
    pending_delta,
    local_uids,     \* changes made at the replica and not confirmed
    root,           \* the entity of the root producer
    requests,       \* changes on their way to the root producer
    confirmed,      \* confirmed changes on their way to the replica
    changes,        \* number of changes made so far
    shown,          \* history: what changed each field last at the replica,
                    \* its own changes counting when they are made
    overtaken       \* history: fields that a foreign change set while a
                    \* change of the replica itself waited

storeVars == <<value, pending_delta, local_uids>>
history == <<shown, overtaken>>
vars == <<storeVars, root, requests, confirmed, changes, history>>

Entity == [Field -> Value]
Delta == UNION {[fields -> Value] : fields \in (SUBSET Field) \ {{}}}
Uid == Replica \X (1..MaxChanges)
Change == [uid : Uid, delta : Delta]
NoDelta == <<>>

\* The fields of the delta replace those of an entity or of another delta.
apply_delta(delta, x) ==
    [f \in DOMAIN delta \cup DOMAIN x |->
        IF f \in DOMAIN delta THEN delta[f] ELSE x[f]]

TypeOK ==
    /\ value \in [Replica -> Entity]
    /\ pending_delta \in [Replica -> Delta \cup {NoDelta}]
    /\ local_uids \in [Replica -> SUBSET Uid]
    /\ root \in Entity
    /\ requests \in [Replica -> Seq(Change)]
    /\ confirmed \in [Replica -> Seq(Change)]
    /\ changes \in 0..MaxChanges
    /\ shown \in [Replica -> Entity]
    /\ overtaken \in [Replica -> SUBSET Field]

Init ==
    /\ value = [r \in Replica |-> [f \in Field |-> Initial]]
    /\ pending_delta = [r \in Replica |-> NoDelta]
    /\ local_uids = [r \in Replica |-> {}]
    /\ root = [f \in Field |-> Initial]
    /\ requests = [r \in Replica |-> <<>>]
    /\ confirmed = [r \in Replica |-> <<>>]
    /\ changes = 0
    /\ shown = value
    /\ overtaken = [r \in Replica |-> {}]

---------------------------------------------------------------------------
\* (bug: the change is not remembered as pending)
apply_local_delta_NoUid(r, uid, delta) ==
    /\ pending_delta' = [pending_delta EXCEPT ![r] = apply_delta(delta, @)]
    /\ value' = [value EXCEPT ![r] = apply_delta(delta, @)]
    /\ UNCHANGED local_uids

apply_local_delta(r, uid, delta) ==
    /\ local_uids' = [local_uids EXCEPT ![r] = @ \cup {uid}]
    /\ pending_delta' = [pending_delta EXCEPT ![r] = apply_delta(delta, @)]
    /\ value' = [value EXCEPT ![r] = apply_delta(delta, @)]

\* (bug: the confirmed delta is taken to be in pending_delta already)
ConfirmOwn_NotReapplied(r, uid, delta) ==
    LET rest    == local_uids[r] \ {uid}
        pending == pending_delta[r]
    IN  /\ uid \in local_uids[r]
        /\ local_uids' = [local_uids EXCEPT ![r] = rest]
        /\ pending_delta' = [pending_delta EXCEPT
               ![r] = IF rest = {} THEN NoDelta ELSE pending]
        /\ value' = IF rest = {}
                    THEN [value EXCEPT ![r] = apply_delta(pending, @)]
                    ELSE value

\* The replica's own change comes back; with the last one pending_delta has
\* what the root producer has.
ConfirmOwn(r, uid, delta) ==
    LET rest    == local_uids[r] \ {uid}
        pending == apply_delta(delta, pending_delta[r])
    IN  /\ uid \in local_uids[r]
        /\ local_uids' = [local_uids EXCEPT ![r] = rest]
        /\ pending_delta' = [pending_delta EXCEPT
               ![r] = IF rest = {} THEN NoDelta ELSE pending]
        /\ value' = IF rest = {}
                    THEN [value EXCEPT ![r] = apply_delta(pending, @)]
                    ELSE value

ConfirmForeign(r, uid, delta) ==
    /\ uid \notin local_uids[r]
    /\ pending_delta' = [pending_delta EXCEPT ![r] = apply_delta(delta, @)]
    /\ value' = [value EXCEPT ![r] = apply_delta(delta, @)]
    /\ UNCHANGED local_uids

---------------------------------------------------------------------------
\* The user of the replica makes a change, which is also sent upstream.
Request(r, delta) ==
    /\ changes < MaxChanges
    /\ changes' = changes + 1
    /\ apply_local_delta(r, <<r, changes'>>, delta)
    /\ requests' = [requests EXCEPT
           ![r] = Append(@, [uid |-> <<r, changes'>>, delta |-> delta])]
    /\ shown' = [shown EXCEPT ![r] = apply_delta(delta, @)]
    /\ UNCHANGED <<root, confirmed, overtaken>>

\* The root producer takes the next change of a replica and confirms it.
RootConfirms(r) ==
    /\ requests[r] # <<>>
    /\ requests' = [requests EXCEPT ![r] = Tail(@)]
    /\ root' = apply_delta(Head(requests[r]).delta, root)
    /\ confirmed' = [s \in Replica |-> Append(confirmed[s], Head(requests[r]))]
    /\ UNCHANGED <<storeVars, changes, history>>

\* A confirmed change arrives.  What it sets counts as foreign unless it is
\* the replica's own, and overtakes what waits.
Confirm(r) ==
    /\ confirmed[r] # <<>>
    /\ confirmed' = [confirmed EXCEPT ![r] = Tail(@)]
    /\ LET m == Head(confirmed[r])
       IN  /\ \/ ConfirmOwn(r, m.uid, m.delta)
              \/ ConfirmForeign(r, m.uid, m.delta)
           /\ shown' = IF m.uid[1] = r THEN shown
                       ELSE [shown EXCEPT ![r] = apply_delta(m.delta, @)]
           /\ overtaken' = IF m.uid[1] = r \/ local_uids[r] = {} THEN overtaken
                           ELSE [overtaken EXCEPT ![r] = @ \cup DOMAIN m.delta]
    /\ UNCHANGED <<root, requests, changes>>

Next ==
    \E r \in Replica :
        \/ \E delta \in Delta : Request(r, delta)
        \/ RootConfirms(r)
        \/ Confirm(r)

Spec == Init /\ [][Next]_vars

---------------------------------------------------------------------------
(* A replica that has heard of all changes, with none of its own on its way,
   shows what the root producer has: the order in which its own changes and
   those of others were shown in between leaves no trace. *)
Converged ==
    \A r \in Replica :
        requests[r] = <<>> /\ confirmed[r] = <<>> => value[r] = root

(* "Changes are applied immediately and not reverted in any intermediate state
   when confirmed": a field shows the last change to it, made here or by
   others, whatever older changes are confirmed meanwhile, unless a foreign
   change met one that waited. *)
NotReverted ==
    \A r \in Replica : \A f \in Field \ overtaken[r] : value[r][f] = shown[r][f]

=============================================================================

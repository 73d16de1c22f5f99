---------------------------- MODULE MessagePipe ----------------------------
(***************************************************************************)
(* What two connected endpoints promise their users: each user's messages  *)
(* reach the other user's on_message handler in the order they were sent,  *)
(* none twice, none skipped and none invented, and on_message is not       *)
(* called any more after on_close.  The i-th message of a user is i.       *)
(***************************************************************************)
EXTENDS Naturals, Sequences

CONSTANTS Peer, Other

VARIABLES
    sent,       \* sent[p]: how many messages p was asked to send
    received,   \* received[p]: the messages p's handler was given
    closed      \* the peers whose on_close handler was called

pipeVars == <<sent, received, closed>>

Init ==
    /\ sent = [p \in Peer |-> 0]
    /\ received = [p \in Peer |-> <<>>]
    /\ closed = {}

Send(p) ==
    /\ sent' = [sent EXCEPT ![p] = @ + 1]
    /\ UNCHANGED <<received, closed>>

Deliver(p) ==
    /\ p \notin closed
    /\ Len(received[p]) < sent[Other[p]]
    /\ received' = [received EXCEPT ![p] = Append(@, Len(@) + 1)]
    /\ UNCHANGED <<sent, closed>>

Close(p) ==
    /\ closed' = closed \cup {p}
    /\ UNCHANGED <<sent, received>>

Next == \E p \in Peer : Send(p) \/ Deliver(p) \/ Close(p)

Spec == Init /\ [][Next]_pipeVars
============================================================================

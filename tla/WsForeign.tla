----------------------------- MODULE WsForeign -----------------------------
(***************************************************************************)
(* A peer at the other end of the stream that WsReader reads that is not   *)
(* this library: one that cuts its messages where it likes, masks its      *)
(* frames, and puts control frames between the fragments of a message, as  *)
(* a browser does.                                                         *)
(***************************************************************************)
EXTENDS WsReader

CONSTANTS
    BodySizes,      \* sizes of the bodies of the peer's data frames
    FirstKeys,      \* mask keys of the first frame of a message
    LaterKeys,      \* mask keys of its continuation frames
    MaxFragments,   \* bound on the data frames of a message
    MaxControls     \* bound on its control frames

ASSUME ForeignAssumption ==
    /\ BodySizes \subseteq 0..IntEnd - 1
    /\ FirstKeys \cup LaterKeys \subseteq Nat
    /\ {MaxFragments, MaxControls} \subseteq Nat

VARIABLES
    fragments,  \* frames of the last message so far; 0 when it is complete
    controls    \* control frames written

peerVars == <<fragments, controls>>

PeerInit ==
    /\ fragments = 0
    /\ controls = 0

Write(frame) ==
    /\ wire' = Append(wire, frame)
    /\ UNCHANGED <<payload, reader, delivered, pending_control_frame>>

PeerFirst(n, key, fin) ==
    /\ fragments = 0
    /\ Len(messages) < MaxMessages
    /\ messages' = Append(messages, n)
    /\ fragments' = IF fin THEN 0 ELSE 1
    /\ Write(MakeFrame("text", fin, key, Bytes(Len(messages) + 1, 0, n)))
    /\ UNCHANGED controls

PeerContinuation(n, key, fin) ==
    /\ fragments > 0
    /\ fin \/ fragments < MaxFragments - 1
    /\ LET m == Len(messages)
       IN  /\ messages' = [messages EXCEPT ![m] = @ + n]
           /\ Write(MakeFrame("continuation", fin, key, Bytes(m, messages[m], n)))
    /\ fragments' = IF fin THEN 0 ELSE fragments + 1
    /\ UNCHANGED controls

\* A ping, a pong, a frame with a reserved opcode, or the close frame.
PeerControl(kind) ==
    /\ controls < MaxControls
    /\ controls' = controls + 1
    /\ Write(MakeFrame(kind, TRUE, 0, <<>>))
    /\ UNCHANGED <<messages, fragments>>

Peer ==
    \/ \E n \in BodySizes, key \in FirstKeys, fin \in BOOLEAN : PeerFirst(n, key, fin)
    \/ \E n \in BodySizes, key \in LaterKeys, fin \in BOOLEAN : PeerContinuation(n, key, fin)
    \/ \E kind \in {"ping", "pong", "close", "other"} : PeerControl(kind)
============================================================================

------------------------------ MODULE WsStream ------------------------------
(***************************************************************************)
(* One direction of a connection: the reader of this library, and at the   *)
(* other end its own sender or a foreign peer.  The user of the endpoint   *)
(* may ask for the close frame at any time.                                *)
(***************************************************************************)
EXTENDS WsFraming, WsForeign

CONSTANT Writers    \* which of "library" and "foreign" may be at the other end

ASSUME WriterAssumption == Writers \subseteq {"library", "foreign"}

VARIABLE writer     \* which of them is

vars == <<messages, readerVars, senderVars, peerVars, writer>>

TypeOK ==
    /\ writer \in {"library", "foreign"}
    /\ messages \in Seq(Nat) /\ Len(messages) <= MaxMessages
    /\ size \in Nat
    /\ sending \in {"idle", "data", "closed"}
    /\ opcode \in {"text", "continuation", "close"}
    /\ fragments \in Nat /\ controls \in Nat
    /\ reader \in {"reading", "ended"}
    /\ pending_control_frame \in {"NONE", "CLOSE", "PONG"}

Init ==
    /\ ReaderInit
    /\ SenderInit
    /\ PeerInit
    /\ writer \in Writers

\* The user calls send_close; the frame goes out some time after this.
send_close ==
    /\ pending_control_frame' = "CLOSE"
    /\ UNCHANGED <<messages, wire, payload, reader, delivered, senderVars, peerVars, writer>>

SendFrame == writer = "library" /\ Send /\ UNCHANGED <<peerVars, writer>>
PeerWrites == writer = "foreign" /\ Peer /\ UNCHANGED <<senderVars, writer>>
ReadFrame == Read /\ UNCHANGED <<senderVars, peerVars, writer>>

Next == SendFrame \/ PeerWrites \/ ReadFrame \/ send_close

Spec == Init /\ [][Next]_vars

---------------------------------------------------------------------------
\* The messages of which the other end has written the last byte.
Complete == IF sending = "data" \/ fragments > 0 THEN Len(messages) - 1 ELSE Len(messages)

(* Message by message the handler is given what was written, byte for byte:
   fragments are put together in order and never across two messages, control
   frames between two of them disturb nothing, every byte is unmasked once
   with its own key, and lengths are understood whatever their code is. *)
DeliveredAsSent ==
    /\ Len(delivered) <= Complete
    /\ \A m \in DOMAIN delivered : delivered[m] = Payload(m)

(* Nothing that was read is lost or kept back: when the reader has caught up
   with the other end, all complete messages have been delivered and it holds
   exactly what was written of the unfinished one; a message does not wait for
   the frames of the next, nor does the library's own close drop one. *)
NothingHeldBack ==
    wire = <<>> =>
        /\ reader = "reading" \/ writer = "library" => Len(delivered) = Complete
        /\ reader = "reading" =>
               payload = IF Complete = Len(messages) THEN <<>> ELSE Payload(Len(messages))

(* A close frame that waits to be sent is never replaced by a pong. *)
CloseRequestStays ==
    [][pending_control_frame = "CLOSE" => pending_control_frame' = "CLOSE"]_vars
=============================================================================

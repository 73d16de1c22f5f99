----------------------------- MODULE WsFraming -----------------------------
(***************************************************************************)
(* message_sender.hpp at the other end of the stream that WsReader reads:  *)
(* it cuts a payload into frames of at most MaxFrameSize bytes.            *)
(***************************************************************************)
EXTENDS WsReader

CONSTANTS
    MaxFrameSize,   \* the template parameter of message_sender
    Sizes           \* sizes of the payloads that are sent

ASSUME FramingAssumption ==
    /\ MaxFrameSize \in 1..IntEnd - 1
    /\ Sizes \subseteq Nat

VARIABLES
    size,           \* of data.payload
    sending,        \* "idle", "data" or "closed"
    opcode          \* opcode in data.header_byte

senderVars == <<size, sending, opcode>>

SenderInit ==
    /\ size = 0
    /\ sending = "idle"
    /\ opcode = "text"

\* send_text on the next payload; binary differs in nothing but the opcode.
SendText(n) ==
    /\ sending = "idle"
    /\ Len(messages) < MaxMessages
    /\ messages' = Append(messages, 0)
    /\ size' = n
    /\ sending' = "data"
    /\ opcode' = "text"
    /\ UNCHANGED readerVars

\* send_message_impl: only a fragment that could be longer gets the FIN bit.
SendFragment ==
    /\ sending = "data"
    /\ LET m        == Len(messages)
           begin    == messages[m]
           whole    == begin + MaxFrameSize > size
           frag_end == IF whole THEN size ELSE begin + MaxFrameSize
       IN  /\ wire' = Append(wire, MakeFrame(opcode, whole, 0, Bytes(m, begin, frag_end - begin)))
           /\ messages' = [messages EXCEPT ![m] = frag_end]
           /\ sending' = IF frag_end = size THEN "idle" ELSE "data"
    /\ opcode' = "continuation"
    /\ UNCHANGED <<size, payload, reader, delivered, pending_control_frame>>

\* send_close has an empty payload, which fits one frame.
SendClose ==
    /\ sending = "idle"
    /\ sending' = "closed"
    /\ opcode' = "close"
    /\ size' = 0
    /\ wire' = Append(wire, MakeFrame("close", TRUE, 0, <<>>))
    /\ UNCHANGED <<messages, payload, reader, delivered, pending_control_frame>>

Send == (\E n \in Sizes : SendText(n)) \/ SendFragment \/ SendClose
============================================================================

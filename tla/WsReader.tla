------------------------------ MODULE WsReader ------------------------------
(***************************************************************************)
(* The read loop of websocket/detail/message_reader.hpp, whoever writes to *)
(* the stream it reads, and the handlers endpoint_impl.hpp gives it.  The  *)
(* parts of a frame are read one after the other and nothing else happens  *)
(* in the loop, so a frame is read in one step.                            *)
(*                                                                         *)
(* A byte of a payload is the i-th byte of message m together with the set *)
(* of mask-key bytes it is XORed with; unmasking toggles a key byte.       *)
(***************************************************************************)
EXTENDS Naturals, Sequences, SequencesExt

CONSTANTS
    ByteValues,     \* 256: how many values a byte has
    ShortLengths,   \* 126: lengths below it are their own code
    MaxMessages     \* bound on the messages that are written

ASSUME ReaderAssumption ==
    /\ ByteValues \in Nat \ {0}
    /\ {ShortLengths, MaxMessages} \subseteq Nat

VARIABLES
    messages,   \* history: how much of each message was written, in their order
    wire,       \* frames written and not yet read
    payload,    \* frame_ctx.payload
    reader,     \* "reading" or "ended"
    delivered,  \* history: the payloads given to the message handler
    pending_control_frame   \* kind, set by the endpoint's handlers

readerVars == <<wire, payload, reader, delivered, pending_control_frame>>

KeyLength == 4
Opcode == {"continuation", "text", "binary", "close", "ping", "pong", "other"}
DataOpcode == {"continuation", "text", "binary"}

\* Byte i of message m, the n bytes of it behind the first `at`, and all of it.
Byte(m, i) == [message |-> m, at |-> i, xor |-> {}]
Bytes(m, at, n) == [i \in 1..n |-> Byte(m, at + i)]
Payload(m) == Bytes(m, 0, messages[m])
Toggle(byte, k, j) ==
    [byte EXCEPT !.xor = IF <<k, j>> \in @ THEN @ \ {<<k, j>>} ELSE @ \cup {<<k, j>>}]

\* XORs the first `count` bytes with key k, 0 meaning that there is none.
ApplyMask(bytes, count, k) ==
    IF k = 0 THEN bytes
    ELSE [i \in DOMAIN bytes |-> IF i <= count
                                 THEN Toggle(bytes[i], k, (i - 1) % KeyLength)
                                 ELSE bytes[i]]

\* How many values two bytes have, and where an int of four bytes ends.
TwoBytes == ByteValues * ByteValues
IntEnd == (TwoBytes * TwoBytes) \div 2

\* The length of a frame: its own code, or one for the two or eight bytes that
\* follow, the most significant one first.
encoded_length(n) ==
    LET shifted[k \in 0..8] == IF k = 0 THEN n ELSE shifted[k - 1] \div ByteValues
        Extended(width) == [i \in 1..width |-> shifted[width - i] % ByteValues]
    IN  IF n < ShortLengths THEN [code |-> n, extended |-> <<>>]
        ELSE IF n < TwoBytes THEN [code |-> ShortLengths, extended |-> Extended(2)]
        ELSE [code |-> ShortLengths + 1, extended |-> Extended(8)]

\* (bug: of eight bytes the last two are used)
get_payload_length_Two(length) ==
    IF length.code < ShortLengths THEN length.code
    ELSE LET n == Len(length.extended)
         IN  length.extended[n - 1] * ByteValues + length.extended[n]

\* Lengths from IntEnd on, whose bytes the code shifts out of an int, are longer
\* than what is written here (FramingAssumption, ForeignAssumption).
get_payload_length(length) ==
    LET value[i \in 0..Len(length.extended)] ==
            IF i = 0 THEN 0 ELSE value[i - 1] * ByteValues + length.extended[i]
    IN  IF length.code < ShortLengths THEN length.code ELSE value[Len(length.extended)]

\* A frame as it is written: the body is masked with the frame's own key.
MakeFrame(opcode, fin, key, body) ==
    [opcode |-> opcode, fin |-> fin, key |-> key, length |-> encoded_length(Len(body)),
     body |-> ApplyMask(body, Len(body), key)]

\* As many bytes as the reader takes for the body.
Body(frame) == SubSeq(frame.body, 1, get_payload_length(frame.length))

ReaderInit ==
    /\ messages = <<>>
    /\ wire = <<>>
    /\ payload = <<>>
    /\ reader = "reading"
    /\ delivered = <<>>
    /\ pending_control_frame = "NONE"

---------------------------------------------------------------------------
NextFrame(opcodes) ==
    /\ reader = "reading"
    /\ wire # <<>>
    /\ Head(wire).opcode \in opcodes
    /\ wire' = Tail(wire)

\* (bug: an empty message is taken for one of which nothing has come)
ReadData_SkipsEmpty ==
    /\ NextFrame(DataOpcode)
    /\ LET frame == Head(wire)
           read  == ApplyMask(payload \o Body(frame), Len(Body(frame)), frame.key)
       IN  /\ payload' = IF frame.fin THEN <<>> ELSE read
           /\ delivered' = IF frame.fin /\ read # <<>>
                           THEN Append(delivered, read) ELSE delivered
    /\ UNCHANGED <<messages, reader, pending_control_frame>>

\* The body is appended to what there is of the message; the loop that unmasks
\* it counts from the beginning of the payload.
ReadData ==
    /\ NextFrame(DataOpcode)
    /\ LET frame == Head(wire)
           read  == ApplyMask(payload \o Body(frame), Len(Body(frame)), frame.key)
       IN  IF frame.fin
           THEN /\ delivered' = Append(delivered, read)
                /\ payload' = <<>>
           ELSE /\ payload' = read
                /\ UNCHANGED delivered
    /\ UNCHANGED <<messages, reader, pending_control_frame>>

\* payload.resize drops what there was of an unfinished message; the rejection
\* ends the loop and the handler asks for the answering close frame.
ReadClose ==
    /\ NextFrame({"close"})
    /\ LET body == Body(Head(wire))
       IN  payload' = ApplyMask(body, Len(body), Head(wire).key)
    /\ reader' = "ended"
    /\ pending_control_frame' = "CLOSE"
    /\ UNCHANGED <<messages, delivered>>

\* (bug: a pong takes the place of a close frame that waits)
ReadPing_DropsClose ==
    /\ NextFrame({"ping"})
    /\ pending_control_frame' = "PONG"
    /\ UNCHANGED <<messages, payload, reader, delivered>>

\* A ping has its pong noted, unless a close frame is to be sent.
ReadPing ==
    /\ NextFrame({"ping"})
    /\ pending_control_frame' =
           IF pending_control_frame = "CLOSE" THEN "CLOSE" ELSE "PONG"
    /\ UNCHANGED <<messages, payload, reader, delivered>>

ReadPong ==
    /\ NextFrame({"pong"})
    /\ UNCHANGED <<messages, payload, reader, delivered, pending_control_frame>>

\* An opcode the reader does not know is bad input and ends the loop.
ReadBadInput ==
    /\ NextFrame({"other"})
    /\ reader' = "ended"
    /\ UNCHANGED <<messages, payload, delivered, pending_control_frame>>

Read == ReadData \/ ReadClose \/ ReadPing \/ ReadPong \/ ReadBadInput
============================================================================

---------------------------- MODULE WsEndpoint ----------------------------
(***************************************************************************)
(* Two connected websocket endpoints (websocket/detail/endpoint_impl.hpp). *)
(* Each endpoint is one shared object driven by an asio executor: a user   *)
(* call and a completion handler are atomic, and everything between an     *)
(* async operation and its completion interleaves.  A message stands for   *)
(* all of its frames: the frames in between have no handler of their own   *)
(* (WsFraming models them), so only the last one can be observed.  The     *)
(* i-th message an endpoint is asked to send is the number i.              *)
(***************************************************************************)
EXTENDS Naturals, Sequences

CONSTANTS
    Peer,        \* the two ends of the connection
    Other,       \* Other[p]: the end p is connected to
    MaxSend,     \* bound on the messages each user sends
    MaxEvents,   \* bound on the close and error events after which a user
                 \* still calls send_close
    MayStop,     \* whether a user may call stop()
    MayReset     \* whether the network may reset the connection

ASSUME PeerAssumption ==
    /\ Other \in [Peer -> Peer]
    /\ \A p \in Peer : Other[p] # p /\ Other[Other[p]] = p
ASSUME BoundAssumption == MaxSend \in Nat /\ MaxEvents \in Nat
ASSUME FaultAssumption == MayStop \in BOOLEAN /\ MayReset \in BOOLEAN

VARIABLES
    handshake,              \* "open" while it runs, then "ready" or "failed"
    pending_control_frame,  \* the kind, "NONE" or "CLOSE"
    send_queue,
    is_send_queue_running,
    is_started,
    is_stopped,
    is_close_received,
    writer,     \* where the send loop is (see WriterState)
    reader,     \* "off", "reading" or "ended": the loop of keep_reading
    wire,       \* wire[p]: what p wrote and Other[p] has not read
    connection, \* "up" or "reset"
    sent,       \* number of messages p's user passed to send_message
    received,   \* history: the messages p's on_message handler was given
    closes,     \* history: calls of p's on_close handler
    errors      \* history: calls of p's error handler

flags == <<is_send_queue_running, is_started, is_stopped, is_close_received>>
history == <<sent, received, closes, errors>>
vars == <<handshake, pending_control_frame, send_queue, flags, writer, reader,
          wire, connection, history>>

(***************************************************************************)
(* The send loop is "idle" when there is none; "message" or "close" while  *)
(* its async_write is under way; "message_done" or "close_done" once the   *)
(* bytes are with the peer and the completion handler waits to run; and    *)
(* "closed" after the close frame, when no loop exists any more although   *)
(* is_send_queue_running stays set.                                        *)
(***************************************************************************)
WriterState == {"idle", "message", "message_done",
                "close", "close_done", "closed"}

Frame == [kind : {"message"}, id : Nat] \cup [kind : {"close"}, id : {0}]
CloseFrame == [kind |-> "close", id |-> 0]
MessageFrame(i) == [kind |-> "message", id |-> i]

ControlOK ==
    /\ handshake \in [Peer -> {"open", "ready", "failed"}]
    /\ pending_control_frame \in [Peer -> {"NONE", "CLOSE"}]
    /\ is_send_queue_running \in [Peer -> BOOLEAN]
    /\ is_started \in [Peer -> BOOLEAN]
    /\ is_stopped \in [Peer -> BOOLEAN]
    /\ is_close_received \in [Peer -> BOOLEAN]
    /\ reader \in [Peer -> {"off", "reading", "ended"}]
    /\ connection \in {"up", "reset"}

TransferOK ==
    /\ send_queue \in [Peer -> Seq(Nat)]
    /\ writer \in [Peer -> WriterState]
    /\ wire \in [Peer -> Seq(Frame)]
    /\ \A p \in Peer :
         writer[p] \in {"message", "message_done"} => send_queue[p] # <<>>

HistoryOK ==
    /\ sent \in [Peer -> Nat]
    /\ received \in [Peer -> Seq(Nat)]
    /\ closes \in [Peer -> Nat]
    /\ errors \in [Peer -> Nat]

(* The types, and that front() and pop() are called on a queue with an element
   in it: the loop is sending a message only while the queue holds it. *)
TypeOK == ControlOK /\ TransferOK /\ HistoryOK

Init ==
    /\ handshake = [p \in Peer |-> "open"]
    /\ pending_control_frame = [p \in Peer |-> "NONE"]
    /\ send_queue = [p \in Peer |-> <<>>]
    /\ is_send_queue_running = [p \in Peer |-> FALSE]
    /\ is_started = [p \in Peer |-> FALSE]
    /\ is_stopped = [p \in Peer |-> FALSE]
    /\ is_close_received = [p \in Peer |-> FALSE]
    /\ writer = [p \in Peer |-> "idle"]
    /\ reader = [p \in Peer |-> "off"]
    /\ wire = [p \in Peer |-> <<>>]
    /\ connection = "up"
    /\ sent = [p \in Peer |-> 0]
    /\ received = [p \in Peer |-> <<>>]
    /\ closes = [p \in Peer |-> 0]
    /\ errors = [p \in Peer |-> 0]

---------------------------------------------------------------------------
is_sending_close(p) == pending_control_frame[p] = "CLOSE"

\* (bug: the loop does not look whether the queue is empty)
LoopTurn_NoSizeCheck(kind, queue) == IF kind = "CLOSE" THEN "close" ELSE "message"

\* One turn of the send loop: the close frame first, then the queue, else stop.
LoopTurn(kind, queue) ==
    IF kind = "CLOSE" THEN "close"
    ELSE IF queue # <<>> THEN "message" ELSE "idle"

EnterLoop(p, turn) ==
    /\ writer' = [writer EXCEPT ![p] = turn]
    /\ is_send_queue_running' = [is_send_queue_running EXCEPT ![p] = turn # "idle"]

\* (bug: a second loop is started beside one that runs)
start_send_queue_Twice(p, kind, queue) ==
    IF is_stopped[p] \/ ~is_started'[p]
    THEN UNCHANGED <<writer, is_send_queue_running>>
    ELSE EnterLoop(p, LoopTurn(kind, queue))

start_send_queue(p, kind, queue) ==
    IF is_send_queue_running[p] \/ is_stopped[p] \/ ~is_started'[p]
    THEN UNCHANGED <<writer, is_send_queue_running>>
    ELSE EnterLoop(p, LoopTurn(kind, queue))

\* A handler is told nothing once the endpoint is stopped.
call_handler(p, count) ==
    count' = IF is_stopped[p] THEN count ELSE [count EXCEPT ![p] = @ + 1]

---------------------------------------------------------------------------
(* The handshake, which calls its handlers without looking at is_stopped. *)

HandshakeReady(p) ==
    /\ handshake[p] = "open"
    /\ connection = "up"
    /\ handshake' = [handshake EXCEPT ![p] = "ready"]
    /\ UNCHANGED <<pending_control_frame, send_queue, flags, writer, reader,
                   wire, connection, history>>

HandshakeFail(p) ==
    /\ handshake[p] = "open"
    /\ \/ connection = "reset"
       \/ is_stopped[p] \/ is_stopped[Other[p]]
       \/ handshake[Other[p]] = "failed"
    /\ handshake' = [handshake EXCEPT ![p] = "failed"]
    /\ errors' = [errors EXCEPT ![p] = @ + 1]
    /\ UNCHANGED <<pending_control_frame, send_queue, flags, writer, reader,
                   wire, connection, sent, received, closes>>

---------------------------------------------------------------------------
(* Calls the user makes on the endpoint. *)

send_message(p) ==
    /\ sent[p] < MaxSend
    /\ sent' = [sent EXCEPT ![p] = @ + 1]
    /\ send_queue' = [send_queue EXCEPT ![p] = Append(@, sent[p] + 1)]
    /\ UNCHANGED <<is_started, is_stopped, is_close_received>>
    /\ start_send_queue(p, pending_control_frame[p], send_queue'[p])
    /\ UNCHANGED <<handshake, pending_control_frame, reader, wire, connection,
                   received, closes, errors>>

send_close(p) ==
    /\ closes[p] + errors[p] <= MaxEvents
    /\ pending_control_frame' = [pending_control_frame EXCEPT ![p] = "CLOSE"]
    /\ UNCHANGED <<is_started, is_stopped, is_close_received>>
    /\ start_send_queue(p, "CLOSE", send_queue[p])
    /\ UNCHANGED <<handshake, send_queue, reader, wire, connection, history>>

\* (bug: messages queued before the start wait for the next send_message)
start_messaging_NoKick(p) ==
    /\ handshake[p] = "ready"
    /\ ~is_started[p] /\ ~is_stopped[p]
    /\ is_started' = [is_started EXCEPT ![p] = TRUE]
    /\ reader' = [reader EXCEPT ![p] = "reading"]
    /\ UNCHANGED <<is_stopped, is_close_received, writer, is_send_queue_running,
                   handshake, pending_control_frame, send_queue, wire, connection,
                   history>>

\* The user starts the endpoint from on_ready or later.
start_messaging(p) ==
    /\ handshake[p] = "ready"
    /\ ~is_started[p] /\ ~is_stopped[p]
    /\ is_started' = [is_started EXCEPT ![p] = TRUE]
    /\ reader' = [reader EXCEPT ![p] = "reading"]
    /\ UNCHANGED <<is_stopped, is_close_received>>
    /\ IF send_queue[p] # <<>>
       THEN start_send_queue(p, pending_control_frame[p], send_queue[p])
       ELSE UNCHANGED <<writer, is_send_queue_running>>
    /\ UNCHANGED <<handshake, pending_control_frame, send_queue, wire, connection,
                   history>>

stop(p) ==
    /\ MayStop
    /\ ~is_stopped[p]
    /\ is_stopped' = [is_stopped EXCEPT ![p] = TRUE]
    /\ UNCHANGED <<handshake, pending_control_frame, send_queue,
                   is_send_queue_running, is_started, is_close_received,
                   writer, reader, wire, connection, history>>

---------------------------------------------------------------------------
(* The send loop: an async_write finishes or fails, its handler runs. *)

\* The last byte of the message or of the close frame reaches the peer.
Transmit(p) ==
    /\ connection = "up" /\ ~is_stopped[p]
    /\ \/ /\ writer[p] = "message"
          /\ wire' = [wire EXCEPT ![p] = Append(@, MessageFrame(Head(send_queue[p])))]
          /\ writer' = [writer EXCEPT ![p] = "message_done"]
       \/ /\ writer[p] = "close"
          /\ wire' = [wire EXCEPT ![p] = Append(@, CloseFrame)]
          /\ writer' = [writer EXCEPT ![p] = "close_done"]
    /\ UNCHANGED <<handshake, pending_control_frame, send_queue, flags, reader,
                   connection, history>>

\* (bug: a close frame that waits takes its turn before the sent message is popped)
MessageSent_CloseFirst(p) ==
    /\ writer[p] = "message_done"
    /\ send_queue' = IF is_sending_close(p) THEN send_queue
                     ELSE [send_queue EXCEPT ![p] = Tail(@)]
    /\ EnterLoop(p, LoopTurn(pending_control_frame[p], send_queue'[p]))
    /\ UNCHANGED <<handshake, pending_control_frame, is_started, is_stopped,
                   is_close_received, reader, wire, connection, history>>

\* (bug: the loop ends after one message)
MessageSent_NoLoop(p) ==
    /\ writer[p] = "message_done"
    /\ send_queue' = [send_queue EXCEPT ![p] = Tail(@)]
    /\ EnterLoop(p, "idle")
    /\ UNCHANGED <<handshake, pending_control_frame, is_started, is_stopped,
                   is_close_received, reader, wire, connection, history>>

\* The message is popped only now, and the loop takes its next turn.
MessageSent(p) ==
    /\ writer[p] = "message_done"
    /\ send_queue' = [send_queue EXCEPT ![p] = Tail(@)]
    /\ EnterLoop(p, LoopTurn(pending_control_frame[p], send_queue'[p]))
    /\ UNCHANGED <<handshake, pending_control_frame, is_started, is_stopped,
                   is_close_received, reader, wire, connection, history>>

\* (bug: the flag is cleared like at the end of the queue)
CloseSent_ClearsRunning(p) ==
    /\ writer[p] = "close_done"
    /\ EnterLoop(p, "idle")
    /\ IF is_close_received[p] THEN call_handler(p, closes) ELSE UNCHANGED closes
    /\ UNCHANGED <<handshake, pending_control_frame, send_queue, is_started,
                   is_stopped, is_close_received, reader, wire, connection, sent,
                   received, errors>>

\* (bug: the close that our frame answered is not reported)
CloseSent_Silent(p) ==
    /\ writer[p] = "close_done"
    /\ writer' = [writer EXCEPT ![p] = "closed"]
    /\ UNCHANGED <<handshake, pending_control_frame, send_queue, flags, reader,
                   wire, connection, history>>

\* The loop was terminated when the write began, so no turn follows.
CloseSent(p) ==
    /\ writer[p] = "close_done"
    /\ writer' = [writer EXCEPT ![p] = "closed"]
    /\ IF is_close_received[p] THEN call_handler(p, closes) ELSE UNCHANGED closes
    /\ UNCHANGED <<handshake, pending_control_frame, send_queue, flags, reader,
                   wire, connection, sent, received, errors>>

WriteError(p) ==
    (IF connection = "reset" THEN {"connection_reset"} ELSE {})
        \cup (IF connection = "reset" \/ is_stopped[p] THEN {"broken_pipe"} ELSE {})

\* The loop's catch_: it ends, and a reset after send_close is a close.
LoopCatch(p, error) ==
    /\ writer' = [writer EXCEPT ![p] = "idle"]
    /\ is_send_queue_running' = [is_send_queue_running EXCEPT ![p] = FALSE]
    /\ IF is_sending_close(p) /\ error = "connection_reset"
       THEN call_handler(p, closes) /\ UNCHANGED errors
       ELSE call_handler(p, errors) /\ UNCHANGED closes

MessageWriteFails(p) ==
    /\ writer[p] = "message"
    /\ \E error \in WriteError(p) : LoopCatch(p, error)
    /\ UNCHANGED <<handshake, pending_control_frame, send_queue, is_started,
                   is_stopped, is_close_received, reader, wire, connection, sent,
                   received>>

\* The rejection goes to the loop that terminate() has already deleted: it may
\* still find the catch_ there, or be lost.
CloseWriteFails(p) ==
    /\ writer[p] = "close"
    /\ \E error \in WriteError(p) :
         \/ LoopCatch(p, error)
         \/ /\ writer' = [writer EXCEPT ![p] = "closed"]
            /\ UNCHANGED <<is_send_queue_running, closes, errors>>
    /\ UNCHANGED <<handshake, pending_control_frame, send_queue, is_started,
                   is_stopped, is_close_received, reader, wire, connection, sent,
                   received>>

---------------------------------------------------------------------------
(* The read loop of keep_reading and its handlers. *)

Incoming(p, kind) ==
    /\ reader[p] = "reading"
    /\ wire[Other[p]] # <<>>
    /\ Head(wire[Other[p]]).kind = kind
    /\ wire' = [wire EXCEPT ![Other[p]] = Tail(@)]

ReadMessage(p) ==
    /\ Incoming(p, "message")
    /\ received' = IF is_stopped[p] THEN received
                   ELSE [received EXCEPT ![p] = Append(@, Head(wire[Other[p]]).id)]
    /\ UNCHANGED <<handshake, pending_control_frame, send_queue, flags, writer,
                   reader, connection, sent, closes, errors>>

\* Answers with a close frame, or reports the close if ours was asked for.
ReadClose(p) ==
    /\ Incoming(p, "close")
    /\ reader' = [reader EXCEPT ![p] = "ended"]
    /\ is_close_received' = [is_close_received EXCEPT ![p] = TRUE]
    /\ pending_control_frame' = [pending_control_frame EXCEPT ![p] = "CLOSE"]
    /\ UNCHANGED <<is_started, is_stopped>>
    /\ IF is_sending_close(p)
       THEN call_handler(p, closes) /\ UNCHANGED <<writer, is_send_queue_running>>
       ELSE start_send_queue(p, "CLOSE", send_queue[p]) /\ UNCHANGED closes
    /\ UNCHANGED <<handshake, send_queue, connection, sent, received, errors>>

\* End of file after a shutdown at either end, or a reset.
ReadFails(p) ==
    /\ reader[p] = "reading"
    /\ \/ connection = "reset"
       \/ is_stopped[p]
       \/ is_stopped[Other[p]] /\ wire[Other[p]] = <<>>
    /\ reader' = [reader EXCEPT ![p] = "ended"]
    /\ call_handler(p, errors)
    /\ UNCHANGED <<handshake, pending_control_frame, send_queue, flags, writer,
                   wire, connection, sent, received, closes>>

\* The network drops the connection with everything in flight.
Reset ==
    /\ MayReset
    /\ connection = "up"
    /\ connection' = "reset"
    /\ wire' = [p \in Peer |-> <<>>]
    /\ UNCHANGED <<handshake, pending_control_frame, send_queue, flags, writer,
                   reader, history>>

---------------------------------------------------------------------------
User(p) == send_message(p) \/ send_close(p) \/ start_messaging(p) \/ stop(p)

Completion(p) ==
    \/ HandshakeReady(p) \/ HandshakeFail(p)
    \/ Transmit(p) \/ MessageSent(p) \/ CloseSent(p)
    \/ MessageWriteFails(p) \/ CloseWriteFails(p)
    \/ ReadMessage(p) \/ ReadClose(p) \/ ReadFails(p)

Next == Reset \/ \E p \in Peer : User(p) \/ Completion(p)

Spec == Init /\ [][Next]_vars

\* The executor runs every operation that can finish; users owe nothing.
FairSpec == Spec /\ \A p \in Peer : WF_vars(Completion(p))

---------------------------------------------------------------------------
(* No wake-up is lost: once messaging has started, a queue that still holds a
   message has a send loop working on it, unless the endpoint was stopped or
   the connection reset (start_send_queue, start_messaging and the loop). *)
NoLostWakeup ==
    \A p \in Peer :
        is_started[p] /\ ~is_stopped[p] /\ connection = "up" /\ send_queue[p] # <<>>
            => is_send_queue_running[p]

CloseIsLast(frames) ==
    \A i \in DOMAIN frames : frames[i].kind = "close" => i = Len(frames)

(* "prevent more messages after sending the close frame": a close frame is the
   last frame its sender ever writes, so nothing is left behind it for a reader
   that has handled it and ended. *)
CloseIsFinal ==
    \A p \in Peer :
        /\ CloseIsLast(wire[p])
        /\ is_close_received[Other[p]] => wire[p] = <<>>

(* A close frame arrives behind every message its sender had transmitted: an
   endpoint that has handled it and was not stopped gave all of them to
   on_message, and what it did not get is still in the sender's queue. *)
CloseAfterMessages ==
    \A p \in Peer :
        is_close_received[p] /\ ~is_stopped[p]
            => Len(received[p]) = sent[Other[p]] - Len(send_queue[Other[p]])

(* The endpoints implement the pipe their users see: the send queue, the send
   loop and the read loop deliver in order, without loss or duplication. *)
Pipe == INSTANCE MessagePipe WITH closed <- {p \in Peer : closes[p] > 0}
ImplementsPipe == Pipe!Spec

(* A message sent by a started endpoint to a started endpoint is delivered,
   unless its sender goes on to close. *)
EveryMessageArrives ==
    \A p \in Peer : \A i \in 1..MaxSend :
        sent[p] >= i /\ is_started[p] /\ is_started[Other[p]]
            ~> Len(received[Other[p]]) >= i \/ is_sending_close(p)

(* Once the loop of one end has taken up the close frame and the other end is
   reading, both users are told of the close, where that end did not ask for the
   close before it started: start_messaging leaves such a request to a message
   that may never come. *)
CloseCompletes ==
    \A p \in Peer :
        (/\ writer[p] = "close"
         /\ is_started[Other[p]]
         /\ is_sending_close(Other[p]) => is_send_queue_running[Other[p]])
            ~> closes[p] > 0 /\ closes[Other[p]] > 0
---------------------------------------------------------------------------
(* The strengthening under which the safety properties are inductive. *)

\* The flag tells whether a loop was begun and has not given up; one is begun
\* only after the start, and a close frame is written only on request.
LoopAt(p) ==
    /\ writer[p] = "idle" <=> ~is_send_queue_running[p]
    /\ writer[p] # "idle" => is_started[p]
    /\ is_started[p] <=> reader[p] # "off"
    /\ writer[p] \in {"close", "close_done", "closed"} => is_sending_close(p)
LoopInv == \A p \in Peer : LoopAt(p)

CloseWritten(p) == writer[p] \in {"close_done", "closed"}
HoldsClose(frames) == \E i \in DOMAIN frames : frames[i].kind = "close"

\* A close frame that is in flight or handled was written by a finished writer,
\* and nothing is behind it.
FrameAt(p) ==
    /\ HoldsClose(wire[p]) => CloseWritten(p)
    /\ CloseIsLast(wire[p])
    /\ is_close_received[Other[p]] => CloseWritten(p) /\ wire[p] = <<>>
    /\ connection = "reset" => wire[p] = <<>>
FrameInv == \A p \in Peer : FrameAt(p)

\* A close is reported by an endpoint that has read it and ended, or after a reset.
ReportAt(p) ==
    /\ is_close_received[p] => reader[p] = "ended"
    /\ closes[p] > 0 => is_close_received[p] \/ connection = "reset"
ReportInv == \A p \in Peer : ReportAt(p)

\* How many of p's messages are with its peer or on their way to it.
Gone(p) == sent[p] - Len(send_queue[p]) + (IF writer[p] = "message_done" THEN 1 ELSE 0)
Messages(frames) == Len(frames) - (IF HoldsClose(frames) THEN 1 ELSE 0)

\* Numbers are handed on in order: the queue ends with the last one sent, the
\* wire goes on where the reader is, and the queue where the wire ends.
QueueAt(p) ==
    /\ Len(send_queue[p]) <= sent[p]
    /\ \A i \in DOMAIN send_queue[p] :
         send_queue[p][i] = sent[p] - Len(send_queue[p]) + i
Numbered(frames, last) ==
    \A i \in DOMAIN frames : frames[i].kind = "message" => frames[i].id = last + i
StreamAt(p) ==
    /\ \A i \in DOMAIN received[Other[p]] : received[Other[p]][i] = i
    /\ ~is_stopped[Other[p]] =>
         /\ Numbered(wire[p], Len(received[Other[p]]))
         /\ connection = "up" \/ is_close_received[Other[p]] =>
              Len(received[Other[p]]) + Messages(wire[p]) = Gone(p)
OrderInv == \A p \in Peer : QueueAt(p) /\ StreamAt(p)

IInv == TypeOK /\ LoopInv /\ NoLostWakeup /\ FrameInv /\ ReportInv /\ OrderInv
===========================================================================

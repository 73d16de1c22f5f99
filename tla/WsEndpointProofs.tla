------------------------- MODULE WsEndpointProofs -------------------------
(* What holds of two connected endpoints for every bound and every fault.  *)
EXTENDS WsEndpoint, Integers, TLAPS

---------------------------------------------------------------------------
(* Lemmas about the constants and the operators the actions are built from. *)

LEMMA OtherPeer ==
    ASSUME NEW p \in Peer
    PROVE  Other[p] \in Peer /\ Other[p] # p /\ Other[Other[p]] = p
  BY PeerAssumption

\* front() and pop() of a queue that is not empty.
LEMMA HeadTail ==
    ASSUME NEW S, NEW s \in Seq(S), s # <<>>
    PROVE  /\ Head(s) \in S /\ Head(s) = s[1]
           /\ Tail(s) \in Seq(S)
           /\ Len(s) \in Nat \ {0} /\ Len(Tail(s)) = Len(s) - 1
           /\ \A i \in 1..Len(Tail(s)) : Tail(s)[i] = s[i + 1]
  OBVIOUS

LEMMA EmptyLen ==
    ASSUME NEW S, NEW s \in Seq(S), Len(s) = 0
    PROVE  s = <<>>
  OBVIOUS

\* push() at the end of a queue.
LEMMA PushBack ==
    ASSUME NEW S, NEW s \in Seq(S), NEW e \in S
    PROVE  /\ Append(s, e) \in Seq(S)
           /\ Append(s, e) # <<>>
           /\ Len(s) \in Nat /\ Len(Append(s, e)) = Len(s) + 1
           /\ \A i \in 1..Len(s) : Append(s, e)[i] = s[i]
           /\ Append(s, e)[Len(s) + 1] = e
  <1>1. Len(Append(s, e)) = Len(s) + 1 /\ Len(s) \in Nat
    OBVIOUS
  <1>2. Append(s, e) # <<>>
    BY <1>1
  <1> QED
    BY <1>1, <1>2

\* The frames the endpoints write are frames, and a frame has a number.
LEMMA FrameType ==
    /\ CloseFrame \in Frame /\ CloseFrame.kind = "close"
    /\ \A i \in Nat : /\ MessageFrame(i) \in Frame
                      /\ MessageFrame(i).kind = "message"
                      /\ MessageFrame(i).id = i
    /\ \A f \in Frame : f.id \in Nat /\ f.kind \in {"message", "close"}
  BY DEF Frame, CloseFrame, MessageFrame

LEMMA LoopTurnType ==
    ASSUME NEW kind, NEW queue
    PROVE  /\ LoopTurn(kind, queue) \in {"close", "message", "idle"}
           /\ LoopTurn(kind, queue) = "message" => queue # <<>>
           /\ LoopTurn(kind, queue) = "idle" => queue = <<>> /\ kind # "CLOSE"
           /\ LoopTurn(kind, queue) = "close" => kind = "CLOSE"
  BY DEF LoopTurn

\* Whatever start_send_queue decides, the writer is in a known state, and it
\* sends a message only from a queue that holds one.
LEMMA StartType ==
    ASSUME TransferOK, NEW p \in Peer, NEW kind, NEW queue,
           start_send_queue(p, kind, queue)
    PROVE  /\ writer' \in [Peer -> WriterState]
           /\ \A r \in Peer \ {p} : writer'[r] = writer[r]
           /\ writer'[p] = writer[p] \/ writer'[p] = LoopTurn(kind, queue)
  <1>1. CASE UNCHANGED <<writer, is_send_queue_running>>
    BY <1>1 DEF TransferOK
  <1>2. CASE EnterLoop(p, LoopTurn(kind, queue))
    BY <1>2, LoopTurnType DEF EnterLoop, TransferOK, WriterState
  <1> QED
    BY <1>1, <1>2 DEF start_send_queue

\* What the loop needs of the queue, of the writer and of the wire.
LEMMA TransferIntro ==
    ASSUME send_queue' \in [Peer -> Seq(Nat)],
           writer' \in [Peer -> WriterState],
           wire' \in [Peer -> Seq(Frame)],
           \A r \in Peer : writer'[r] \in {"message", "message_done"}
                             => send_queue'[r] # <<>>
    PROVE  TransferOK'
  BY DEF TransferOK

\* Calling a handler, or not, leaves a count.
LEMMA HandlerType ==
    ASSUME HistoryOK, NEW p \in Peer
    PROVE  /\ call_handler(p, closes) => closes' \in [Peer -> Nat]
           /\ call_handler(p, errors) => errors' \in [Peer -> Nat]
  <1>1. /\ closes \in [Peer -> Nat] /\ [closes EXCEPT ![p] = @ + 1] \in [Peer -> Nat]
        /\ errors \in [Peer -> Nat] /\ [errors EXCEPT ![p] = @ + 1] \in [Peer -> Nat]
    BY DEF HistoryOK
  <1> QED
    BY <1>1 DEF call_handler

---------------------------------------------------------------------------
(* TransferOK through the actions that move messages. *)

LEMMA TransferInit == Init => TransferOK
  <1> SUFFICES ASSUME Init
               PROVE  TransferOK
    OBVIOUS
  <1>1. send_queue \in [Peer -> Seq(Nat)] /\ wire \in [Peer -> Seq(Frame)]
    BY DEF Init
  <1>2. writer \in [Peer -> WriterState]
        /\ \A p \in Peer : writer[p] \notin {"message", "message_done"}
    BY DEF Init, WriterState
  <1> QED
    BY <1>1, <1>2 DEF TransferOK

LEMMA TransferSend ==
    ASSUME TypeOK, NEW p \in Peer, send_message(p)
    PROVE  TransferOK'
  <1>1. send_queue[p] \in Seq(Nat) /\ sent[p] + 1 \in Nat
    BY DEF TypeOK, TransferOK, HistoryOK
  <1>2. send_queue' = [send_queue EXCEPT ![p] = Append(@, sent[p] + 1)]
    BY DEF send_message
  <1>. DEFINE queue == Append(send_queue[p], sent[p] + 1)
  <1>b1. queue \in Seq(Nat) /\ queue # <<>>
    BY <1>1, PushBack
  <1>b2. send_queue \in [Peer -> Seq(Nat)] /\ send_queue' = [send_queue EXCEPT ![p] = queue]
    BY <1>2 DEF TypeOK, TransferOK
  <1>. HIDE DEF queue
  <1>3. /\ send_queue' \in [Peer -> Seq(Nat)] /\ send_queue'[p] # <<>>
        /\ \A r \in Peer \ {p} : send_queue'[r] = send_queue[r]
    BY <1>b1, <1>b2
  <1>4. /\ writer' \in [Peer -> WriterState]
        /\ \A r \in Peer \ {p} : writer'[r] = writer[r]
    BY StartType DEF TypeOK, send_message
  <1>5. wire' \in [Peer -> Seq(Frame)]
    BY DEF TypeOK, TransferOK, send_message
  <1>6. ASSUME NEW r \in Peer \ {p}, writer'[r] \in {"message", "message_done"}
        PROVE  send_queue'[r] # <<>>
    BY <1>3, <1>4, <1>6 DEF TypeOK, TransferOK
  <1> QED
    BY <1>3, <1>4, <1>5, <1>6, TransferIntro

LEMMA TransferStart ==
    ASSUME TransferOK, NEW p \in Peer, NEW kind,
           UNCHANGED send_queue, start_send_queue(p, kind, send_queue[p]),
           wire' \in [Peer -> Seq(Frame)]
    PROVE  TransferOK'
  <1>1. /\ writer' \in [Peer -> WriterState]
        /\ \A r \in Peer \ {p} : writer'[r] = writer[r]
        /\ writer'[p] = writer[p] \/ writer'[p] = LoopTurn(kind, send_queue[p])
    BY StartType
  <1>2. send_queue' \in [Peer -> Seq(Nat)]
    BY DEF TransferOK
  <1>3. ASSUME NEW r \in Peer, writer'[r] \in {"message", "message_done"}
        PROVE  send_queue'[r] # <<>>
    <2>1. CASE writer'[r] = writer[r]
      BY <2>1, <1>3 DEF TransferOK
    <2>2. CASE r = p /\ writer'[p] = LoopTurn(kind, send_queue[p])
      BY <2>2, <1>3, LoopTurnType
    <2> QED
      BY <2>1, <2>2, <1>1
  <1> QED
    BY <1>1, <1>2, <1>3, TransferIntro

LEMMA TransferWrite ==
    ASSUME TransferOK, NEW p \in Peer, Transmit(p)
    PROVE  TransferOK'
  <1>1. CASE writer[p] = "message"
    <2>1. Head(send_queue[p]) \in Nat
      BY <1>1, HeadTail DEF TransferOK
    <2>2. /\ wire' = [wire EXCEPT ![p] = Append(@, MessageFrame(Head(send_queue[p])))]
          /\ writer' = [writer EXCEPT ![p] = "message_done"]
          /\ send_queue' = send_queue
      BY <1>1 DEF Transmit
    <2>3. wire' \in [Peer -> Seq(Frame)]
      BY <2>1, <2>2, FrameType, PushBack DEF TransferOK
    <2> QED
      BY <1>1, <2>2, <2>3 DEF TransferOK, WriterState
  <1>2. CASE writer[p] = "close"
    <2>1. /\ wire' = [wire EXCEPT ![p] = Append(@, CloseFrame)]
          /\ writer' = [writer EXCEPT ![p] = "close_done"]
          /\ send_queue' = send_queue
      BY <1>2 DEF Transmit
    <2>2. wire' \in [Peer -> Seq(Frame)]
      BY <2>1, FrameType, PushBack DEF TransferOK
    <2> QED
      BY <2>1, <2>2 DEF TransferOK, WriterState
  <1> QED
    BY <1>1, <1>2 DEF Transmit

LEMMA TransferPop ==
    ASSUME TransferOK, NEW p \in Peer, MessageSent(p)
    PROVE  TransferOK'
  <1> DEFINE turn == LoopTurn(pending_control_frame[p], send_queue'[p])
  <1>1. send_queue[p] \in Seq(Nat) /\ send_queue[p] # <<>>
    BY DEF TransferOK, MessageSent
  <1>2. /\ send_queue' = [send_queue EXCEPT ![p] = Tail(@)]
        /\ writer' = [writer EXCEPT ![p] = turn]
        /\ wire' = wire
    BY DEF MessageSent, EnterLoop
  <1>3. send_queue' \in [Peer -> Seq(Nat)]
    BY <1>1, <1>2, HeadTail DEF TransferOK
  <1>4. turn \in WriterState /\ (turn = "message" => send_queue'[p] # <<>>)
        /\ turn # "message_done"
    BY LoopTurnType DEF WriterState
  <1> HIDE DEF turn
  <1>5. writer' \in [Peer -> WriterState]
    BY <1>2, <1>4 DEF TransferOK
  <1>6. ASSUME NEW r \in Peer, writer'[r] \in {"message", "message_done"}
        PROVE  send_queue'[r] # <<>>
    BY <1>2, <1>4, <1>6 DEF TransferOK
  <1> QED
    BY <1>2, <1>3, <1>5, <1>6, TransferIntro DEF TransferOK

LEMMA TransferQuiet ==
    ASSUME TransferOK, NEW p \in Peer, UNCHANGED send_queue,
           wire' \in [Peer -> Seq(Frame)],
           \/ UNCHANGED writer
           \/ writer' = [writer EXCEPT ![p] = "idle"]
           \/ writer' = [writer EXCEPT ![p] = "closed"]
    PROVE  TransferOK'
  <1>1. CASE UNCHANGED writer
    BY <1>1 DEF TransferOK
  <1>2. CASE writer' = [writer EXCEPT ![p] = "idle"]
    BY <1>2 DEF TransferOK, WriterState
  <1>3. CASE writer' = [writer EXCEPT ![p] = "closed"]
    BY <1>3 DEF TransferOK, WriterState
  <1> QED
    BY <1>1, <1>2, <1>3
---------------------------------------------------------------------------
(* Types are kept, and the loop sends a message only while the queue holds it. *)
THEOREM TypeCorrect == Spec => []TypeOK
<1>1. Init => TypeOK
  <2>1. Init => ControlOK
    <3> SUFFICES ASSUME Init
                 PROVE  ControlOK
      OBVIOUS
    <3>1. /\ handshake \in [Peer -> {"open", "ready", "failed"}]
          /\ pending_control_frame \in [Peer -> {"NONE", "CLOSE"}]
          /\ reader \in [Peer -> {"off", "reading", "ended"}]
          /\ connection \in {"up", "reset"}
      BY DEF Init
    <3>2. /\ is_send_queue_running \in [Peer -> BOOLEAN]
          /\ is_started \in [Peer -> BOOLEAN]
          /\ is_stopped \in [Peer -> BOOLEAN]
          /\ is_close_received \in [Peer -> BOOLEAN]
      BY DEF Init
    <3> QED
      BY <3>1, <3>2 DEF ControlOK
  <2>2. Init => HistoryOK
    BY DEF Init, HistoryOK
  <2> QED
    BY <2>1, <2>2, TransferInit DEF TypeOK
<1>2. TypeOK /\ [Next]_vars => TypeOK'
  <2> SUFFICES ASSUME TypeOK, [Next]_vars
               PROVE  TypeOK'
    OBVIOUS
  <2> USE DEF TypeOK
  <2>1. CASE Reset
    <3>1. ControlOK' /\ HistoryOK'
      BY <2>1 DEF Reset, ControlOK, HistoryOK, history, flags
    <3>2. TransferOK'
      BY <2>1 DEF Reset, TransferOK
    <3> QED
      BY <3>1, <3>2
  <2>2. ASSUME NEW p \in Peer, User(p)
        PROVE  TypeOK'
    <3>1. CASE send_message(p)
      <4>1. ControlOK'
        BY <3>1 DEF ControlOK, send_message, start_send_queue, EnterLoop
      <4>2. HistoryOK'
        BY <3>1 DEF HistoryOK, send_message
      <4> QED
        BY <3>1, <4>1, <4>2, TransferSend
    <3>2. CASE send_close(p)
      <4>1. ControlOK'
        BY <3>2 DEF ControlOK, send_close, start_send_queue, EnterLoop
      <4>2. HistoryOK'
        BY <3>2 DEF HistoryOK, send_close, history
      <4>3. TransferOK'
        BY <3>2, TransferStart DEF send_close, TransferOK
      <4> QED
        BY <4>1, <4>2, <4>3
    <3>3. CASE start_messaging(p)
      <4>1. ControlOK'
        BY <3>3 DEF ControlOK, start_messaging, start_send_queue, EnterLoop
      <4>2. HistoryOK'
        BY <3>3 DEF HistoryOK, start_messaging, history
      <4>3. UNCHANGED send_queue /\ wire' \in [Peer -> Seq(Frame)]
        BY <3>3 DEF start_messaging, TransferOK
      <4>4. \/ UNCHANGED writer
            \/ start_send_queue(p, pending_control_frame[p], send_queue[p])
        BY <3>3 DEF start_messaging
      <4>5. TransferOK'
        BY <4>3, <4>4, TransferStart, TransferQuiet
      <4> QED
        BY <4>1, <4>2, <4>5
    <3>4. CASE stop(p)
      <4>1. ControlOK' /\ HistoryOK'
        BY <3>4 DEF ControlOK, HistoryOK, stop, history
      <4>2. TransferOK'
        BY <3>4 DEF stop, TransferOK
      <4> QED
        BY <4>1, <4>2
    <3> QED
      BY <2>2, <3>1, <3>2, <3>3, <3>4 DEF User
  <2>3. ASSUME NEW p \in Peer, Completion(p)
        PROVE  TypeOK'
    <3>1. CASE HandshakeReady(p)
      <4>1. ControlOK'
        BY <3>1 DEF ControlOK, HandshakeReady, history, flags
      <4>2. HistoryOK'
        BY <3>1 DEF HistoryOK, HandshakeReady, history, flags
      <4>3. TransferOK'
        BY <3>1 DEF TransferOK, HandshakeReady, history, flags
      <4> QED
        BY <4>1, <4>2, <4>3
    <3>2. CASE HandshakeFail(p)
      <4>1. ControlOK'
        BY <3>2 DEF ControlOK, HandshakeFail, history, flags
      <4>2. HistoryOK'
        BY <3>2 DEF HistoryOK, HandshakeFail, history, flags
      <4>3. TransferOK'
        BY <3>2 DEF TransferOK, HandshakeFail, history, flags
      <4> QED
        BY <4>1, <4>2, <4>3
    <3>3. CASE Transmit(p)
      <4>1. ControlOK'
        BY <3>3 DEF ControlOK, Transmit, history, flags
      <4>2. HistoryOK'
        BY <3>3 DEF HistoryOK, Transmit, history, flags
      <4>3. TransferOK'
        BY <3>3, TransferWrite
      <4> QED
        BY <4>1, <4>2, <4>3
    <3>4. CASE MessageSent(p)
      <4>1. ControlOK'
        BY <3>4 DEF ControlOK, MessageSent, EnterLoop, history
      <4>2. HistoryOK'
        BY <3>4 DEF HistoryOK, MessageSent, EnterLoop, history
      <4>3. TransferOK'
        BY <3>4, TransferPop
      <4> QED
        BY <4>1, <4>2, <4>3
    <3>5. CASE CloseSent(p)
      <4>1. ControlOK'
        BY <3>5 DEF ControlOK, CloseSent, call_handler, flags
      <4>2. HistoryOK'
        <5>1. closes' \in [Peer -> Nat] /\ errors' \in [Peer -> Nat]
          BY <3>5, HandlerType DEF HistoryOK, CloseSent
        <5> QED
          BY <3>5, <5>1 DEF HistoryOK, CloseSent
      <4>3. UNCHANGED send_queue /\ wire' \in [Peer -> Seq(Frame)]
        BY <3>5 DEF CloseSent, TransferOK
      <4>4. \/ writer' = [writer EXCEPT ![p] = "idle"]
            \/ writer' = [writer EXCEPT ![p] = "closed"]
        BY <3>5 DEF CloseSent
      <4>5. TransferOK'
        BY <4>3, <4>4, TransferQuiet
      <4> QED
        BY <4>1, <4>2, <4>5
    <3>6. CASE MessageWriteFails(p)
      <4>1. ControlOK'
        BY <3>6 DEF ControlOK, MessageWriteFails, LoopCatch, call_handler
      <4>2. HistoryOK'
        <5>1. closes' \in [Peer -> Nat] /\ errors' \in [Peer -> Nat]
          BY <3>6, HandlerType DEF HistoryOK, MessageWriteFails, LoopCatch
        <5> QED
          BY <3>6, <5>1 DEF HistoryOK, MessageWriteFails
      <4>3. UNCHANGED send_queue /\ wire' \in [Peer -> Seq(Frame)]
        BY <3>6 DEF MessageWriteFails, TransferOK
      <4>4. \/ writer' = [writer EXCEPT ![p] = "idle"]
            \/ writer' = [writer EXCEPT ![p] = "closed"]
        BY <3>6 DEF MessageWriteFails, LoopCatch
      <4>5. TransferOK'
        BY <4>3, <4>4, TransferQuiet
      <4> QED
        BY <4>1, <4>2, <4>5
    <3>7. CASE CloseWriteFails(p)
      <4>1. ControlOK'
        BY <3>7 DEF ControlOK, CloseWriteFails, LoopCatch, call_handler
      <4>2. HistoryOK'
        <5>1. closes' \in [Peer -> Nat] /\ errors' \in [Peer -> Nat]
          BY <3>7, HandlerType DEF HistoryOK, CloseWriteFails, LoopCatch
        <5> QED
          BY <3>7, <5>1 DEF HistoryOK, CloseWriteFails
      <4>3. UNCHANGED send_queue /\ wire' \in [Peer -> Seq(Frame)]
        BY <3>7 DEF CloseWriteFails, TransferOK
      <4>4. \/ writer' = [writer EXCEPT ![p] = "idle"]
            \/ writer' = [writer EXCEPT ![p] = "closed"]
        BY <3>7 DEF CloseWriteFails, LoopCatch
      <4>5. TransferOK'
        BY <4>3, <4>4, TransferQuiet
      <4> QED
        BY <4>1, <4>2, <4>5
    <3>8. CASE ReadMessage(p)
      <4>1. /\ wire[Other[p]] \in Seq(Frame) /\ wire[Other[p]] # <<>>
            /\ wire' = [wire EXCEPT ![Other[p]] = Tail(@)]
        BY <3>8, OtherPeer DEF TransferOK, ReadMessage, Incoming
      <4>2. Head(wire[Other[p]]).id \in Nat /\ wire' \in [Peer -> Seq(Frame)]
        BY <4>1, HeadTail, FrameType DEF TransferOK
      <4>3. ControlOK'
        BY <3>8 DEF ControlOK, ReadMessage, flags
      <4>4. HistoryOK'
        BY <3>8, <4>2 DEF HistoryOK, ReadMessage
      <4>5. TransferOK'
        BY <3>8, <4>2 DEF TransferOK, ReadMessage
      <4> QED
        BY <4>3, <4>4, <4>5
    <3>9. CASE ReadClose(p)
      <4>1. /\ wire[Other[p]] \in Seq(Frame) /\ wire[Other[p]] # <<>>
            /\ wire' = [wire EXCEPT ![Other[p]] = Tail(@)]
        BY <3>9, OtherPeer DEF TransferOK, ReadClose, Incoming
      <4>2. wire' \in [Peer -> Seq(Frame)]
        BY <4>1, HeadTail DEF TransferOK
      <4>3. ControlOK'
        BY <3>9 DEF ControlOK, ReadClose, start_send_queue, EnterLoop
      <4>4. HistoryOK'
        <5>1. closes' \in [Peer -> Nat] /\ errors' \in [Peer -> Nat]
          BY <3>9, HandlerType DEF HistoryOK, ReadClose
        <5> QED
          BY <3>9, <5>1 DEF HistoryOK, ReadClose
      <4>5. /\ UNCHANGED send_queue
            /\ UNCHANGED writer \/ start_send_queue(p, "CLOSE", send_queue[p])
        BY <3>9 DEF ReadClose
      <4>6. TransferOK'
        BY <4>2, <4>5, TransferStart, TransferQuiet
      <4> QED
        BY <4>3, <4>4, <4>6
    <3>10. CASE ReadFails(p)
      <4>1. ControlOK'
        BY <3>10 DEF ControlOK, ReadFails, flags
      <4>2. HistoryOK'
        <5>1. closes' \in [Peer -> Nat] /\ errors' \in [Peer -> Nat]
          BY <3>10, HandlerType DEF HistoryOK, ReadFails
        <5> QED
          BY <3>10, <5>1 DEF HistoryOK, ReadFails
      <4>3. TransferOK'
        BY <3>10 DEF TransferOK, ReadFails
      <4> QED
        BY <4>1, <4>2, <4>3
    <3> QED
      BY <2>3, <3>1, <3>2, <3>3, <3>4, <3>5, <3>6, <3>7, <3>8, <3>9, <3>10 DEF Completion
  <2>4. CASE UNCHANGED vars
    <3>1. ControlOK' /\ HistoryOK'
      BY <2>4 DEF ControlOK, HistoryOK, vars, flags, history
    <3>2. TransferOK'
      BY <2>4 DEF TransferOK, vars
    <3> QED
      BY <3>1, <3>2
  <2> QED
    BY <2>1, <2>2, <2>3, <2>4 DEF Next
<1> QED
  BY <1>1, <1>2, PTL DEF Spec
---------------------------------------------------------------------------
(* The send loop, its flag and the start agree: LoopInv is kept. *)

\* What start_send_queue leaves behind: the loop as it was, or one that was
\* begun at an endpoint that has started and had none.
LEMMA StartEffect ==
    ASSUME TypeOK, NEW p \in Peer, NEW kind, NEW queue,
           start_send_queue(p, kind, queue)
    PROVE  \/ UNCHANGED <<writer, is_send_queue_running>>
           \/ /\ ~is_send_queue_running[p] /\ ~is_stopped[p] /\ is_started'[p]
              /\ EnterLoop(p, LoopTurn(kind, queue))
  BY DEF start_send_queue

\* A turn is begun with the flag set, or the loop ends with the flag cleared.
LEMMA EnterEffect ==
    ASSUME TypeOK, NEW p \in Peer, NEW turn, EnterLoop(p, turn)
    PROVE  /\ writer'[p] = turn
           /\ turn # "idle" => is_send_queue_running'[p]
           /\ turn = "idle" => ~is_send_queue_running'[p]
           /\ \A r \in Peer \ {p} : /\ writer'[r] = writer[r]
                                   /\ is_send_queue_running'[r] = is_send_queue_running[r]
  <1>1. /\ writer \in [Peer -> WriterState]
        /\ is_send_queue_running \in [Peer -> BOOLEAN]
    BY DEF TypeOK, TransferOK, ControlOK
  <1> QED
    BY <1>1 DEF EnterLoop

LEMMA LoopAtOther ==
    ASSUME LoopInv, NEW p \in Peer, LoopAt(p)',
           \A r \in Peer \ {p} :
               /\ writer'[r] = writer[r]
               /\ is_send_queue_running'[r] = is_send_queue_running[r]
               /\ is_started'[r] = is_started[r]
               /\ reader'[r] = reader[r]
               /\ pending_control_frame'[r] = pending_control_frame[r]
    PROVE  LoopInv'
  BY DEF LoopInv, LoopAt, is_sending_close

LEMMA LoopStart ==
    ASSUME TypeOK, LoopInv, NEW p \in Peer, NEW kind, NEW queue,
           start_send_queue(p, kind, queue),
           is_started'[p] <=> reader'[p] # "off",
           is_started[p] => is_started'[p],
           is_sending_close(p) => is_sending_close(p)',
           kind = "CLOSE" => is_sending_close(p)'
    PROVE  /\ LoopAt(p)'
           /\ \A r \in Peer \ {p} : /\ writer'[r] = writer[r]
                                   /\ is_send_queue_running'[r] = is_send_queue_running[r]
  <1>1. CASE UNCHANGED <<writer, is_send_queue_running>>
    BY <1>1 DEF LoopInv, LoopAt
  <1>2. CASE /\ is_started'[p]
             /\ EnterLoop(p, LoopTurn(kind, queue))
    <2>. DEFINE turn == LoopTurn(kind, queue)
    <2>1. turn \in {"close", "message", "idle"} /\ (turn = "close" => kind = "CLOSE")
      BY LoopTurnType
    <2>2. EnterLoop(p, turn)
      BY <1>2
    <2>. HIDE DEF turn
    <2>3. /\ writer'[p] = turn
          /\ turn # "idle" => is_send_queue_running'[p]
          /\ turn = "idle" => ~is_send_queue_running'[p]
          /\ \A r \in Peer \ {p} : /\ writer'[r] = writer[r]
                                   /\ is_send_queue_running'[r] = is_send_queue_running[r]
      BY <2>2, EnterEffect
    <2> QED
      BY <1>2, <2>1, <2>3 DEF LoopAt
  <1> QED
    BY <1>1, <1>2, StartEffect

LEMMA LoopInit == Init => LoopInv
  BY DEF Init, LoopInv, LoopAt, is_sending_close

LEMMA LoopStep ==
    ASSUME TypeOK, LoopInv, [Next]_vars
    PROVE  LoopInv'
  <1>t. /\ writer \in [Peer -> WriterState]
        /\ is_send_queue_running \in [Peer -> BOOLEAN]
        /\ is_started \in [Peer -> BOOLEAN]
        /\ reader \in [Peer -> {"off", "reading", "ended"}]
        /\ pending_control_frame \in [Peer -> {"NONE", "CLOSE"}]
    BY DEF TypeOK, TransferOK, ControlOK
  <1>1. ASSUME UNCHANGED <<writer, is_send_queue_running, is_started, reader,
                           pending_control_frame>>
        PROVE  LoopInv'
    BY <1>1 DEF LoopInv, LoopAt, is_sending_close
  <1>2. CASE Reset
    BY <1>1, <1>2 DEF Reset, flags
  <1>3. ASSUME NEW p \in Peer, User(p)
        PROVE  LoopInv'
    <2>1. CASE send_message(p)
      <3>1. /\ start_send_queue(p, pending_control_frame[p], send_queue'[p])
            /\ UNCHANGED <<is_started, reader, pending_control_frame>>
        BY <2>1 DEF send_message
      <3>2. is_started[p] <=> reader[p] # "off"
        BY DEF LoopInv, LoopAt
      <3>3. /\ LoopAt(p)'
            /\ \A r \in Peer \ {p} : /\ writer'[r] = writer[r]
                                    /\ is_send_queue_running'[r] = is_send_queue_running[r]
        BY <3>1, <3>2, LoopStart DEF is_sending_close
      <3> QED
        BY <3>1, <3>3, LoopAtOther
    <2>2. CASE send_close(p)
      <3>1. /\ start_send_queue(p, "CLOSE", send_queue[p])
            /\ UNCHANGED <<is_started, reader>>
            /\ pending_control_frame' = [pending_control_frame EXCEPT ![p] = "CLOSE"]
        BY <2>2 DEF send_close
      <3>2. is_started[p] <=> reader[p] # "off"
        BY DEF LoopInv, LoopAt
      <3>3. /\ LoopAt(p)'
            /\ \A r \in Peer \ {p} : /\ writer'[r] = writer[r]
                                    /\ is_send_queue_running'[r] = is_send_queue_running[r]
        BY <1>t, <3>1, <3>2, LoopStart DEF is_sending_close
      <3> QED
        BY <1>t, <3>1, <3>3, LoopAtOther
    <2>3. CASE start_messaging(p)
      <3>1. /\ is_started' = [is_started EXCEPT ![p] = TRUE]
            /\ reader' = [reader EXCEPT ![p] = "reading"]
            /\ UNCHANGED pending_control_frame
        BY <2>3 DEF start_messaging
      <3>2. \/ UNCHANGED <<writer, is_send_queue_running>>
            \/ start_send_queue(p, pending_control_frame[p], send_queue[p])
        BY <2>3 DEF start_messaging
      <3>3. CASE UNCHANGED <<writer, is_send_queue_running>>
        BY <1>t, <3>1, <3>3 DEF LoopInv, LoopAt, is_sending_close
      <3>4. CASE start_send_queue(p, pending_control_frame[p], send_queue[p])
        <4>1. /\ LoopAt(p)'
              /\ \A r \in Peer \ {p} : /\ writer'[r] = writer[r]
                                      /\ is_send_queue_running'[r] = is_send_queue_running[r]
          BY <1>t, <3>1, <3>4, LoopStart DEF is_sending_close
        <4> QED
          BY <1>t, <3>1, <4>1, LoopAtOther
      <3> QED
        BY <3>2, <3>3, <3>4
    <2>4. CASE stop(p)
      BY <1>1, <2>4 DEF stop
    <2> QED
      BY <1>3, <2>1, <2>2, <2>3, <2>4 DEF User
  <1>4. ASSUME NEW p \in Peer, Completion(p)
        PROVE  LoopInv'
    <2>1. CASE HandshakeReady(p) \/ HandshakeFail(p) \/ ReadMessage(p)
      BY <1>1, <2>1 DEF HandshakeReady, HandshakeFail, ReadMessage, flags
    <2>2. CASE Transmit(p)
      BY <1>t, <2>2 DEF Transmit, flags, LoopInv, LoopAt, is_sending_close
    <2>3. CASE MessageSent(p)
      <3>. DEFINE turn == LoopTurn(pending_control_frame[p], send_queue'[p])
      <3>1. /\ turn \in {"close", "message", "idle"}
            /\ turn = "close" => is_sending_close(p)
        BY LoopTurnType DEF is_sending_close
      <3>2. /\ writer[p] = "message_done"
            /\ EnterLoop(p, turn)
            /\ UNCHANGED <<is_started, reader, pending_control_frame>>
        BY <2>3 DEF MessageSent
      <3>. HIDE DEF turn
      <3>3. is_started[p] /\ reader[p] # "off"
        BY <3>2 DEF LoopInv, LoopAt
      <3>4. /\ LoopAt(p)'
            /\ \A r \in Peer \ {p} : /\ writer'[r] = writer[r]
                                    /\ is_send_queue_running'[r] = is_send_queue_running[r]
        BY <3>1, <3>2, <3>3, EnterEffect DEF LoopAt, is_sending_close
      <3> QED
        BY <3>2, <3>4, LoopAtOther
    <2>4. CASE CloseSent(p)
      BY <1>t, <2>4 DEF CloseSent, flags, LoopInv, LoopAt, is_sending_close
    <2>5. CASE MessageWriteFails(p) \/ CloseWriteFails(p)
      <3>1. /\ writer[p] \in {"message", "close"}
            /\ UNCHANGED <<is_started, reader, pending_control_frame>>
        BY <2>5 DEF MessageWriteFails, CloseWriteFails
      <3>2. \/ /\ writer' = [writer EXCEPT ![p] = "idle"]
               /\ is_send_queue_running' = [is_send_queue_running EXCEPT ![p] = FALSE]
            \/ /\ writer[p] = "close"
               /\ writer' = [writer EXCEPT ![p] = "closed"]
               /\ UNCHANGED is_send_queue_running
        BY <2>5 DEF MessageWriteFails, CloseWriteFails, LoopCatch
      <3> QED
        BY <1>t, <3>1, <3>2 DEF LoopInv, LoopAt, is_sending_close
    <2>6. CASE ReadClose(p)
      <3>1. /\ reader[p] = "reading"
            /\ reader' = [reader EXCEPT ![p] = "ended"]
            /\ pending_control_frame' = [pending_control_frame EXCEPT ![p] = "CLOSE"]
            /\ UNCHANGED is_started
        BY <2>6 DEF ReadClose, Incoming
      <3>2. \/ UNCHANGED <<writer, is_send_queue_running>>
            \/ start_send_queue(p, "CLOSE", send_queue[p])
        BY <2>6 DEF ReadClose
      <3>3. CASE UNCHANGED <<writer, is_send_queue_running>>
        BY <1>t, <3>1, <3>3 DEF LoopInv, LoopAt, is_sending_close
      <3>4. CASE start_send_queue(p, "CLOSE", send_queue[p])
        <4>1. is_started[p] /\ reader'[p] = "ended" /\ is_sending_close(p)'
          BY <1>t, <3>1 DEF LoopInv, LoopAt, is_sending_close
        <4>2. /\ LoopAt(p)'
              /\ \A r \in Peer \ {p} : /\ writer'[r] = writer[r]
                                      /\ is_send_queue_running'[r] = is_send_queue_running[r]
          BY <3>1, <3>4, <4>1, LoopStart
        <4> QED
          BY <1>t, <3>1, <4>2, LoopAtOther
      <3> QED
        BY <3>2, <3>3, <3>4
    <2>7. CASE ReadFails(p)
      BY <1>t, <2>7 DEF ReadFails, flags, LoopInv, LoopAt, is_sending_close
    <2> QED
      BY <1>4, <2>1, <2>2, <2>3, <2>4, <2>5, <2>6, <2>7 DEF Completion
  <1>5. CASE UNCHANGED vars
    BY <1>1, <1>5 DEF vars, flags
  <1> QED
    BY <1>2, <1>3, <1>4, <1>5 DEF Next

---------------------------------------------------------------------------
(* No wake-up is lost. *)

WakeupAt(p) ==
    is_started[p] /\ ~is_stopped[p] /\ connection = "up" /\ send_queue[p] # <<>>
        => is_send_queue_running[p]

LEMMA WakeupOther ==
    ASSUME NoLostWakeup, NEW p \in Peer, WakeupAt(p)',
           connection' = "up" => connection = "up",
           \A r \in Peer \ {p} :
               /\ is_send_queue_running'[r] = is_send_queue_running[r]
               /\ is_started'[r] = is_started[r]
               /\ is_stopped[r] => is_stopped'[r]
               /\ send_queue'[r] = send_queue[r]
    PROVE  NoLostWakeup'
  BY DEF NoLostWakeup, WakeupAt

\* A queue that start_send_queue is called with has a loop afterwards.
LEMMA WakeupStart ==
    ASSUME TypeOK, NEW p \in Peer, NEW kind,
           start_send_queue(p, kind, send_queue'[p]),
           UNCHANGED is_stopped
    PROVE  /\ WakeupAt(p)'
           /\ \A r \in Peer \ {p} : is_send_queue_running'[r] = is_send_queue_running[r]
  <1>1. CASE EnterLoop(p, LoopTurn(kind, send_queue'[p]))
    BY <1>1, EnterEffect, LoopTurnType DEF WakeupAt
  <1>2. CASE /\ is_send_queue_running[p] \/ is_stopped[p] \/ ~is_started'[p]
             /\ UNCHANGED <<writer, is_send_queue_running>>
    BY <1>2 DEF WakeupAt
  <1> QED
    BY <1>1, <1>2 DEF start_send_queue

LEMMA WakeupStep ==
    ASSUME TypeOK, NoLostWakeup, [Next]_vars
    PROVE  NoLostWakeup'
  <1>t. /\ is_send_queue_running \in [Peer -> BOOLEAN]
        /\ is_started \in [Peer -> BOOLEAN]
        /\ is_stopped \in [Peer -> BOOLEAN]
        /\ send_queue \in [Peer -> Seq(Nat)]
    BY DEF TypeOK, TransferOK, ControlOK
  <1>1. ASSUME UNCHANGED <<is_send_queue_running, is_started, is_stopped, send_queue>>,
               connection' = "up" => connection = "up"
        PROVE  NoLostWakeup'
    BY <1>1 DEF NoLostWakeup
  <1>2. CASE Reset
    BY <1>1, <1>2 DEF Reset, flags
  <1>3. ASSUME NEW p \in Peer, User(p)
        PROVE  NoLostWakeup'
    <2>1. CASE send_message(p)
      <3>1. /\ start_send_queue(p, pending_control_frame[p], send_queue'[p])
            /\ UNCHANGED <<is_started, is_stopped, connection>>
            /\ \A r \in Peer \ {p} : send_queue'[r] = send_queue[r]
        BY <1>t, <2>1 DEF send_message
      <3> QED
        BY <3>1, WakeupStart, WakeupOther
    <2>2. CASE send_close(p)
      <3>1. /\ start_send_queue(p, "CLOSE", send_queue'[p])
            /\ UNCHANGED <<is_started, is_stopped, connection, send_queue>>
        BY <2>2 DEF send_close
      <3> QED
        BY <3>1, WakeupStart, WakeupOther
    <2>3. CASE start_messaging(p)
      <3>1. /\ is_started' = [is_started EXCEPT ![p] = TRUE]
            /\ UNCHANGED <<is_stopped, connection, send_queue>>
        BY <2>3 DEF start_messaging
      <3>2. CASE send_queue[p] = <<>>
        <4>1. UNCHANGED is_send_queue_running
          BY <2>3, <3>2 DEF start_messaging
        <4> QED
          BY <1>t, <3>1, <3>2, <4>1, WakeupOther DEF WakeupAt
      <3>3. CASE send_queue[p] # <<>>
        <4>1. start_send_queue(p, pending_control_frame[p], send_queue'[p])
          BY <2>3, <3>1, <3>3 DEF start_messaging
        <4> QED
          BY <1>t, <3>1, <4>1, WakeupStart, WakeupOther
      <3> QED
        BY <3>2, <3>3
    <2>4. CASE stop(p)
      BY <1>t, <2>4 DEF stop, NoLostWakeup
    <2> QED
      BY <1>3, <2>1, <2>2, <2>3, <2>4 DEF User
  <1>4. ASSUME NEW p \in Peer, Completion(p)
        PROVE  NoLostWakeup'
    <2>1. CASE \/ HandshakeReady(p) \/ HandshakeFail(p) \/ Transmit(p)
               \/ CloseSent(p) \/ ReadMessage(p) \/ ReadFails(p)
      BY <1>1, <2>1 DEF HandshakeReady, HandshakeFail, Transmit, CloseSent,
                        ReadMessage, ReadFails, flags
    <2>2. CASE MessageSent(p)
      <3>1. /\ EnterLoop(p, LoopTurn(pending_control_frame[p], send_queue'[p]))
            /\ UNCHANGED <<is_started, is_stopped, connection>>
            /\ \A r \in Peer \ {p} : send_queue'[r] = send_queue[r]
        BY <1>t, <2>2 DEF MessageSent
      <3>2. /\ WakeupAt(p)'
            /\ \A r \in Peer \ {p} : is_send_queue_running'[r] = is_send_queue_running[r]
        BY <3>1, EnterEffect, LoopTurnType DEF WakeupAt
      <3> QED
        BY <3>1, <3>2, WakeupOther
    <2>3. CASE MessageWriteFails(p) \/ CloseWriteFails(p)
      <3>1. /\ is_stopped[p] \/ connection = "reset"
            /\ UNCHANGED <<is_started, is_stopped, connection, send_queue>>
        BY <2>3 DEF MessageWriteFails, CloseWriteFails, WriteError
      <3>2. \/ is_send_queue_running' = [is_send_queue_running EXCEPT ![p] = FALSE]
            \/ UNCHANGED is_send_queue_running
        BY <2>3 DEF MessageWriteFails, CloseWriteFails, LoopCatch
      <3> QED
        BY <1>t, <3>1, <3>2 DEF NoLostWakeup
    <2>4. CASE ReadClose(p)
      <3>1. /\ \/ UNCHANGED is_send_queue_running
               \/ start_send_queue(p, "CLOSE", send_queue'[p])
            /\ UNCHANGED <<is_started, is_stopped, connection, send_queue>>
        BY <2>4 DEF ReadClose
      <3> QED
        BY <1>1, <3>1, WakeupStart, WakeupOther
    <2> QED
      BY <1>4, <2>1, <2>2, <2>3, <2>4 DEF Completion
  <1>5. CASE UNCHANGED vars
    BY <1>1, <1>5 DEF vars, flags
  <1> QED
    BY <1>2, <1>3, <1>4, <1>5 DEF Next

(* A message in the queue of an endpoint that has started, is not stopped and
   is connected has a send loop at work, whatever the users and the network
   did before (start_send_queue, start_messaging and the turns of the loop). *)
THEOREM WakeupsAreKept == Spec => []NoLostWakeup
<1>1. Init => NoLostWakeup
  BY DEF Init, NoLostWakeup
<1>2. TypeOK /\ NoLostWakeup /\ [Next]_vars => NoLostWakeup'
  BY WakeupStep
<1> QED
  BY <1>1, <1>2, TypeCorrect, PTL DEF Spec

---------------------------------------------------------------------------
(* Nothing follows a close frame. *)

LEMMA CloseAppend ==
    ASSUME NEW s \in Seq(Frame), NEW f \in Frame
    PROVE  /\ HoldsClose(Append(s, f)) => HoldsClose(s) \/ f.kind = "close"
           /\ ~HoldsClose(s) => CloseIsLast(Append(s, f))
  <1>1. /\ DOMAIN Append(s, f) = 1..(Len(s) + 1) /\ DOMAIN s = 1..Len(s)
        /\ Len(Append(s, f)) = Len(s) + 1 /\ Len(s) \in Nat
        /\ Append(s, f)[Len(s) + 1] = f
        /\ \A i \in 1..Len(s) : Append(s, f)[i] = s[i]
    BY PushBack
  <1>2. ASSUME NEW i \in 1..(Len(s) + 1), i # Len(s) + 1
        PROVE  i \in DOMAIN s /\ Append(s, f)[i] = s[i]
    BY <1>1, <1>2
  <1> QED
    BY <1>1, <1>2 DEF HoldsClose, CloseIsLast

LEMMA CloseTail ==
    ASSUME NEW s \in Seq(Frame), s # <<>>
    PROVE  /\ HoldsClose(Tail(s)) => HoldsClose(s)
           /\ Head(s).kind = "close" => HoldsClose(s)
           /\ CloseIsLast(s) => CloseIsLast(Tail(s))
           /\ CloseIsLast(s) /\ Head(s).kind = "close" => Tail(s) = <<>>
  <1>1. /\ Head(s) = s[1] /\ Len(s) \in Nat \ {0} /\ Len(Tail(s)) = Len(s) - 1
        /\ Tail(s) \in Seq(Frame)
        /\ \A i \in 1..Len(Tail(s)) : Tail(s)[i] = s[i + 1]
    BY HeadTail
  <1>2. DOMAIN s = 1..Len(s) /\ DOMAIN Tail(s) = 1..Len(Tail(s))
    BY <1>1
  <1>3. ASSUME NEW i \in DOMAIN Tail(s)
        PROVE  /\ i + 1 \in DOMAIN s /\ Tail(s)[i] = s[i + 1]
               /\ i + 1 = Len(s) => i = Len(Tail(s))
    BY <1>1, <1>2, <1>3
  <1>4. 1 \in DOMAIN s
    BY <1>1, <1>2
  <1>5. CloseIsLast(s) /\ Head(s).kind = "close" => Len(Tail(s)) = 0
    BY <1>1, <1>4 DEF CloseIsLast
  <1>6. Len(Tail(s)) = 0 => Tail(s) = <<>>
    BY <1>1, EmptyLen
  <1> QED
    BY <1>1, <1>3, <1>4, <1>5, <1>6 DEF HoldsClose, CloseIsLast

\* A finished writer stays finished: its flag is set, so no loop is begun.
LEMMA WrittenStays ==
    ASSUME TypeOK, LoopInv, [Next]_vars, NEW p \in Peer, CloseWritten(p)
    PROVE  CloseWritten(p)'
  <1>t. /\ writer \in [Peer -> WriterState]
        /\ is_send_queue_running[p]
    BY DEF TypeOK, TransferOK, LoopInv, LoopAt, CloseWritten
  <1>1. ASSUME NEW r \in Peer, NEW kind, NEW queue, start_send_queue(r, kind, queue)
        PROVE  writer'[p] = writer[p]
    <2>1. CASE UNCHANGED <<writer, is_send_queue_running>>
      BY <2>1
    <2>2. CASE ~is_send_queue_running[r] /\ EnterLoop(r, LoopTurn(kind, queue))
      BY <1>t, <2>2, EnterEffect
    <2> QED
      BY <1>1, <2>1, <2>2, StartEffect
  <1>2. CASE UNCHANGED writer
    BY <1>2 DEF CloseWritten
  <1>3. ASSUME NEW r \in Peer, NEW kind, NEW queue, start_send_queue(r, kind, queue)
        PROVE  CloseWritten(p)'
    BY <1>1, <1>3 DEF CloseWritten
  <1>4. ASSUME NEW r \in Peer, User(r)
        PROVE  CloseWritten(p)'
    BY <1>2, <1>3, <1>4 DEF User, send_message, send_close, start_messaging, stop
  <1>5. ASSUME NEW r \in Peer, Completion(r)
        PROVE  CloseWritten(p)'
    <2>1. CASE \/ HandshakeReady(r) \/ HandshakeFail(r) \/ ReadMessage(r)
               \/ ReadFails(r) \/ ReadClose(r)
      BY <1>2, <1>3, <2>1 DEF HandshakeReady, HandshakeFail, ReadMessage, ReadFails,
                              ReadClose
    <2>2. CASE Transmit(r) \/ MessageWriteFails(r) \/ CloseWriteFails(r)
      <3>1. writer[r] \in {"message", "close"}
            /\ \E w \in {"idle", "closed", "message_done", "close_done"} :
                   writer' = [writer EXCEPT ![r] = w]
        BY <2>2 DEF Transmit, MessageWriteFails, CloseWriteFails, LoopCatch
      <3> QED
        BY <1>t, <3>1 DEF CloseWritten
    <2>3. CASE MessageSent(r)
      <3>1. writer[r] = "message_done"
            /\ EnterLoop(r, LoopTurn(pending_control_frame[r], send_queue'[r]))
        BY <2>3 DEF MessageSent
      <3> QED
        BY <3>1, EnterEffect DEF CloseWritten
    <2>4. CASE CloseSent(r)
      <3>1. writer' = [writer EXCEPT ![r] = "closed"]
        BY <2>4 DEF CloseSent
      <3> QED
        BY <1>t, <3>1 DEF CloseWritten
    <2> QED
      BY <1>5, <2>1, <2>2, <2>3, <2>4 DEF Completion
  <1>6. UNCHANGED vars \/ Reset => UNCHANGED writer
    BY DEF vars, Reset
  <1> QED
    BY <1>2, <1>4, <1>5, <1>6 DEF Next

\* What a step may do to what p has written and its peer has not read.
WireKept(p) ==
    /\ wire'[p] = wire[p]
    /\ is_close_received'[Other[p]] = is_close_received[Other[p]]
    /\ received'[Other[p]] = received[Other[p]]
    /\ connection' = connection
WireWritten(p) ==
    \E frame \in Frame :
        /\ wire'[p] = Append(wire[p], frame)
        /\ \/ frame.kind = "close" /\ CloseWritten(p)'
           \/ /\ writer[p] = "message" /\ Transmit(p)
              /\ frame = MessageFrame(Head(send_queue[p]))
        /\ writer[p] \in {"message", "close"}
        /\ is_close_received'[Other[p]] = is_close_received[Other[p]]
        /\ received'[Other[p]] = received[Other[p]]
        /\ connection = "up" /\ connection' = connection
WireRead(p) ==
    /\ wire[p] # <<>>
    /\ wire'[p] = Tail(wire[p])
    /\ \/ /\ Head(wire[p]).kind = "message"
          /\ is_close_received'[Other[p]] = is_close_received[Other[p]]
          /\ received'[Other[p]] = IF is_stopped[Other[p]] THEN received[Other[p]]
                                   ELSE Append(received[Other[p]], Head(wire[p]).id)
       \/ /\ Head(wire[p]).kind = "close"
          /\ received'[Other[p]] = received[Other[p]]
    /\ connection' = connection
WireLost(p) ==
    /\ wire'[p] = <<>>
    /\ is_close_received'[Other[p]] = is_close_received[Other[p]]
    /\ received'[Other[p]] = received[Other[p]]
    /\ connection' = "reset"

LEMMA WireStep ==
    ASSUME TypeOK, [Next]_vars, NEW p \in Peer
    PROVE  WireKept(p) \/ WireWritten(p) \/ WireRead(p) \/ WireLost(p)
  <1>t. /\ wire \in [Peer -> Seq(Frame)]
        /\ is_close_received \in [Peer -> BOOLEAN]
        /\ received \in [Peer -> Seq(Nat)]
        /\ writer \in [Peer -> WriterState]
        /\ Other[p] \in Peer
    BY OtherPeer DEF TypeOK, TransferOK, ControlOK, HistoryOK
  <1>1. ASSUME UNCHANGED <<wire, is_close_received, received, connection>>
        PROVE  WireKept(p)
    BY <1>1 DEF WireKept
  <1>2. CASE Reset
    BY <1>t, <1>2 DEF Reset, WireLost, flags, history
  <1>3. ASSUME NEW r \in Peer, User(r)
        PROVE  WireKept(p)
    BY <1>1, <1>3 DEF User, send_message, send_close, start_messaging, stop, history
  <1>4. ASSUME NEW r \in Peer, Completion(r)
        PROVE  WireKept(p) \/ WireWritten(p) \/ WireRead(p)
    <2>1. CASE \/ HandshakeReady(r) \/ HandshakeFail(r) \/ MessageSent(r)
               \/ CloseSent(r) \/ MessageWriteFails(r) \/ CloseWriteFails(r)
               \/ ReadFails(r)
      BY <1>1, <2>1 DEF HandshakeReady, HandshakeFail, MessageSent, CloseSent,
                        MessageWriteFails, CloseWriteFails, ReadFails, flags, history
    <2>2. CASE Transmit(r)
      <3>1. UNCHANGED <<is_close_received, received, connection>> /\ connection = "up"
        BY <2>2 DEF Transmit, flags, history
      <3>2. CASE r # p
        <4>1. wire'[p] = wire[p]
          BY <1>t, <2>2, <3>2 DEF Transmit
        <4> QED
          BY <3>1, <4>1 DEF WireKept
      <3>3. CASE r = p /\ writer[p] = "message"
        <4>. DEFINE frame == MessageFrame(Head(send_queue[p]))
        <4>1. Head(send_queue[p]) \in Nat
          BY <3>3, HeadTail DEF TypeOK, TransferOK
        <4>2. frame \in Frame /\ Transmit(p)
          BY <2>2, <3>3, <4>1, FrameType
        <4>3. wire' = [wire EXCEPT ![p] = Append(@, frame)]
          BY <2>2, <3>3 DEF Transmit
        <4>4. frame = MessageFrame(Head(send_queue[p]))
          OBVIOUS
        <4>. HIDE DEF frame
        <4>5. wire'[p] = Append(wire[p], frame)
          BY <1>t, <4>3
        <4> QED
          BY <3>1, <3>3, <4>2, <4>4, <4>5 DEF WireWritten
      <3>4. CASE r = p /\ writer[p] = "close"
        <4>1. /\ wire' = [wire EXCEPT ![p] = Append(@, CloseFrame)]
              /\ writer' = [writer EXCEPT ![p] = "close_done"]
          BY <2>2, <3>4 DEF Transmit
        <4>2. wire'[p] = Append(wire[p], CloseFrame) /\ CloseWritten(p)'
          BY <1>t, <4>1 DEF CloseWritten
        <4> QED
          BY <3>1, <3>4, <4>2, FrameType DEF WireWritten
      <3> QED
        BY <2>2, <3>2, <3>3, <3>4 DEF Transmit
    <2>3. CASE ReadMessage(r) \/ ReadClose(r)
      <3>1. /\ wire[Other[r]] # <<>>
            /\ wire' = [wire EXCEPT ![Other[r]] = Tail(@)]
            /\ UNCHANGED connection
        BY <2>3 DEF ReadMessage, ReadClose, Incoming
      <3>2. \/ /\ UNCHANGED is_close_received
               /\ Head(wire[Other[r]]).kind = "message"
               /\ received' = IF is_stopped[r] THEN received
                              ELSE [received EXCEPT ![r] = Append(@, Head(wire[Other[r]]).id)]
            \/ /\ Head(wire[Other[r]]).kind = "close"
               /\ is_close_received' = [is_close_received EXCEPT ![r] = TRUE]
               /\ UNCHANGED received
        BY <2>3 DEF ReadMessage, ReadClose, Incoming, flags
      <3>3. CASE p = Other[r]
        <4>1. Other[p] = r /\ wire[p] # <<>> /\ wire'[p] = Tail(wire[p])
          BY <1>t, <3>1, <3>3, OtherPeer
        <4> QED
          BY <1>t, <3>1, <3>2, <3>3, <4>1 DEF WireRead
      <3>4. CASE p # Other[r]
        <4>1. Other[p] # r
          BY <3>4, OtherPeer
        <4>2. wire'[p] = wire[p]
          BY <1>t, <3>1, <3>4
        <4>3. received'[Other[p]] = received[Other[p]]
          BY <1>t, <3>2, <4>1
        <4>4. is_close_received'[Other[p]] = is_close_received[Other[p]]
          BY <1>t, <3>2, <4>1
        <4> QED
          BY <3>1, <4>2, <4>3, <4>4 DEF WireKept
      <3> QED
        BY <3>3, <3>4
    <2> QED
      BY <1>4, <2>1, <2>2, <2>3 DEF Completion
  <1>5. CASE UNCHANGED vars
    BY <1>1, <1>5 DEF vars, flags, history
  <1> QED
    BY <1>2, <1>3, <1>4, <1>5 DEF Next

LEMMA FrameStep ==
    ASSUME TypeOK, LoopInv, FrameInv, [Next]_vars
    PROVE  FrameInv'
  <1> SUFFICES ASSUME NEW p \in Peer
               PROVE  FrameAt(p)'
    BY DEF FrameInv
  <1>t. wire[p] \in Seq(Frame) /\ FrameAt(p)
    BY DEF TypeOK, TransferOK, FrameInv
  <1>s. CloseWritten(p) => CloseWritten(p)'
    BY WrittenStays
  <1>e. ~HoldsClose(<<>>) /\ CloseIsLast(<<>>)
    BY DEF HoldsClose, CloseIsLast
  <1>f. FrameAt(p)' <=>
            /\ HoldsClose(wire'[p]) => CloseWritten(p)'
            /\ CloseIsLast(wire'[p])
            /\ is_close_received'[Other[p]] => CloseWritten(p)' /\ wire'[p] = <<>>
            /\ connection' = "reset" => wire'[p] = <<>>
    BY DEF FrameAt, HoldsClose, CloseIsLast
  <1>1. CASE WireKept(p)
    BY <1>1, <1>t, <1>s, <1>f DEF WireKept, FrameAt
  <1>2. CASE WireWritten(p)
    <2>1. PICK frame \in Frame :
              /\ wire'[p] = Append(wire[p], frame)
              /\ \/ frame.kind = "close" /\ CloseWritten(p)'
                 \/ frame = MessageFrame(Head(send_queue[p])) /\ writer[p] = "message"
              /\ writer[p] \in {"message", "close"}
              /\ is_close_received'[Other[p]] = is_close_received[Other[p]]
              /\ connection = "up" /\ connection' = connection
      BY <1>2 DEF WireWritten
    <2>2. ~CloseWritten(p)
      BY <2>1 DEF CloseWritten
    <2>3. ~HoldsClose(wire[p]) /\ ~is_close_received'[Other[p]]
      BY <1>t, <2>1, <2>2 DEF FrameAt
    <2>4. frame.kind = "close" => CloseWritten(p)'
      BY <2>1 DEF MessageFrame
    <2>5. /\ HoldsClose(wire'[p]) => frame.kind = "close"
          /\ CloseIsLast(wire'[p])
      BY <1>t, <2>1, <2>3, CloseAppend
    <2> QED
      BY <1>f, <2>1, <2>3, <2>4, <2>5
  <1>3. CASE WireRead(p)
    BY <1>3, <1>t, <1>s, <1>f, CloseTail DEF WireRead, FrameAt
  <1>4. CASE WireLost(p)
    BY <1>4, <1>t, <1>s, <1>e, <1>f DEF WireLost, FrameAt
  <1> QED
    BY <1>1, <1>2, <1>3, <1>4, WireStep

LEMMA FrameInit == Init => FrameInv
  <1>1. ~HoldsClose(<<>>) /\ CloseIsLast(<<>>)
    BY DEF HoldsClose, CloseIsLast
  <1>2. ASSUME Init, NEW p \in Peer
        PROVE  wire[p] = <<>> /\ ~is_close_received[Other[p]]
    BY <1>2, OtherPeer DEF Init
  <1> QED
    BY <1>1, <1>2 DEF FrameInv, FrameAt

(* A close frame is the last frame an endpoint writes, and its peer finds
   nothing behind it: no call of the user, and no handler of the two loops,
   restarts the send loop of an endpoint that has begun the close. *)
THEOREM CloseEndsTheStream == Spec => []CloseIsFinal
<1>1. Init => LoopInv /\ FrameInv
  BY LoopInit, FrameInit
<1>2. TypeOK /\ LoopInv /\ FrameInv /\ [Next]_vars => LoopInv' /\ FrameInv'
  BY LoopStep, FrameStep
<1>3. FrameInv => CloseIsFinal
  BY DEF FrameInv, FrameAt, CloseIsFinal
<1> QED
  BY <1>1, <1>2, <1>3, TypeCorrect, PTL DEF Spec

---------------------------------------------------------------------------
(* Order and delivery between the two: how many messages frames hold. *)

\* What is left of the count when a frame is written or read.
LEMMA MessagesAppend ==
    ASSUME NEW s \in Seq(Frame), NEW f \in Frame, ~HoldsClose(s)
    PROVE  /\ Messages(s) = Len(s)
           /\ f.kind = "close" => Messages(Append(s, f)) = Len(s)
           /\ f.kind # "close" => Messages(Append(s, f)) = Len(s) + 1
  <1>1. /\ DOMAIN Append(s, f) = 1..(Len(s) + 1)
        /\ Len(Append(s, f)) = Len(s) + 1 /\ Len(s) \in Nat
        /\ Append(s, f)[Len(s) + 1] = f
    BY PushBack
  <1>2. f.kind = "close" => HoldsClose(Append(s, f))
    BY <1>1 DEF HoldsClose
  <1>3. f.kind # "close" => ~HoldsClose(Append(s, f))
    BY CloseAppend
  <1> QED
    BY <1>1, <1>2, <1>3 DEF Messages

LEMMA MessagesTail ==
    ASSUME NEW s \in Seq(Frame), s # <<>>, CloseIsLast(s)
    PROVE  /\ Head(s).kind # "close" => Messages(Tail(s)) = Messages(s) - 1
           /\ Head(s).kind = "close" => Messages(s) = 0 /\ Messages(Tail(s)) = 0
           /\ Messages(s) \in Int
  <1>1. /\ Head(s) = s[1] /\ Len(s) \in Nat \ {0} /\ Len(Tail(s)) = Len(s) - 1
        /\ Tail(s) \in Seq(Frame) /\ DOMAIN s = 1..Len(s)
        /\ \A i \in 1..Len(Tail(s)) : Tail(s)[i] = s[i + 1]
    BY HeadTail
  <1>2. CASE Head(s).kind = "close"
    <2>1. Tail(s) = <<>> /\ HoldsClose(s) /\ Len(s) = 1
      BY <1>1, <1>2, CloseTail
    <2>2. ~HoldsClose(Tail(s)) /\ Len(Tail(s)) = 0
      BY <1>1, <2>1 DEF HoldsClose
    <2>3. Messages(s) = 0 /\ Messages(Tail(s)) = 0
      BY <2>1, <2>2 DEF Messages
    <2> QED
      BY <1>2, <2>3
  <1>3. CASE Head(s).kind # "close"
    <2>1. ASSUME HoldsClose(s)
          PROVE  HoldsClose(Tail(s))
      <3>1. PICK i \in 1..Len(s) : s[i].kind = "close"
        BY <1>1, <2>1 DEF HoldsClose
      <3>2. i # 1
        BY <1>1, <1>3, <3>1
      <3>3. i - 1 \in 1..Len(Tail(s)) /\ Tail(s)[i - 1] = s[(i - 1) + 1]
        BY <1>1, <3>1, <3>2
      <3>4. i - 1 \in DOMAIN Tail(s) /\ Tail(s)[i - 1] = s[i]
        BY <1>1, <3>3
      <3> QED
        BY <3>1, <3>4 DEF HoldsClose
    <2>2. HoldsClose(s) <=> HoldsClose(Tail(s))
      BY <2>1, CloseTail
    <2> QED
      BY <1>1, <1>3, <2>2 DEF Messages
  <1> QED
    BY <1>2, <1>3

LEMMA MessagesPositive ==
    ASSUME NEW s \in Seq(Frame), s # <<>>, CloseIsLast(s), Head(s).kind # "close"
    PROVE  Messages(s) \in Nat \ {0}
  <1>1. /\ Head(s) = s[1] /\ Len(s) \in Nat \ {0} /\ DOMAIN s = 1..Len(s)
    BY HeadTail
  <1>2. CASE HoldsClose(s)
    <2>1. PICK i \in 1..Len(s) : s[i].kind = "close"
      BY <1>1, <1>2 DEF HoldsClose
    <2>2. i = Len(s) /\ i # 1
      BY <1>1, <2>1 DEF CloseIsLast
    <2>3. Messages(s) = Len(s) - 1
      BY <1>2 DEF Messages
    <2> QED
      BY <1>1, <2>1, <2>2, <2>3
  <1>3. CASE ~HoldsClose(s)
    <2>1. Messages(s) = Len(s)
      BY <1>1, <1>3 DEF Messages
    <2> QED
      BY <1>1, <2>1
  <1> QED
    BY <1>2, <1>3

---------------------------------------------------------------------------
(* A close that is reported was read, or the connection is reset. *)

LEMMA ReportOther ==
    ASSUME ReportInv, NEW p \in Peer, ReportAt(p)',
           connection = "reset" => connection' = "reset",
           \A r \in Peer \ {p} :
               /\ is_close_received'[r] = is_close_received[r]
               /\ reader'[r] = reader[r]
               /\ closes'[r] = closes[r]
    PROVE  ReportInv'
  BY DEF ReportInv, ReportAt

\* Whatever call_handler does, only p's own count changes.
LEMMA HandlerOther ==
    ASSUME HistoryOK, NEW p \in Peer, call_handler(p, closes)
    PROVE  \A r \in Peer \ {p} : closes'[r] = closes[r]
  BY DEF call_handler, HistoryOK

LEMMA ReportStep ==
    ASSUME TypeOK, LoopInv, ReportInv, [Next]_vars
    PROVE  ReportInv'
  <1>t. /\ reader \in [Peer -> {"off", "reading", "ended"}]
        /\ is_close_received \in [Peer -> BOOLEAN]
        /\ closes \in [Peer -> Nat] /\ HistoryOK
        /\ connection \in {"up", "reset"}
    BY DEF TypeOK, ControlOK, HistoryOK
  <1>1. ASSUME UNCHANGED <<is_close_received, reader, closes>>,
               connection = "reset" => connection' = "reset"
        PROVE  ReportInv'
    BY <1>1 DEF ReportInv, ReportAt
  <1>2. CASE Reset
    BY <1>1, <1>2 DEF Reset, flags, history
  <1>3. ASSUME NEW p \in Peer, User(p)
        PROVE  ReportInv'
    <2>1. CASE send_message(p) \/ send_close(p) \/ stop(p)
      BY <1>1, <2>1 DEF send_message, send_close, stop, history
    <2>2. CASE start_messaging(p)
      <3>1. /\ ~is_started[p]
            /\ reader' = [reader EXCEPT ![p] = "reading"]
            /\ UNCHANGED <<is_close_received, connection, closes>>
        BY <2>2 DEF start_messaging, history
      <3>2. ~is_close_received[p]
        BY <3>1 DEF LoopInv, LoopAt, ReportInv, ReportAt
      <3> QED
        BY <1>t, <3>1, <3>2 DEF ReportInv, ReportAt
    <2> QED
      BY <1>3, <2>1, <2>2 DEF User
  <1>4. ASSUME NEW p \in Peer, Completion(p)
        PROVE  ReportInv'
    <2>1. CASE \/ HandshakeReady(p) \/ HandshakeFail(p) \/ Transmit(p)
               \/ MessageSent(p) \/ ReadMessage(p)
      BY <1>1, <2>1 DEF HandshakeReady, HandshakeFail, Transmit, MessageSent,
                        ReadMessage, flags, history
    <2>2. CASE CloseSent(p)
      <3>1. UNCHANGED <<is_close_received, reader, connection>>
        BY <2>2 DEF CloseSent, flags
      <3>2. CASE UNCHANGED closes
        BY <1>1, <3>1, <3>2
      <3>3. CASE is_close_received[p] /\ call_handler(p, closes)
        <4>1. ReportAt(p)'
          BY <1>t, <3>1, <3>3 DEF ReportInv, ReportAt
        <4> QED
          BY <1>t, <3>1, <3>3, <4>1, HandlerOther, ReportOther
      <3> QED
        BY <2>2, <3>2, <3>3 DEF CloseSent
    <2>3. CASE MessageWriteFails(p) \/ CloseWriteFails(p)
      <3>1. UNCHANGED <<is_close_received, reader, connection>>
        BY <2>3 DEF MessageWriteFails, CloseWriteFails
      <3>2. \/ UNCHANGED closes
            \/ connection = "reset" /\ call_handler(p, closes)
        BY <2>3 DEF MessageWriteFails, CloseWriteFails, LoopCatch, WriteError
      <3>3. CASE UNCHANGED closes
        BY <1>1, <3>1, <3>3
      <3>4. CASE connection = "reset" /\ call_handler(p, closes)
        <4>1. ReportAt(p)'
          BY <1>t, <3>1, <3>4 DEF ReportInv, ReportAt
        <4> QED
          BY <1>t, <3>1, <3>4, <4>1, HandlerOther, ReportOther
      <3> QED
        BY <3>2, <3>3, <3>4
    <2>4. CASE ReadClose(p)
      <3>1. /\ reader' = [reader EXCEPT ![p] = "ended"]
            /\ is_close_received' = [is_close_received EXCEPT ![p] = TRUE]
            /\ UNCHANGED connection
            /\ UNCHANGED closes \/ call_handler(p, closes)
        BY <2>4 DEF ReadClose
      <3>2. ReportAt(p)'
        BY <1>t, <3>1 DEF ReportAt
      <3>3. \A r \in Peer \ {p} : closes'[r] = closes[r]
        BY <1>t, <3>1, HandlerOther
      <3> QED
        BY <1>t, <3>1, <3>2, <3>3, ReportOther
    <2>5. CASE ReadFails(p)
      <3>1. /\ reader' = [reader EXCEPT ![p] = "ended"]
            /\ UNCHANGED <<is_close_received, connection, closes>>
        BY <2>5 DEF ReadFails, flags
      <3> QED
        BY <1>t, <3>1 DEF ReportInv, ReportAt
    <2> QED
      BY <1>4, <2>1, <2>2, <2>3, <2>4, <2>5 DEF Completion
  <1>5. CASE UNCHANGED vars
    BY <1>1, <1>5 DEF vars, flags, history
  <1> QED
    BY <1>2, <1>3, <1>4, <1>5 DEF Next

LEMMA ReportInit == Init => ReportInv
<1> SUFFICES ASSUME Init, NEW p \in Peer PROVE ReportAt(p)
  BY DEF ReportInv
<1>1. is_close_received[p] = FALSE /\ closes[p] = 0
  BY DEF Init
<1> QED
  BY <1>1 DEF ReportAt

---------------------------------------------------------------------------
(* The queue: what a step may do to it, and the numbers in it. *)

QueueKept(p) ==
    /\ sent'[p] = sent[p]
    /\ send_queue'[p] = send_queue[p]
    /\ writer'[p] = "message_done" <=> writer[p] = "message_done"
QueuePushed(p) ==
    /\ sent'[p] = sent[p] + 1
    /\ send_queue'[p] = Append(send_queue[p], sent[p] + 1)
    /\ writer'[p] = "message_done" <=> writer[p] = "message_done"
QueuePopped(p) ==
    /\ writer[p] = "message_done" /\ writer'[p] # "message_done"
    /\ sent'[p] = sent[p]
    /\ send_queue'[p] = Tail(send_queue[p])
QueueWritten(p) ==
    /\ writer[p] = "message" /\ writer'[p] = "message_done"
    /\ sent'[p] = sent[p]
    /\ send_queue'[p] = send_queue[p]

\* A loop is begun only where the writer is idle.
LEMMA StartWriter ==
    ASSUME TypeOK, LoopInv, NEW r \in Peer, NEW kind, NEW queue,
           UNCHANGED <<writer, is_send_queue_running>>
             \/ start_send_queue(r, kind, queue),
           NEW p \in Peer
    PROVE  writer'[p] = "message_done" <=> writer[p] = "message_done"
  <1>1. CASE UNCHANGED <<writer, is_send_queue_running>>
    BY <1>1
  <1>2. CASE ~is_send_queue_running[r] /\ EnterLoop(r, LoopTurn(kind, queue))
    <2>1. writer[r] = "idle"
      BY <1>2 DEF LoopInv, LoopAt
    <2>2. LoopTurn(kind, queue) # "message_done"
      BY LoopTurnType
    <2>. DEFINE turn == LoopTurn(kind, queue)
    <2>3. EnterLoop(r, turn) /\ turn # "message_done"
      BY <1>2, <2>2
    <2>. HIDE DEF turn
    <2> QED
      BY <2>1, <2>3, EnterEffect
  <1> QED
    BY <1>1, <1>2, StartEffect

LEMMA QueueStep ==
    ASSUME TypeOK, LoopInv, [Next]_vars, NEW p \in Peer
    PROVE  \/ /\ QueueKept(p) \/ QueuePushed(p) \/ QueuePopped(p)
              /\ ~(writer[p] = "message" /\ Transmit(p))
           \/ QueueWritten(p) /\ Transmit(p)
  <1>t. /\ writer \in [Peer -> WriterState]
        /\ send_queue \in [Peer -> Seq(Nat)]
        /\ sent \in [Peer -> Nat]
    BY DEF TypeOK, TransferOK, HistoryOK
  <1>w. ASSUME writer[p] = "message" /\ Transmit(p)
        PROVE  QueueWritten(p)
    BY <1>t, <1>w DEF Transmit, QueueWritten, history
  <1> SUFFICES ASSUME ~(writer[p] = "message" /\ Transmit(p))
               PROVE  QueueKept(p) \/ QueuePushed(p) \/ QueuePopped(p)
    BY <1>w
  <1>1. CASE UNCHANGED <<sent, send_queue, writer>>
    BY <1>1 DEF QueueKept
  <1>2. ASSUME NEW r \in Peer, User(r)
        PROVE  QueueKept(p) \/ QueuePushed(p)
    <2>1. writer'[p] = "message_done" <=> writer[p] = "message_done"
      <3>1. CASE send_message(r)
        BY <3>1, StartWriter DEF send_message
      <3>2. CASE send_close(r)
        BY <3>2, StartWriter DEF send_close
      <3>3. CASE start_messaging(r)
        BY <3>3, StartWriter DEF start_messaging
      <3>4. CASE stop(r)
        BY <3>4 DEF stop
      <3> QED
        BY <1>2, <3>1, <3>2, <3>3, <3>4 DEF User
    <2>2. CASE send_message(r)
      <3>1. /\ sent' = [sent EXCEPT ![r] = @ + 1]
            /\ send_queue' = [send_queue EXCEPT ![r] = Append(@, sent[r] + 1)]
        BY <2>2 DEF send_message
      <3>2. CASE r = p
        BY <1>t, <2>1, <3>1, <3>2 DEF QueuePushed
      <3>3. CASE r # p
        BY <1>t, <2>1, <3>1, <3>3 DEF QueueKept
      <3> QED
        BY <3>2, <3>3
    <2>3. CASE send_close(r) \/ start_messaging(r) \/ stop(r)
      BY <2>1, <2>3 DEF send_close, start_messaging, stop, history, QueueKept
    <2> QED
      BY <1>2, <2>2, <2>3 DEF User
  <1>3. ASSUME NEW r \in Peer, Completion(r)
        PROVE  QueueKept(p) \/ QueuePopped(p)
    <2>1. CASE HandshakeReady(r) \/ HandshakeFail(r) \/ ReadMessage(r) \/ ReadFails(r)
      BY <1>1, <2>1 DEF HandshakeReady, HandshakeFail, ReadMessage, ReadFails, history,
                        QueueKept
    <2>2. CASE Transmit(r)
      <3>1. /\ UNCHANGED <<sent, send_queue>>
            /\ writer[r] \in {"message", "close"}
            /\ \E w \in {"message_done", "close_done"} : writer' = [writer EXCEPT ![r] = w]
        BY <2>2 DEF Transmit, history
      <3>2. CASE r # p
        BY <1>t, <3>1, <3>2 DEF QueueKept
      <3>3. CASE r = p
        <4>1. writer[p] = "close" /\ writer' = [writer EXCEPT ![p] = "close_done"]
          BY <2>2, <3>1, <3>3 DEF Transmit
        <4> QED
          BY <1>t, <3>1, <4>1 DEF QueueKept
      <3> QED
        BY <3>2, <3>3
    <2>3. CASE MessageSent(r)
      <3>1. /\ writer[r] = "message_done"
            /\ send_queue' = [send_queue EXCEPT ![r] = Tail(@)]
            /\ EnterLoop(r, LoopTurn(pending_control_frame[r], send_queue'[r]))
            /\ UNCHANGED sent
        BY <2>3 DEF MessageSent, history
      <3>2. /\ writer'[r] # "message_done"
            /\ \A s \in Peer \ {r} : writer'[s] = writer[s]
        BY <3>1, EnterEffect, LoopTurnType
      <3>3. CASE r = p
        BY <1>t, <3>1, <3>2, <3>3 DEF QueuePopped
      <3>4. CASE r # p
        BY <1>t, <3>1, <3>2, <3>4 DEF QueueKept
      <3> QED
        BY <3>3, <3>4
    <2>4. CASE CloseSent(r) \/ MessageWriteFails(r) \/ CloseWriteFails(r)
      <3>1. /\ UNCHANGED <<sent, send_queue>>
            /\ writer[r] # "message_done"
            /\ \E w \in {"idle", "closed"} : writer' = [writer EXCEPT ![r] = w]
        BY <2>4 DEF CloseSent, MessageWriteFails, CloseWriteFails, LoopCatch, history
      <3> QED
        BY <1>t, <3>1 DEF QueueKept
    <2>5. CASE ReadClose(r)
      <3>1. /\ UNCHANGED <<sent, send_queue>>
            /\ \/ UNCHANGED <<writer, is_send_queue_running>>
               \/ start_send_queue(r, "CLOSE", send_queue[r])
        BY <2>5 DEF ReadClose
      <3> QED
        BY <3>1, StartWriter DEF QueueKept
    <2> QED
      BY <1>3, <2>1, <2>2, <2>3, <2>4, <2>5 DEF Completion
  <1>4. Reset \/ UNCHANGED vars => UNCHANGED <<sent, send_queue, writer>>
    BY DEF Reset, vars, history
  <1> QED
    BY <1>1, <1>2, <1>3, <1>4 DEF Next

\* The numbers in the queue stay a segment that ends with the last one sent,
\* and only the end of a write moves the count of what has gone.
LEMMA NumberStep ==
    ASSUME TypeOK, NEW p \in Peer, QueueAt(p),
           QueueKept(p) \/ QueuePushed(p) \/ QueuePopped(p)
    PROVE  QueueAt(p)' /\ Gone(p)' = Gone(p)
  <1>. DEFINE s == send_queue[p]
              n == sent[p]
  <1>t. s \in Seq(Nat) /\ n \in Nat /\ Len(s) \in Nat
    BY DEF TypeOK, TransferOK, HistoryOK
  <1>q. Len(s) <= n /\ \A i \in 1..Len(s) : s[i] = n - Len(s) + i
    BY <1>t DEF QueueAt
  <1>1. CASE QueueKept(p)
    BY <1>1 DEF QueueKept, QueueAt, Gone
  <1>2. CASE QueuePushed(p)
    <2>. DEFINE t == send_queue'[p]
    <2>1. /\ t \in Seq(Nat) /\ Len(t) = Len(s) + 1
          /\ \A i \in 1..Len(s) : t[i] = s[i]
          /\ t[Len(s) + 1] = n + 1
      BY <1>t, <1>2, PushBack DEF QueuePushed
    <2>2. sent'[p] = n + 1 /\ (writer'[p] = "message_done" <=> writer[p] = "message_done")
      BY <1>2 DEF QueuePushed
    <2>. HIDE DEF s, t, n
    <2>3. Len(t) <= n + 1
      BY <1>t, <1>q, <2>1
    <2>4. ASSUME NEW i \in 1..(Len(s) + 1)
          PROVE  t[i] = (n + 1) - Len(t) + i
      <3>1. CASE i = Len(s) + 1
        BY <1>t, <2>1, <3>1
      <3>2. CASE i # Len(s) + 1
        <4>1. i \in 1..Len(s)
          BY <1>t, <2>4, <3>2
        <4> QED
          BY <1>t, <1>q, <2>1, <4>1
      <3> QED
        BY <3>1, <3>2
    <2>5. (n + 1) - Len(t) = n - Len(s)
      BY <1>t, <2>1
    <2>6. DOMAIN t = 1..(Len(s) + 1)
      BY <2>1
    <2> QED
      BY <2>2, <2>3, <2>4, <2>5, <2>6 DEF QueueAt, Gone, s, t, n
  <1>3. CASE QueuePopped(p)
    <2>. DEFINE t == send_queue'[p]
    <2>1. /\ sent'[p] = n
          /\ writer[p] = "message_done" /\ writer'[p] # "message_done"
          /\ t = Tail(s)
      BY <1>3 DEF QueuePopped
    <2>2. s # <<>>
      BY <2>1 DEF TypeOK, TransferOK
    <2>3. /\ t \in Seq(Nat) /\ Len(t) = Len(s) - 1 /\ Len(s) \in Nat \ {0}
          /\ \A i \in 1..Len(t) : t[i] = s[i + 1]
      BY <1>t, <2>1, <2>2, HeadTail
    <2>. HIDE DEF s, t, n
    <2>4. Len(t) <= n /\ n - Len(t) = n - Len(s) + 1 /\ DOMAIN t = 1..Len(t)
      BY <1>t, <1>q, <2>3
    <2>5. ASSUME NEW i \in 1..Len(t)
          PROVE  t[i] = n - Len(t) + i
      <3>1. i + 1 \in 1..Len(s)
        BY <2>3, <2>5
      <3> QED
        BY <1>t, <1>q, <2>3, <3>1
    <2>6. n - Len(t) + 0 = n - Len(s) + 1
      BY <1>t, <2>3
    <2> QED
      BY <2>1, <2>4, <2>5, <2>6 DEF QueueAt, Gone, s, t, n
  <1> QED
    BY <1>1, <1>2, <1>3

LEMMA NumberWritten ==
    ASSUME TypeOK, NEW p \in Peer, QueueAt(p), QueueWritten(p)
    PROVE  /\ QueueAt(p)' /\ Gone(p)' = Gone(p) + 1
           /\ Head(send_queue[p]) = Gone(p) + 1
           /\ Gone(p) \in Int
  <1>1. /\ send_queue[p] # <<>> /\ send_queue[p] \in Seq(Nat) /\ sent[p] \in Nat
    BY DEF TypeOK, TransferOK, HistoryOK, QueueWritten
  <1>2. /\ Head(send_queue[p]) = send_queue[p][1] /\ Len(send_queue[p]) \in Nat \ {0}
        /\ DOMAIN send_queue[p] = 1..Len(send_queue[p])
    BY <1>1, HeadTail
  <1>3. send_queue[p][1] = sent[p] - Len(send_queue[p]) + 1
    BY <1>2 DEF QueueAt
  <1>4. Gone(p) = sent[p] - Len(send_queue[p])
    BY <1>1, <1>2 DEF QueueWritten, Gone
  <1>5. Gone(p)' = sent[p] - Len(send_queue[p]) + 1
    BY <1>1, <1>2 DEF QueueWritten, Gone
  <1>6. QueueAt(p)'
    BY DEF QueueWritten, QueueAt
  <1> QED
    BY <1>1, <1>2, <1>3, <1>4, <1>5, <1>6

\* What has gone was sent: the message that is being written is still queued.
LEMMA GoneBound ==
    ASSUME TypeOK, NEW p \in Peer
    PROVE  Gone(p) \in Int /\ Gone(p) <= sent[p]
  <1>1. send_queue[p] \in Seq(Nat) /\ sent[p] \in Nat /\ Len(send_queue[p]) \in Nat
    BY DEF TypeOK, TransferOK, HistoryOK
  <1>2. CASE writer[p] = "message_done"
    <2>1. Len(send_queue[p]) \in Nat \ {0}
      BY <1>1, <1>2, HeadTail DEF TypeOK, TransferOK
    <2>2. Gone(p) = sent[p] - Len(send_queue[p]) + 1
      BY <1>2 DEF Gone
    <2> QED
      BY <1>1, <2>1, <2>2
  <1>3. CASE writer[p] # "message_done"
    <2>1. Gone(p) = sent[p] - Len(send_queue[p])
      BY <1>1, <1>3 DEF Gone
    <2> QED
      BY <1>1, <2>1
  <1> QED
    BY <1>2, <1>3

---------------------------------------------------------------------------
(* The wire goes on where the reader is, and the queue where the wire ends. *)

LEMMA StoppedStays ==
    ASSUME TypeOK, [Next]_vars, NEW p \in Peer, is_stopped[p]
    PROVE  is_stopped'[p]
  <1>t. is_stopped \in [Peer -> BOOLEAN]
    BY DEF TypeOK, ControlOK
  <1>1. CASE UNCHANGED is_stopped
    BY <1>1
  <1>2. ASSUME NEW r \in Peer, User(r)
        PROVE  is_stopped'[p]
    <2>1. CASE stop(r)
      BY <1>t, <2>1 DEF stop
    <2> QED
      BY <1>1, <1>2, <2>1 DEF User, send_message, send_close, start_messaging
  <1>3. ASSUME NEW r \in Peer, Completion(r)
        PROVE  is_stopped'[p]
    BY <1>1, <1>3 DEF Completion, HandshakeReady, HandshakeFail, Transmit, MessageSent,
                      CloseSent, MessageWriteFails, CloseWriteFails, ReadMessage,
                      ReadClose, ReadFails, flags
  <1>4. Reset \/ UNCHANGED vars => UNCHANGED is_stopped
    BY DEF Reset, vars, flags
  <1> QED
    BY <1>1, <1>2, <1>3, <1>4 DEF Next

\* The numbers on the wire w, behind the r messages that were read.
LEMMA NumberedAppend ==
    ASSUME NEW w \in Seq(Frame), NEW f \in Frame, NEW r \in Nat, Numbered(w, r),
           f.kind = "message" => f.id = r + Len(w) + 1
    PROVE  Numbered(Append(w, f), r)
  <1>1. /\ DOMAIN Append(w, f) = 1..(Len(w) + 1) /\ DOMAIN w = 1..Len(w)
        /\ Len(w) \in Nat
        /\ Append(w, f)[Len(w) + 1] = f
        /\ \A i \in 1..Len(w) : Append(w, f)[i] = w[i]
    BY PushBack
  <1>2. ASSUME NEW i \in 1..(Len(w) + 1), Append(w, f)[i].kind = "message"
        PROVE  Append(w, f)[i].id = r + i
    <2>1. CASE i = Len(w) + 1
      BY <1>1, <1>2, <2>1
    <2>2. CASE i # Len(w) + 1
      <3>1. i \in 1..Len(w)
        BY <1>1, <2>2
      <3> QED
        BY <1>1, <1>2, <3>1 DEF Numbered
    <2> QED
      BY <2>1, <2>2
  <1> QED
    BY <1>1, <1>2 DEF Numbered

LEMMA NumberedTail ==
    ASSUME NEW w \in Seq(Frame), w # <<>>, NEW r \in Nat, Numbered(w, r)
    PROVE  /\ Numbered(Tail(w), r + 1)
           /\ Head(w).kind = "message" => Head(w).id = r + 1
  <1>1. /\ Head(w) = w[1] /\ Len(w) \in Nat \ {0} /\ Len(Tail(w)) = Len(w) - 1
        /\ Tail(w) \in Seq(Frame)
        /\ \A i \in 1..Len(Tail(w)) : Tail(w)[i] = w[i + 1]
    BY HeadTail
  <1>2. DOMAIN w = 1..Len(w) /\ DOMAIN Tail(w) = 1..Len(Tail(w))
    BY <1>1
  <1>3. ASSUME NEW i \in DOMAIN Tail(w), Tail(w)[i].kind = "message"
        PROVE  Tail(w)[i].id = (r + 1) + i
    <2>1. i + 1 \in DOMAIN w /\ Tail(w)[i] = w[i + 1] /\ i \in Nat
      BY <1>1, <1>2, <1>3
    <2>2. w[i + 1].id = r + (i + 1)
      BY <1>3, <2>1 DEF Numbered
    <2> QED
      BY <2>1, <2>2
  <1>4. 1 \in DOMAIN w
    BY <1>1, <1>2
  <1> QED
    BY <1>1, <1>3, <1>4 DEF Numbered

\* What a reader that was stopped or not has been given stays counted from 1.
LEMMA ReceivedStep ==
    ASSUME NEW r \in Seq(Nat), \A i \in DOMAIN r : r[i] = i
    PROVE  LET t == Append(r, Len(r) + 1)
           IN  (\A i \in DOMAIN t : t[i] = i) /\ Len(t) = Len(r) + 1
  <1>. DEFINE t == Append(r, Len(r) + 1)
  <1>1. /\ DOMAIN t = 1..(Len(r) + 1) /\ DOMAIN r = 1..Len(r)
        /\ Len(r) \in Nat /\ Len(t) = Len(r) + 1
        /\ t[Len(r) + 1] = Len(r) + 1
        /\ \A i \in 1..Len(r) : t[i] = r[i]
    BY PushBack
  <1>. HIDE DEF t
  <1>2. ASSUME NEW i \in 1..(Len(r) + 1)
        PROVE  t[i] = i
    <2>1. CASE i = Len(r) + 1
      BY <1>1, <2>1
    <2>2. CASE i # Len(r) + 1
      <3>1. i \in 1..Len(r)
        BY <1>1, <2>2
      <3> QED
        BY <1>1, <3>1
    <2> QED
      BY <2>1, <2>2
  <1> QED
    BY <1>1, <1>2 DEF t

LEMMA StreamStep ==
    ASSUME TypeOK, LoopInv, FrameInv, OrderInv, [Next]_vars, NEW p \in Peer
    PROVE  QueueAt(p)' /\ StreamAt(p)'
  <1>. DEFINE q == Other[p]
              r == received[q]
              w == wire[p]
  <1>t. /\ q \in Peer /\ r \in Seq(Nat) /\ Len(r) \in Nat
        /\ w \in Seq(Frame) /\ Len(w) \in Nat
    BY OtherPeer DEF TypeOK, TransferOK, HistoryOK
  <1>o. QueueAt(p) /\ StreamAt(p) /\ FrameAt(p)
    BY DEF OrderInv, FrameInv
  <1>s. is_stopped[q] => is_stopped'[q]
    BY <1>t, StoppedStays
  \* What has to be shown of the stream.
  <1>g. StreamAt(p)' <=>
            /\ \A i \in DOMAIN received'[q] : received'[q][i] = i
            /\ ~is_stopped'[q] =>
                 /\ Numbered(wire'[p], Len(received'[q]))
                 /\ connection' = "up" \/ is_close_received'[q] =>
                      Len(received'[q]) + Messages(wire'[p]) = Gone(p)'
    BY DEF StreamAt, Numbered, Messages, HoldsClose
  <1>e. Numbered(<<>>, Len(r)) /\ Messages(<<>>) = 0
    BY DEF Numbered, Messages, HoldsClose
  <1>1. CASE QueueWritten(p) /\ Transmit(p)
    <2>. DEFINE f == MessageFrame(Head(send_queue[p]))
    <2>1. /\ wire'[p] = Append(w, f)
          /\ received'[q] = r /\ is_close_received'[q] = is_close_received[q]
          /\ connection = "up" /\ connection' = "up"
          /\ is_stopped'[q] = is_stopped[q]
      BY <1>1 DEF TypeOK, TransferOK, Transmit, QueueWritten, flags, history
    <2>2. /\ QueueAt(p)' /\ Gone(p)' = Gone(p) + 1
          /\ Head(send_queue[p]) = Gone(p) + 1 /\ Gone(p) \in Int
      BY <1>1, <1>o, NumberWritten
    <2>3. send_queue[p] # <<>> /\ send_queue[p] \in Seq(Nat)
      BY <1>1 DEF TypeOK, TransferOK, QueueWritten
    <2>4. Head(send_queue[p]) \in Nat
      BY <2>3, HeadTail
    <2>5. f \in Frame /\ f.kind = "message" /\ f.id = Head(send_queue[p])
      BY <2>4, FrameType
    <2>6. ~HoldsClose(w)
      BY <1>1, <1>o DEF QueueWritten, FrameAt, CloseWritten
    <2>. HIDE DEF f
    <2>7. Messages(w) = Len(w) /\ Messages(Append(w, f)) = Len(w) + 1
      BY <1>t, <2>5, <2>6, MessagesAppend
    <2>8. ASSUME ~is_stopped[q]
          PROVE  /\ Numbered(Append(w, f), Len(r))
                 /\ Len(r) + (Len(w) + 1) = Gone(p) + 1
      <3>1. Len(r) + Len(w) = Gone(p) /\ Numbered(w, Len(r))
        BY <1>o, <2>1, <2>7, <2>8 DEF StreamAt
      <3>2. f.id = Len(r) + Len(w) + 1
        BY <2>2, <2>5, <3>1
      <3>3. Len(r) + (Len(w) + 1) = (Len(r) + Len(w)) + 1
        <4>1. \A a, b \in Nat : a + (b + 1) = (a + b) + 1
          OBVIOUS
        <4> QED
          BY <1>t, <4>1
      <3> QED
        BY <1>t, <2>5, <3>1, <3>2, <3>3, NumberedAppend
    <2>9. \A i \in DOMAIN r : r[i] = i
      BY <1>o DEF StreamAt
    <2> QED
      BY <1>g, <2>1, <2>2, <2>7, <2>8, <2>9
  <1>2. CASE /\ QueueKept(p) \/ QueuePushed(p) \/ QueuePopped(p)
             /\ ~(writer[p] = "message" /\ Transmit(p))
    <2>1. QueueAt(p)' /\ Gone(p)' = Gone(p)
      BY <1>2, <1>o, NumberStep
    <2>2. \A i \in DOMAIN r : r[i] = i
      BY <1>o DEF StreamAt
    <2>3. ~is_stopped'[q] =>
            /\ Numbered(w, Len(r))
            /\ connection = "up" \/ is_close_received[q] => Len(r) + Messages(w) = Gone(p)
      BY <1>o, <1>s DEF StreamAt
    <2>4. CASE WireKept(p)
      <3>1. /\ wire'[p] = w /\ received'[q] = r /\ connection' = connection
            /\ is_close_received'[q] = is_close_received[q]
        BY <2>4 DEF WireKept
      <3> QED
        BY <1>g, <2>1, <2>2, <2>3, <3>1
    <2>5. CASE WireWritten(p)
      <3>1. PICK f \in Frame :
              /\ wire'[p] = Append(w, f) /\ f.kind = "close"
              /\ writer[p] \in {"message", "close"}
              /\ received'[q] = r /\ connection' = connection
              /\ is_close_received'[q] = is_close_received[q]
        BY <1>2, <2>5 DEF WireWritten
      <3>2. ~HoldsClose(w)
        BY <1>o, <3>1 DEF FrameAt, CloseWritten
      <3>3. Messages(Append(w, f)) = Messages(w)
        BY <1>t, <3>1, <3>2, MessagesAppend
      <3>4. Numbered(w, Len(r)) => Numbered(Append(w, f), Len(r))
        BY <1>t, <3>1, NumberedAppend
      <3> QED
        BY <1>g, <2>1, <2>2, <2>3, <3>1, <3>3, <3>4
    <2>6. CASE WireRead(p)
      <3>1. w # <<>> /\ wire'[p] = Tail(w) /\ connection' = connection
        BY <2>6 DEF WireRead
      <3>2. CloseIsLast(w) /\ connection # "reset"
        BY <1>o, <3>1 DEF FrameAt
      <3>c. connection = "up"
        BY <3>2 DEF TypeOK, ControlOK
      <3>3. CASE /\ Head(w).kind = "message"
                 /\ received'[q] = IF is_stopped[q] THEN r ELSE Append(r, Head(w).id)
        <4>1. CASE is_stopped[q]
          BY <1>g, <1>s, <2>1, <2>2, <3>3, <4>1
        <4>2. CASE ~is_stopped[q]
          <5>1. Numbered(w, Len(r)) /\ Len(r) + Messages(w) = Gone(p)
            BY <1>o, <3>c, <4>2 DEF StreamAt
          <5>2. Numbered(Tail(w), Len(r) + 1) /\ Head(w).id = Len(r) + 1
            BY <1>t, <3>1, <3>3, <5>1, NumberedTail
          <5>3. received'[q] = Append(r, Len(r) + 1)
            BY <3>3, <4>2, <5>2
          <5>4. /\ \A i \in DOMAIN received'[q] : received'[q][i] = i
                /\ Len(received'[q]) = Len(r) + 1
            BY <1>t, <2>2, <5>3, ReceivedStep
          <5>5. Messages(Tail(w)) = Messages(w) - 1 /\ Messages(w) \in Int
            BY <1>t, <3>1, <3>2, <3>3, MessagesTail
          <5>6. (Len(r) + 1) + (Messages(w) - 1) = Gone(p)
            BY <1>t, <5>1, <5>5
          <5> QED
            BY <1>g, <2>1, <3>1, <5>2, <5>4, <5>5, <5>6
        <4> QED
          BY <4>1, <4>2
      <3>4. CASE Head(w).kind = "close" /\ received'[q] = r
        <4>1. Tail(w) = <<>>
          BY <1>t, <3>1, <3>2, <3>4, CloseTail
        <4>2. Messages(w) = 0
          BY <1>t, <3>1, <3>2, <3>4, MessagesTail
        <4> QED
          BY <1>e, <1>g, <2>1, <2>2, <2>3, <3>1, <3>4, <3>c, <4>1, <4>2
      <3> QED
        BY <2>6, <3>3, <3>4 DEF WireRead
    <2>7. CASE WireLost(p)
      <3>1. /\ wire'[p] = <<>> /\ received'[q] = r /\ connection' = "reset"
            /\ is_close_received'[q] = is_close_received[q]
        BY <2>7 DEF WireLost
      <3>2. is_close_received[q] => w = <<>>
        BY <1>o DEF FrameAt
      <3> QED
        BY <1>e, <1>g, <2>1, <2>2, <2>3, <3>1, <3>2
    <2> QED
      BY <2>4, <2>5, <2>6, <2>7, WireStep
  <1> QED
    BY <1>1, <1>2, QueueStep

LEMMA OrderInit == Init => OrderInv
<1> SUFFICES ASSUME Init, NEW p \in Peer PROVE QueueAt(p) /\ StreamAt(p)
  BY DEF OrderInv
<1>1. /\ send_queue[p] = <<>> /\ wire[p] = <<>> /\ received[Other[p]] = <<>>
      /\ sent[p] = 0 /\ writer[p] = "idle"
  BY OtherPeer DEF Init
<1>2. QueueAt(p)
  BY <1>1 DEF QueueAt
<1>3. Gone(p) = 0
  <2>1. sent[p] = 0 /\ Len(send_queue[p]) = 0 /\ writer[p] # "message_done"
    BY <1>1
  <2>2. Gone(p) = 0 - 0 + 0
    BY <2>1 DEF Gone
  <2> QED
    BY <2>2
<1>4. Numbered(<<>>, 0) /\ Messages(<<>>) = 0
  BY DEF Numbered, Messages, HoldsClose
<1>5. StreamAt(p)
  BY <1>1, <1>3, <1>4 DEF StreamAt
<1> QED
  BY <1>2, <1>5

(* Everything the endpoints keep to holds in every state: the loop flag and
   the loop agree, no wake-up is lost, a close ends the stream, is reported
   after it was read, and numbers pass from queue to wire to reader in order. *)
THEOREM Invariance == Spec => []IInv
<1>1. Init => LoopInv /\ NoLostWakeup /\ FrameInv /\ ReportInv /\ OrderInv
  <2>1. Init => NoLostWakeup
    BY DEF Init, NoLostWakeup
  <2> QED
    BY <2>1, LoopInit, FrameInit, ReportInit, OrderInit
<1>2. TypeOK /\ IInv /\ [Next]_vars
        => LoopInv' /\ NoLostWakeup' /\ FrameInv' /\ ReportInv' /\ OrderInv'
  <2> SUFFICES ASSUME IInv, [Next]_vars
               PROVE  LoopInv' /\ NoLostWakeup' /\ FrameInv' /\ ReportInv' /\ OrderInv'
    OBVIOUS
  <2>1. TypeOK /\ LoopInv /\ NoLostWakeup /\ FrameInv /\ ReportInv /\ OrderInv
    BY DEF IInv
  <2>2. OrderInv'
    BY <2>1, StreamStep DEF OrderInv
  <2> QED
    BY <2>1, <2>2, LoopStep, WakeupStep, FrameStep, ReportStep
<1> QED
  BY <1>1, <1>2, TypeCorrect, PTL DEF Spec, IInv

(* An endpoint that handled a close frame and was not stopped has been given
   every message its peer had transmitted: the close that ends the read loop
   is behind all of them. *)
THEOREM CloseComesLast == Spec => []CloseAfterMessages
<1>1. IInv => CloseAfterMessages
  <2> SUFFICES ASSUME IInv, NEW p \in Peer, is_close_received[p], ~is_stopped[p]
               PROVE  Len(received[p]) = sent[Other[p]] - Len(send_queue[Other[p]])
    BY DEF CloseAfterMessages
  <2>. DEFINE q == Other[p]
  <2>1. q \in Peer /\ Other[q] = p
    BY OtherPeer
  <2>2. /\ StreamAt(q) /\ FrameAt(q)
        /\ sent[q] \in Nat /\ send_queue[q] \in Seq(Nat) /\ received[p] \in Seq(Nat)
    BY <2>1 DEF IInv, OrderInv, FrameInv, TypeOK, TransferOK, HistoryOK
  <2>3. wire[q] = <<>> /\ CloseWritten(q)
    BY <2>1, <2>2 DEF FrameAt
  <2>4. Messages(<<>>) = 0
    BY DEF Messages, HoldsClose
  <2>5. Len(received[p]) + Messages(wire[q]) = Gone(q)
    BY <2>1, <2>2 DEF StreamAt
  <2>6. Gone(q) = sent[q] - Len(send_queue[q])
    BY <2>2, <2>3 DEF Gone, CloseWritten
  <2> QED
    BY <2>2, <2>3, <2>4, <2>5, <2>6
<1> QED
  BY <1>1, Invariance, PTL

---------------------------------------------------------------------------
(* The endpoints implement the pipe. *)

closed == {p \in Peer : closes[p] > 0}

LEMMA ClosedKept == UNCHANGED closes => UNCHANGED closed
  BY DEF closed

LEMMA ClosedSet ==
    ASSUME HistoryOK, NEW p \in Peer, closes' = [closes EXCEPT ![p] = @ + 1]
    PROVE  closed' = closed \cup {p}
  <1>t. closes \in [Peer -> Nat]
    BY DEF HistoryOK
  <1>1. closes'[p] = closes[p] + 1 /\ \A r \in Peer \ {p} : closes'[r] = closes[r]
    BY <1>t
  <1>2. closes'[p] > 0
    BY <1>t, <1>1
  <1> QED
    BY <1>1, <1>2 DEF closed

LEMMA PipeSend ==
    ASSUME NEW p \in Peer, sent' = [sent EXCEPT ![p] = @ + 1],
           UNCHANGED <<received, closes>>
    PROVE  Pipe!Next
  BY ClosedKept DEF Pipe!Next, Pipe!Send, closed

LEMMA PipeClose ==
    ASSUME HistoryOK, NEW p \in Peer, closes' = [closes EXCEPT ![p] = @ + 1],
           UNCHANGED <<sent, received>>
    PROVE  Pipe!Next
  BY ClosedSet DEF Pipe!Next, Pipe!Close, closed

LEMMA PipeStutter ==
    ASSUME UNCHANGED <<sent, received, closes>>
    PROVE  UNCHANGED Pipe!pipeVars
  BY ClosedKept DEF Pipe!pipeVars, closed

LEMMA HandlerPipe ==
    ASSUME HistoryOK, NEW p \in Peer, UNCHANGED <<sent, received>>,
           UNCHANGED closes \/ call_handler(p, closes)
    PROVE  [Pipe!Next]_Pipe!pipeVars
  <1>1. CASE UNCHANGED closes
    BY <1>1, PipeStutter
  <1>2. CASE call_handler(p, closes)
    <2>1. UNCHANGED closes \/ closes' = [closes EXCEPT ![p] = @ + 1]
      BY <1>2 DEF call_handler
    <2> QED
      BY <1>1, <2>1, PipeClose
  <1> QED
    BY <1>1, <1>2

\* A message that is read is the next one, was sent, and comes before the close.
LEMMA PipeDeliver ==
    ASSUME IInv, NEW p \in Peer, ReadMessage(p), ~is_stopped[p]
    PROVE  Pipe!Deliver(p)
  <1>. DEFINE q == Other[p]
              r == received[p]
              w == wire[q]
  <1>1. q \in Peer /\ Other[q] = p
    BY OtherPeer
  <1>2. /\ w \in Seq(Frame) /\ r \in Seq(Nat) /\ Len(r) \in Nat
        /\ sent[q] \in Nat /\ send_queue[q] \in Seq(Nat)
        /\ received \in [Peer -> Seq(Nat)] /\ closes \in [Peer -> Nat]
    BY <1>1 DEF IInv, TypeOK, TransferOK, HistoryOK
  <1>3. /\ reader[p] = "reading" /\ w # <<>> /\ Head(w).kind = "message"
        /\ received' = [received EXCEPT ![p] = Append(r, Head(w).id)]
        /\ UNCHANGED <<sent, closes>>
    BY DEF ReadMessage, Incoming
  <1>4. StreamAt(q) /\ FrameAt(q) /\ QueueAt(q) /\ ReportAt(p)
    BY <1>1 DEF IInv, OrderInv, FrameInv, ReportInv
  <1>5. connection = "up" /\ CloseIsLast(w)
    BY <1>3, <1>4 DEF FrameAt, IInv, TypeOK, ControlOK
  <1>6. p \notin closed
    <2>1. ~is_close_received[p]
      BY <1>3, <1>4 DEF ReportAt
    <2>2. ~(closes[p] > 0)
      BY <1>4, <1>5, <2>1 DEF ReportAt
    <2> QED
      BY <2>2 DEF closed
  <1>7. Numbered(w, Len(r)) /\ Len(r) + Messages(w) = Gone(q)
    BY <1>1, <1>4, <1>5 DEF StreamAt
  <1>8. Head(w).id = Len(r) + 1
    BY <1>2, <1>3, <1>7, NumberedTail
  <1>9. Len(r) < sent[q]
    <2>1. Messages(w) \in Nat \ {0}
      BY <1>2, <1>3, <1>5, MessagesPositive
    <2>2. Gone(q) \in Int /\ Gone(q) <= sent[q]
      BY <1>1, <1>2, GoneBound DEF IInv
    <2>3. \A a, m, g, n \in Int : a + m = g /\ m > 0 /\ g <= n => a < n
      OBVIOUS
    <2>4. Messages(w) \in Int /\ Messages(w) > 0
      BY <2>1
    <2> QED
      BY <1>2, <1>7, <2>2, <2>3, <2>4
  <1> QED
    BY <1>3, <1>6, <1>8, <1>9 DEF Pipe!Deliver, closed

LEMMA PipeStep ==
    ASSUME IInv, [Next]_vars
    PROVE  [Pipe!Next]_Pipe!pipeVars
  <1>t. HistoryOK
    BY DEF IInv, TypeOK
  <1>1. CASE Reset \/ UNCHANGED vars
    BY <1>1, PipeStutter DEF Reset, vars, history
  <1>2. ASSUME NEW p \in Peer, User(p)
        PROVE  [Pipe!Next]_Pipe!pipeVars
    <2>1. CASE send_message(p)
      BY <2>1, PipeSend DEF send_message
    <2>2. CASE send_close(p) \/ start_messaging(p) \/ stop(p)
      BY <2>2, PipeStutter DEF send_close, start_messaging, stop, history
    <2> QED
      BY <1>2, <2>1, <2>2 DEF User
  <1>3. ASSUME NEW p \in Peer, Completion(p)
        PROVE  [Pipe!Next]_Pipe!pipeVars
    <2>1. CASE \/ HandshakeReady(p) \/ HandshakeFail(p) \/ Transmit(p)
               \/ MessageSent(p) \/ ReadFails(p)
      BY <2>1, PipeStutter DEF HandshakeReady, HandshakeFail, Transmit, MessageSent,
                               ReadFails, history
    <2>2. CASE CloseSent(p) \/ MessageWriteFails(p) \/ CloseWriteFails(p)
      <3>1. /\ UNCHANGED <<sent, received>>
            /\ UNCHANGED closes \/ call_handler(p, closes)
        BY <2>2 DEF CloseSent, MessageWriteFails, CloseWriteFails, LoopCatch
      <3> QED
        BY <1>t, <3>1, HandlerPipe
    <2>3. CASE ReadClose(p)
      <3>1. /\ UNCHANGED <<sent, received>>
            /\ UNCHANGED closes \/ call_handler(p, closes)
        BY <2>3 DEF ReadClose
      <3> QED
        BY <1>t, <3>1, HandlerPipe
    <2>4. CASE ReadMessage(p)
      <3>1. CASE is_stopped[p]
        BY <2>4, <3>1, PipeStutter DEF ReadMessage
      <3>2. CASE ~is_stopped[p]
        BY <2>4, <3>2, PipeDeliver DEF Pipe!Next
      <3> QED
        BY <3>1, <3>2
    <2> QED
      BY <1>3, <2>1, <2>2, <2>3, <2>4 DEF Completion
  <1> QED
    BY <1>1, <1>2, <1>3 DEF Next

LEMMA PipeInit == Init => Pipe!Init
  BY DEF Init, Pipe!Init

(* Two endpoints implement the pipe: whatever the users call and the network
   does, each on_message handler is given the other user's messages in the
   order of the send_message calls, none lost, doubled or invented, and none
   after on_close. *)
THEOREM Refinement == Spec => ImplementsPipe
<1>1. Spec => []IInv
  BY Invariance
<1>2. IInv /\ [Next]_vars => [Pipe!Next]_Pipe!pipeVars
  BY PipeStep
<1> QED
  BY <1>1, <1>2, PipeInit, PTL DEF Spec, ImplementsPipe, Pipe!Spec
=============================================================================

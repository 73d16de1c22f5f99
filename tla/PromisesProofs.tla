--------------------------- MODULE PromisesProofs ---------------------------
(***************************************************************************)
(* What becomes of a pipe of promises, of any length, with any errors.     *)
(* None of the three properties is inductive.  That no second catch_ takes *)
(* a rejection needs that the one on its way has passed only those without *)
(* a handler for it (Pursued); that the object is deleted once needs that  *)
(* nothing is signalled afterwards (EndInv); and that a loop does not grow *)
(* the stack, that a pass on top of another still has the asynchronous     *)
(* step before it at which the stack is given back (StackInv).             *)
(***************************************************************************)
EXTENDS Promises, TLAPS

PipeInv ==
    /\ chain \in Seq(Step)
    /\ Usable(chain, ending)
    /\ at \in 1..Len(chain) + 1
    /\ signal \in {"resolve", "reject", "terminate", "wait", "none"}

\* The rejection comes from a step before, and no catch_ in between has a handler.
Pursued ==
    /\ error.from \in 1..at - 1
    /\ error.what \in chain[error.from].errors
    /\ chain[error.from].kind # "catch"
    /\ \A j \in error.from + 1..at - 1 :
         chain[j].kind = "catch" => error.what \notin chain[j].errors

RejectInv ==
    /\ signal = "reject" => Pursued
    /\ signal = "terminate" => taken # {}
    /\ TakenByTheFirst

EndInv ==
    /\ ends \in {0, 1}
    /\ ends = 1 <=> signal = "none"
    /\ EndsAsItShould

StackInv ==
    /\ depth \in Nat
    /\ depth <= at + Len(chain) + 1
    /\ signal = "wait" => depth = 0 /\ Here({"async"})
    /\ signal = "resolve" /\ ending = "loop" /\ depth > at =>
         \E j \in at..Len(chain) : chain[j].kind = "async"

IInv == PipeInv /\ RejectInv /\ EndInv /\ StackInv

---------------------------------------------------------------------------
(* Two pipes that are joined are one (promise_join). *)
LEMMA JoinTwo ==
    ASSUME NEW S, NEW x \in Seq(S), NEW y \in Seq(S)
    PROVE  FlattenSeq(<<x, y>>) = x \o y
  <1> DEFINE s == <<x, y>>
             G(f) == [i \in 1..2 |-> IF i = 1 THEN s[i] ELSE f[i - 1] \o s[i]]
             g == [i \in 1..2 |-> IF i = 1 THEN x ELSE x \o y]
             h == CHOOSE f : f = G(f)
  <1>1. s[1] = x /\ s[2] = y /\ Len(s) = 2 OBVIOUS
  <1>2. FlattenSeq(s) = h[2] BY <1>1 DEF FlattenSeq
  <1>3. g = G(g)
    <2>1. \A i \in 1..2 : (IF i = 1 THEN s[i] ELSE g[i - 1] \o s[i]) = g[i]
      BY <1>1
    <2> QED BY <2>1
  <1>4. h = G(h) BY <1>3
  <1> HIDE DEF h, s, g
  <1>5. h[1] = x BY <1>1, <1>4
  <1>6. h[2] = h[1] \o y
    <2>1. 2 \in 1..2 /\ 2 # 1 /\ 2 - 1 = 1 OBVIOUS
    <2>2. h[2] = IF 2 = 1 THEN s[2] ELSE h[2 - 1] \o s[2] BY <1>4, <2>1, Zenon
    <2> QED BY <1>1, <2>1, <2>2, Zenon
  <1> QED BY <1>2, <1>5, <1>6 DEF s

LEMMA InitStep == Init => IInv
  <1> SUFFICES ASSUME Init PROVE IInv OBVIOUS
  <1>1. PICK a \in BoundedSeq(Step, MaxSteps) : \E k \in 0..Len(a) :
           pipes = <<SubSeq(a, 1, k), SubSeq(a, k + 1, Len(a))>>
    BY DEF Init
  <1>2. a \in Seq(Step)
    BY PromiseAssumption DEF BoundedSeq, SeqOf
  <1> HIDE DEF Step
  <1>3. PICK k \in 0..Len(a) : pipes = <<SubSeq(a, 1, k), SubSeq(a, k + 1, Len(a))>>
    BY <1>1
  <1>4. SubSeq(a, 1, k) \in Seq(Step) /\ SubSeq(a, k + 1, Len(a)) \in Seq(Step)
    BY <1>2
  <1>5. chain \in Seq(Step)
    <2>1. FlattenSeq(<<SubSeq(a, 1, k), SubSeq(a, k + 1, Len(a))>>)
            = SubSeq(a, 1, k) \o SubSeq(a, k + 1, Len(a))
      BY <1>4, JoinTwo
    <2>2. SubSeq(a, 1, k) \o SubSeq(a, k + 1, Len(a)) \in Seq(Step)
      BY <1>4
    <2> QED BY <1>3, <2>1, <2>2 DEF chain, promise_join
  <1>6. PipeInv
    BY <1>5 DEF PipeInv, Init, chain, promise_join
  <1>7. RejectInv /\ EndInv
    BY DEF RejectInv, EndInv, Init, TakenByTheFirst, EndsAsItShould
  <1>8. StackInv
    BY <1>5 DEF StackInv, Init
  <1> QED BY <1>6, <1>7, <1>8 DEF IInv

---------------------------------------------------------------------------
(* A rejection that is pursued is before a catch_ that takes it: the pipe
   compiles. *)
LEMMA RejectionIsCaught ==
    ASSUME PipeInv, Pursued
    PROVE  at <= Len(chain)
  <1>1. error.from \in DOMAIN chain BY DEF PipeInv, Pursued
  <1>2. PICK j \in error.from + 1..Len(chain) :
           chain[j].kind = "catch" /\ error.what \in chain[j].errors
    BY <1>1 DEF PipeInv, Pursued, Usable, Compiles
  <1> QED BY <1>2 DEF PipeInv, Pursued

LEMMA PipeStep == IInv /\ [Next]_vars => PipeInv'
  <1> SUFFICES ASSUME IInv, [Next]_vars PROVE PipeInv' OBVIOUS
  <1>1. pipes' = pipes /\ ending' = ending
    BY DEF Next, vars, RunFunction, RunTryThrows, StartOperation, OperationDone,
           OperationFails, PassRejection, TakeRejection, PassTermination, Finish, Repeat
  <1>2. chain' = chain /\ Usable(chain, ending)' = Usable(chain, ending)
    BY <1>1 DEF chain, Usable, Compiles, Waits
  <1>3. /\ at' \in 1..Len(chain) + 1
        /\ signal' \in {"resolve", "reject", "terminate", "wait", "none"}
    BY RejectionIsCaught
    DEF IInv, PipeInv, RejectInv, StackInv, Next, vars, RunFunction, RunTryThrows,
        StartOperation, OperationDone, OperationFails, PassRejection, TakeRejection,
        PassTermination, Finish, Repeat, Call, Here
  <1> QED BY <1>2, <1>3 DEF IInv, PipeInv

\* The pipe itself does not change while it runs.
LEMMA PipeStays == [Next]_vars => chain' = chain /\ pipes' = pipes /\ ending' = ending
  BY DEF Next, vars, RunFunction, RunTryThrows, StartOperation, OperationDone,
         OperationFails, PassRejection, TakeRejection, PassTermination, Finish, Repeat,
         chain

LEMMA EndStep == IInv /\ [Next]_vars => EndInv'
  BY PipeStays
  DEF IInv, PipeInv, EndInv, RejectInv, EndsAsItShould, Next, vars, RunFunction,
      RunTryThrows, StartOperation, OperationDone, OperationFails, PassRejection,
      TakeRejection, PassTermination, Finish, Repeat, Call

LEMMA RejectStep == IInv /\ [Next]_vars => RejectInv'
  <1> SUFFICES ASSUME IInv, [Next]_vars PROVE RejectInv' OBVIOUS
  <1>1. chain' = chain BY PipeStays
  <1>2. CASE UNCHANGED vars
    BY <1>1, <1>2 DEF vars, IInv, RejectInv, Pursued, TakenByTheFirst
  <1>3. CASE RunFunction \/ StartOperation \/ OperationDone
    BY <1>1, <1>3
    DEF RunFunction, StartOperation, OperationDone, Call, IInv, RejectInv, TakenByTheFirst
  <1>4. CASE RunTryThrows \/ OperationFails
    <2>1. /\ at <= Len(chain) /\ chain[at].kind # "catch"
          /\ error'.what \in chain[at].errors /\ error'.from = at
          /\ at' = at + 1 /\ signal' = "reject" /\ taken' = taken /\ taken = {}
      BY <1>4
      DEF RunTryThrows, OperationFails, Call, Here, Rejects, IInv, RejectInv, StackInv,
          TakenByTheFirst
    <2> QED BY <1>1, <2>1 DEF IInv, PipeInv, RejectInv, Pursued, TakenByTheFirst
  <1>5. CASE PassRejection
    BY <1>1, <1>5
    DEF PassRejection, Call, Here, IInv, PipeInv, RejectInv, Pursued, TakenByTheFirst
  <1>6. CASE TakeRejection
    <2>1. /\ taken' = {<<error, at>>} /\ signal' = "terminate"
      BY <1>6 DEF TakeRejection, Call, IInv, RejectInv, TakenByTheFirst
    <2>2. /\ Pursued
          /\ error.what \in chain[at].errors
      BY <1>6 DEF TakeRejection, IInv, RejectInv
    <2> QED BY <1>1, <2>1, <2>2 DEF IInv, PipeInv, RejectInv, Pursued, TakenByTheFirst
  <1>7. CASE PassTermination \/ Finish \/ Repeat
    BY <1>1, <1>7
    DEF PassTermination, Finish, Repeat, Call, IInv, RejectInv, TakenByTheFirst
  <1> QED BY <1>2, <1>3, <1>4, <1>5, <1>6, <1>7 DEF Next

LEMMA StackStep == IInv /\ [Next]_vars => StackInv'
  <1> SUFFICES ASSUME IInv, [Next]_vars PROVE StackInv' OBVIOUS
  <1>1. chain' = chain /\ ending' = ending BY PipeStays
  <1>2. CASE UNCHANGED vars
    BY <1>1, <1>2 DEF vars, IInv, StackInv, Here
  <1>3. CASE RunFunction
    BY <1>1, <1>3 DEF RunFunction, Call, Here, IInv, PipeInv, StackInv
  <1>4. CASE StartOperation
    BY <1>1, <1>4 DEF StartOperation, Here, IInv, PipeInv, StackInv
  <1>5. CASE OperationDone \/ OperationFails
    BY <1>1, <1>5 DEF OperationDone, OperationFails, Call, IInv, PipeInv, StackInv
  <1>6. CASE RunTryThrows \/ PassRejection \/ TakeRejection \/ PassTermination
    BY <1>1, <1>6
    DEF RunTryThrows, PassRejection, TakeRejection, PassTermination, Call, IInv, PipeInv,
        StackInv
  <1>7. CASE Finish
    BY <1>1, <1>7 DEF Finish, IInv, PipeInv, StackInv
  <1>8. CASE Repeat
    <2>1. depth <= Len(chain) + 1
      BY <1>8 DEF Repeat, IInv, PipeInv, StackInv
    <2>2. \E j \in 1..Len(chain) : chain[j].kind = "async"
      BY <1>8 DEF Repeat, IInv, PipeInv, Usable, Waits
    <2> QED BY <1>1, <1>8, <2>1, <2>2 DEF Repeat, IInv, PipeInv, StackInv
  <1> QED BY <1>2, <1>3, <1>4, <1>5, <1>6, <1>7, <1>8 DEF Next

(* A pipe is never past its end, whatever is on its way in it has a place to go, and
   an object that was deleted is not called. *)
THEOREM Invariance == Spec => []IInv
  <1>1. IInv /\ [Next]_vars => IInv'
    BY PipeStep, RejectStep, EndStep, StackStep DEF IInv
  <1> QED BY InitStep, <1>1, PTL DEF Spec

(* Of any number of catch_ the first behind a rejection that has a handler for it
   takes it, no other is told, and the pipe ends there (catch_t::reject). *)
THEOREM OneHandlerTakesIt == Spec => []TakenByTheFirst
  <1>1. IInv => TakenByTheFirst BY DEF IInv, RejectInv
  <1> QED BY <1>1, Invariance, PTL

(* The object of a pipe of any length is deleted once, at its end (promise_end). *)
THEOREM DeletedAtTheEnd == Spec => []EndsAsItShould
  <1>1. IInv => EndsAsItShould BY DEF IInv, EndInv
  <1> QED BY <1>1, Invariance, PTL

(* However many turns a loop makes, its stack is bounded by its length
   (promise_end_loop::resolve). *)
THEOREM LoopsKeepTheStack == Spec => []StackIsBounded
  <1>1. IInv => StackIsBounded BY DEF IInv, PipeInv, StackInv, StackIsBounded
  <1> QED BY <1>1, Invariance, PTL
=============================================================================

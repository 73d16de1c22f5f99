------------------------------ MODULE Promises ------------------------------
(***************************************************************************)
(* A pipe of promises that run_async or run_async_loop puts on the heap,   *)
(* or that run_sync keeps on the stack (promise.hpp, run_async.hpp,        *)
(* run_async_loop.hpp, run_sync.hpp, catch.hpp, try.hpp, promise_join.hpp). *)
(* Each promise is given the next one as its resolver: a call runs deeper  *)
(* into the stack until a step starts an operation and returns.            *)
(***************************************************************************)
EXTENDS Naturals, Sequences, SequencesExt

CONSTANTS Errors,   \* what may be rejected
          MaxSteps, \* bound on the number of steps of a pipe
          MaxTurns  \* bound on the turns of a loop that are told apart

ASSUME PromiseAssumption == MaxSteps \in Nat /\ MaxTurns \in Nat

VARIABLES
    pipes,   \* the pipe as it was written: pipes in a pipe, each a sequence of steps
    ending,  \* "delete" (run_async), "loop" (run_async_loop) or "sync" (run_sync)
    owner,   \* "alive" or "gone": the heap object of the joined promise
    at,      \* the step that is called, or whose operation is under way
    signal,  \* "resolve", "reject", "terminate", "wait" or "none"
    error,   \* what is rejected, and where it was
    depth,   \* frames on the stack
    taken,   \* history: which catch_ took which rejection
    ends,    \* history: how often the end of the pipe was reached
    turns    \* turns of the loop, up to MaxTurns

vars == <<pipes, ending, owner, at, signal, error, depth, taken, ends, turns>>

\* A function, try_ (throws), an asynchronous promise or a lazily held one
\* (throws), and catch_ with the types its handler can be invoked with.
Function == [kind |-> "fn", errors |-> {}]
Try == [kind : {"try"}, errors : SUBSET Errors]
Async == [kind : {"async"}, errors : SUBSET Errors]
Catch == [kind : {"catch"}, errors : (SUBSET Errors) \ {{}}]
Step == {Function} \cup Try \cup Async \cup Catch

\* Every Foldable is folded into the same chain of resolvers.
promise_join(ps) == FlattenSeq(ps)

chain == promise_join(pipes)

\* "Unhandled Rejection!": the end of a pipe does not compile with a reject.
Compiles(steps) ==
    \A i \in DOMAIN steps : steps[i].kind # "catch" =>
        \A e \in steps[i].errors :
            \E j \in i+1..Len(steps) : steps[j].kind = "catch" /\ e \in steps[j].errors

Waits(steps) == \E i \in DOMAIN steps : steps[i].kind = "async"

\* A loop of this library waits in each turn, a pipe on the stack never does.
Usable(steps, end) ==
    /\ Compiles(steps)
    /\ end = "loop" => steps # <<>> /\ Waits(steps)
    /\ end = "sync" => ~Waits(steps)

Init ==
    /\ \E a \in BoundedSeq(Step, MaxSteps) : \E k \in 0..Len(a) :
         pipes = <<SubSeq(a, 1, k), SubSeq(a, k + 1, Len(a))>>
    /\ ending \in {"delete", "loop", "sync"}
    /\ Usable(FlattenSeq(pipes), ending)
    /\ owner = "alive"
    /\ at = 1 /\ signal = "resolve" /\ depth = 1
    /\ error = [what |-> "none", from |-> 0]
    /\ taken = {} /\ ends = 0 /\ turns = 0

---------------------------------------------------------------------------
Here(kinds) == at <= Len(chain) /\ chain[at].kind \in kinds
Call(s) == signal' = s /\ at' = at + 1 /\ depth' = depth + 1
Rejects == error' \in [what : chain[at].errors, from : {at}]

\* A function, or a catch_ that passes on what was resolved.
RunFunction ==
    /\ signal = "resolve" /\ Here({"fn", "catch", "try"})
    /\ Call("resolve")
    /\ UNCHANGED <<pipes, ending, owner, error, taken, ends, turns>>

\* try_ catches what the function throws and rejects it.
RunTryThrows ==
    /\ signal = "resolve" /\ Here({"try"})
    /\ Rejects
    /\ Call("reject")
    /\ UNCHANGED <<pipes, ending, owner, taken, ends, turns>>

\* An operation is started and the whole stack returns to the executor.
StartOperation ==
    /\ signal = "resolve" /\ Here({"async"})
    /\ signal' = "wait" /\ depth' = 0
    /\ UNCHANGED <<pipes, ending, owner, at, error, taken, ends, turns>>

\* (bug: the completion handler is called from where it was started)
OperationDone_OnTheStack ==
    /\ signal = "wait"
    /\ signal' = "resolve" /\ at' = at + 1 /\ depth' = MaxSteps * (turns + 1)
    /\ UNCHANGED <<pipes, ending, owner, error, taken, ends, turns>>

OperationDone ==
    /\ signal = "wait"
    /\ Call("resolve")
    /\ UNCHANGED <<pipes, ending, owner, error, taken, ends, turns>>

OperationFails ==
    /\ signal = "wait"
    /\ Rejects
    /\ Call("reject")
    /\ UNCHANGED <<pipes, ending, owner, taken, ends, turns>>

\* A promise hands a rejection on, a catch_ the ones it has no handler for.
PassRejection ==
    /\ signal = "reject"
    /\ \/ Here({"fn", "try", "async"})
       \/ Here({"catch"}) /\ error.what \notin chain[at].errors
    /\ Call("reject")
    /\ UNCHANGED <<pipes, ending, owner, error, taken, ends, turns>>

\* (bug: what was handled is resolved with, instead of ending the pipe)
TakeRejection_Resolves ==
    /\ signal = "reject" /\ Here({"catch"}) /\ error.what \in chain[at].errors
    /\ taken' = taken \cup {<<error, at>>}
    /\ Call("resolve")
    /\ UNCHANGED <<pipes, ending, owner, error, ends, turns>>

\* (bug: the handler runs, but "doesn't call terminate")
TakeRejection_Silent ==
    /\ signal = "reject" /\ Here({"catch"}) /\ error.what \in chain[at].errors
    /\ taken' = taken \cup {<<error, at>>}
    /\ signal' = "none"
    /\ UNCHANGED <<pipes, ending, owner, at, error, depth, ends, turns>>

\* The handler runs and the pipe is terminated.
TakeRejection ==
    /\ signal = "reject" /\ Here({"catch"}) /\ error.what \in chain[at].errors
    /\ taken' = taken \cup {<<error, at>>}
    /\ Call("terminate")
    /\ UNCHANGED <<pipes, ending, owner, error, ends, turns>>

\* Each joined promise hands terminate() to the next one.
PassTermination ==
    /\ signal = "terminate" /\ at <= Len(chain)
    /\ Call("terminate")
    /\ UNCHANGED <<pipes, ending, owner, error, taken, ends, turns>>

\* (bug: every end deletes the object)
Finish_Loop ==
    /\ at = Len(chain) + 1 /\ signal \in {"resolve", "terminate"}
    /\ owner' = "gone" /\ ends' = ends + 1 /\ signal' = "none" /\ depth' = 0
    /\ UNCHANGED <<pipes, ending, at, error, taken, turns>>

\* The end deletes the object; one on the stack goes when run_sync returns.
Finish ==
    /\ at = Len(chain) + 1
    /\ signal = "terminate" \/ (signal = "resolve" /\ ending # "loop")
    /\ owner' = "gone" /\ ends' = ends + 1 /\ signal' = "none" /\ depth' = 0
    /\ UNCHANGED <<pipes, ending, at, error, taken, turns>>

\* The end of a loop calls the first step, on top of the stack there is.
Repeat ==
    /\ at = Len(chain) + 1 /\ signal = "resolve" /\ ending = "loop"
    /\ at' = 1 /\ depth' = depth + 1
    /\ turns' = IF turns < MaxTurns THEN turns + 1 ELSE turns
    /\ UNCHANGED <<pipes, ending, owner, signal, error, taken, ends>>

Next == \/ RunFunction \/ RunTryThrows \/ StartOperation \/ OperationDone
        \/ OperationFails \/ PassRejection \/ TakeRejection \/ PassTermination
        \/ Finish \/ Repeat

Spec == Init /\ [][Next]_vars
\* A call returns, and an operation that was started completes.
FairSpec == Spec /\ WF_vars(Next)

---------------------------------------------------------------------------
TypeOK ==
    /\ owner \in {"alive", "gone"} /\ (owner = "alive" => at \in 1..Len(chain) + 1)
    /\ signal \in {"resolve", "reject", "terminate", "wait", "none"}
    /\ signal = "wait" => chain[at].kind = "async"
    /\ signal = "reject" => at <= Len(chain)

(* A rejection ends the pipe once: it is taken by the first catch_ behind it
   that has a handler for it, no second one sees it, and the object is deleted
   once, with nothing left to call (catch_t::reject, promise_end). *)
TakenByTheFirst ==
    /\ \A t \in taken : /\ t[2] > t[1].from /\ t[1].what \in chain[t[2]].errors
                        /\ \A j \in t[1].from+1..t[2]-1 :
                             chain[j].kind = "catch" => t[1].what \notin chain[j].errors
    /\ \A t, u \in taken : t = u
    /\ taken # {} => signal \in {"terminate", "none"}

(* A loop of asynchronous turns does not pile up calls: the stack is never
   deeper than two passes through the steps, however many turns were made,
   although its end calls its beginning (promise_end_loop::resolve). *)
StackIsBounded == depth <= 2 * Len(chain) + 2

(* The object a pipe lives in is deleted when the pipe has come to its end, be it by
   resolving, or by a rejection that was handled, and then only: a loop that
   is not rejected keeps it (promise_end, promise_end_loop). *)
EndsAsItShould ==
    /\ owner = "gone" <=> ends = 1
    /\ ending = "loop" /\ owner = "gone" => taken # {}
    /\ ends <= 1

(* No pipe stops half way: it comes to its end, or is a loop without a
   rejection that was handled. *)
Settles == <>(owner = "gone") \/ (ending = "loop" /\ [](taken = {}))

=============================================================================

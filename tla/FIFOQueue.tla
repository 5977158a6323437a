-------------------------------- MODULE FIFOQueue -----------------------------
(***************************************************************************)
(* MyFifoQueue (myPub/myFIFOQueue.cpp), the deque with a mutex and a       *)
(* condition variable that the application used before MyFifoQueueNL, in   *)
(* the program that ut/queueSingleProduceConsumerTest.cpp runs: a producer *)
(* that sets doneFlag at its end, and consumers that pop, in one of six    *)
(* ways, until doneFlag is set and the queue is empty.                     *)
(*                                                                         *)
(* The deque is only used with the mutex held; what a thread does between  *)
(* taking the mutex and releasing it, in wait_for or at its end, is one    *)
(* action.                                                                 *)
(***************************************************************************)
EXTENDS Integers, Sequences

CONSTANTS
  Consumers,  \* threads that pop; the test has one
  NumLoops    \* how many items the producer pushes

ASSUME NumLoopsAssumption == NumLoops \in Nat
ASSUME ConsumersAssumption == Consumers # {}

(* pop(); wait_for with a predicate, try_pop() and try_pop_p() alike;       *)
(* without one; and the two that take all there is.                         *)
Variants == {"pop", "p", "np", "v_p", "v_np"}
WithPredicate == {"p", "v_p"}
TakesAll == {"v_p", "v_np"}

VARIABLES
  variant,   \* the function that the consumers call in this test
  queue,     \* queue_
  pPc,       \* the producer: about to "push" or to "notify", or "done"
  pushed,    \* how many items the producer has pushed: 1, 2, ...
  doneFlag,
  cPc,       \* where each consumer is
  consumed   \* history: items popped, in order

producer == <<pPc, pushed, doneFlag>>
vars == <<variant, queue, producer, cPc, consumed>>

Init ==
  /\ variant \in Variants
  /\ queue = <<>> /\ pPc = "push" /\ pushed = 0 /\ doneFlag = FALSE
  /\ cPc = [c \in Consumers |-> "loop"] /\ consumed = <<>>

-----------------------------------------------------------------------------
(* The producer. *)

(* Definitions named ...Slip are mistakes a maintainer could make in the one *)
(* that follows; no specification uses them, the properties notice each.     *)
ItemsLeftSlip == pushed <= NumLoops
ItemsLeft == pushed < NumLoops

Push ==
  /\ pPc = "push" /\ ItemsLeft
  /\ pushed' = pushed + 1
  /\ queue' = Append(queue, pushed')
  /\ pPc' = "notify"
  /\ UNCHANGED <<variant, doneFlag, cPc, consumed>>

Waiting == {c \in Consumers : cPc[c] = "wait"}

(* After the mutex was released; lost if nobody waits at that moment. *)
NotifyOne ==
  /\ pPc = "notify"
  /\ \/ Waiting = {} /\ cPc' = cPc
     \/ \E c \in Waiting : cPc' = [cPc EXCEPT ![c] = "woken"]
  /\ pPc' = "push"
  /\ UNCHANGED <<variant, queue, pushed, doneFlag, consumed>>

ProducerDone ==
  /\ pPc = "push" /\ pushed = NumLoops
  /\ doneFlag' = TRUE
  /\ pPc' = "done"
  /\ UNCHANGED <<variant, queue, pushed, cPc, consumed>>

-----------------------------------------------------------------------------
(* A consumer's loop: while (doneFlag == 0 || !queue.empty()). *)

GoTo(c, place) ==
  /\ cPc' = [cPc EXCEPT ![c] = place]
  /\ UNCHANGED <<variant, producer>>

(* doneFlag and the queue are looked at one after the other. *)
AfterDoneSlip == "done"
AfterDone == "empty?"

Loop(c) ==
  /\ cPc[c] = "loop"
  /\ GoTo(c, IF doneFlag THEN AfterDone ELSE "call")
  /\ UNCHANGED <<queue, consumed>>

LoopEmpty(c) ==
  /\ cPc[c] = "empty?"
  /\ GoTo(c, IF queue = <<>> THEN "done" ELSE "call")
  /\ UNCHANGED <<queue, consumed>>

-----------------------------------------------------------------------------
(* The pops. *)

TakenSlip == queue
Taken == IF variant \in TakesAll THEN queue ELSE <<Head(queue)>>

Take ==
  /\ queue # <<>>
  /\ consumed' = consumed \o Taken
  /\ queue' = IF variant \in TakesAll THEN <<>> ELSE Tail(queue)

(* The call finds an item at once, unless it waits without looking first. *)
CallTakes(c) ==
  /\ cPc[c] = "call" /\ variant \in {"pop"} \cup WithPredicate
  /\ Take
  /\ GoTo(c, "loop")

CallPopEmpty(c) ==
  /\ cPc[c] = "call" /\ variant = "pop"
  /\ queue = <<>>
  /\ GoTo(c, "loop")
  /\ UNCHANGED <<queue, consumed>>

SleepsSlip == variant # "pop"
Sleeps == variant # "pop" /\ (variant \in WithPredicate => queue = <<>>)

CallWaits(c) ==
  /\ cPc[c] = "call" /\ Sleeps
  /\ GoTo(c, "wait")
  /\ UNCHANGED <<queue, consumed>>

(* wait_for may return without a notification. *)
SpuriousWakeup(c) ==
  /\ cPc[c] = "wait"
  /\ GoTo(c, "woken")
  /\ UNCHANGED <<queue, consumed>>

TimeoutSlip(c) == FALSE /\ cPc[c] = "wait" /\ UNCHANGED vars

Timeout(c) ==
  /\ cPc[c] = "wait"
  /\ GoTo(c, "timedOut")
  /\ UNCHANGED <<queue, consumed>>

(* With the mutex back: an item is taken after a timeout, too. *)
ResumeTakes(c) ==
  /\ cPc[c] \in {"woken", "timedOut"}
  /\ Take
  /\ GoTo(c, "loop")

(* With the queue empty, a wakeup sends the predicate back to wait; else    *)
(* the call returns false.                                                  *)
ResumeEmpty(c) ==
  /\ cPc[c] \in {"woken", "timedOut"}
  /\ queue = <<>>
  /\ GoTo(c, IF cPc[c] = "woken" /\ variant \in WithPredicate THEN "wait" ELSE "loop")
  /\ UNCHANGED <<queue, consumed>>

-----------------------------------------------------------------------------
ProducerStep == Push \/ NotifyOne \/ ProducerDone
ConsumerStep(c) ==
  \/ Loop(c) \/ LoopEmpty(c)
  \/ CallTakes(c) \/ CallPopEmpty(c) \/ CallWaits(c)
  \/ ResumeTakes(c) \/ ResumeEmpty(c)

Next ==
  \/ ProducerStep
  \/ \E c \in Consumers : ConsumerStep(c) \/ SpuriousWakeup(c) \/ Timeout(c)

Spec == Init /\ [][Next]_vars

(***************************************************************************)
(* All threads run.  The deadline of a wait is a point in time, which      *)
(* comes however often the wait is interrupted.                            *)
(***************************************************************************)
FairSpec ==
  /\ Spec /\ WF_vars(ProducerStep)
  /\ \A c \in Consumers : WF_vars(ConsumerStep(c)) /\ SF_vars(Timeout(c))

-----------------------------------------------------------------------------
(* Type invariant. *)
TypeOK ==
  /\ variant \in Variants
  /\ queue \in Seq(1 .. NumLoops)
  /\ pPc \in {"push", "notify", "done"} /\ pushed \in 0 .. NumLoops /\ doneFlag \in BOOLEAN
  /\ cPc \in [Consumers -> {"loop", "empty?", "call", "wait", "woken", "timedOut", "done"}]
  /\ consumed \in Seq(1 .. NumLoops)

(* Items come out in the order in which they went in, each once, whichever *)
(* of the functions is used and however many consumers share the queue.    *)
InOrder == consumed \o queue = [i \in 1 .. pushed |-> i]

(* With a predicate nobody sleeps over an item: all consumers wait only if *)
(* the queue is empty or the notification for its content is to come.      *)
NoLostWakeup ==
  variant \in WithPredicate /\ Waiting = Consumers /\ queue # <<>> => pPc = "notify"

(* ut/queueSingleProduceConsumerTest.cpp:130 asserts that the queue is     *)
(* empty once the threads are joined; all items have been consumed then.   *)
EmptyAtEnd ==
  (\A c \in Consumers : cPc[c] = "done") => queue = <<>> /\ Len(consumed) = NumLoops

(* What makes these inductive: a consumer looks whether the queue is empty  *)
(* after it has seen doneFlag, and from then on nothing is pushed.          *)
Control ==
  /\ doneFlag <=> pPc = "done"
  /\ pPc = "done" => pushed = NumLoops
  /\ \A c \in Consumers :
       /\ cPc[c] \in {"empty?", "done"} => doneFlag
       /\ cPc[c] = "done" => queue = <<>>

IInv == TypeOK /\ Control /\ InOrder /\ NoLostWakeup

(* The test ends: no consumer is left waiting for a producer that is done. *)
TestEnds == <>(\A c \in Consumers : cPc[c] = "done")
=============================================================================

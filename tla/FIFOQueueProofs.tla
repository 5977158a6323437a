-------------------------- MODULE FIFOQueueProofs ---------------------------
(* Proofs about FIFOQueue, for every variant of the pop functions, any      *)
(* consumers, one at least, and any number of items.                        *)
EXTENDS FIFOQueue, SequenceTheorems, TLAPS

Upto(n) == [i \in 1 .. n |-> i]

LEMMA UptoIsSeq ==
  ASSUME NEW n \in Nat
  PROVE  Upto(n) \in Seq(1 .. n) /\ Len(Upto(n)) = n
  BY DEF Upto

(* One more item at the end. *)
LEMMA UptoNext ==
  ASSUME NEW n \in Nat
  PROVE  Upto(n + 1) = Append(Upto(n), n + 1)
<1> DEFINE s == Upto(n + 1)
           t == Append(Upto(n), n + 1)
<1>1. s \in Seq(Nat) /\ Len(s) = n + 1 /\ (\A i \in 1 .. n + 1 : s[i] = i)
  BY DEF Upto
<1>2. Upto(n) \in Seq(Nat) /\ Len(Upto(n)) = n
  BY DEF Upto
<1>3. /\ t \in Seq(Nat) /\ Len(t) = n + 1
      /\ \A i \in 1 .. n : t[i] = Upto(n)[i]
      /\ t[n + 1] = n + 1
  BY <1>2, AppendProperties
<1>4. \A i \in 1 .. n + 1 : t[i] = i
  BY <1>3 DEF Upto
<1>5. QED
  BY <1>1, <1>3, <1>4, SeqEqual

(* Taking from the head of the queue and adding it to what was consumed     *)
(* leaves the two together as they were.                                    *)
LEMMA MoveHead ==
  ASSUME NEW S, NEW s \in Seq(S), NEW q \in Seq(S), q # <<>>
  PROVE  (s \o <<Head(q)>>) \o Tail(q) = s \o q
<1>1. Head(q) \in S /\ Tail(q) \in Seq(S) /\ <<Head(q)>> \in Seq(S)
  BY HeadTailProperties
<1>2. (s \o <<Head(q)>>) \o Tail(q) = s \o (<<Head(q)>> \o Tail(q))
  BY <1>1, ConcatAssociative
<1>3. <<Head(q)>> \o Tail(q) = q
  <2> DEFINE t == <<Head(q)>> \o Tail(q)
  <2>1. Len(q) \in Nat \ {0} /\ Head(q) = q[1]
    BY EmptySeq
  <2>2. Len(<<Head(q)>>) = 1 /\ <<Head(q)>>[1] = q[1]
    BY <2>1
  <2>3. Len(Tail(q)) = Len(q) - 1 /\ (\A i \in 1 .. Len(Tail(q)) : Tail(q)[i] = q[i + 1])
    BY HeadTailProperties
  <2>4. /\ t \in Seq(S) /\ Len(t) = 1 + Len(Tail(q))
        /\ \A i \in 1 .. 1 + Len(Tail(q)) :
             t[i] = IF i <= 1 THEN <<Head(q)>>[i] ELSE Tail(q)[i - 1]
    BY <1>1, <2>2, ConcatProperties
  <2>5. \A i \in 1 .. Len(t) : t[i] = q[i]
    BY <2>1, <2>2, <2>3, <2>4
  <2>6. QED
    BY <2>1, <2>3, <2>4, <2>5, SeqEqual
<1>4. QED
  BY <1>2, <1>3

-----------------------------------------------------------------------------
LEMMA InitIInv == Init => IInv
<1>1. SUFFICES ASSUME Init PROVE IInv
  OBVIOUS
<1>2. TypeOK
  <2>1. <<>> \in Seq(1 .. NumLoops) /\ 0 \in 0 .. NumLoops
    BY EmptySeq, NumLoopsAssumption
  <2>2. QED
    BY <1>1, <2>1 DEF Init, TypeOK
<1>3. Control
  BY <1>1 DEF Init, Control
<1>4. InOrder
  BY <1>1 DEF Init, InOrder
<1>5. NoLostWakeup
  BY <1>1 DEF Init, NoLostWakeup
<1>6. QED
  BY <1>2, <1>3, <1>4, <1>5 DEF IInv

LEMMA PushIInv == IInv /\ Push => IInv'
<1>1. SUFFICES ASSUME IInv, Push PROVE IInv'
  OBVIOUS
<1>2. /\ pushed < NumLoops /\ pushed' = pushed + 1 /\ pushed' \in 1 .. NumLoops
      /\ queue \in Seq(1 .. NumLoops) /\ consumed \in Seq(1 .. NumLoops) /\ pushed \in Nat
      /\ queue' = Append(queue, pushed + 1) /\ consumed' = consumed
  BY <1>1, NumLoopsAssumption DEF Push, ItemsLeft, IInv, TypeOK
<1>3. TypeOK'
  <2>1. queue' \in Seq(1 .. NumLoops)
    BY <1>2, AppendProperties
  <2>2. QED
    BY <1>1, <1>2, <2>1 DEF IInv, TypeOK, Push
<1>4. Control'
  BY <1>1 DEF IInv, Control, Push
<1>5. InOrder'
  <2>1. consumed \o Append(queue, pushed + 1) = Append(consumed \o queue, pushed + 1)
    BY <1>2, AppendIsConcat, ConcatAssociative, ConcatProperties
  <2>2. consumed \o queue = Upto(pushed)
    BY <1>1 DEF IInv, InOrder, Upto
  <2>3. QED
    BY <1>2, <2>1, <2>2, UptoNext DEF InOrder, Upto
<1>6. NoLostWakeup'
  BY <1>1 DEF NoLostWakeup, Push
<1>7. QED
  BY <1>3, <1>4, <1>5, <1>6 DEF IInv

LEMMA NotifyOneIInv == IInv /\ NotifyOne => IInv'
<1>1. SUFFICES ASSUME IInv, NotifyOne PROVE IInv'
  OBVIOUS
<1>2. Waiting' # Consumers
  <2>1. CASE Waiting = {} /\ cPc' = cPc
    BY <2>1, ConsumersAssumption DEF Waiting
  <2>2. CASE \E c \in Waiting : cPc' = [cPc EXCEPT ![c] = "woken"]
    <3>1. PICK c \in Waiting : cPc' = [cPc EXCEPT ![c] = "woken"]
      BY <2>2
    <3>2. c \in Consumers /\ cPc'[c] = "woken"
      BY <1>1, <3>1 DEF Waiting, IInv, TypeOK
    <3>3. QED
      BY <3>2 DEF Waiting
  <2>3. QED
    BY <1>1, <2>1, <2>2 DEF NotifyOne
<1>3. TypeOK'
  BY <1>1 DEF IInv, TypeOK, NotifyOne, Waiting
<1>4. Control'
  BY <1>1 DEF IInv, TypeOK, Control, NotifyOne, Waiting
<1>5. InOrder'
  BY <1>1 DEF IInv, InOrder, NotifyOne
<1>6. NoLostWakeup'
  BY <1>2 DEF NoLostWakeup
<1>7. QED
  BY <1>3, <1>4, <1>5, <1>6 DEF IInv

LEMMA ProducerDoneIInv == IInv /\ ProducerDone => IInv'
<1>1. SUFFICES ASSUME IInv, ProducerDone PROVE IInv'
  OBVIOUS
<1>2. TypeOK'
  BY <1>1 DEF IInv, TypeOK, ProducerDone
<1>3. Control'
  BY <1>1 DEF IInv, Control, ProducerDone
<1>4. InOrder'
  BY <1>1 DEF IInv, InOrder, ProducerDone
<1>5. NoLostWakeup'
  BY <1>1 DEF IInv, NoLostWakeup, ProducerDone, Waiting
<1>6. QED
  BY <1>2, <1>3, <1>4, <1>5 DEF IInv

(* A consumer that goes somewhere and leaves the queue alone: what it must  *)
(* have seen before it goes to rest, to its end or to the look at the queue. *)
LEMMA GoIInv ==
  ASSUME IInv, NEW c \in Consumers,
         NEW place \in {"loop", "empty?", "call", "wait", "woken", "timedOut", "done"},
         GoTo(c, place), UNCHANGED <<queue, consumed>>,
         place \in {"empty?", "done"} => doneFlag,
         place = "done" => queue = <<>>,
         place = "wait" /\ variant \in WithPredicate => queue = <<>>
  PROVE  IInv'
<1>1. TypeOK'
  BY DEF IInv, TypeOK, GoTo, producer
<1>2. Control'
  BY DEF IInv, TypeOK, Control, GoTo, producer
<1>3. InOrder'
  BY DEF IInv, InOrder, GoTo, producer
<1>4. NoLostWakeup'
  <2>1. SUFFICES ASSUME variant \in WithPredicate, Waiting' = Consumers, queue # <<>>
                 PROVE  pPc = "notify"
    BY DEF NoLostWakeup, GoTo, producer
  <2>2. cPc'[c] = place /\ cPc'[c] = "wait"
    BY <2>1 DEF Waiting, GoTo, IInv, TypeOK
  <2>3. QED
    BY <2>1, <2>2
<1>5. QED
  BY <1>1, <1>2, <1>3, <1>4 DEF IInv

(* A consumer that takes what the function takes, and goes on. *)
LEMMA TakeIInv ==
  ASSUME IInv, NEW c \in Consumers, cPc[c] \in {"call", "woken", "timedOut"},
         Take, GoTo(c, "loop")
  PROVE  IInv'
<1>1. queue \in Seq(1 .. NumLoops) /\ consumed \in Seq(1 .. NumLoops) /\ queue # <<>>
  BY DEF IInv, TypeOK, Take
<1>2. /\ queue' \in Seq(1 .. NumLoops) /\ consumed' \in Seq(1 .. NumLoops)
      /\ consumed' \o queue' = consumed \o queue
  <2>1. CASE variant \in TakesAll
    <3>1. consumed' = consumed \o queue /\ queue' = <<>>
      BY <2>1 DEF Take, Taken
    <3>2. QED
      BY <1>1, <3>1, ConcatProperties, ConcatEmptySeq, EmptySeq
  <2>2. CASE variant \notin TakesAll
    <3>1. consumed' = consumed \o <<Head(queue)>> /\ queue' = Tail(queue)
      BY <2>2 DEF Take, Taken
    <3>2. Head(queue) \in 1 .. NumLoops /\ Tail(queue) \in Seq(1 .. NumLoops)
      BY <1>1, HeadTailProperties
    <3>3. consumed \o <<Head(queue)>> \in Seq(1 .. NumLoops)
      BY <1>1, <3>2, ConcatProperties
    <3>4. QED
      BY <1>1, <3>1, <3>2, <3>3, MoveHead
  <2>3. QED
    BY <2>1, <2>2
<1>3. TypeOK'
  BY <1>2 DEF IInv, TypeOK, GoTo, producer
<1>4. Control'
  BY <1>1 DEF IInv, TypeOK, Control, GoTo, producer
<1>5. InOrder'
  BY <1>2 DEF IInv, InOrder, GoTo, producer
<1>6. NoLostWakeup'
  BY DEF NoLostWakeup, Waiting, GoTo, IInv, TypeOK
<1>7. QED
  BY <1>3, <1>4, <1>5, <1>6 DEF IInv

LEMMA ConsumerIInv ==
  ASSUME IInv, NEW c \in Consumers, ConsumerStep(c) \/ SpuriousWakeup(c) \/ Timeout(c)
  PROVE  IInv'
<1>1. CASE Loop(c)
  BY <1>1, GoIInv DEF Loop, AfterDone
<1>2. CASE LoopEmpty(c)
  BY <1>2, GoIInv DEF LoopEmpty, IInv, Control
<1>3. CASE CallTakes(c)
  BY <1>3, TakeIInv DEF CallTakes
<1>4. CASE CallPopEmpty(c)
  BY <1>4, GoIInv DEF CallPopEmpty
<1>5. CASE CallWaits(c)
  BY <1>5, GoIInv DEF CallWaits, Sleeps
<1>6. CASE SpuriousWakeup(c)
  BY <1>6, GoIInv DEF SpuriousWakeup
<1>7. CASE Timeout(c)
  BY <1>7, GoIInv DEF Timeout
<1>8. CASE ResumeTakes(c)
  BY <1>8, TakeIInv DEF ResumeTakes
<1>9. CASE ResumeEmpty(c)
  BY <1>9, GoIInv DEF ResumeEmpty
<1>10. QED
  BY <1>1, <1>2, <1>3, <1>4, <1>5, <1>6, <1>7, <1>8, <1>9 DEF ConsumerStep

LEMMA StutterIInv == IInv /\ UNCHANGED vars => IInv'
  BY DEF IInv, TypeOK, Control, InOrder, NoLostWakeup, Waiting, vars, producer

LEMMA NextIInv == IInv /\ [Next]_vars => IInv'
  BY PushIInv, NotifyOneIInv, ProducerDoneIInv, ConsumerIInv, StutterIInv
  DEF Next, ProducerStep

(* IInv is inductive. *)
THEOREM Invariance == Spec => []IInv
  BY InitIInv, NextIInv, PTL DEF Spec

(* Every variable keeps its type, with any number of consumers. *)
THEOREM TypeCorrect == Spec => []TypeOK
<1>1. IInv => TypeOK
  BY DEF IInv
<1>2. QED
  BY <1>1, Invariance, PTL

(* The items consumed and those still in the queue are those pushed, in     *)
(* order: no variant of the pops loses, repeats or reorders one.            *)
THEOREM ItemsInOrder == Spec => []InOrder
<1>1. IInv => InOrder
  BY DEF IInv
<1>2. QED
  BY <1>1, Invariance, PTL

(* With a predicate, all consumers sleep over a queue that is not empty     *)
(* only while a notification is to come: notify_one() after the mutex was   *)
(* released is soon enough, whoever else is woken.                          *)
THEOREM WakeupNotLost == Spec => []NoLostWakeup
<1>1. IInv => NoLostWakeup
  BY DEF IInv
<1>2. QED
  BY <1>1, Invariance, PTL

(* The assertion at the end of the test holds, since doneFlag is read       *)
(* before the queue is found empty.                                         *)
THEOREM NothingLeft == Spec => []EmptyAtEnd
<1>1. IInv => EmptyAtEnd
  <2>1. SUFFICES ASSUME IInv, \A c \in Consumers : cPc[c] = "done"
                 PROVE  queue = <<>> /\ Len(consumed) = NumLoops
    BY DEF EmptyAtEnd
  <2>2. PICK c \in Consumers : cPc[c] = "done"
    BY <2>1, ConsumersAssumption
  <2>3. queue = <<>> /\ pushed = NumLoops
    BY <2>1, <2>2 DEF IInv, Control
  <2>4. consumed = Upto(NumLoops)
    BY <2>1, <2>3, ConcatEmptySeq DEF IInv, TypeOK, InOrder, Upto
  <2>5. QED
    BY <2>3, <2>4, UptoIsSeq, NumLoopsAssumption
<1>2. QED
  BY <1>1, Invariance, PTL
=============================================================================

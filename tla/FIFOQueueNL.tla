---------------------------- MODULE FIFOQueueNL ----------------------------
(***************************************************************************)
(* MyFifoQueueNL (myPub/myFIFOQueueNL.h): the lock-free ring between the   *)
(* I/O thread, its only producer, and the business thread, its only        *)
(* consumer.  One action per access to shared memory.                      *)
(*                                                                         *)
(* An atomic index is modelled by its modification order, the sequence of  *)
(* all values stored in it.  The owner of an index reads the latest one;   *)
(* the other thread reads the value at the position its own view has       *)
(* reached, which lags behind and only moves forward (the coherence that   *)
(* the acquire loads and release stores of the header ask for).  A slot of *)
(* buffer_ is plain memory: reading the current content is right only      *)
(* while there is no data race on it, which NoDataRace states.             *)
(***************************************************************************)
EXTENDS Integers, Sequences

CONSTANTS
  Capacity,  \* slots of buffer_, the constructor's argument
  Items,     \* what the callers queue
  NoItem,    \* content of a slot never written
  MaxAccept  \* bound: how many pushes succeed

ASSUME CapacityAssumption == Capacity \in Nat /\ Capacity > 1
ASSUME MaxAcceptAssumption == MaxAccept \in Nat
ASSUME NoItemAssumption == NoItem \notin Items

Slots == 0 .. Capacity - 1

VARIABLES
  buffer,       \* buffer_
  write_index,  \* modification order of write_index_
  read_index,   \* modification order of read_index_
  wSeen,        \* position in write_index that the consumer's view reached
  rSeen,        \* position in read_index that the producer's view reached
  pPc, pValue,  \* where push() is, and its argument
  cPc, cValue,  \* where try_pop() is, and its out parameter
  slept,        \* try_pop() has slept for the timeout already
  accepted,     \* history: arguments of the pushes that returned true
  delivered     \* history: values of the pops that returned true

memory == <<buffer, write_index, read_index, wSeen, rSeen>>
producer == <<pPc, pValue, accepted>>
consumer == <<cPc, cValue, slept, delivered>>
vars == <<memory, producer, consumer>>

Latest(order) == order[Len(order)]

(* Definitions named ...Slip are mistakes a maintainer could make in the one *)
(* that follows; no specification uses them, the properties notice each.     *)
NextIndexSlip(i) == i + 1

NextIndex(i) == (i + 1) % Capacity

Init ==
  /\ buffer = [s \in Slots |-> NoItem]
  /\ write_index = <<0>> /\ wSeen = 1
  /\ read_index = <<0>> /\ rSeen = 1
  /\ pPc = "idle" /\ pValue = NoItem
  /\ cPc = "idle" /\ cValue = NoItem /\ slept = FALSE
  /\ accepted = <<>> /\ delivered = <<>>

-----------------------------------------------------------------------------
(* push(): both overloads; moving a trivially copyable T copies it. *)

(* The call. write_idx is the producer's own index, Latest(write_index). *)
PushCall(v) ==
  /\ pPc = "idle"
  /\ Len(accepted) < MaxAccept
  /\ pPc' = "load"
  /\ pValue' = v
  /\ UNCHANGED <<memory, accepted, consumer>>

FullSlip == FALSE
FullIsEmptySlip == Latest(write_index) = read_index[rSeen]

Full == NextIndex(Latest(write_index)) = read_index[rSeen]

(* Load read_index_ (acquire); on a full ring return false. *)
PushLoad ==
  /\ pPc = "load"
  /\ pPc' = IF Full THEN "idle" ELSE "copy"
  /\ UNCHANGED <<memory, pValue, accepted, consumer>>

PushCopySlip ==
  /\ pPc = "copy"
  /\ buffer' = [buffer EXCEPT ![NextIndex(Latest(write_index))] = pValue]
  /\ pPc' = "store"
  /\ UNCHANGED <<write_index, read_index, wSeen, rSeen, pValue, accepted, consumer>>

PushCopy ==
  /\ pPc = "copy"
  /\ buffer' = [buffer EXCEPT ![Latest(write_index)] = pValue]
  /\ pPc' = "store"
  /\ UNCHANGED <<write_index, read_index, wSeen, rSeen, pValue, accepted, consumer>>

(* Store write_index_ (release) and return true. *)
PushStore ==
  /\ pPc = "store"
  /\ write_index' = Append(write_index, NextIndex(Latest(write_index)))
  /\ accepted' = Append(accepted, pValue)
  /\ pPc' = "idle"
  /\ UNCHANGED <<buffer, read_index, wSeen, rSeen, pValue, consumer>>

-----------------------------------------------------------------------------
(* try_pop(), whose loop body is pop(). read_idx is Latest(read_index). *)

TryPopCall ==
  /\ cPc = "idle"
  /\ cPc' = "load"
  /\ slept' = FALSE
  /\ UNCHANGED <<memory, producer, cValue, delivered>>

EmptySlip == NextIndex(Latest(read_index)) = write_index[wSeen]

Empty == Latest(read_index) = write_index[wSeen]

(* Load write_index_ (acquire); on an empty ring pop() returns false. *)
PopLoad ==
  /\ cPc = "load"
  /\ cPc' = IF Empty THEN "empty" ELSE "copy"
  /\ UNCHANGED <<memory, producer, cValue, slept, delivered>>

PopCopySlip ==
  /\ cPc = "copy"
  /\ cValue' = buffer[NextIndex(Latest(read_index))]
  /\ cPc' = "store"
  /\ UNCHANGED <<memory, producer, slept, delivered>>

PopCopy ==
  /\ cPc = "copy"
  /\ cValue' = buffer[Latest(read_index)]
  /\ cPc' = "store"
  /\ UNCHANGED <<memory, producer, slept, delivered>>

(* Store read_index_ (release); pop() and try_pop() return true. *)
PopStore ==
  /\ cPc = "store"
  /\ read_index' = Append(read_index, NextIndex(Latest(read_index)))
  /\ delivered' = Append(delivered, cValue)
  /\ cPc' = "idle"
  /\ UNCHANGED <<buffer, write_index, wSeen, rSeen, producer, cValue, slept>>

(* elapsed >= timeout: certain after one sleep, possible before it. *)
TryPopTimeout ==
  /\ cPc = "empty"
  /\ cPc' = "idle"
  /\ UNCHANGED <<memory, producer, cValue, slept, delivered>>

(* elapsed < timeout: sleep for the whole timeout and pop() again. *)
TryPopSleep ==
  /\ cPc = "empty"
  /\ ~slept
  /\ slept' = TRUE
  /\ cPc' = "load"
  /\ UNCHANGED <<memory, producer, cValue, delivered>>

-----------------------------------------------------------------------------
(* The memory system: a store becomes visible to the other thread. *)

SeeWrite ==
  /\ wSeen < Len(write_index)
  /\ wSeen' = wSeen + 1
  /\ UNCHANGED <<buffer, write_index, read_index, rSeen, producer, consumer>>

SeeRead ==
  /\ rSeen < Len(read_index)
  /\ rSeen' = rSeen + 1
  /\ UNCHANGED <<buffer, write_index, read_index, wSeen, producer, consumer>>

ProducerStep == PushLoad \/ PushCopy \/ PushStore
ConsumerStep ==
  TryPopCall \/ PopLoad \/ PopCopy \/ PopStore \/ TryPopTimeout \/ TryPopSleep

Next ==
  \/ \E v \in Items : PushCall(v)
  \/ ProducerStep
  \/ ConsumerStep
  \/ SeeWrite
  \/ SeeRead

Spec == Init /\ [][Next]_vars

(***************************************************************************)
(* The business thread calls try_pop in a loop and a call to push runs to  *)
(* its end once begun; nobody promises that there is a call to push.  A    *)
(* store reaches the other core in finite time.                            *)
(***************************************************************************)
FairSpec ==
  /\ Spec
  /\ WF_vars(ProducerStep) /\ WF_vars(ConsumerStep)
  /\ WF_vars(SeeWrite) /\ WF_vars(SeeRead)

-----------------------------------------------------------------------------
(* Every index stored or used stays inside buffer_, and a view never runs  *)
(* ahead of the modification order it looks at.                            *)
TypeOK ==
  /\ buffer \in [Slots -> Items \cup {NoItem}]
  /\ write_index \in Seq(Slots) /\ wSeen \in 1 .. Len(write_index)
  /\ read_index \in Seq(Slots) /\ rSeen \in 1 .. Len(read_index)
  /\ pPc \in {"idle", "load", "copy", "store"} /\ pValue \in Items \cup {NoItem}
  /\ cPc \in {"idle", "load", "empty", "copy", "store"}
  /\ cValue \in Items \cup {NoItem} /\ slept \in BOOLEAN
  /\ accepted \in Seq(Items) /\ delivered \in Seq(Items \cup {NoItem})

(* The n-th item handed to the business thread is the n-th one the I/O     *)
(* thread queued: pop() loses, repeats, reorders and mangles none.         *)
FifoDelivery ==
  /\ Len(delivered) <= Len(accepted)
  /\ \A n \in 1 .. Len(delivered) : delivered[n] = accepted[n]

(* buffer_ is not atomic, so push() and pop() must never be copying the    *)
(* same slot; and a copy must come after the other side's last access to   *)
(* that slot in the order the release stores and acquire loads establish,  *)
(* even though each side may be looking at an old index of the other.      *)
NoDataRace ==
  /\ ~ (pPc = "copy" /\ cPc = "copy" /\ Latest(write_index) = Latest(read_index))
  /\ pPc = "copy" => Len(accepted) + 1 - Capacity <= rSeen - 1
  /\ cPc = "copy" => Len(delivered) + 1 <= wSeen - 1

(* push() returns false only with Capacity - 1 items in the ring, as far   *)
(* as the producer can tell when it loads read_index_: the comparison of   *)
(* wrapped indices never mistakes a fuller or an emptier ring for full.    *)
RefusedOnlyWhenFull ==
  [][pPc = "load" /\ pPc' = "idle"
       => Len(accepted) - (rSeen - 1) = Capacity - 1]_vars

(* pop() finds the ring empty only when every item whose publication the   *)
(* consumer can see has been taken: equal wrapped indices never mean full. *)
EmptyOnlyWhenDrained ==
  [][cPc = "load" /\ cPc' = "empty" => wSeen - 1 = Len(delivered)]_vars

(* The ring, read through its two indices, is a bounded FIFO queue with    *)
(* one usable slot less than it was given, its progress included.          *)
Waiting ==
  [k \in 1 .. Len(write_index) - Len(read_index)
     |-> buffer[(Latest(read_index) + k - 1) % Capacity]]
Fifo == INSTANCE BoundedFifo WITH queue <- Waiting, Bound <- Capacity - 1
ImplementsFifo == Fifo!Spec

(* myFIFOQueueNL.h:20 says one extra slot is allocated to tell full from   *)
(* empty; the ring would then hold as many items as the caller asked for.  *)
HoldsRequestedCapacity ==
  [][pPc = "load" /\ pPc' = "idle"
       => Len(accepted) - (rSeen - 1) = Capacity]_vars

-----------------------------------------------------------------------------
(* The inductive invariant behind the safety properties. The i-th value    *)
(* stored in an index is i - 1 modulo Capacity; the views bracket what is  *)
(* in the ring; an item stays in its slot until the consumer has taken it. *)
Positions ==
  /\ Len(write_index) = Len(accepted) + 1
  /\ Len(read_index) = Len(delivered) + 1
  /\ \A i \in 1 .. Len(write_index) : write_index[i] = (i - 1) % Capacity
  /\ \A i \in 1 .. Len(read_index) : read_index[i] = (i - 1) % Capacity

Room ==
  /\ Len(read_index) <= wSeen
  /\ Len(write_index) - rSeen <= Capacity - 1
  /\ pPc \in {"copy", "store"} => Len(write_index) - rSeen < Capacity - 1
  /\ cPc \in {"copy", "store"} => Len(read_index) < wSeen

Contents ==
  /\ \A n \in Len(delivered) + 1 .. Len(accepted) :
       buffer[(n - 1) % Capacity] = accepted[n]
  /\ pPc # "idle" => pValue \in Items
  /\ pPc = "store" => buffer[Len(accepted) % Capacity] = pValue
  /\ cPc = "store" => cValue = accepted[Len(delivered) + 1]

(* What every reachable state of the ring satisfies and every step keeps.  *)
IInv == TypeOK /\ Positions /\ Room /\ Contents /\ FifoDelivery
=============================================================================

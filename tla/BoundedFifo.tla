---------------------------- MODULE BoundedFifo ----------------------------
(***************************************************************************)
(* What a single-producer, single-consumer queue promises its two callers: *)
(* items leave in the order in which they were accepted, each once, and at *)
(* most Bound of them are inside at a time.  Nothing is said of indices,   *)
(* slots or memory order; FIFOQueueNL is shown to implement this module.   *)
(***************************************************************************)
EXTENDS Naturals, Sequences

CONSTANTS
  Items,     \* what can be queued
  Bound      \* how many accepted items may wait

VARIABLES
  queue,     \* accepted and not yet delivered, oldest first
  delivered  \* everything handed to the consumer, in order

vars == <<queue, delivered>>

Init ==
  /\ queue = <<>>
  /\ delivered = <<>>

(* A push that returns true. A refused push leaves no trace. *)
Put(v) ==
  /\ Len(queue) < Bound
  /\ queue' = Append(queue, v)
  /\ UNCHANGED delivered

(* A pop that returns true; it hands over the oldest item. *)
Take ==
  /\ queue # <<>>
  /\ delivered' = Append(delivered, Head(queue))
  /\ queue' = Tail(queue)

Next == (\E v \in Items : Put(v)) \/ Take

SafeSpec == Init /\ [][Next]_vars

(* The consumer keeps asking, so a waiting item is handed over some day. *)
Spec == SafeSpec /\ WF_vars(Take)
=============================================================================

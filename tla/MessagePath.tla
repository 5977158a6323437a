---------------------------- MODULE MessagePath ----------------------------
(***************************************************************************)
(* What becomes of an intact message: RecvMsg dispatches and counts it     *)
(* (session.cpp), the queue carries it, popAndParse routes it to the       *)
(* handler of its type and counts it (XSHEBusiness), while the main thread *)
(* shows the two tables of counts and, in the end, quits and joins         *)
(* (main.cpp, appManager.cpp).                                             *)
(*                                                                         *)
(* The queue is the FIFO that FIFOQueueNL implements; since the producer   *)
(* may see its room late and the consumer its content, push() may refuse   *)
(* and try_pop() give up at any time.  What the handlers of quotes do with *)
(* the table is MDParser's; how the I/O thread gets its messages and ends  *)
(* is IoThread's.                                                          *)
(*                                                                         *)
(* A message is known by its number: the n-th that RecvMsg received says   *)
(* received[n], in RecvMsg's buffer, in the queue and in queueData alike.  *)
(***************************************************************************)
EXTENDS Integers, Sequences, FiniteSets, Functions

CONSTANTS
  Messages,    \* messages that the gateway may send
  KnownIds,    \* keys of DictTradingSessionSubID, -1 among them
  QueueBound,  \* how many messages the queue takes
  MaxReceived  \* bound: how many messages are received

Handled == {"quote", "hkQuote", "hkStatus", "channelStat"}
Heartbeats == {"heartbeat", "channelHeartbeat"}
Types == Handled \cup Heartbeats \cup {"other"}

(* well: the body has the length that its counts and its type ask for *)
Message == [type : Types, well : BOOLEAN, id : Int]

ASSUME MessagesAssumption == Messages \subseteq Message
ASSUME KnownIdsAssumption == KnownIds \subseteq Int /\ -1 \in KnownIds
ASSUME BoundsAssumption == QueueBound \in Nat \ {0} /\ MaxReceived \in Nat

VARIABLES
  ioPc,            \* where RecvMsg is, with the message received last
  bPc, bNo,        \* where the business thread is, and what its queueData holds
  handlers,        \* types that MsgRouter has a handler for
  hkTradingSessionSubId,
  queue,
  fsIo, fsBusiness, mtxIo, mtxBusiness,
  mainPc, exitFlag,
  (* history *)
  received, dropped, \* the messages, in order, and those that push() refused
  processed          \* messages that their handler has dealt with, in order

ioVars == <<ioPc, received>>
businessVars == <<bPc, bNo, handlers, hkTradingSessionSubId, processed>>
mainVars == <<mainPc, exitFlag>>
transit == <<queue, dropped>>
stats == <<fsIo, fsBusiness>>
locks == <<mtxIo, mtxBusiness>>
vars == <<ioVars, businessVars, mainVars, transit, stats, locks>>

None == [t \in Types |-> 0]
ioNo == Len(received)
ioMsg == received[ioNo]
bMsg == received[bNo]

Alive == bPc # "aborted"

Init ==
  /\ ioPc = "loop" /\ bPc = "start" /\ bNo = 0
  /\ handlers = {} /\ hkTradingSessionSubId = -1
  /\ queue = <<>> /\ fsIo = None /\ fsBusiness = None
  /\ mtxIo = "free" /\ mtxBusiness = "free"
  /\ mainPc = "command" /\ exitFlag = FALSE
  /\ received = <<>> /\ dropped = {} /\ processed = <<>>

-----------------------------------------------------------------------------
(* What the steps of the three threads have in common: where a thread is,   *)
(* where it goes, and that it leaves the other two alone.                   *)

Io(here, next) ==
  Alive /\ ioPc = here /\ ioPc' = next /\ UNCHANGED <<businessVars, mainVars>>
Business(here, next) ==
  Alive /\ bPc = here /\ bPc' = next /\ UNCHANGED <<ioVars, mainVars>>
Main(here, next) ==
  /\ Alive /\ mainPc = here /\ mainPc' = next
  /\ UNCHANGED <<ioVars, businessVars, transit, stats>>

(* Definitions named ...Slip are mistakes a maintainer could make in the one *)
(* that follows; no specification uses them, the properties notice each.     *)
LockSlip(mutex, owner) == mutex' = owner
Lock(mutex, owner) == mutex = "free" /\ mutex' = owner
UnlockSlip(mutex) == UNCHANGED mutex
UnlockNotBusinessSlip(mutex) == mutex' = IF mutex = "business" THEN mutex ELSE "free"
Unlock(mutex) == mutex' = "free"

(* A new type is inserted with a success of 1, a known one gets one more. *)
CountedSlip(counts, type) == [counts EXCEPT ![type] = IF @ = 0 THEN 1 ELSE @]
Counted(counts, type) == [counts EXCEPT ![type] = @ + 1]

-----------------------------------------------------------------------------
(* The I/O thread: RecvMsg after the checksum, and the loop around it. *)

IoLoop ==
  /\ Io("loop", IF exitFlag THEN "done" ELSE "recv")
  /\ UNCHANGED <<received, transit, stats, locks>>

Recv(m) ==
  /\ Io("recv", IF m.type \in Heartbeats THEN "lock" ELSE "push")
  /\ Len(received) < MaxReceived
  /\ received' = Append(received, m)
  /\ UNCHANGED <<transit, stats, locks>>

(* The result of push() is not looked at. *)
Push ==
  /\ Io("push", "lock")
  /\ \/ /\ Len(queue) < QueueBound
        /\ queue' = Append(queue, ioNo) /\ UNCHANGED dropped
     \/ dropped' = dropped \cup {ioNo} /\ UNCHANGED queue
  /\ UNCHANGED <<received, stats, locks>>

IoLock ==
  /\ Io("lock", "count")
  /\ Lock(mtxIo, "io")
  /\ UNCHANGED <<received, transit, stats, mtxBusiness>>

IoCount ==
  /\ Io("count", "loop")
  /\ fsIo' = Counted(fsIo, ioMsg.type)
  /\ Unlock(mtxIo)
  /\ UNCHANGED <<received, transit, fsBusiness, mtxBusiness>>

(* RecvMsg returns an error; IoThread has what szIoThreadFunc does then. *)
RecvFails ==
  /\ Io("recv", "loop")
  /\ UNCHANGED <<received, transit, stats, locks>>

-----------------------------------------------------------------------------
(* The business thread. *)

initializeMsgHandlers ==
  /\ Business("start", "loop")
  /\ handlers' = Handled
  /\ UNCHANGED <<bNo, hkTradingSessionSubId, processed, transit, stats, locks>>

(* exitFlag ends the loop, whatever is still in the queue. *)
BusinessLoop ==
  /\ Business("loop", IF exitFlag THEN "done" ELSE "pop")
  /\ UNCHANGED <<bNo, handlers, hkTradingSessionSubId, processed, transit, stats, locks>>

Pop ==
  /\ Business("pop", "route")
  /\ queue # <<>>
  /\ bNo' = Head(queue) /\ queue' = Tail(queue)
  /\ UNCHANGED <<handlers, hkTradingSessionSubId, processed, dropped, stats, locks>>

PopTimeout ==
  /\ Business("pop", "loop")
  /\ UNCHANGED <<bNo, handlers, hkTradingSessionSubId, processed, transit, stats, locks>>

(* route() runs the handler if there is one and deserializeBody() accepts   *)
(* the body; what it returns is not looked at.                              *)
RoutableSlip == bMsg.type \in handlers
Routable == bMsg.type \in handlers /\ bMsg.well
StatusChange == bMsg.type = "hkStatus" /\ bMsg.id # hkTradingSessionSubId

Route ==
  /\ Business("route", "lock")
  /\ ~(Routable /\ StatusChange)
  /\ processed' = IF Routable THEN Append(processed, bNo) ELSE processed
  /\ UNCHANGED <<bNo, handlers, hkTradingSessionSubId, transit, stats, locks>>

(* The names of both ids are looked up for the log line before the new id  *)
(* is kept: of an id that the dictionary lacks, at() throws, nobody        *)
(* catches, and the process is terminated.                                 *)
NamedSlip == hkTradingSessionSubId \in KnownIds
Named == {hkTradingSessionSubId, bMsg.id} \subseteq KnownIds

OnRealTimeHKMarketStatus ==
  /\ Business("route", IF Named THEN "lock" ELSE "aborted")
  /\ Routable /\ StatusChange
  /\ IF Named THEN /\ hkTradingSessionSubId' = bMsg.id
                   /\ processed' = Append(processed, bNo)
              ELSE UNCHANGED <<hkTradingSessionSubId, processed>>
  /\ UNCHANGED <<bNo, handlers, transit, stats, locks>>

BusinessLock ==
  /\ Business("lock", "count")
  /\ Lock(mtxBusiness, "business")
  /\ UNCHANGED <<bNo, handlers, hkTradingSessionSubId, processed, transit, stats, mtxIo>>

(* Counted as a success, whatever route() returned. *)
BusinessCount ==
  /\ Business("count", "loop")
  /\ fsBusiness' = Counted(fsBusiness, bMsg.type)
  /\ Unlock(mtxBusiness)
  /\ UNCHANGED <<bNo, handlers, hkTradingSessionSubId, processed, transit, fsIo, mtxIo>>

-----------------------------------------------------------------------------
(* The main thread: its commands s and q (d and c are MDParser's), show()   *)
(* with one lock after the other, and the two joins.                        *)

ShowIo ==
  Main("command", "showIo") /\ Lock(mtxIo, "main") /\ UNCHANGED <<exitFlag, mtxBusiness>>
ShowIoDone ==
  Main("showIo", "showNext") /\ Unlock(mtxIo) /\ UNCHANGED <<exitFlag, mtxBusiness>>
ShowBusiness ==
  Main("showNext", "showBusiness") /\ Lock(mtxBusiness, "main") /\ UNCHANGED <<exitFlag, mtxIo>>
ShowDone ==
  Main("showBusiness", "command") /\ Unlock(mtxBusiness) /\ UNCHANGED <<exitFlag, mtxIo>>

Quit == Main("command", "joinIo") /\ exitFlag' = TRUE /\ UNCHANGED locks
JoinIo ==
  Main("joinIo", "joinBusiness") /\ ioPc = "done" /\ UNCHANGED <<exitFlag, locks>>
JoinBusiness ==
  Main("joinBusiness", "returned") /\ bPc = "done" /\ UNCHANGED <<exitFlag, locks>>

-----------------------------------------------------------------------------
IoStep == IoLoop \/ Push \/ IoLock \/ IoCount
BusinessStep ==
  \/ initializeMsgHandlers \/ BusinessLoop \/ Pop \/ PopTimeout
  \/ Route \/ OnRealTimeHKMarketStatus \/ BusinessLock \/ BusinessCount
MainStep == ShowIoDone \/ ShowBusiness \/ ShowDone \/ JoinIo \/ JoinBusiness

Next ==
  \/ \E m \in Messages : Recv(m)
  \/ RecvFails
  \/ IoStep \/ BusinessStep \/ MainStep
  \/ ShowIo \/ Quit

Spec == Init /\ [][Next]_vars

(***************************************************************************)
(* The threads run, and a thread that keeps finding the other inside a     *)
(* short critical section gets the mutex in the end.  A message in the     *)
(* queue is seen by one of the try_pop() calls that follow.  After q, a    *)
(* recv() that still waits gets something or fails.  Nobody has to send a  *)
(* message or to type a command.                                           *)
(***************************************************************************)
FairSpec ==
  /\ Spec
  /\ WF_vars(IoStep) /\ SF_vars(IoLock) /\ WF_vars(exitFlag /\ RecvFails)
  /\ WF_vars(BusinessStep) /\ SF_vars(Pop) /\ SF_vars(BusinessLock)
  /\ WF_vars(MainStep) /\ SF_vars(ShowBusiness)

-----------------------------------------------------------------------------
(* Type invariant. *)
Counts == [Types -> 0 .. MaxReceived]
Numbers == 1 .. Len(received)
TypeOK ==
  /\ received \in Seq(Message) /\ Len(received) <= MaxReceived
  /\ ioPc \in {"loop", "recv", "push", "lock", "count", "done"}
  /\ bPc \in {"start", "loop", "pop", "route", "lock", "count", "done", "aborted"}
  /\ bNo \in {0} \cup Numbers
  /\ handlers \subseteq Handled /\ hkTradingSessionSubId \in KnownIds
  /\ queue \in Seq(Numbers) /\ Len(queue) <= QueueBound
  /\ fsIo \in Counts /\ fsBusiness \in Counts /\ dropped \subseteq Numbers
  /\ mtxIo \in {"free", "io", "main"} /\ mtxBusiness \in {"free", "business", "main"}
  /\ mainPc \in {"command", "showIo", "showNext", "showBusiness",
                 "joinIo", "joinBusiness", "returned"}
  /\ exitFlag \in BOOLEAN
  /\ processed \in Seq(Numbers)

(* show() iterates over an unordered_map that the other thread may insert  *)
(* into: never both at once, for either of the two maps.                   *)
NoMapRace ==
  /\ ~(mainPc = "showIo" /\ ioPc = "count")
  /\ ~(mainPc = "showBusiness" /\ bPc = "count")

(* The two tables add up: what the I/O thread has counted of a type, or is *)
(* about to, is what the business thread has counted or is about to, plus  *)
(* what waits in the queue and what the queue refused. A message is        *)
(* neither lost without a trace nor counted twice by either thread.        *)
Of(S, t) == Cardinality({n \in S : received[n].type = t})
AtIo(t, pcs) == IF ioPc \in pcs /\ ioMsg.type = t THEN 1 ELSE 0
AtBusiness(t) ==
  IF bPc \in {"route", "lock", "count", "aborted"} /\ bMsg.type = t THEN 1 ELSE 0
CountsAddUp ==
  \A t \in Types \ Heartbeats :
    fsIo[t] + AtIo(t, {"lock", "count"})
      = fsBusiness[t] + AtBusiness(t) + Of(Range(queue), t) + Of(dropped, t)

(* hkTradingSessionSubId is what the last market status handled said, in   *)
(* the order of reception, and a name is known for it.                     *)
StatusAt(i) == received[processed[i]].type = "hkStatus"
StatusFollows ==
  /\ hkTradingSessionSubId \in KnownIds
  /\ IF \E i \in DOMAIN processed : StatusAt(i)
     THEN \E i \in DOMAIN processed :
            /\ StatusAt(i) /\ received[processed[i]].id = hkTradingSessionSubId
            /\ \A j \in i + 1 .. Len(processed) : ~StatusAt(j)
     ELSE hkTradingSessionSubId = -1

(* The handlers deal with well-formed messages of their types, each once    *)
(* and in the order of reception; those that they have not dealt with the   *)
(* queue has refused, or they are still on their way.                       *)
Due(n) == received[n].type \in Handled /\ received[n].well
OnItsWay(n) ==
  \/ ioPc = "push" /\ n = ioNo
  \/ n \in Range(queue)
  \/ bPc \in {"route", "aborted"} /\ n = bNo
Ascending(s) == \A i \in DOMAIN s : \A j \in 1 .. i - 1 : s[j] < s[i]
HandledInOrder ==
  /\ Ascending(processed)
  /\ \A n \in Range(processed) : Due(n)
  /\ \A n \in Numbers : Due(n) => n \in Range(processed) \cup dropped \/ OnItsWay(n)

(* What makes these inductive: who is where holds which mutex, ...          *)
Mutexes ==
  /\ mtxIo = "io" <=> ioPc = "count"
  /\ mtxIo = "main" <=> mainPc = "showIo"
  /\ mtxBusiness = "business" <=> bPc = "count"
  /\ mtxBusiness = "main" <=> mainPc = "showBusiness"

(* ... the messages keep their order from the socket to the handlers, ...   *)
Line ==
  /\ ioPc \in {"push", "lock", "count"} => ioNo # 0
  /\ ioPc = "push" => ioMsg.type \notin Heartbeats
  /\ ioPc = "push" => \A n \in Range(queue) \cup dropped \cup {bNo} : n < ioNo
  /\ Ascending(queue) /\ \A n \in Range(queue) : bNo < n
  /\ bPc \in {"route", "lock", "count", "aborted"} => bNo # 0
  /\ \A n \in (Range(queue) \cup {bNo}) \ {0} : received[n].type \notin Heartbeats
  /\ \A n \in Range(processed) : n < bNo \/ (n = bNo /\ bPc # "route")
  /\ bPc # "start" => handlers = Handled

(* ... and no count exceeds the number of messages.                         *)
Bounded ==
  /\ \A t \in Types : fsIo[t] + AtIo(t, {"push", "lock", "count"}) <= Len(received)
  /\ \A t \in Heartbeats : fsBusiness[t] = 0

IInv ==
  /\ TypeOK /\ Mutexes /\ Line /\ Bounded
  /\ CountsAddUp /\ StatusFollows /\ HandledInOrder

(* No two threads wait for each other's mutex or end: after q, main() gets *)
(* through both joins, unless an unknown id has terminated the process.    *)
QuitReturns == exitFlag ~> mainPc = "returned" \/ ~Alive

(* What is in the queue gets to popAndParse, or the user quits, or the     *)
(* process dies of an unknown id.                                          *)
QueueDrains == queue # <<>> ~> queue = <<>> \/ exitFlag \/ ~Alive
=============================================================================

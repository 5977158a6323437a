--------------------------- MODULE IoThreadProofs ---------------------------
(* Proofs about IoThread, for any number of descriptors and of messages     *)
(* under way.                                                               *)
EXTENDS IoThread, WellFoundedInduction, FiniteSetTheorems, SequenceTheorems, TLAPS

(* A set of natural numbers has a least element. *)
LEMMA LeastNat ==
  ASSUME NEW T \in SUBSET Nat, T # {}
  PROVE  \E x \in T : \A y \in T : x <= y
<1> DEFINE R == {ss \in Nat \X Nat : ss[1] < ss[2]}
<1>1. IsWellFoundedOn(R, Nat)
  BY NatLessThanWellFounded DEF OpToRel
<1>2. PICK x \in T : \A y \in T : ~ (<<y, x>> \in R)
  <2> HIDE DEF R
  <2>1. QED
    BY <1>1, WFMin
<1>3. ASSUME NEW y \in T PROVE x <= y
  <2>1. <<y, x>> \in Nat \X Nat /\ <<y, x>>[1] = y /\ <<y, x>>[2] = x
    OBVIOUS
  <2>2. ~ (y < x)
    BY <1>2, <2>1
  <2>3. QED
    BY <2>2
<1>4. QED
  BY <1>3

(* The system hands out a descriptor that is free. *)
LEMMA LowestIsFree ==
  ASSUME Free # {}
  PROVE  Lowest(Free) \in Free
<1>1. Free \subseteq Nat
  BY BoundsAssumption DEF Free, Fds
<1>2. \E f \in Free : \A g \in Free : f <= g
  BY <1>1, LeastNat
<1>3. QED
  BY <1>2 DEF Lowest

(* The table of descriptors is finite, and so are the sockets in it. *)
LEMMA SocketsFinite ==
  ASSUME NEW k
  PROVE  IsFiniteSet(SocketsOf(k)) /\ Cardinality(SocketsOf(k)) \in Nat
<1>1. IsFiniteSet(Fds)
  BY FS_Interval, BoundsAssumption DEF Fds
<1>2. SocketsOf(k) \in SUBSET Fds
  BY DEF SocketsOf
<1>3. QED
  BY <1>1, <1>2, FS_Subset, FS_CardinalityType

LEMMA SocketOpened ==
  ASSUME NEW k \in [Fds -> {"terminal", "free", "socket", "file"}], NEW f \in Fds,
         k[f] # "socket"
  PROVE  Cardinality(SocketsOf([k EXCEPT ![f] = "socket"])) = Cardinality(SocketsOf(k)) + 1
<1>1. SocketsOf([k EXCEPT ![f] = "socket"]) = SocketsOf(k) \cup {f}
  BY DEF SocketsOf
<1>2. f \notin SocketsOf(k)
  BY DEF SocketsOf
<1>3. QED
  BY <1>1, <1>2, SocketsFinite, FS_AddElement

(* Whatever else becomes of a descriptor: one socket less if it was one. *)
LEMMA NoSocketAnyMore ==
  ASSUME NEW k \in [Fds -> {"terminal", "free", "socket", "file"}], NEW f \in Fds,
         NEW what \in {"free", "file"}
  PROVE  /\ k[f] = "socket" => Cardinality(SocketsOf([k EXCEPT ![f] = what]))
                                 = Cardinality(SocketsOf(k)) - 1
         /\ k[f] # "socket" => Cardinality(SocketsOf([k EXCEPT ![f] = what]))
                                 = Cardinality(SocketsOf(k))
<1>1. SocketsOf([k EXCEPT ![f] = what]) = SocketsOf(k) \ {f}
  BY DEF SocketsOf
<1>2. f \in SocketsOf(k) <=> k[f] = "socket"
  BY DEF SocketsOf
<1>3. QED
  <2>1. IsFiniteSet(SocketsOf(k)) /\ Cardinality(SocketsOf(k)) \in Nat
    BY SocketsFinite
  <2>2. Cardinality(SocketsOf(k) \ {f})
          = IF f \in SocketsOf(k) THEN Cardinality(SocketsOf(k)) - 1 ELSE Cardinality(SocketsOf(k))
    BY <2>1, FS_RemoveElement
  <2>3. CASE k[f] = "socket"
    BY <1>1, <1>2, <2>1, <2>2, <2>3
  <2>4. CASE k[f] # "socket"
    BY <1>1, <1>2, <2>2, <2>4
  <2>5. QED
    BY <2>3, <2>4

-----------------------------------------------------------------------------
LEMMA InitIInv == Init => IInv
<1>1. SUFFICES ASSUME Init PROVE IInv
  OBVIOUS
<1>2. 0 \in Fds /\ NoFile \notin Fds
  BY BoundsAssumption DEF Fds, NoFile
<1>3. TypeOK
  <2>1. <<>> \in Seq(Message)
    BY EmptySeq
  <2>2. QED
    BY <1>1, <1>2, <2>1 DEF Init, TypeOK
<1>4. Control
  BY <1>1 DEF Init, Control
<1>5. Descriptors
  BY <1>1, <1>2 DEF Init, Descriptors, OnSocket
<1>6. Leaks
  <2>1. SocketsOf(kind) = {}
    BY <1>1 DEF Init, SocketsOf
  <2>2. QED
    BY <1>1, <2>1, FS_EmptySet DEF Init, Leaks
<1>7. QED
  BY <1>3, <1>4, <1>5, <1>6 DEF IInv

(* Steps that open and close nothing and leave clientSocket alone: what     *)
(* they must keep of the rest.                                              *)
LEMMA KeepsDescriptors ==
  ASSUME IInv, TypeOK', Control',
         UNCHANGED <<kind, clientSocket, dumpFile, exitFlag>>,
         pc' \in {"dial", "sendLogon", "recvLogon"} => OnSocket,
         needReconnect' = 0 /\ pc' # "done" => OnSocket,
         pc' = "recvMsg" => OnSocket \/ exitFlag,
         \/ failures' = failures + 1
         \/ failures' = failures /\ (Abandoned' => Abandoned)
  PROVE  IInv'
<1>1. Descriptors'
  BY DEF IInv, Descriptors, OnSocket
<1>2. Leaks'
  <2>1. failures \in Nat /\ Cardinality(SocketsOf(kind)) \in Nat
    BY SocketsFinite DEF IInv, TypeOK
  <2>2. SocketsOf(kind') = SocketsOf(kind)
    OBVIOUS
  <2>3. CASE failures' = failures + 1
    BY <2>1, <2>2, <2>3 DEF IInv, Leaks
  <2>4. CASE failures' = failures /\ (Abandoned' => Abandoned)
    BY <2>1, <2>2, <2>4 DEF IInv, Leaks
  <2>5. QED
    BY <2>3, <2>4
<1>3. QED
  BY <1>1, <1>2 DEF IInv

(* A file is never where the I/O thread is about to use a socket. *)
LEMMA NoFileThere ==
  ASSUME IInv, pc \in {"dial", "sendLogon", "recvLogon", "recvMsg", "logout", "close"}
  PROVE  kind[clientSocket] # "file" /\ (OnSocket \/ exitFlag)
<1>1. clientSocket \in Fds /\ NoFile \notin Fds
  BY BoundsAssumption DEF IInv, TypeOK, Fds, NoFile
<1>2. OnSocket \/ exitFlag
  BY DEF IInv, Control, Descriptors
<1>3. CASE OnSocket
  BY <1>3 DEF OnSocket
<1>4. CASE exitFlag
  BY <1>1, <1>4 DEF IInv, Descriptors
<1>5. QED
  BY <1>2, <1>3, <1>4

(* Receiving takes the first message off the connection. *)
LEMMA InboxTail ==
  ASSUME TypeOK, inbox # <<>>
  PROVE  Head(inbox) \in Message /\ Tail(inbox) \in Seq(Message)
  BY HeadTailProperties DEF TypeOK

LEMMA OuterLoopIInv == IInv /\ OuterLoop => IInv'
<1>1. SUFFICES ASSUME IInv, OuterLoop PROVE IInv'
  OBVIOUS
<1>2. TypeOK'
  BY <1>1 DEF IInv, TypeOK, OuterLoop, Loops, io, main, gateway, history
<1>3. Control'
  BY <1>1 DEF IInv, Control, OuterLoop, Loops, io, main, gateway, history
<1>4. QED
  BY <1>1, <1>2, <1>3, KeepsDescriptors
  DEF IInv, TypeOK, Control, Descriptors, Abandoned, OuterLoop, Loops, io, main, gateway,
  history

LEMMA InnerLoopIInv == IInv /\ InnerLoop => IInv'
<1>1. SUFFICES ASSUME IInv, InnerLoop PROVE IInv'
  OBVIOUS
<1>2. TypeOK'
  BY <1>1 DEF IInv, TypeOK, InnerLoop, Loops, io, main, gateway, history, GoesOn
<1>3. Control'
  BY <1>1 DEF IInv, Control, InnerLoop, Loops, io, main, gateway, history, GoesOn
<1>4. QED
  BY <1>1, <1>2, <1>3, KeepsDescriptors
  DEF IInv, TypeOK, Control, Descriptors, Abandoned, InnerLoop, Loops, io, main, gateway,
  history, GoesOn

LEMMA WakeIInv == IInv /\ Wake => IInv'
<1>1. SUFFICES ASSUME IInv, Wake PROVE IInv'
  OBVIOUS
<1>2. TypeOK'
  BY <1>1 DEF IInv, TypeOK, Wake, io, main, gateway
<1>3. Control'
  BY <1>1 DEF IInv, Control, Wake, io, main, gateway
<1>4. QED
  BY <1>1, <1>2, <1>3, KeepsDescriptors
  DEF IInv, TypeOK, Control, Descriptors, Abandoned, Wake, io, main, gateway

LEMMA SocketFailsIInv == IInv /\ SocketFails => IInv'
<1>1. SUFFICES ASSUME IInv, SocketFails PROVE IInv'
  OBVIOUS
<1>2. TypeOK'
  BY <1>1 DEF IInv, TypeOK, SocketFails, Loops, io, main, gateway, history
<1>3. Control'
  BY <1>1 DEF IInv, Control, SocketFails, Loops, io, main, gateway, history
<1>4. QED
  BY <1>1, <1>2, <1>3, KeepsDescriptors
  DEF IInv, TypeOK, Control, Descriptors, Abandoned, SocketFails, Loops, io, main, gateway,
  history

(* The socket that is opened is the first that the failures so far do not   *)
(* account for.                                                             *)
LEMMA OpenSocketIInv == IInv /\ OpenSocket => IInv'
<1>1. SUFFICES ASSUME IInv, OpenSocket PROVE IInv'
  OBVIOUS
<1>2. clientSocket' \in Fds /\ kind[clientSocket'] = "free"
  BY <1>1, LowestIsFree DEF OpenSocket, Free
<1>3. kind \in [Fds -> {"terminal", "free", "socket", "file"}] /\ failures \in Nat
  BY <1>1 DEF IInv, TypeOK
<1>4. TypeOK'
  <2>1. <<>> \in Seq(Message)
    BY EmptySeq
  <2>2. QED
    BY <1>1, <1>2, <2>1 DEF IInv, TypeOK, OpenSocket, main
<1>5. Control'
  BY <1>1 DEF IInv, Control, OpenSocket
<1>6. Descriptors'
  BY <1>1, <1>2, <1>3 DEF IInv, Descriptors, Control, OnSocket, OpenSocket, main
<1>7. Leaks'
  <2>1. Abandoned
    BY <1>1 DEF IInv, Control, Abandoned, OpenSocket
  <2>2. Cardinality(SocketsOf(kind')) = Cardinality(SocketsOf(kind)) + 1
    BY <1>1, <1>2, <1>3, SocketOpened DEF OpenSocket
  <2>3. Cardinality(SocketsOf(kind)) <= failures
    BY <1>1, <2>1 DEF IInv, Leaks
  <2>4. ~Abandoned' /\ failures' = failures
    BY <1>1 DEF OpenSocket, Abandoned
  <2>5. QED
    BY <1>3, <2>2, <2>3, <2>4, SocketsFinite DEF Leaks
<1>8. QED
  BY <1>4, <1>5, <1>6, <1>7 DEF IInv

LEMMA ConnectedIInv == IInv /\ Connected => IInv'
<1>1. SUFFICES ASSUME IInv, Connected PROVE IInv'
  OBVIOUS
<1>2. TypeOK'
  BY <1>1 DEF IInv, TypeOK, Connected, io, main, gateway, history
<1>3. Control'
  BY <1>1 DEF IInv, Control, Connected, io, main, gateway, history
<1>4. QED
  BY <1>1, <1>2, <1>3, KeepsDescriptors
  DEF IInv, TypeOK, Control, Descriptors, Abandoned, Connected, io, main, gateway, history

LEMMA ConnectFailsIInv == IInv /\ ConnectFails => IInv'
<1>1. SUFFICES ASSUME IInv, ConnectFails PROVE IInv'
  OBVIOUS
<1>2. /\ kind \in [Fds -> {"terminal", "free", "socket", "file"}] /\ failures \in Nat
      /\ clientSocket \in Fds
  BY <1>1 DEF IInv, TypeOK
<1>3. kind[clientSocket] # "file"
  BY <1>1, NoFileThere DEF ConnectFails
<1>4. TypeOK'
  BY <1>1, <1>2 DEF IInv, TypeOK, ConnectFails, Closed, io, main, gateway, history
<1>5. Control'
  BY <1>1 DEF IInv, Control, ConnectFails, io
<1>6. Descriptors'
  BY <1>1, <1>2, <1>3
  DEF IInv, TypeOK, Descriptors, Control, OnSocket, ConnectFails, Closed, io, main, NoFile
<1>7. Leaks'
  <2>1. /\ OnSocket => Cardinality(SocketsOf(kind')) = Cardinality(SocketsOf(kind)) - 1
        /\ ~OnSocket => Cardinality(SocketsOf(kind')) = Cardinality(SocketsOf(kind))
    BY <1>1, <1>2, NoSocketAnyMore DEF ConnectFails, Closed, OnSocket
  <2>2. OnSocket /\ Cardinality(SocketsOf(kind)) <= failures + 1 /\ failures' = failures
    BY <1>1 DEF IInv, Descriptors, Leaks, Abandoned, ConnectFails, history
  <2>3. QED
    BY <1>2, <2>1, <2>2, SocketsFinite DEF Leaks
<1>8. QED
  BY <1>4, <1>5, <1>6, <1>7 DEF IInv

LEMMA BrokenPipeIInv == IInv /\ BrokenPipe => IInv'
<1>1. SUFFICES ASSUME IInv, BrokenPipe PROVE IInv'
  OBVIOUS
<1>2. TypeOK'
  BY <1>1 DEF IInv, TypeOK, BrokenPipe, Loops, io, main, gateway, history
<1>3. Control'
  BY <1>1 DEF IInv, Control, BrokenPipe, Loops, io, main, gateway, history
<1>4. QED
  BY <1>1, <1>2, <1>3, KeepsDescriptors
  DEF IInv, TypeOK, Control, Descriptors, Abandoned, BrokenPipe, Loops, io, main, gateway,
  history

LEMMA SendLogonIInv == IInv /\ SendLogon => IInv'
<1>1. SUFFICES ASSUME IInv, SendLogon PROVE IInv'
  OBVIOUS
<1>2. TypeOK'
  BY <1>1 DEF IInv, TypeOK, SendLogon, Writable, io, main, gateway, history
<1>3. Control'
  BY <1>1 DEF IInv, Control, SendLogon, Writable, io, main, gateway, history
<1>4. QED
  BY <1>1, <1>2, <1>3, KeepsDescriptors
  DEF IInv, TypeOK, Control, Descriptors, Abandoned, SendLogon, Writable, io, main, gateway,
  history

LEMMA SendLogonFailsIInv == IInv /\ SendLogonFails => IInv'
<1>1. SUFFICES ASSUME IInv, SendLogonFails PROVE IInv'
  OBVIOUS
<1>2. failures' = failures + 1 /\ failures' \in Nat
  BY <1>1 DEF IInv, TypeOK, SendLogonFails, GiveUp, CountFailure, io, main, gateway
<1>3. /\ UNCHANGED <<kind, clientSocket, dumpFile, exitFlag>>
      /\ UNCHANGED <<peer, session, loggedOn>> /\ rested' = FALSE
  BY <1>1 DEF SendLogonFails, GiveUp, CountFailure, io, main, gateway
<1>4. TypeOK'
  BY <1>1, <1>2, <1>3
     DEF IInv, TypeOK, SendLogonFails, GiveUp, CountFailure, io, main, gateway
<1>5. Control'
  BY <1>1 DEF IInv, Control, SendLogonFails, GiveUp, CountFailure, io, main, gateway
<1>6. /\ pc' \in {"dial", "sendLogon", "recvLogon"} => OnSocket
      /\ needReconnect' = 0 /\ pc' # "done" => OnSocket
      /\ pc' = "recvMsg" => OnSocket \/ exitFlag
  BY <1>1 DEF IInv, Control, SendLogonFails, GiveUp, CountFailure, io, main, gateway
<1>7. QED
  BY <1>1, <1>2, <1>3, <1>4, <1>5, <1>6, KeepsDescriptors

LEMMA RecvLogonIInv == IInv /\ RecvLogon => IInv'
<1>1. SUFFICES ASSUME IInv, RecvLogon PROVE IInv'
  OBVIOUS
<1>2. TypeOK'
  BY <1>1, InboxTail DEF IInv, TypeOK, RecvLogon, Arrived, main, gateway
<1>3. Control'
  BY <1>1 DEF IInv, Control, RecvLogon, Arrived, main, gateway
<1>4. QED
  BY <1>1, <1>2, <1>3, KeepsDescriptors
  DEF IInv, TypeOK, Control, Descriptors, Abandoned, RecvLogon, Arrived, main, gateway

LEMMA RecvLogonRejectsIInv == IInv /\ RecvLogonRejects => IInv'
<1>1. SUFFICES ASSUME IInv, RecvLogonRejects PROVE IInv'
  OBVIOUS
<1>2. failures' = failures + 1 /\ failures' \in Nat
  BY <1>1 DEF IInv, TypeOK, RecvLogonRejects, GiveUp, CountFailure, io, main, gateway
<1>3. /\ UNCHANGED <<kind, clientSocket, dumpFile, exitFlag>>
      /\ UNCHANGED <<peer, session, loggedOn>> /\ rested' = FALSE
  BY <1>1 DEF RecvLogonRejects, GiveUp, CountFailure, io, main, gateway
<1>8. inbox' \in Seq(Message)
  <2>1. <<"junk">> \in Seq(Message)
    BY DEF Message
  <2>2. QED
    BY <1>1, <2>1, InboxTail DEF IInv, RecvLogonRejects, Arrived
<1>4. TypeOK'
  BY <1>1, <1>2, <1>3, <1>8
     DEF IInv, TypeOK, RecvLogonRejects, GiveUp, CountFailure, io, main, gateway
<1>5. Control'
  BY <1>1 DEF IInv, Control, RecvLogonRejects, GiveUp, CountFailure, io, main, gateway
<1>6. /\ pc' \in {"dial", "sendLogon", "recvLogon"} => OnSocket
      /\ needReconnect' = 0 /\ pc' # "done" => OnSocket
      /\ pc' = "recvMsg" => OnSocket \/ exitFlag
  BY <1>1 DEF IInv, Control, RecvLogonRejects, GiveUp, CountFailure, io, main, gateway
<1>7. QED
  BY <1>1, <1>2, <1>3, <1>4, <1>5, <1>6, KeepsDescriptors

LEMMA RecvLogonFailsIInv == IInv /\ RecvLogonFails => IInv'
<1>1. SUFFICES ASSUME IInv, RecvLogonFails PROVE IInv'
  OBVIOUS
<1>2. failures' = failures + 1 /\ failures' \in Nat
  BY <1>1 DEF IInv, TypeOK, RecvLogonFails, GiveUp, CountFailure, io, main, gateway
<1>3. /\ UNCHANGED <<kind, clientSocket, dumpFile, exitFlag>>
      /\ UNCHANGED <<peer, session, loggedOn>> /\ rested' = FALSE
  BY <1>1 DEF RecvLogonFails, GiveUp, CountFailure, io, main, gateway
<1>4. TypeOK'
  BY <1>1, <1>2, <1>3
     DEF IInv, TypeOK, RecvLogonFails, GiveUp, CountFailure, io, main, gateway
<1>5. Control'
  BY <1>1 DEF IInv, Control, RecvLogonFails, GiveUp, CountFailure, io, main, gateway
<1>6. /\ pc' \in {"dial", "sendLogon", "recvLogon"} => OnSocket
      /\ needReconnect' = 0 /\ pc' # "done" => OnSocket
      /\ pc' = "recvMsg" => OnSocket \/ exitFlag
  BY <1>1 DEF IInv, Control, RecvLogonFails, GiveUp, CountFailure, io, main, gateway
<1>7. QED
  BY <1>1, <1>2, <1>3, <1>4, <1>5, <1>6, KeepsDescriptors

LEMMA RecvGoodIInv == IInv /\ RecvGood => IInv'
<1>1. SUFFICES ASSUME IInv, RecvGood PROVE IInv'
  OBVIOUS
<1>2. TypeOK'
  BY <1>1, InboxTail DEF IInv, TypeOK, RecvGood, Arrived, Intact, Message, main, gateway
<1>3. Control'
  BY <1>1 DEF IInv, Control, RecvGood, Arrived, Intact, Message, main, gateway
<1>4. QED
  BY <1>1, <1>2, <1>3, KeepsDescriptors
  DEF IInv, TypeOK, Control, Descriptors, Abandoned, RecvGood, Arrived, Intact, Message,
  main, gateway

LEMMA RecvBadIInv == IInv /\ RecvBad => IInv'
<1>1. SUFFICES ASSUME IInv, RecvBad PROVE IInv'
  OBVIOUS
<1>2. failures' = failures + 1 /\ failures' \in Nat
  BY <1>1 DEF IInv, TypeOK, RecvBad, Arrived, CountFailure, main, gateway
<1>3. /\ UNCHANGED <<kind, clientSocket, dumpFile, exitFlag>>
      /\ UNCHANGED <<peer, session, loggedOn>> /\ rested' = FALSE
  BY <1>1 DEF RecvBad, Arrived, CountFailure, main, gateway
<1>4. TypeOK'
  BY <1>1, <1>2, <1>3, InboxTail
     DEF IInv, TypeOK, RecvBad, Arrived, CountFailure, main, gateway
<1>5. Control'
  BY <1>1 DEF IInv, Control, RecvBad, Arrived, CountFailure, main, gateway
<1>6. /\ pc' \in {"dial", "sendLogon", "recvLogon"} => OnSocket
      /\ needReconnect' = 0 /\ pc' # "done" => OnSocket
      /\ pc' = "recvMsg" => OnSocket \/ exitFlag
  BY <1>1 DEF IInv, Control, RecvBad, Arrived, CountFailure, main, gateway
<1>7. QED
  BY <1>1, <1>2, <1>3, <1>4, <1>5, <1>6, KeepsDescriptors

LEMMA RecvFailsIInv == IInv /\ RecvFails => IInv'
<1>1. SUFFICES ASSUME IInv, RecvFails PROVE IInv'
  OBVIOUS
<1>2. failures' = failures + 1 /\ failures' \in Nat
  BY <1>1 DEF IInv, TypeOK, RecvFails, Error, CountFailure, main, gateway
<1>3. /\ UNCHANGED <<kind, clientSocket, dumpFile, exitFlag>>
      /\ UNCHANGED <<peer, session, loggedOn>> /\ rested' = FALSE
  BY <1>1 DEF RecvFails, Error, CountFailure, main, gateway
<1>4. TypeOK'
  BY <1>1, <1>2, <1>3 DEF IInv, TypeOK, RecvFails, Error, CountFailure, main, gateway
<1>5. Control'
  BY <1>1 DEF IInv, Control, RecvFails, Error, CountFailure, main, gateway
<1>6. /\ pc' \in {"dial", "sendLogon", "recvLogon"} => OnSocket
      /\ needReconnect' = 0 /\ pc' # "done" => OnSocket
      /\ pc' = "recvMsg" => OnSocket \/ exitFlag
  BY <1>1 DEF IInv, Control, RecvFails, Error, CountFailure, main, gateway
<1>7. QED
  BY <1>1, <1>2, <1>3, <1>4, <1>5, <1>6, KeepsDescriptors

LEMMA SendLogoutIInv == IInv /\ SendLogout => IInv'
<1>1. SUFFICES ASSUME IInv, SendLogout PROVE IInv'
  OBVIOUS
<1>2. TypeOK'
  BY <1>1 DEF IInv, TypeOK, SendLogout, Loops, io, main, gateway, history
<1>3. Control'
  BY <1>1 DEF IInv, Control, SendLogout, Loops, io, main, gateway, history
<1>4. QED
  BY <1>1, <1>2, <1>3, KeepsDescriptors
  DEF IInv, TypeOK, Control, Descriptors, Abandoned, SendLogout, Loops, io, main, gateway,
  history

(* Before q it would be the dump file of the main thread that is closed. *)
LEMMA CloseIInv == IInv /\ Close => IInv'
<1>1. SUFFICES ASSUME IInv, Close PROVE IInv'
  OBVIOUS
<1>2. /\ kind \in [Fds -> {"terminal", "free", "socket", "file"}] /\ failures \in Nat
      /\ clientSocket \in Fds
  BY <1>1 DEF IInv, TypeOK
<1>3. kind[clientSocket] # "file"
  BY <1>1, NoFileThere DEF Close
<1>4. TypeOK'
  BY <1>1, <1>2 DEF IInv, TypeOK, Close, Closed, io, main, gateway, history
<1>5. Control'
  BY <1>1 DEF IInv, Control, Close, io
<1>6. Descriptors'
  BY <1>1, <1>2, <1>3
  DEF IInv, TypeOK, Descriptors, Control, OnSocket, Close, Closed, io, main, NoFile
<1>7. Leaks'
  <2>1. /\ OnSocket => Cardinality(SocketsOf(kind')) = Cardinality(SocketsOf(kind)) - 1
        /\ ~OnSocket => Cardinality(SocketsOf(kind')) = Cardinality(SocketsOf(kind))
    BY <1>1, <1>2, NoSocketAnyMore DEF Close, Closed, OnSocket
  <2>2. /\ Abandoned' => Abandoned
        /\ failures' = failures
    BY <1>1 DEF Abandoned, Close, io, history
  <2>3. QED
    BY <1>1, <1>2, <2>1, <2>2, SocketsFinite DEF IInv, Leaks
<1>8. QED
  BY <1>4, <1>5, <1>6, <1>7 DEF IInv

-----------------------------------------------------------------------------
(* The main thread and the gateway. *)

LEMMA QuitIInv == IInv /\ Quit => IInv'
<1>1. SUFFICES ASSUME IInv, Quit PROVE IInv'
  OBVIOUS
<1>2. TypeOK'
  BY <1>1 DEF IInv, TypeOK, Quit, io, gateway, history
<1>3. Control'
  BY <1>1 DEF IInv, Control, Quit, io
<1>4. Descriptors'
  BY <1>1 DEF IInv, Descriptors, OnSocket, Quit, io
<1>5. Leaks'
  BY <1>1 DEF IInv, Leaks, Abandoned, Quit, io, history
<1>6. QED
  BY <1>2, <1>3, <1>4, <1>5 DEF IInv

LEMMA DumpOpenIInv == IInv /\ DumpOpen => IInv'
<1>1. SUFFICES ASSUME IInv, DumpOpen PROVE IInv'
  OBVIOUS
<1>2. /\ kind \in [Fds -> {"terminal", "free", "socket", "file"}] /\ failures \in Nat
      /\ NoFile \notin Fds
  BY <1>1, BoundsAssumption DEF IInv, TypeOK, Fds, NoFile
<1>3. dumpFile' \in Fds /\ kind[dumpFile'] = "free"
  BY <1>1, LowestIsFree DEF DumpOpen, Free
<1>4. TypeOK'
  BY <1>1, <1>2, <1>3 DEF IInv, TypeOK, DumpOpen, io, gateway, history
<1>5. Control'
  BY <1>1 DEF IInv, Control, DumpOpen, io
<1>6. Descriptors'
  BY <1>1, <1>2, <1>3 DEF IInv, TypeOK, Descriptors, OnSocket, DumpOpen, io
<1>7. Leaks'
  <2>1. Cardinality(SocketsOf(kind')) = Cardinality(SocketsOf(kind))
    BY <1>1, <1>2, <1>3, NoSocketAnyMore DEF DumpOpen
  <2>2. QED
    BY <1>1, <2>1 DEF IInv, Leaks, Abandoned, DumpOpen, io, history
<1>8. QED
  BY <1>4, <1>5, <1>6, <1>7 DEF IInv

LEMMA DumpCloseIInv == IInv /\ DumpClose => IInv'
<1>1. SUFFICES ASSUME IInv, DumpClose PROVE IInv'
  OBVIOUS
<1>2. /\ kind \in [Fds -> {"terminal", "free", "socket", "file"}] /\ failures \in Nat
      /\ NoFile \notin Fds
  BY <1>1, BoundsAssumption DEF IInv, TypeOK, Fds, NoFile
<1>3. dumpFile \in Fds /\ kind[dumpFile] = "file"
  BY <1>1 DEF IInv, TypeOK, Descriptors, DumpClose
<1>4. TypeOK'
  BY <1>1, <1>2, <1>3 DEF IInv, TypeOK, DumpClose, io, gateway, history
<1>5. Control'
  BY <1>1 DEF IInv, Control, DumpClose, io
<1>6. Descriptors'
  BY <1>1, <1>2, <1>3 DEF IInv, TypeOK, Descriptors, OnSocket, DumpClose, io
<1>7. Leaks'
  <2>1. Cardinality(SocketsOf(kind')) = Cardinality(SocketsOf(kind))
    BY <1>1, <1>2, <1>3, NoSocketAnyMore DEF DumpClose
  <2>2. QED
    BY <1>1, <2>1 DEF IInv, Leaks, Abandoned, DumpClose, io, history
<1>8. QED
  BY <1>4, <1>5, <1>6, <1>7 DEF IInv

LEMMA GatewayIInv == IInv /\ GatewayStep => IInv'
<1>1. SUFFICES ASSUME IInv, GatewayStep PROVE IInv'
  OBVIOUS
<1>2. UNCHANGED <<pc, io, main, kind, fsIo, history>>
  BY <1>1 DEF GatewayStep, GatewayAccepts, GatewayRefuses, GatewaySends, GatewayHeartbeat,
     GatewayCloses, GatewayResets, GatewayOnly
<1>3. TypeOK'
  <2>1. \A m \in Message : Append(inbox, m) \in Seq(Message)
    BY <1>1, AppendProperties DEF IInv, TypeOK
  <2>2. {"logon", "refuse", "heartbeat", "data", "bad", "half"} \subseteq Message
    BY DEF Message, Intact
  <2>3. ASSUME NEW m \in Message, Send(m) PROVE inbox' \in Seq(Message)
    BY <2>1, <2>2, <2>3 DEF Send
  <2>4. inbox' \in Seq(Message)
    BY <1>1, <2>1, <2>2, <2>3 DEF GatewayStep, GatewayAccepts, GatewayRefuses, GatewaySends,
       GatewayHeartbeat, GatewayCloses, GatewayResets, IInv, TypeOK
  <2>5. peer' \in {"none", "up", "closed", "reset"}
    BY <1>1 DEF GatewayStep, GatewayAccepts, GatewayRefuses, GatewaySends,
       GatewayHeartbeat, GatewayCloses, GatewayResets, gateway, IInv, TypeOK
  <2>6. session' \in {"none", "asked", "granted", "refused"}
    BY <1>1 DEF GatewayStep, GatewayAccepts, GatewayRefuses, GatewaySends,
       GatewayHeartbeat, GatewayCloses, GatewayResets, gateway, IInv, TypeOK
  <2>7. QED
    BY <1>1, <1>2, <2>4, <2>5, <2>6 DEF IInv, TypeOK, io, main, history
<1>4. Control'
  BY <1>1, <1>2 DEF IInv, Control, io, main
<1>5. QED
  BY <1>1, <1>2, <1>3, <1>4, KeepsDescriptors
  DEF IInv, Descriptors, Abandoned, io, main, history

LEMMA StutterIInv == IInv /\ UNCHANGED vars => IInv'
  BY DEF IInv, TypeOK, Control, Descriptors, OnSocket, Leaks, Abandoned, vars, io, main,
     gateway, history

LEMMA NextIInv == IInv /\ [Next]_vars => IInv'
  BY OuterLoopIInv, InnerLoopIInv, WakeIInv, SocketFailsIInv, OpenSocketIInv, ConnectedIInv,
     ConnectFailsIInv, BrokenPipeIInv, SendLogonIInv, SendLogonFailsIInv, RecvLogonIInv,
     RecvLogonRejectsIInv, RecvLogonFailsIInv, RecvGoodIInv, RecvBadIInv, RecvFailsIInv,
     SendLogoutIInv, CloseIInv, QuitIInv, DumpOpenIInv, DumpCloseIInv, GatewayIInv,
     StutterIInv
  DEF Next, IoStep

(* IInv is inductive. *)
THEOREM Invariance == Spec => []IInv
  BY InitIInv, NextIInv, PTL DEF Spec

(* Every variable keeps its type; myConnect() and dump() get descriptors of *)
(* the table.                                                               *)
THEOREM TypeCorrect == Spec => []TypeOK
<1>1. IInv => TypeOK
  BY DEF IInv
<1>2. QED
  BY <1>1, Invariance, PTL

(* The I/O thread sends, receives and closes on a socket of its own, and    *)
(* never on a dump file, however the numbers of closed descriptors come     *)
(* back.                                                                    *)
THEOREM OwnSocketOnly == Spec => []UsesOwnSocket
<1>1. IInv => UsesOwnSocket
  BY NoFileThere DEF UsesOwnSocket
<1>2. QED
  BY <1>1, Invariance, PTL

(* No more sockets leak than sessions were given up. *)
THEOREM LeaksBounded == Spec => []LeakPerFailure
<1>1. IInv => LeakPerFailure
  <2>1. SUFFICES ASSUME IInv PROVE LeakPerFailure
    OBVIOUS
  <2>2. failures \in Nat /\ Cardinality(SocketsOf(kind)) \in Nat
    BY <2>1, SocketsFinite DEF IInv, TypeOK
  <2>3. Cardinality(SocketsOf(kind)) <= failures + 1
    BY <2>1, <2>2 DEF IInv, Leaks
  <2>4. QED
    BY <2>3 DEF LeakPerFailure, SocketsOf
<1>2. QED
  BY <1>1, Invariance, PTL
=============================================================================

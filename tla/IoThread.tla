------------------------------ MODULE IoThread ------------------------------
(***************************************************************************)
(* szIoThreadFunc (XSHEThreadFuncs.cpp) with the session functions it      *)
(* calls (session.cpp), the socket helpers (myPub/utility.cpp), the        *)
(* gateway at the other end, and the main thread, which sets exitFlag and  *)
(* opens dump files in the same descriptor table.                          *)
(*                                                                         *)
(* Nothing ever reads an abandoned connection again, so only the one on    *)
(* clientSocket is kept.  A message is received whole or not at all:       *)
(* "half" is one that the connection's end cut short, "junk" the rest of   *)
(* one of which only the head was read.  The gateway sends no message      *)
(* longer than the receive buffer.  What becomes of an intact message is   *)
(* MessagePath's.                                                          *)
(***************************************************************************)
EXTENDS Integers, Sequences, FiniteSets

CONSTANTS
  MaxFd,      \* highest descriptor of the process; 0 is standard input
  MaxInbox    \* bound: messages under way on a connection

ASSUME BoundsAssumption == MaxFd \in Nat \ {0} /\ MaxInbox \in Nat \ {0}

Fds == 0 .. MaxFd
NoFile == -1

VARIABLES
  pc,             \* where szIoThreadFunc is
  needReconnect, clientSocket,
  exitFlag,       \* appManager's, set by the main thread
  dumpFile,       \* descriptor of a dump that the main thread is writing
  kind,           \* what each descriptor is open on
  peer,           \* the gateway's end of the connection
  session,        \* what the gateway makes of the client on it
  inbox,          \* messages sent by the gateway and not yet received
  fsIo,           \* message types with an entry in the I/O thread's statistics
  (* history, loggedOn of the connection *)
  loggedOn,       \* RecvLogon returned 0 on it
  failures,       \* connections given up after connect()
  rested          \* the thread has slept since it gave one up

io == <<needReconnect, clientSocket>>
main == <<exitFlag, dumpFile>>
gateway == <<peer, session>>
history == <<loggedOn, failures, rested>>
vars == <<pc, io, main, kind, gateway, inbox, fsIo, history>>

Intact == {"logon", "refuse", "heartbeat", "data"}
Message == Intact \cup {"bad", "half", "junk"}

Free == {f \in Fds : kind[f] = "free"}
Lowest(S) == CHOOSE f \in S : \A g \in S : f <= g
Running == pc \notin {"done", "killed"}
OnSocket == kind[clientSocket] = "socket"

Init ==
  /\ pc = "outer" /\ needReconnect = 1 /\ clientSocket = 0
  /\ exitFlag = FALSE /\ dumpFile = NoFile
  /\ kind = [f \in Fds |-> IF f = 0 THEN "terminal" ELSE "free"]
  /\ peer = "none" /\ session = "none" /\ inbox = <<>> /\ fsIo = {}
  /\ loggedOn = FALSE /\ failures = 0 /\ rested = TRUE

-----------------------------------------------------------------------------
(* The two loops. *)

Loops == UNCHANGED <<io, main, kind, gateway, inbox, fsIo, history>>

OuterLoop ==
  /\ pc = "outer"
  /\ pc' = IF exitFlag THEN "logout" ELSE "inner"
  /\ Loops

(* Definitions named ...Slip are mistakes a maintainer could make in the one *)
(* that follows; no specification uses them, the properties notice each.     *)
GoesOnSlip == needReconnect # 0
GoesOn == needReconnect # 0 /\ ~exitFlag

(* The inner loop ends for good when needReconnect is 0, and also when it   *)
(* sees exitFlag; RecvMsg is called in either case.                         *)
InnerLoop ==
  /\ pc = "inner"
  /\ pc' = IF GoesOn THEN "connect" ELSE "recvMsg"
  /\ Loops

(* After the three seconds of sleep that follow every failure. *)
Wake ==
  /\ pc = "sleep"
  /\ pc' = "inner"
  /\ rested' = TRUE
  /\ UNCHANGED <<io, main, kind, gateway, inbox, fsIo, loggedOn, failures>>

-----------------------------------------------------------------------------
(* myConnect(): sock_fd is assigned before connect() is tried. *)

SocketFails ==
  /\ pc = "connect"
  /\ Free = {}
  /\ pc' = "sleep"
  /\ Loops

OpenSocket ==
  /\ pc = "connect"
  /\ Free # {}
  /\ clientSocket' = Lowest(Free)
  /\ kind' = [kind EXCEPT ![clientSocket'] = "socket"]
  /\ peer' = "none" /\ session' = "none" /\ inbox' = <<>>
  /\ loggedOn' = FALSE
  /\ pc' = "dial"
  /\ UNCHANGED <<needReconnect, main, fsIo, failures, rested>>

Connected ==
  /\ pc = "dial"
  /\ peer' = "up"
  /\ pc' = "sendLogon"
  /\ UNCHANGED <<io, main, kind, session, inbox, fsIo, history>>

ClosedSlip == kind
Closed == [kind EXCEPT ![clientSocket] = "free"]

ConnectFailsGoOnSlip ==
  /\ pc = "dial"
  /\ kind' = Closed
  /\ pc' = "sendLogon"
  /\ UNCHANGED <<io, main, gateway, inbox, fsIo, history>>

(* The descriptor is closed, but clientSocket keeps its number. *)
ConnectFails ==
  /\ pc = "dial"
  /\ kind' = Closed
  /\ pc' = "sleep"
  /\ UNCHANGED <<io, main, gateway, inbox, fsIo, history>>

-----------------------------------------------------------------------------
(* send(), with no flags and no handler for SIGPIPE. To a peer that has     *)
(* closed its end it still succeeds; after a reset it fails or kills.       *)

Writable == OnSocket /\ peer \in {"up", "closed"}

BrokenPipe ==
  /\ pc \in {"sendLogon", "logout"}
  /\ OnSocket /\ peer = "reset"
  /\ pc' = "killed"
  /\ Loops

SendLogon ==
  /\ pc = "sendLogon"
  /\ Writable
  /\ session' = IF peer = "up" THEN "asked" ELSE session
  /\ pc' = "recvLogon"
  /\ UNCHANGED <<io, main, kind, peer, inbox, fsIo, history>>

(* Every failure after connect() leaves the socket open. *)
CountFailure == failures' = failures + 1 /\ rested' = FALSE

GiveUp ==
  /\ pc' = "sleep"
  /\ CountFailure
  /\ UNCHANGED <<io, main, kind, gateway, fsIo, loggedOn>>

SendLogonFails ==
  /\ pc = "sendLogon"
  /\ ~Writable
  /\ GiveUp
  /\ UNCHANGED inbox

-----------------------------------------------------------------------------
(* myRecv() waits for a whole message; it fails when the connection ends    *)
(* before that, and at once on a descriptor that is no socket.              *)

Arrived(K) == OnSocket /\ inbox # <<>> /\ Head(inbox) \in K

CannotReceiveSlip == ~OnSocket \/ peer = "reset"
CannotReceive ==
  \/ ~OnSocket
  \/ peer = "closed" /\ ~Arrived(Intact \cup {"bad"})
  \/ peer = "reset"

RecvLogon ==
  /\ pc = "recvLogon"
  /\ Arrived({"logon"})
  /\ inbox' = Tail(inbox)
  /\ needReconnect' = 0
  /\ loggedOn' = TRUE
  /\ pc' = "inner"
  /\ UNCHANGED <<clientSocket, main, kind, gateway, fsIo, failures, rested>>

(* The checksum is wrong, or the type is: then only the head is read, and   *)
(* what follows on the connection no longer starts at a message.            *)
RecvLogonRejects ==
  /\ pc = "recvLogon"
  /\ \/ Arrived({"bad"}) /\ inbox' = Tail(inbox)
     \/ Arrived(Intact \ {"logon"}) /\ inbox' = <<"junk">>
  /\ GiveUp

RecvLogonFails ==
  /\ pc = "recvLogon"
  /\ CannotReceive
  /\ GiveUp
  /\ UNCHANGED inbox

(* RecvMsg returns 0: a heartbeat is only counted; everything else goes to  *)
(* the queue.                                                               *)
RecvGood ==
  /\ pc = "recvMsg"
  /\ Arrived(Intact)
  /\ inbox' = Tail(inbox)
  /\ fsIo' = fsIo \cup {Head(inbox)}
  /\ needReconnect' = 0
  /\ pc' = "outer"
  /\ UNCHANGED <<clientSocket, main, kind, gateway, loggedOn, failures, rested>>

(* The checksum is wrong; so it may be, or may not be, for junk. *)
RecvBad ==
  /\ pc = "recvMsg"
  /\ Arrived({"bad", "junk"})
  /\ inbox' = Tail(inbox)
  /\ needReconnect' = -4
  /\ CountFailure
  /\ pc' = "outer"
  /\ UNCHANGED <<clientSocket, main, kind, gateway, fsIo, loggedOn>>

(* -1 if the connection ended before the head, -2 if within the message; -3 *)
(* is kept for messages that are longer than the buffer.                    *)
ErrorIsLengthSlip == -3
Error == IF Arrived({"half", "junk"}) /\ peer = "closed" THEN -2 ELSE -1

RecvFails ==
  /\ pc = "recvMsg"
  /\ CannotReceive
  /\ needReconnect' = Error
  /\ CountFailure
  /\ pc' = "outer"
  /\ UNCHANGED <<clientSocket, main, kind, gateway, inbox, fsIo, loggedOn>>

-----------------------------------------------------------------------------
(* The end: SendLogout, whatever comes of it, and myClose. *)

SendLogout ==
  /\ pc = "logout"
  /\ pc' = "close"
  /\ Loops

Close ==
  /\ pc = "close"
  /\ kind' = Closed
  /\ pc' = "done"
  /\ UNCHANGED <<io, main, gateway, inbox, fsIo, history>>

-----------------------------------------------------------------------------
(* The main thread: commands q and d. It dumps and reads commands in turn,  *)
(* and no more of either once it has set exitFlag.                          *)

Quit ==
  /\ pc # "killed" /\ ~exitFlag /\ dumpFile = NoFile
  /\ exitFlag' = TRUE
  /\ UNCHANGED <<pc, io, dumpFile, kind, gateway, inbox, fsIo, history>>

DumpOpen ==
  /\ pc # "killed" /\ ~exitFlag /\ dumpFile = NoFile
  /\ Free # {}
  /\ dumpFile' = Lowest(Free)
  /\ kind' = [kind EXCEPT ![dumpFile'] = "file"]
  /\ UNCHANGED <<pc, io, exitFlag, gateway, inbox, fsIo, history>>

DumpClose ==
  /\ pc # "killed" /\ dumpFile # NoFile
  /\ kind' = [kind EXCEPT ![dumpFile] = "free"]
  /\ dumpFile' = NoFile
  /\ UNCHANGED <<pc, io, exitFlag, gateway, inbox, fsIo, history>>

-----------------------------------------------------------------------------
(* The gateway. What it sends may arrive damaged. *)

Up == Running /\ OnSocket /\ peer = "up"
Send(m) ==
  /\ Len(inbox) < MaxInbox
  /\ inbox' \in {Append(inbox, m), Append(inbox, "bad")}
GatewayOnly == UNCHANGED <<pc, io, main, kind, fsIo, history>>

GatewayAccepts ==
  /\ Up /\ session = "asked"
  /\ session' = "granted"
  /\ Send("logon")
  /\ GatewayOnly /\ UNCHANGED peer

GatewayRefuses ==
  /\ Up /\ session = "asked"
  /\ session' = "refused"
  /\ Send("refuse")
  /\ GatewayOnly /\ UNCHANGED peer

GatewaySends ==
  /\ Up /\ session = "granted"
  /\ Send("data")
  /\ GatewayOnly /\ UNCHANGED gateway

GatewayHeartbeat ==
  /\ Up /\ session = "granted" /\ inbox = <<>>
  /\ Send("heartbeat")
  /\ GatewayOnly /\ UNCHANGED gateway

(* The gateway closes its end, perhaps in the middle of a message. *)
GatewayCloses ==
  /\ Up
  /\ peer' = "closed"
  /\ inbox' \in {inbox, Append(inbox, "half")}
  /\ GatewayOnly /\ UNCHANGED session

(* A reset, also in answer to what is sent to an end already closed. *)
GatewayResets ==
  /\ Running /\ OnSocket /\ peer \in {"up", "closed"}
  /\ peer' = "reset"
  /\ GatewayOnly /\ UNCHANGED <<session, inbox>>

-----------------------------------------------------------------------------
IoStep ==
  \/ OuterLoop \/ InnerLoop \/ Wake
  \/ SocketFails \/ OpenSocket \/ Connected \/ ConnectFails
  \/ BrokenPipe \/ SendLogon \/ SendLogonFails
  \/ RecvLogon \/ RecvLogonRejects \/ RecvLogonFails
  \/ RecvGood \/ RecvBad \/ RecvFails
  \/ SendLogout \/ Close

GatewayStep ==
  \/ GatewayAccepts \/ GatewayRefuses \/ GatewaySends \/ GatewayHeartbeat
  \/ GatewayCloses \/ GatewayResets

Next == IoStep \/ GatewayStep \/ Quit \/ DumpOpen \/ DumpClose

Spec == Init /\ [][Next]_vars

(***************************************************************************)
(* The I/O thread runs, and so does the main thread's dump.  The gateway   *)
(* answers a logon or closes the connection, sends heartbeats to a client  *)
(* it has accepted (HeartBtInt of the logon asks for them) and closes the  *)
(* connection to one that it has refused.                                  *)
(***************************************************************************)
GatewayAnswers ==
  GatewayAccepts \/ GatewayRefuses \/ (session = "asked" /\ GatewayCloses)
GatewayHangsUp == session = "refused" /\ GatewayCloses

FairSpec ==
  /\ Spec /\ WF_vars(IoStep) /\ WF_vars(DumpClose)
  /\ WF_vars(GatewayAnswers) /\ WF_vars(GatewayHeartbeat) /\ WF_vars(GatewayHangsUp)

-----------------------------------------------------------------------------
(* Type invariant. *)
TypeOK ==
  /\ pc \in {"outer", "inner", "connect", "dial", "sendLogon", "recvLogon", "sleep",
             "recvMsg", "logout", "close", "done", "killed"}
  /\ needReconnect \in {1, 0, -1, -2, -4} /\ clientSocket \in Fds
  /\ exitFlag \in BOOLEAN /\ dumpFile \in Fds \cup {NoFile}
  /\ kind \in [Fds -> {"terminal", "free", "socket", "file"}]
  /\ peer \in {"none", "up", "closed", "reset"}
  /\ session \in {"none", "asked", "granted", "refused"}
  /\ inbox \in Seq(Message) /\ fsIo \subseteq Intact
  /\ loggedOn \in BOOLEAN /\ failures \in Nat /\ rested \in BOOLEAN

(* clientSocket keeps the number of a descriptor that myConnect has closed  *)
(* and dump() may get next; and it begins as 0, standard input. Until the   *)
(* user quits, the I/O thread nevertheless only uses a socket of its own,   *)
(* and it never uses a dump file.                                           *)
UsesOwnSocket ==
  pc \in {"sendLogon", "recvLogon", "recvMsg", "logout", "close"}
    => kind[clientSocket] # "file" /\ (OnSocket \/ exitFlag)

(* Sockets of failed sessions are never closed, but that is all that leaks: *)
(* one descriptor at most for each connection that was made and given up.   *)
LeakPerFailure ==
  Cardinality({f \in Fds : kind[f] = "socket"}) <= failures + 1

(* What makes these two inductive: myConnect() is only called without a     *)
(* session, a file is open only while the main thread dumps, which it does  *)
(* not after q, and the descriptor that is left behind has been counted by  *)
(* the time the next is opened.                                             *)
Control ==
  /\ pc \in {"connect", "dial", "sendLogon", "recvLogon", "sleep"} => needReconnect # 0
  /\ pc \in {"logout", "close"} => exitFlag
Descriptors ==
  /\ \A f \in Fds : kind[f] = "file" => f = dumpFile
  /\ dumpFile # NoFile => kind[dumpFile] = "file" /\ ~exitFlag
  /\ pc \in {"dial", "sendLogon", "recvLogon"} => OnSocket
  /\ needReconnect = 0 /\ pc # "done" => OnSocket
  /\ pc = "recvMsg" => OnSocket \/ exitFlag
SocketsOf(k) == {f \in Fds : k[f] = "socket"}
Abandoned == needReconnect # 0 /\ pc \notin {"dial", "sendLogon", "recvLogon", "killed"}
Leaks == Cardinality(SocketsOf(kind)) <= (IF Abandoned THEN failures ELSE failures + 1)

IInv == TypeOK /\ Control /\ Descriptors /\ Leaks

(* Quitting ends the I/O thread, so that main() can join it: no recv() waits *)
(* for ever as long as the gateway keeps its side of the protocol.           *)
QuitEnds == exitFlag ~> ~Running

(* If the gateway is there to be connected to again and again, a lost       *)
(* session is set up again while there are descriptors left.                *)
Recovers ==
  SF_vars(Connected) =>
    ((OnSocket /\ peer \in {"closed", "reset"})
       ~> (loggedOn /\ peer = "up") \/ exitFlag \/ Free = {} \/ ~Running)

(* The interface specification of the exchange (3rd_doc, section 2.2.1,    *)
(* item 5) asks a client that has lost its connection to wait before it    *)
(* tries the next one.                                                     *)
WaitsToReconnect == pc = "dial" => rested
=============================================================================

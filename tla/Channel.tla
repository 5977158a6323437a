------------------------------ MODULE Channel ------------------------------
(***************************************************************************)
(* What the connection of a session promises the rest of the client: the   *)
(* gateway's messages in the order sent, each once and undamaged, until    *)
(* the session is left or fails because of a message that is damaged or    *)
(* refuses the logon.                                                      *)
(***************************************************************************)
EXTENDS Naturals, Sequences

CONSTANTS
  Messages,   \* what the gateway may send
  Accepts(_)  \* whether a first message accepts the logon

VARIABLES
  status,     \* "open", "failed", "left"
  sent,       \* the gateway's messages, and whether they were damaged
  delivered   \* the messages that were handed on

vars == <<status, sent, delivered>>

Init == status = "open" /\ sent = <<>> /\ delivered = <<>>

Send(m, damaged) ==
  /\ sent' = Append(sent, [message |-> m, damaged |-> damaged])
  /\ UNCHANGED <<status, delivered>>

Waiting == status = "open" /\ Len(delivered) < Len(sent)
First == sent[Len(delivered) + 1]
Cause == First.damaged \/ (delivered = <<>> /\ ~Accepts(First.message))

Deliver ==
  /\ Waiting /\ ~Cause
  /\ delivered' = Append(delivered, First.message)
  /\ UNCHANGED <<status, sent>>

Fail ==
  /\ Waiting /\ Cause
  /\ status' = "failed"
  /\ UNCHANGED <<sent, delivered>>

Leave ==
  /\ status = "open" /\ delivered # <<>>
  /\ status' = "left"
  /\ UNCHANGED <<sent, delivered>>

Next ==
  \/ \E m \in Messages, damaged \in BOOLEAN : Send(m, damaged)
  \/ Deliver \/ Fail \/ Leave

SafeSpec == Init /\ [][Next]_vars
Spec == SafeSpec /\ WF_vars(Deliver \/ Fail)
=============================================================================

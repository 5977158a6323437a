-------------------------------- MODULE Wire --------------------------------
(***************************************************************************)
(* From the settings of config.ini to the bytes of a logon, and how a      *)
(* session's messages are put into bytes and got back from the stream:     *)
(* parstToStruct (myPub/myInih.cpp), the checksum functions                *)
(* (myPub/utility.h and .cpp), SendLogon, SendLogout, RecvLogon and        *)
(* RecvMsg (session.cpp).  IoThread has the functions of session.cpp as    *)
(* steps that receive a message whole; here recv() returns any part of     *)
(* what is under way.                                                      *)
(*                                                                         *)
(* A message is a head of two words, the type and the length of the body,  *)
(* the body, and a tail of one word, the checksum.  Words are in network   *)
(* order on the wire and in little-endian order in memory.                 *)
(***************************************************************************)
EXTENDS IniReader

CONSTANTS
  FieldBytes,   \* sizes of the fields of v5mdLogonBody, by their settings
  Default,      \* what parstToStruct takes for settings that the file lacks
  LogonBody,    \* the body that the gateway answers a logon with
  Messages,     \* what the gateway sends in a session
  MaxMessages   \* bound: how many it sends

(* Type and length of a message are of type uint32_t. *)
Fits(n) == n < Weight(WordBytes)
Message == [type : Nat, body : Seq(Byte)]

ASSUME MessagesAssumption ==
  /\ LogonBody \in Seq(Byte) /\ Fits(Len(LogonBody))
  /\ Messages \subseteq Message /\ \A m \in Messages : Fits(m.type) /\ Fits(Len(m.body))

LogonType == 1
LogoutType == 2
HeadLength == 2 * WordBytes
TailLength == WordBytes

VARIABLES
  phase,      \* "config", "start", "logon", "on", "off", "failed", "ended"
  cfg,        \* the memory of ReqLogonCfg
  wire,       \* bytes under way to the client
  buffer,     \* what myRecv has put in the buffer of the current message
  wanted,     \* how much will be in it when the current myRecv returns
  request,    \* the bytes that the client sent, until the gateway answers
  (* history *)
  meant,      \* what they are to say
  sent,       \* what the gateway sent
  delivered   \* what RecvLogon and RecvMsg returned 0 for

starting == <<file, reader, cfg>>
reading == <<buffer, wanted>>
asking == <<request, meant>>
vars == <<phase, starting, wire, reading, asking, sent, delivered>>

-----------------------------------------------------------------------------
(* Checksum. *)

(* (uint32_t)buf[idx]: char is signed. *)
Extended(b) == IF b < ByteBase \div 2 THEN b ELSE Weight(WordBytes) - ByteBase + b

(* A uint32_t, to which the bytes are added one by one. *)
Sum(bytes) ==
  LET upTo[i \in 0 .. Len(bytes)] ==
        IF i = 0 THEN 0 ELSE (upTo[i - 1] + Extended(bytes[i])) % Weight(WordBytes)
  IN  upTo[Len(bytes)]

GenerateCheckSumSlip(bytes) == Sum(bytes)
GenerateCheckSum(bytes) == Sum(bytes) % ByteBase

Word(bytes, from) == Value(SubSeq(bytes, from, from + WordBytes - 1))
MsgType(bytes) == htnu32(Word(bytes, 1))
BodyLengthSlip(bytes) == Word(bytes, WordBytes + 1)
BodyLength(bytes) == htnu32(Word(bytes, WordBytes + 1))
BodyOf(bytes) == SubSeq(bytes, HeadLength + 1, Len(bytes) - TailLength)

(* cmpCheckSum() *)
VerifiesSlip(bytes) == TRUE
Verifies(bytes) ==
  GenerateCheckSum(SubSeq(bytes, 1, Len(bytes) - TailLength))
    = htnu32(Word(bytes, Len(bytes) - TailLength + 1))

-----------------------------------------------------------------------------
(* The settings.  ReqLogonCfg and v5mdLogonBody have the same fields in the *)
(* same order, and are filled in it with strcpy(): the terminator of a      *)
(* string as long as its field is put into the next field, and copying that *)
(* string copies the fields behind it too, up to the first zero.            *)

Layout == <<"sender_name", "receiver_name", "heart_beat_int", "password", "version">>
OrderSlip == <<"sender_name", "receiver_name", "heart_beat_int", "version", "password">>
Order == Layout

IsNumber(word) == word = "heart_beat_int"

(* Where the fields end, and begin. *)
Ends[i \in 0 .. Len(Layout)] == IF i = 0 THEN 0 ELSE Ends[i - 1] + FieldBytes[Layout[i]]
BodySize == Ends[Len(Layout)]
At(word) == Ends[(CHOOSE i \in DOMAIN Layout : Layout[i] = word) - 1]

ASSUME SettingsAssumption ==
  /\ FieldBytes \in [Range(Layout) -> Nat \ {0}] /\ FieldBytes["heart_beat_int"] = WordBytes
  /\ Fits(BodySize)
  /\ \A word \in Range(Layout) : Default[word] \in IF IsNumber(word) THEN Nat ELSE Seq(Char)

Setting(word) ==
  IF IsNumber(word) THEN GetInteger(reader.values, <<"logon", <<>>, word>>, Default[word])
                    ELSE GetString(reader.values, <<"logon", <<>>, word>>, Default[word])
Settings == [word \in Range(Layout) |-> Setting(word)]

Filled(content) ==
  LET upTo[i \in 0 .. Len(Order)] ==
        IF i = 0 THEN Zeros(BodySize)
        ELSE Overwrite(upTo[i - 1], At(Order[i]), content[Order[i]])
  IN  upTo[Len(Order)]
StringAt(memory, from) ==
  SubSeq(memory, from + 1, SelectInSubSeq(memory, from + 1, Len(memory), LAMBDA c : c = 0))

parstToStruct(settings) ==
  Filled([word \in Range(Layout) |->
            IF IsNumber(word) THEN Memory(settings[word]) ELSE Append(settings[word], 0)])
LogonBodyOf(memory) ==
  Filled([word \in Range(Layout) |->
            IF IsNumber(word) THEN SubSeq(memory, At(word) + 1, At(word) + WordBytes)
                              ELSE StringAt(memory, At(word))])

(* Longer settings are not modelled: there is no place for them in cfg. *)
SettingsFit(settings) ==
  /\ \A word \in Range(Layout) :
       IF IsNumber(word) THEN Fits(settings[word]) ELSE Len(settings[word]) <= FieldBytes[word]
  /\ Len(settings["version"]) < FieldBytes["version"]

-----------------------------------------------------------------------------
(* What the client sends. *)

(* appendTail(): the checksum of length bytes from an address, behind them. *)
AppendTail(bytes, from, length) ==
  Overwrite(bytes, from + length,
            Memory(htnu32(GenerateCheckSum(SubSeq(bytes, from + 1, from + length)))))

SetHead(type, length) == Memory(htnu32(type)) \o Memory(htnu32(length))

(* The body is memory but for its one number, which htnu32 turns round.     *)
(* The address handed to appendTail() is that of the tail; send() takes no  *)
(* more than the message from the zeroed array.                             *)
Serialize(type, body, at) ==
  LET turned == Overwrite(body, at, Memory(htnu32(Word(body, at + 1))))
      posTail == HeadLength + Len(body)
      array == SetHead(type, Len(body)) \o turned \o Zeros(posTail + 2 * TailLength)
  IN  SubSeq(AppendTail(array, posTail, posTail), 1, posTail + TailLength)

Init ==
  /\ IniInit
  /\ phase = "config"
  /\ cfg = <<>> /\ wire = <<>> /\ buffer = <<>> /\ wanted = HeadLength
  /\ request = <<>> /\ meant = <<>> /\ sent = <<>> /\ delivered = <<>>

ReadConfig(line) ==
  /\ phase = "config"
  /\ ReadLine(line)
  /\ UNCHANGED <<phase, cfg, wire, reading, asking, sent, delivered>>

(* The one error that main() looks at: the file cannot be opened. *)
NoConfig ==
  /\ phase = "config" /\ file = <<>>
  /\ phase' = "ended"
  /\ UNCHANGED <<starting, wire, reading, asking, sent, delivered>>

(* The reader dies with the block in which main() uses it. *)
Configure ==
  /\ phase = "config" /\ SettingsFit(Settings)
  /\ cfg' = parstToStruct(Settings) /\ meant' = Settings
  /\ phase' = "start"
  /\ file' = <<>> /\ reader' = NoReader
  /\ UNCHANGED <<wire, reading, request, sent, delivered>>

(* One session is modelled: cfg is not used again. *)
SendLogon ==
  /\ phase = "start"
  /\ request' = Serialize(LogonType, LogonBodyOf(cfg), At("heart_beat_int"))
  /\ phase' = "logon" /\ cfg' = <<>>
  /\ UNCHANGED <<file, reader, wire, reading, meant, sent, delivered>>

(* session_status is 0; between two messages, when exitFlag is set. *)
SendLogout ==
  /\ phase = "on" /\ buffer = <<>>
  /\ request' = Serialize(LogoutType, Append(Memory(0), 1), 0)
  /\ phase' = "off"
  /\ UNCHANGED <<starting, wire, reading, meant, sent, delivered>>

-----------------------------------------------------------------------------
(* What the gateway sends: the answer to the logon, then messages.  One     *)
(* byte of the last may be damaged, but not in the length.                  *)

Total(bytes) ==
  LET upTo[i \in 0 .. Len(bytes)] == IF i = 0 THEN 0 ELSE upTo[i - 1] + bytes[i]
  IN  upTo[Len(bytes)]
Frame(m) ==
  LET covered == Reverse(Memory(m.type)) \o Reverse(Memory(Len(m.body))) \o m.body
  IN  covered \o Reverse(Memory(Total(covered) % ByteBase))

Damaged(bytes) ==
  UNION {{Overwrite(bytes, i - 1, <<b>>) : b \in Byte \ {bytes[i]}} :
         i \in DOMAIN bytes \ (WordBytes + 1 .. HeadLength)}
OnWire(one) == IF one.damaged THEN Damaged(Frame(one.message)) ELSE {Frame(one.message)}

Answers ==
  {[type |-> LogonType, body |-> LogonBody], [type |-> LogoutType, body |-> <<1>>]}
Accepts(m) == m.type = LogonType
Due ==
  CASE sent = <<>> -> Answers
    [] sent # <<>> /\ (Last(sent).damaged \/ ~Accepts(sent[1].message)) -> {}
    [] OTHER -> Messages

GatewaySends(m) ==
  /\ phase \in {"logon", "on", "off", "failed"} /\ Len(sent) < MaxMessages
  /\ m \in Due
  /\ \E damaged \in BOOLEAN :
       LET one == [message |-> m, damaged |-> damaged]
       IN  /\ sent' = Append(sent, one)
           /\ \E bytes \in OnWire(one) : wire' = wire \o bytes
  /\ request' = <<>> /\ meant' = <<>>
  /\ UNCHANGED <<phase, starting, reading, delivered>>

-----------------------------------------------------------------------------
(* What the client receives. *)

(* recv(): some of what is there, and no more than myRecv's caller wants. *)
Recv(n) ==
  /\ phase \in {"logon", "on"}
  /\ n <= Len(wire) /\ n <= wanted - Len(buffer)
  /\ buffer' = buffer \o SubSeq(wire, 1, n)
  /\ wire' = SubSeq(wire, n + 1, Len(wire))
  /\ UNCHANGED <<phase, starting, wanted, asking, sent, delivered>>

HeadRead == Len(buffer) = HeadLength /\ wanted = HeadLength
MessageRead == Len(buffer) = wanted /\ wanted > HeadLength

Fail ==
  /\ phase' = "failed"
  /\ UNCHANGED <<reading, delivered>>

Deliver(message) ==
  /\ delivered' = Append(delivered, message)
  /\ buffer' = <<>> /\ wanted' = HeadLength
  /\ phase' = "on"

RecvLogonHead ==
  /\ phase = "logon" /\ HeadRead
  /\ IF MsgType(buffer) = LogonType /\ BodyLength(buffer) = Len(LogonBody)
     THEN /\ wanted' = HeadLength + BodyLength(buffer) + TailLength
          /\ UNCHANGED <<phase, buffer, delivered>>
     ELSE Fail
  /\ UNCHANGED <<starting, wire, asking, sent>>

RecvLogonRest ==
  /\ phase = "logon" /\ MessageRead
  /\ IF Verifies(buffer)
     THEN Deliver([type |-> MsgType(buffer), body |-> BodyOf(buffer)])
     ELSE Fail
  /\ UNCHANGED <<starting, wire, asking, sent>>

(* Type and length are turned round in the buffer, before the checksum of   *)
(* the buffer is computed.                                                  *)
RecvMsgHead ==
  /\ phase = "on" /\ HeadRead
  /\ buffer' = Memory(MsgType(buffer)) \o Memory(BodyLength(buffer))
  /\ wanted' = HeadLength + BodyLength(buffer) + TailLength
  /\ UNCHANGED <<phase, starting, wire, asking, sent, delivered>>

RecvMsgRest ==
  /\ phase = "on" /\ MessageRead
  /\ IF Verifies(buffer)
     THEN Deliver([type |-> Word(buffer, 1), body |-> BodyOf(buffer)])
     ELSE Fail
  /\ UNCHANGED <<starting, wire, asking, sent>>

-----------------------------------------------------------------------------
ClientStep ==
  \/ \E n \in 1 .. Len(wire) : Recv(n)
  \/ RecvLogonHead \/ RecvLogonRest \/ RecvMsgHead \/ RecvMsgRest

Next ==
  \/ \E line \in Lines : ReadConfig(line)
  \/ NoConfig \/ Configure
  \/ ClientStep
  \/ SendLogon \/ SendLogout
  \/ \E m \in Answers \cup Messages : GatewaySends(m)

Spec == Init /\ [][Next]_vars

(* The I/O thread goes on as long as there is something to receive. *)
FairSpec == Spec /\ WF_vars(ClientStep)

-----------------------------------------------------------------------------
(* However recv() cuts up the stream, what is handed on is what was sent,  *)
(* in order and undamaged: a changed byte of the type, the body or the     *)
(* checksum is always noticed.                                             *)
DeliversWhatWasSent ==
  /\ Len(delivered) <= Len(sent)
  /\ \A i \in DOMAIN delivered : delivered[i] = sent[i].message /\ ~sent[i].damaged

(* The checksum sees the buffer with type and length turned round, and     *)
(* sign-extended bytes; nevertheless a session is given up only because of *)
(* a message that is damaged or refuses the logon.                         *)
FailsForCause ==
  phase = "failed" =>
    LET culprit == sent[Len(delivered) + 1]
    IN  culprit.damaged \/ (delivered = <<>> /\ ~Accepts(culprit.message))

(* The gateway, which reads fields of fixed sizes, finds in a logon the     *)
(* heartbeat interval and the strings of config.ini, those included that    *)
(* fill their field and have no terminator in it (SendLogon).               *)
FieldIn(bytes, word) ==
  SubSeq(bytes, HeadLength + At(word) + 1, HeadLength + At(word) + FieldBytes[word])
RequestReadable ==
  (phase = "logon" /\ request # <<>>) =>
    /\ MsgType(request) = LogonType /\ BodyLength(request) = BodySize
    /\ Len(request) = HeadLength + BodySize + TailLength
    /\ \A word \in Range(Layout) :
         IF IsNumber(word) THEN Value(Reverse(FieldIn(request, word))) = meant[word]
         ELSE StringAt(Append(FieldIn(request, word), 0), 0) = Append(meant[word], 0)

(* The session is a Channel: besides DeliversWhatWasSent and FailsForCause  *)
(* it says that what is sent whole is received whole and that damage is     *)
(* noticed, if the client goes on receiving.                                *)
Status == CASE phase = "failed" -> "failed" [] phase = "off" -> "left" [] OTHER -> "open"
TheChannel == INSTANCE Channel WITH
  Messages <- Answers \cup Messages, Accepts <- Accepts, status <- Status
ImplementsChannel == TheChannel!Spec

(* The interface specification (3rd_doc, section 4.2.2): the checksum      *)
(* covers a message from its head to the end of its body.                  *)
RequestVerifies == request # <<>> => Verifies(request)
=============================================================================

------------------------- MODULE MessagePathProofs --------------------------
(* Proofs about MessagePath, for any messages, known ids, size of the queue *)
(* and number of messages received.                                         *)
EXTENDS MessagePath, FiniteSetTheorems, SequenceTheorems, TLAPS

-----------------------------------------------------------------------------
(* Sequences of numbers that ascend. *)

LEMMA RangeAppend ==
  ASSUME NEW S, NEW s \in Seq(S), NEW e \in S
  PROVE  Range(Append(s, e)) = Range(s) \cup {e}
<1>1. DOMAIN s = 1 .. Len(s) /\ DOMAIN Append(s, e) = 1 .. Len(s) + 1 /\ Len(s) \in Nat
  BY AppendProperties, LenProperties
<1>2. /\ \A i \in 1 .. Len(s) : Append(s, e)[i] = s[i]
      /\ Append(s, e)[Len(s) + 1] = e
  BY AppendProperties
<1>3. ASSUME NEW x \in Range(Append(s, e)) PROVE x \in Range(s) \cup {e}
  <2>1. PICK i \in 1 .. Len(s) + 1 : x = Append(s, e)[i]
    BY <1>1, <1>3 DEF Range
  <2>2. CASE i = Len(s) + 1
    BY <1>2, <2>1, <2>2
  <2>3. CASE i \in 1 .. Len(s)
    BY <1>1, <1>2, <2>1, <2>3 DEF Range
  <2>4. QED
    BY <1>1, <2>1, <2>2, <2>3
<1>4. ASSUME NEW x \in Range(s) PROVE x \in Range(Append(s, e))
  <2>1. PICK i \in 1 .. Len(s) : x = s[i]
    BY <1>1, <1>4 DEF Range
  <2>2. i \in 1 .. Len(s) + 1 /\ Append(s, e)[i] = x
    BY <1>1, <1>2, <2>1
  <2>3. QED
    BY <1>1, <2>2 DEF Range
<1>5. e \in Range(Append(s, e))
  <2>1. Len(s) + 1 \in 1 .. Len(s) + 1
    BY <1>1
  <2>2. QED
    BY <1>1, <1>2, <2>1 DEF Range
<1>6. QED
  BY <1>3, <1>4, <1>5

LEMMA AscendingAppend ==
  ASSUME NEW s \in Seq(Nat), Ascending(s), NEW e \in Nat, \A n \in Range(s) : n < e
  PROVE  Ascending(Append(s, e))
<1>1. /\ DOMAIN s = 1 .. Len(s) /\ DOMAIN Append(s, e) = 1 .. Len(s) + 1 /\ Len(s) \in Nat
      /\ \A i \in 1 .. Len(s) : Append(s, e)[i] = s[i]
      /\ Append(s, e)[Len(s) + 1] = e
  BY AppendProperties, LenProperties
<1>2. ASSUME NEW i \in 1 .. Len(s) + 1, NEW j \in 1 .. i - 1
      PROVE  Append(s, e)[j] < Append(s, e)[i]
  <2>1. j \in 1 .. Len(s) /\ Append(s, e)[j] = s[j]
    BY <1>1
  <2>2. CASE i = Len(s) + 1
    BY <1>1, <2>1, <2>2 DEF Range
  <2>3. CASE i \in 1 .. Len(s)
    BY <1>1, <2>1, <2>3 DEF Ascending
  <2>4. QED
    BY <1>1, <2>2, <2>3
<1>3. QED
  BY <1>1, <1>2 DEF Ascending

LEMMA AscendingTail ==
  ASSUME NEW s \in Seq(Nat), Ascending(s), s # <<>>
  PROVE  /\ Head(s) \in Range(s) /\ Range(Tail(s)) = Range(s) \ {Head(s)}
         /\ Ascending(Tail(s)) /\ \A n \in Range(Tail(s)) : Head(s) < n
<1>1. /\ Tail(s) \in Seq(Nat) /\ Len(Tail(s)) = Len(s) - 1 /\ Len(s) \in Nat \ {0}
      /\ \A i \in 1 .. Len(s) - 1 : Tail(s)[i] = s[i + 1]
      /\ Head(s) = s[1] /\ DOMAIN s = 1 .. Len(s) /\ DOMAIN Tail(s) = 1 .. Len(s) - 1
  BY HeadTailProperties, EmptySeq, LenProperties
<1>2. \A i \in 1 .. Len(s) : s[i] \in Nat
  BY ElementOfSeq
<1>3. Head(s) \in Range(s)
  BY <1>1 DEF Range
<1>4. ASSUME NEW i \in 1 .. Len(s) - 1
      PROVE  /\ i + 1 \in 1 .. Len(s) /\ Tail(s)[i] = s[i + 1]
             /\ 1 \in 1 .. (i + 1) - 1 /\ s[1] < s[i + 1] /\ s[i + 1] \in Range(s)
  <2>1. i + 1 \in 1 .. Len(s) /\ 1 \in 1 .. (i + 1) - 1
    BY <1>1
  <2>2. QED
    BY <1>1, <2>1 DEF Ascending, Range
<1>5. \A n \in Range(Tail(s)) : Head(s) < n /\ n \in Range(s)
  BY <1>1, <1>4 DEF Range
<1>6. ASSUME NEW n \in Range(s), n # Head(s) PROVE n \in Range(Tail(s))
  <2>1. PICK i \in 1 .. Len(s) : n = s[i]
    BY <1>1, <1>6 DEF Range
  <2>2. i - 1 \in 1 .. Len(s) - 1 /\ Tail(s)[i - 1] = s[(i - 1) + 1] /\ (i - 1) + 1 = i
    BY <1>1, <1>6, <2>1
  <2>3. QED
    BY <1>1, <2>1, <2>2 DEF Range
<1>7. Ascending(Tail(s))
  <2>1. SUFFICES ASSUME NEW i \in 1 .. Len(s) - 1, NEW j \in 1 .. i - 1
                 PROVE  Tail(s)[j] < Tail(s)[i]
    BY <1>1 DEF Ascending
  <2>2. /\ i + 1 \in 1 .. Len(s) /\ j + 1 \in 1 .. (i + 1) - 1
        /\ Tail(s)[j] = s[j + 1] /\ Tail(s)[i] = s[i + 1]
    BY <1>1
  <2>3. QED
    BY <1>1, <2>2 DEF Ascending
<1>8. \A n \in Range(Tail(s)) : n # Head(s)
  <2>1. SUFFICES ASSUME Head(s) \in Range(Tail(s)) PROVE FALSE
    OBVIOUS
  <2>2. Head(s) < Head(s) /\ Head(s) \in Nat
    BY <1>1, <1>2, <1>5, <2>1
  <2>3. QED
    BY <2>2
<1>9. QED
  BY <1>3, <1>5, <1>6, <1>7, <1>8

-----------------------------------------------------------------------------
(* Messages of a type. *)

LEMMA OfAdd ==
  ASSUME NEW S, IsFiniteSet(S), NEW n, n \notin S, NEW t
  PROVE  /\ Of(S, t) \in Nat
         /\ received[n].type = t => Of(S \cup {n}, t) = Of(S, t) + 1
         /\ received[n].type # t => Of(S \cup {n}, t) = Of(S, t)
<1> DEFINE T == {x \in S : received[x].type = t}
<1>1. T \in SUBSET S /\ IsFiniteSet(T) /\ Cardinality(T) \in Nat /\ n \notin T
  BY FS_Subset, FS_CardinalityType
<1>2. CASE received[n].type = t
  <2>1. {x \in S \cup {n} : received[x].type = t} = T \cup {n}
    BY <1>2
  <2>2. Cardinality(T \cup {n}) = Cardinality(T) + 1
    BY <1>1, FS_AddElement
  <2>3. QED
    BY <1>1, <1>2, <2>1, <2>2 DEF Of
<1>3. CASE received[n].type # t
  <2>1. {x \in S \cup {n} : received[x].type = t} = T
    BY <1>3
  <2>2. QED
    BY <1>1, <1>3, <2>1 DEF Of
<1>4. QED
  BY <1>2, <1>3

LEMMA NumbersFinite ==
  ASSUME TypeOK
  PROVE  /\ Numbers \subseteq Nat /\ 0 \notin Numbers
         /\ Range(queue) \subseteq Numbers /\ IsFiniteSet(Range(queue))
         /\ dropped \subseteq Numbers /\ IsFiniteSet(dropped)
         /\ Range(processed) \subseteq Numbers
         /\ queue \in Seq(Nat) /\ processed \in Seq(Nat)
         /\ \A t : Of(Range(queue), t) \in Nat /\ Of(dropped, t) \in Nat
         /\ \A n \in Numbers : received[n] \in Message
<1>1. Len(received) \in Nat /\ queue \in Seq(Numbers) /\ processed \in Seq(Numbers)
      /\ dropped \subseteq Numbers
  BY LenProperties DEF TypeOK
<1>2. Numbers \subseteq Nat /\ 0 \notin Numbers /\ IsFiniteSet(Numbers)
  BY <1>1, FS_Interval DEF Numbers
<1>3. Range(queue) \subseteq Numbers /\ Range(processed) \subseteq Numbers
  BY <1>1, RangeOfSeq
<1>4. queue \in Seq(Nat) /\ processed \in Seq(Nat)
  BY <1>1, <1>2, SeqMonotonic
<1>5. IsFiniteSet(Range(queue)) /\ IsFiniteSet(dropped)
  BY <1>1, <1>2, <1>3, FS_Subset
<1>6. ASSUME NEW S, IsFiniteSet(S), NEW t PROVE Of(S, t) \in Nat
  <2>1. {n \in S : received[n].type = t} \in SUBSET S
    OBVIOUS
  <2>2. QED
    BY <1>6, <2>1, FS_Subset, FS_CardinalityType DEF Of
<1>7. \A n \in Numbers : received[n] \in Message
  BY ElementOfSeq DEF TypeOK, Numbers
<1>8. QED
  BY <1>1, <1>2, <1>3, <1>4, <1>5, <1>6, <1>7

(* The counts cannot exceed the bound on the messages: those of the business *)
(* thread add up to those of the I/O thread.                                 *)
LEMMA CountsBounded ==
  ASSUME TypeOK, Bounded, CountsAddUp, NEW t \in Types
  PROVE  /\ fsIo[t] \in Nat /\ fsBusiness[t] \in Nat /\ Len(received) \in Nat
         /\ fsIo[t] + AtIo(t, {"push", "lock", "count"}) <= Len(received)
         /\ fsBusiness[t] + AtBusiness(t) <= Len(received) \/ t \in Heartbeats
<1>1. fsIo[t] \in Nat /\ fsBusiness[t] \in Nat /\ Len(received) \in Nat
  BY LenProperties, BoundsAssumption DEF TypeOK, Counts
<1>2. fsIo[t] + AtIo(t, {"push", "lock", "count"}) <= Len(received)
  BY DEF Bounded
<1>3. ASSUME t \notin Heartbeats PROVE fsBusiness[t] + AtBusiness(t) <= Len(received)
  <2>1. fsIo[t] + AtIo(t, {"lock", "count"})
          = fsBusiness[t] + AtBusiness(t) + Of(Range(queue), t) + Of(dropped, t)
    BY <1>3 DEF CountsAddUp
  <2>2. AtIo(t, {"lock", "count"}) <= AtIo(t, {"push", "lock", "count"})
    BY DEF AtIo
  <2>3. Of(Range(queue), t) \in Nat /\ Of(dropped, t) \in Nat
    BY NumbersFinite
  <2>4. AtIo(t, {"lock", "count"}) \in Nat /\ AtIo(t, {"push", "lock", "count"}) \in Nat
        /\ AtBusiness(t) \in Nat
    BY DEF AtIo, AtBusiness
  <2>5. QED
    BY <1>1, <1>2, <2>1, <2>2, <2>3, <2>4
<1>4. QED
  BY <1>1, <1>2, <1>3

-----------------------------------------------------------------------------
LEMMA InitIInv == Init => IInv
<1>1. SUFFICES ASSUME Init PROVE IInv
  OBVIOUS
<1>2. Len(received) = 0 /\ Range(queue) = {} /\ Range(processed) = {} /\ Numbers = {}
  BY <1>1 DEF Init, Range, Numbers
<1>3. TypeOK
  <2>1. \A S : <<>> \in Seq(S)
    BY EmptySeq
  <2>2. None \in Counts
    BY BoundsAssumption DEF None, Counts
  <2>3. QED
    <3>1. received \in Seq(Message) /\ queue \in Seq(Numbers) /\ processed \in Seq(Numbers)
      BY <1>1, <2>1 DEF Init
    <3>2. Len(received) <= MaxReceived /\ Len(queue) <= QueueBound
      BY <1>1, <1>2, BoundsAssumption DEF Init
    <3>3. -1 \in KnownIds
      BY KnownIdsAssumption
    <3>4. QED
      BY <1>1, <2>2, <3>1, <3>2, <3>3 DEF Init, TypeOK
<1>4. Mutexes
  BY <1>1 DEF Init, Mutexes
<1>5. Line
  BY <1>1, <1>2 DEF Init, Line, Ascending
<1>6. Bounded
  BY <1>1, <1>2 DEF Init, Bounded, AtIo, None, Heartbeats, Types
<1>7. CountsAddUp
  <2>1. \A t : Of({}, t) = 0
    <3>1. \A t : {n \in {} : received[n].type = t} = {}
      OBVIOUS
    <3>2. QED
      BY <3>1, FS_EmptySet DEF Of
  <2>2. Range(queue) = {} /\ dropped = {}
    BY <1>1, <1>2 DEF Init
  <2>3. ASSUME NEW t \in Types
        PROVE  /\ fsIo[t] = 0 /\ fsBusiness[t] = 0
               /\ AtIo(t, {"lock", "count"}) = 0 /\ AtBusiness(t) = 0
    BY <1>1 DEF Init, None, AtIo, AtBusiness
  <2>4. QED
    BY <2>1, <2>2, <2>3 DEF CountsAddUp
<1>8. StatusFollows
  BY <1>1, KnownIdsAssumption DEF Init, StatusFollows
<1>9. HandledInOrder
  BY <1>1, <1>2 DEF Init, HandledInOrder, Ascending
<1>10. QED
  BY <1>3, <1>4, <1>5, <1>6, <1>7, <1>8, <1>9 DEF IInv

LEMMA IoLoopIInv == IInv /\ IoLoop => IInv'
<1>1. SUFFICES ASSUME IInv, IoLoop PROVE IInv'
  OBVIOUS
<1>2. TypeOK'
  BY <1>1 DEF IInv, TypeOK, Numbers, Counts, IoLoop, Io, businessVars, mainVars,
     transit, stats, locks
<1>3. Mutexes'
  BY <1>1 DEF IInv, TypeOK, Mutexes, IoLoop, Io, businessVars, mainVars, transit, stats,
     locks
<1>4. Line'
  BY <1>1 DEF IInv, TypeOK, Line, Ascending, ioMsg, ioNo, IoLoop, Io, businessVars,
     mainVars, transit, stats, locks
<1>5. Bounded'
  BY <1>1 DEF IInv, Bounded, AtIo, ioMsg, ioNo, IoLoop, Io, businessVars, mainVars,
     transit, stats, locks
<1>6. CountsAddUp'
  BY <1>1 DEF IInv, CountsAddUp, AtIo, AtBusiness, Of, ioMsg, bMsg, ioNo, IoLoop, Io,
     businessVars, mainVars, transit, stats, locks
<1>7. StatusFollows'
  BY <1>1 DEF IInv, StatusFollows, StatusAt, IoLoop, Io, businessVars, mainVars,
     transit, stats, locks
<1>8. HandledInOrder'
  BY <1>1 DEF IInv, HandledInOrder, Due, OnItsWay, Ascending, Numbers, ioNo, IoLoop, Io,
     businessVars, mainVars, transit, stats, locks
<1>9. QED
  BY <1>2, <1>3, <1>4, <1>5, <1>6, <1>7, <1>8 DEF IInv

LEMMA RecvIInv == IInv /\ (\E m \in Messages : Recv(m)) => IInv'
<1>1. SUFFICES ASSUME IInv, NEW m \in Messages, Recv(m) PROVE IInv'
  OBVIOUS
<1>2. /\ m \in Message /\ received' = Append(received, m) /\ received \in Seq(Message)
      /\ Len(received) < MaxReceived /\ ioPc = "recv"
      /\ ioPc' = IF m.type \in Heartbeats THEN "lock" ELSE "push"
      /\ UNCHANGED <<bPc, bNo, handlers, hkTradingSessionSubId, processed, mainPc, exitFlag>>
      /\ UNCHANGED <<queue, dropped, fsIo, fsBusiness, mtxIo, mtxBusiness>>
  BY <1>1, MessagesAssumption
  DEF Recv, Io, IInv, TypeOK, businessVars, mainVars, transit, stats, locks
<1>3. /\ Len(received) \in Nat /\ Len(received') = Len(received) + 1
      /\ received' \in Seq(Message) /\ Numbers' = Numbers \cup {Len(received) + 1}
      /\ received'[Len(received) + 1] = m
      /\ \A n \in Numbers : received'[n] = received[n] /\ n < Len(received) + 1 /\ n # 0
  BY <1>2, AppendProperties, LenProperties DEF Numbers
<1>4. /\ Range(queue) \subseteq Numbers /\ Range(processed) \subseteq Numbers
      /\ dropped \subseteq Numbers /\ bNo \in {0} \cup Numbers
  BY <1>1, NumbersFinite DEF IInv, TypeOK
<1>5. \A t, S : S \subseteq Numbers => Of(S, t)' = Of(S, t)
  <2>1. SUFFICES ASSUME NEW t, NEW S, S \subseteq Numbers
                 PROVE  {n \in S : received'[n].type = t} = {n \in S : received[n].type = t}
    BY DEF Of
  <2>2. \A n \in S : received'[n] = received[n]
    BY <1>3, <2>1
  <2>3. QED
    BY <2>2
<1>6. TypeOK'
  <2>1. queue \in Seq(Numbers') /\ processed \in Seq(Numbers')
    BY <1>1, <1>3, SeqMonotonic DEF IInv, TypeOK
  <2>2. Len(received') <= MaxReceived
    BY <1>2, <1>3, BoundsAssumption
  <2>3. QED
    BY <1>1, <1>2, <1>3, <1>4, <2>1, <2>2 DEF IInv, TypeOK, Counts
<1>7. Mutexes'
  BY <1>1 DEF IInv, TypeOK, Mutexes, Recv, Io, businessVars, mainVars, transit, stats,
     locks
<1>8. Line'
  <2>1. ioNo' = Len(received) + 1 /\ ioMsg' = m
    BY <1>3 DEF ioNo, ioMsg
  <2>2. Ascending(queue)' /\ \A n \in Range(queue) : bNo < n
    BY <1>1, <1>2 DEF IInv, Line, Ascending
  <2>3. \A n \in Range(queue) \cup dropped \cup {bNo} : n < Len(received) + 1
    BY <1>3, <1>4
  <2>4. \A n \in (Range(queue) \cup {bNo}) \ {0} : received'[n].type \notin Heartbeats
    BY <1>1, <1>3, <1>4 DEF IInv, Line
  <2>5. ioNo' # 0 /\ (ioPc' = "push" => ioMsg'.type \notin Heartbeats)
    BY <1>2, <1>3, <2>1
  <2>6. QED
    BY <1>1, <1>2, <2>1, <2>2, <2>3, <2>4, <2>5 DEF IInv, Line
<1>9. Bounded'
  <2>1. ASSUME NEW t \in Types
        PROVE  fsIo[t] + AtIo(t, {"push", "lock", "count"})' <= Len(received) + 1
    <3>1. AtIo(t, {"push", "lock", "count"}) = 0
      BY <1>2 DEF AtIo
    <3>2. fsIo[t] \in Nat /\ fsIo[t] <= Len(received)
      BY <1>1, <3>1, CountsBounded DEF IInv
    <3>3. AtIo(t, {"push", "lock", "count"})' \in {0, 1}
      BY DEF AtIo
    <3>4. QED
      BY <1>3, <3>2, <3>3
  <2>2. QED
    BY <1>1, <1>2, <1>3, <2>1 DEF IInv, Bounded
<1>10. CountsAddUp'
  <2>1. SUFFICES ASSUME NEW t \in Types \ Heartbeats
                 PROVE  fsIo[t] + AtIo(t, {"lock", "count"})'
                          = fsBusiness[t] + AtBusiness(t)' + Of(Range(queue), t)'
                              + Of(dropped, t)'
    BY <1>2 DEF CountsAddUp
  <2>2. AtIo(t, {"lock", "count"}) = 0 /\ AtIo(t, {"lock", "count"})' = 0
    BY <1>2, <1>3, <2>1 DEF AtIo, ioMsg, ioNo
  <2>3. AtBusiness(t)' = AtBusiness(t)
    <3>1. bPc \in {"route", "lock", "count", "aborted"} => received'[bNo] = received[bNo]
      BY <1>1, <1>3, <1>4 DEF IInv, Line
    <3>2. QED
      BY <1>2, <3>1 DEF AtBusiness, bMsg
  <2>4. Of(Range(queue), t)' = Of(Range(queue), t) /\ Of(dropped, t)' = Of(dropped, t)
    BY <1>2, <1>3, <1>4 DEF Of
  <2>5. QED
    BY <1>1, <2>2, <2>3, <2>4 DEF IInv, CountsAddUp
<1>11. StatusFollows'
  <2>1. \A i \in DOMAIN processed :
          /\ received'[processed[i]] = received[processed[i]]
          /\ StatusAt(i)' <=> StatusAt(i)
    BY <1>2, <1>3, <1>4 DEF Range, StatusAt
  <2>2. DOMAIN processed = 1 .. Len(processed)
    BY <1>1, LenProperties DEF IInv, TypeOK
  <2>3. /\ hkTradingSessionSubId' = hkTradingSessionSubId /\ processed' = processed
        /\ StatusFollows
    BY <1>1, <1>2 DEF IInv
  <2>4. \A i \in DOMAIN processed : \A j \in i + 1 .. Len(processed) : j \in DOMAIN processed
    BY <2>2
  <2>5. QED
    BY <2>1, <2>2, <2>3, <2>4 DEF StatusFollows
<1>12. HandledInOrder'
  <2>1. \A n \in Numbers : Due(n)' <=> Due(n)
    BY <1>3 DEF Due
  <2>2. \A n \in Numbers : OnItsWay(n) => OnItsWay(n)'
    BY <1>2 DEF OnItsWay
  <2>3. ASSUME NEW n \in Numbers', n \notin Numbers, Due(n)' PROVE OnItsWay(n)'
    <3>1. n = Len(received) + 1 /\ received'[n] = m
      BY <1>3, <2>3
    <3>2. ioPc' = "push"
      BY <1>2, <2>3, <3>1 DEF Due, Handled, Heartbeats
    <3>3. QED
      BY <1>3, <3>1, <3>2 DEF OnItsWay, ioNo
  <2>4. Ascending(processed)' /\ \A n \in Range(processed)' : Due(n)'
    BY <1>1, <1>2, <1>4, <2>1 DEF IInv, HandledInOrder, Ascending
  <2>5. \A n \in Numbers' :
          Due(n)' => n \in Range(processed)' \cup dropped' \/ OnItsWay(n)'
    <3>1. SUFFICES ASSUME NEW n \in Numbers, Due(n)
                   PROVE  n \in Range(processed) \cup dropped \/ OnItsWay(n)'
      BY <1>2, <2>1, <2>3
    <3>2. QED
      BY <1>1, <2>2, <3>1 DEF IInv, HandledInOrder
  <2>6. QED
    BY <2>4, <2>5 DEF HandledInOrder
<1>13. QED
  BY <1>6, <1>7, <1>8, <1>9, <1>10, <1>11, <1>12 DEF IInv

LEMMA PushIInv == IInv /\ Push => IInv'
<1>1. SUFFICES ASSUME IInv, Push PROVE IInv'
  OBVIOUS
<1>2. /\ ioPc = "push" /\ ioPc' = "lock"
      /\ UNCHANGED <<bPc, bNo, handlers, hkTradingSessionSubId, processed, mainPc, exitFlag>>
      /\ UNCHANGED <<received, fsIo, fsBusiness, mtxIo, mtxBusiness>>
  BY <1>1 DEF Push, Io, businessVars, mainVars, stats, locks
<1>3. /\ ioNo \in Numbers /\ ioNo' = ioNo /\ ioMsg' = ioMsg /\ ioMsg.type \notin Heartbeats
      /\ \A n \in Range(queue) \cup dropped \cup {bNo} : n < ioNo
      /\ ioNo \notin Range(queue) \cup dropped /\ ioMsg = received[ioNo]
  <2>1. Len(received) \in Nat
    BY <1>1, LenProperties DEF IInv, TypeOK
  <2>2. QED
    BY <1>1, <1>2, <2>1 DEF IInv, Line, ioNo, ioMsg, Numbers
<1>4. /\ queue \in Seq(Numbers) /\ queue \in Seq(Nat) /\ Numbers \subseteq Nat
      /\ IsFiniteSet(Range(queue)) /\ IsFiniteSet(dropped) /\ dropped \subseteq Numbers
      /\ Len(queue) \in Nat
  BY <1>1, NumbersFinite, LenProperties DEF IInv, TypeOK
<1>5. \/ /\ Len(queue) < QueueBound /\ queue' = Append(queue, ioNo) /\ dropped' = dropped
         /\ queue' \in Seq(Numbers) /\ Len(queue') = Len(queue) + 1
         /\ Range(queue') = Range(queue) \cup {ioNo} /\ Ascending(queue')
      \/ dropped' = dropped \cup {ioNo} /\ queue' = queue
  <2>1. Ascending(queue)
    BY <1>1 DEF IInv, Line
  <2>2. /\ Append(queue, ioNo) \in Seq(Numbers) /\ Len(Append(queue, ioNo)) = Len(queue) + 1
        /\ Range(Append(queue, ioNo)) = Range(queue) \cup {ioNo}
    BY <1>3, <1>4, AppendProperties, RangeAppend
  <2>3. Ascending(Append(queue, ioNo))
    BY <1>3, <1>4, <2>1, AscendingAppend
  <2>4. QED
    BY <1>1, <2>2, <2>3 DEF Push
<1>6. TypeOK'
  <2>1. queue' \in Seq(Numbers) /\ Len(queue') <= QueueBound /\ dropped' \subseteq Numbers
    <3>1. Len(queue) <= QueueBound /\ QueueBound \in Nat
      BY <1>1, BoundsAssumption DEF IInv, TypeOK
    <3>2. CASE dropped' = dropped /\ queue' \in Seq(Numbers) /\ Len(queue') = Len(queue) + 1
               /\ Len(queue) < QueueBound
      BY <1>4, <3>1, <3>2
    <3>3. CASE dropped' = dropped \cup {ioNo} /\ queue' = queue
      BY <1>3, <1>4, <3>1, <3>3
    <3>4. QED
      BY <1>5, <3>2, <3>3
  <2>2. Numbers' = Numbers
    BY <1>2 DEF Numbers
  <2>3. QED
    BY <1>1, <1>2, <2>1, <2>2 DEF IInv, TypeOK, Counts
<1>7. Mutexes'
  BY <1>1 DEF IInv, TypeOK, Mutexes, Push, Io, businessVars, mainVars, transit, stats,
     locks
<1>8. Line'
  <2>1. \A n \in Range(queue') : n = ioNo \/ n \in Range(queue)
    BY <1>5
  <2>2. Ascending(queue')
    BY <1>1, <1>5 DEF IInv, Line
  <2>3. \A n \in Range(queue') : bNo < n
    BY <1>1, <1>3, <2>1 DEF IInv, Line
  <2>4. \A n \in (Range(queue') \cup {bNo}) \ {0} : received[n].type \notin Heartbeats
    BY <1>1, <1>3, <2>1 DEF IInv, Line
  <2>5. ioNo' # 0
    BY <1>1, <1>2, <1>3 DEF IInv, Line
  <2>6. QED
    BY <1>1, <1>2, <2>2, <2>3, <2>4, <2>5 DEF IInv, Line
<1>9. Bounded'
  BY <1>1 DEF IInv, Bounded, AtIo, ioMsg, ioNo, Push, Io, businessVars, mainVars,
     transit, stats, locks
<1>10. CountsAddUp'
  <2>1. SUFFICES ASSUME NEW t \in Types \ Heartbeats
                 PROVE  fsIo[t] + AtIo(t, {"lock", "count"})'
                          = fsBusiness[t] + AtBusiness(t)' + Of(Range(queue), t)'
                              + Of(dropped, t)'
    BY <1>2 DEF CountsAddUp
  <2>2. /\ AtIo(t, {"lock", "count"}) = 0
        /\ AtIo(t, {"lock", "count"})' = IF received[ioNo].type = t THEN 1 ELSE 0
    BY <1>2, <1>3 DEF AtIo
  <2>3. AtBusiness(t)' = AtBusiness(t) /\ AtBusiness(t) \in Nat
    BY <1>2 DEF AtBusiness, bMsg
  <2>4. \A S : Of(S, t)' = Of(S, t)
    BY <1>2 DEF Of
  <2>5. /\ Of(Range(queue), t)' = Of(Range(queue'), t) /\ Of(dropped, t)' = Of(dropped', t)
        /\ Of(Range(queue), t) \in Nat /\ Of(dropped, t) \in Nat
        /\ fsIo[t] \in Nat /\ fsBusiness[t] \in Nat
    BY <1>1, <1>2, NumbersFinite, CountsBounded DEF Of, IInv
  <2>6. /\ Of(Range(queue'), t) \in Nat /\ Of(dropped', t) \in Nat
        /\ Of(Range(queue'), t) + Of(dropped', t)
             = Of(Range(queue), t) + Of(dropped, t)
                 + (IF received[ioNo].type = t THEN 1 ELSE 0)
    <3>1. /\ received[ioNo].type = t => Of(Range(queue) \cup {ioNo}, t) = Of(Range(queue), t) + 1
          /\ received[ioNo].type # t => Of(Range(queue) \cup {ioNo}, t) = Of(Range(queue), t)
          /\ received[ioNo].type = t => Of(dropped \cup {ioNo}, t) = Of(dropped, t) + 1
          /\ received[ioNo].type # t => Of(dropped \cup {ioNo}, t) = Of(dropped, t)
      BY <1>3, <1>4, OfAdd
    <3>2. CASE dropped' = dropped /\ Range(queue') = Range(queue) \cup {ioNo}
      BY <2>5, <3>1, <3>2
    <3>3. CASE dropped' = dropped \cup {ioNo} /\ queue' = queue
      BY <2>5, <3>1, <3>3
    <3>4. QED
      BY <1>5, <3>2, <3>3
  <2>7. fsIo[t] + AtIo(t, {"lock", "count"})
          = fsBusiness[t] + AtBusiness(t) + Of(Range(queue), t) + Of(dropped, t)
    BY <1>1 DEF IInv, CountsAddUp
  <2>8. CASE received[ioNo].type = t
    <3>1. fsIo[t] = fsBusiness[t] + AtBusiness(t) + Of(Range(queue), t) + Of(dropped, t)
      BY <2>2, <2>5, <2>7
    <3>2. Of(Range(queue'), t) + Of(dropped', t) = Of(Range(queue), t) + Of(dropped, t) + 1
      BY <2>6, <2>8
    <3>3. fsIo[t] + 1 = fsBusiness[t] + AtBusiness(t) + Of(Range(queue'), t) + Of(dropped', t)
      BY <2>3, <2>5, <2>6, <3>1, <3>2
    <3>4. QED
      BY <2>2, <2>3, <2>5, <2>8, <3>3
  <2>9. CASE received[ioNo].type # t
    <3>1. fsIo[t] = fsBusiness[t] + AtBusiness(t) + Of(Range(queue), t) + Of(dropped, t)
      BY <2>2, <2>5, <2>7
    <3>2. Of(Range(queue'), t) + Of(dropped', t) = Of(Range(queue), t) + Of(dropped, t)
      BY <2>5, <2>6, <2>9
    <3>3. fsIo[t] = fsBusiness[t] + AtBusiness(t) + Of(Range(queue'), t) + Of(dropped', t)
      BY <2>3, <2>5, <2>6, <3>1, <3>2
    <3>4. QED
      BY <2>2, <2>3, <2>5, <2>9, <3>3
  <2>10. QED
    BY <2>8, <2>9
<1>11. StatusFollows'
  BY <1>1 DEF IInv, StatusFollows, StatusAt, Push, Io, businessVars, mainVars, transit,
     stats, locks
<1>12. HandledInOrder'
  <2>1. Numbers' = Numbers /\ \A n : Due(n)' <=> Due(n)
    BY <1>2 DEF Due, Numbers
  <2>2. \A n : OnItsWay(n) => n \in dropped' \/ OnItsWay(n)'
    BY <1>2, <1>3, <1>5 DEF OnItsWay
  <2>3. \A n \in Numbers : n \in dropped => n \in dropped'
    BY <1>5
  <2>4. Ascending(processed)' /\ \A n \in Range(processed)' : Due(n)'
    BY <1>1, <1>2, <2>1 DEF IInv, HandledInOrder, Ascending
  <2>5. QED
    BY <1>1, <1>2, <2>1, <2>2, <2>3, <2>4 DEF IInv, HandledInOrder
<1>13. QED
  BY <1>6, <1>7, <1>8, <1>9, <1>10, <1>11, <1>12 DEF IInv

LEMMA IoLockIInv == IInv /\ IoLock => IInv'
<1>1. SUFFICES ASSUME IInv, IoLock PROVE IInv'
  OBVIOUS
<1>2. TypeOK'
  BY <1>1 DEF IInv, TypeOK, Numbers, Counts, IoLock, Io, businessVars, mainVars,
     transit, stats, locks, Lock
<1>3. Mutexes'
  BY <1>1 DEF IInv, TypeOK, Mutexes, IoLock, Io, businessVars, mainVars, transit, stats,
     locks, Lock
<1>4. Line'
  BY <1>1 DEF IInv, TypeOK, Line, Ascending, ioMsg, ioNo, IoLock, Io, businessVars,
     mainVars, transit, stats, locks, Lock
<1>5. Bounded'
  BY <1>1 DEF IInv, Bounded, AtIo, ioMsg, ioNo, IoLock, Io, businessVars, mainVars,
     transit, stats, locks, Lock
<1>6. CountsAddUp'
  BY <1>1 DEF IInv, CountsAddUp, AtIo, AtBusiness, Of, ioMsg, bMsg, ioNo, IoLock, Io,
     businessVars, mainVars, transit, stats, locks, Lock
<1>7. StatusFollows'
  BY <1>1 DEF IInv, StatusFollows, StatusAt, IoLock, Io, businessVars, mainVars,
     transit, stats, locks, Lock
<1>8. HandledInOrder'
  BY <1>1 DEF IInv, HandledInOrder, Due, OnItsWay, Ascending, Numbers, ioNo, IoLock, Io,
     businessVars, mainVars, transit, stats, locks, Lock
<1>9. QED
  BY <1>2, <1>3, <1>4, <1>5, <1>6, <1>7, <1>8 DEF IInv

LEMMA IoCountIInv == IInv /\ IoCount => IInv'
<1>1. SUFFICES ASSUME IInv, IoCount PROVE IInv'
  OBVIOUS
<1>2. /\ ioPc = "count" /\ ioPc' = "loop" /\ mtxIo' = "free"
      /\ fsIo' = [fsIo EXCEPT ![ioMsg.type] = @ + 1]
      /\ UNCHANGED <<bPc, bNo, handlers, hkTradingSessionSubId, processed, mainPc, exitFlag>>
      /\ UNCHANGED <<received, queue, dropped, fsBusiness, mtxBusiness>>
  BY <1>1 DEF IoCount, Io, Unlock, Counted, businessVars, mainVars, transit
<1>3. ioMsg.type \in Types /\ ioMsg' = ioMsg /\ ioNo' = ioNo
  <2>1. Len(received) \in Nat /\ ioNo # 0
    BY <1>1, <1>2, LenProperties DEF IInv, TypeOK, Line
  <2>2. ioMsg \in Message
    BY <1>1, <2>1, NumbersFinite DEF IInv, ioMsg, ioNo, Numbers
  <2>3. QED
    BY <1>2, <2>2 DEF Message, ioMsg, ioNo
<1>4. ASSUME NEW t \in Types
      PROVE  /\ fsIo[t] \in Nat /\ fsIo'[t] \in Nat /\ Len(received) \in Nat
             /\ AtIo(t, {"lock", "count"}) = IF ioMsg.type = t THEN 1 ELSE 0
             /\ AtIo(t, {"lock", "count"})' = 0 /\ AtIo(t, {"push", "lock", "count"})' = 0
             /\ fsIo'[t] = fsIo[t] + AtIo(t, {"lock", "count"})
             /\ fsIo'[t] <= Len(received)
  <2>1. /\ fsIo[t] \in Nat /\ Len(received) \in Nat
        /\ fsIo[t] + AtIo(t, {"push", "lock", "count"}) <= Len(received)
    BY <1>1, CountsBounded DEF IInv
  <2>2. /\ AtIo(t, {"lock", "count"}) = IF ioMsg.type = t THEN 1 ELSE 0
        /\ AtIo(t, {"push", "lock", "count"}) = AtIo(t, {"lock", "count"})
        /\ AtIo(t, {"lock", "count"})' = 0 /\ AtIo(t, {"push", "lock", "count"})' = 0
    BY <1>2 DEF AtIo
  <2>3. fsIo'[t] = IF ioMsg.type = t THEN fsIo[t] + 1 ELSE fsIo[t]
    BY <1>1, <1>2, <1>3 DEF IInv, TypeOK, Counts
  <2>4. QED
    BY <2>1, <2>2, <2>3
<1>5. TypeOK'
  <2>1. DOMAIN fsIo' = Types /\ fsIo' = [t \in Types |-> fsIo'[t]]
    BY <1>1, <1>2 DEF IInv, TypeOK, Counts
  <2>2. Len(received) <= MaxReceived /\ MaxReceived \in Nat
    BY <1>1, BoundsAssumption DEF IInv, TypeOK
  <2>3. \A t \in Types : fsIo'[t] \in 0 .. MaxReceived
    BY <1>4, <2>2
  <2>4. fsIo' \in Counts
    BY <2>1, <2>3 DEF Counts
  <2>5. Numbers' = Numbers /\ Counts' = Counts
    BY <1>2 DEF Numbers, Counts
  <2>6. QED
    BY <1>1, <1>2, <2>4, <2>5 DEF IInv, TypeOK
<1>6. Mutexes'
  BY <1>1 DEF IInv, TypeOK, Mutexes, IoCount, Io, businessVars, mainVars, transit,
     stats, locks, Unlock, Counted
<1>7. Line'
  BY <1>1 DEF IInv, TypeOK, Line, Ascending, ioMsg, ioNo, IoCount, Io, businessVars,
     mainVars, transit, stats, locks, Unlock, Counted
<1>8. Bounded'
  BY <1>1, <1>2, <1>4 DEF IInv, Bounded
<1>9. CountsAddUp'
  <2>1. ASSUME NEW t \in Types
        PROVE  /\ AtBusiness(t)' = AtBusiness(t) /\ Of(Range(queue), t)' = Of(Range(queue), t)
               /\ Of(dropped, t)' = Of(dropped, t)
    BY <1>2 DEF AtBusiness, bMsg, Of
  <2>2. ASSUME NEW t \in Types
        PROVE  fsIo'[t] + AtIo(t, {"lock", "count"})' = fsIo[t] + AtIo(t, {"lock", "count"})
    BY <1>4
  <2>3. QED
    BY <1>1, <1>2, <2>1, <2>2 DEF IInv, CountsAddUp
<1>10. StatusFollows'
  BY <1>1 DEF IInv, StatusFollows, StatusAt, IoCount, Io, businessVars, mainVars,
     transit, stats, locks, Unlock, Counted
<1>11. HandledInOrder'
  BY <1>1 DEF IInv, HandledInOrder, Due, OnItsWay, Ascending, Numbers, ioNo, IoCount,
     Io, businessVars, mainVars, transit, stats, locks, Unlock, Counted
<1>12. QED
  BY <1>5, <1>6, <1>7, <1>8, <1>9, <1>10, <1>11 DEF IInv

LEMMA RecvFailsIInv == IInv /\ RecvFails => IInv'
<1>1. SUFFICES ASSUME IInv, RecvFails PROVE IInv'
  OBVIOUS
<1>2. TypeOK'
  BY <1>1 DEF IInv, TypeOK, Numbers, Counts, RecvFails, Io, businessVars, mainVars,
     transit, stats, locks
<1>3. Mutexes'
  BY <1>1 DEF IInv, TypeOK, Mutexes, RecvFails, Io, businessVars, mainVars, transit,
     stats, locks
<1>4. Line'
  BY <1>1 DEF IInv, TypeOK, Line, Ascending, ioMsg, ioNo, RecvFails, Io, businessVars,
     mainVars, transit, stats, locks
<1>5. Bounded'
  BY <1>1 DEF IInv, Bounded, AtIo, ioMsg, ioNo, RecvFails, Io, businessVars, mainVars,
     transit, stats, locks
<1>6. CountsAddUp'
  BY <1>1 DEF IInv, CountsAddUp, AtIo, AtBusiness, Of, ioMsg, bMsg, ioNo, RecvFails, Io,
     businessVars, mainVars, transit, stats, locks
<1>7. StatusFollows'
  BY <1>1 DEF IInv, StatusFollows, StatusAt, RecvFails, Io, businessVars, mainVars,
     transit, stats, locks
<1>8. HandledInOrder'
  BY <1>1 DEF IInv, HandledInOrder, Due, OnItsWay, Ascending, Numbers, ioNo, RecvFails,
     Io, businessVars, mainVars, transit, stats, locks
<1>9. QED
  BY <1>2, <1>3, <1>4, <1>5, <1>6, <1>7, <1>8 DEF IInv

LEMMA initializeMsgHandlersIInv == IInv /\ initializeMsgHandlers => IInv'
<1>1. SUFFICES ASSUME IInv, initializeMsgHandlers PROVE IInv'
  OBVIOUS
<1>2. TypeOK'
  BY <1>1 DEF IInv, TypeOK, Numbers, Counts, initializeMsgHandlers, Business, ioVars,
     mainVars, transit, stats, locks
<1>3. Mutexes'
  BY <1>1 DEF IInv, TypeOK, Mutexes, initializeMsgHandlers, Business, ioVars, mainVars,
     transit, stats, locks
<1>4. Line'
  BY <1>1 DEF IInv, TypeOK, Line, Ascending, ioMsg, ioNo, initializeMsgHandlers,
     Business, ioVars, mainVars, transit, stats, locks
<1>5. Bounded'
  BY <1>1 DEF IInv, Bounded, AtIo, ioMsg, ioNo, initializeMsgHandlers, Business, ioVars,
     mainVars, transit, stats, locks
<1>6. CountsAddUp'
  BY <1>1 DEF IInv, CountsAddUp, AtIo, AtBusiness, Of, ioMsg, bMsg, ioNo,
     initializeMsgHandlers, Business, ioVars, mainVars, transit, stats, locks
<1>7. StatusFollows'
  BY <1>1 DEF IInv, StatusFollows, StatusAt, initializeMsgHandlers, Business, ioVars,
     mainVars, transit, stats, locks
<1>8. HandledInOrder'
  BY <1>1 DEF IInv, HandledInOrder, Due, OnItsWay, Ascending, Numbers, ioNo,
     initializeMsgHandlers, Business, ioVars, mainVars, transit, stats, locks
<1>9. QED
  BY <1>2, <1>3, <1>4, <1>5, <1>6, <1>7, <1>8 DEF IInv

LEMMA BusinessLoopIInv == IInv /\ BusinessLoop => IInv'
<1>1. SUFFICES ASSUME IInv, BusinessLoop PROVE IInv'
  OBVIOUS
<1>2. TypeOK'
  BY <1>1 DEF IInv, TypeOK, Numbers, Counts, BusinessLoop, Business, ioVars, mainVars,
     transit, stats, locks
<1>3. Mutexes'
  BY <1>1 DEF IInv, TypeOK, Mutexes, BusinessLoop, Business, ioVars, mainVars, transit,
     stats, locks
<1>4. Line'
  BY <1>1 DEF IInv, TypeOK, Line, Ascending, ioMsg, ioNo, BusinessLoop, Business,
     ioVars, mainVars, transit, stats, locks
<1>5. Bounded'
  BY <1>1 DEF IInv, Bounded, AtIo, ioMsg, ioNo, BusinessLoop, Business, ioVars,
     mainVars, transit, stats, locks
<1>6. CountsAddUp'
  BY <1>1 DEF IInv, CountsAddUp, AtIo, AtBusiness, Of, ioMsg, bMsg, ioNo, BusinessLoop,
     Business, ioVars, mainVars, transit, stats, locks
<1>7. StatusFollows'
  BY <1>1 DEF IInv, StatusFollows, StatusAt, BusinessLoop, Business, ioVars, mainVars,
     transit, stats, locks
<1>8. HandledInOrder'
  BY <1>1 DEF IInv, HandledInOrder, Due, OnItsWay, Ascending, Numbers, ioNo,
     BusinessLoop, Business, ioVars, mainVars, transit, stats, locks
<1>9. QED
  BY <1>2, <1>3, <1>4, <1>5, <1>6, <1>7, <1>8 DEF IInv

LEMMA PopIInv == IInv /\ Pop => IInv'
<1>1. SUFFICES ASSUME IInv, Pop PROVE IInv'
  OBVIOUS
<1>2. /\ bPc = "pop" /\ bPc' = "route" /\ queue # <<>> /\ bNo' = Head(queue)
      /\ queue' = Tail(queue)
      /\ UNCHANGED <<ioPc, received, handlers, hkTradingSessionSubId, processed, mainPc>>
      /\ UNCHANGED <<exitFlag, dropped, fsIo, fsBusiness, mtxIo, mtxBusiness>>
  BY <1>1 DEF Pop, Business, ioVars, mainVars, stats, locks
<1>3. /\ queue \in Seq(Numbers) /\ queue \in Seq(Nat) /\ Numbers \subseteq Nat /\ 0 \notin Numbers
      /\ IsFiniteSet(Range(queue)) /\ Len(queue) \in Nat /\ Range(queue) \subseteq Numbers
      /\ Range(processed) \subseteq Numbers /\ dropped \subseteq Numbers
  BY <1>1, NumbersFinite, LenProperties DEF IInv, TypeOK
<1>4. /\ bNo' \in Range(queue) /\ Range(queue') = Range(queue) \ {bNo'}
      /\ Ascending(queue') /\ \A n \in Range(queue') : bNo' < n
  BY <1>1, <1>2, <1>3, AscendingTail DEF IInv, Line
<1>5. queue' \in Seq(Numbers) /\ Len(queue') = Len(queue) - 1
  BY <1>2, <1>3, HeadTailProperties
<1>6. ioNo' = ioNo /\ ioMsg' = ioMsg /\ Numbers' = Numbers
  BY <1>2 DEF ioNo, ioMsg, Numbers
<1>7. TypeOK'
  BY <1>1, <1>2, <1>3, <1>4, <1>5, <1>6, BoundsAssumption DEF IInv, TypeOK, Counts
<1>8. Mutexes'
  BY <1>1 DEF IInv, TypeOK, Mutexes, Pop, Business, ioVars, mainVars, transit, stats,
     locks
<1>9. Line'
  <2>1. bNo < bNo' /\ bNo \in Nat /\ bNo' \in Nat
    <3>1. bNo \in {0} \cup Numbers /\ \A n \in Range(queue) : bNo < n
      BY <1>1 DEF IInv, TypeOK, Line
    <3>2. bNo \in Nat
      BY <1>3, <3>1
    <3>3. bNo' \in Nat /\ bNo < bNo'
      BY <1>3, <1>4, <3>1
    <3>4. QED
      BY <3>2, <3>3
  <2>2. \A n \in Range(processed) : n < bNo'
    <3>1. \A n \in Range(processed) : n \in Nat /\ (n < bNo \/ n = bNo)
      BY <1>1, <1>3 DEF IInv, Line
    <3>2. QED
      BY <2>1, <3>1
  <2>3. ioPc = "push" => \A n \in Range(queue') \cup dropped \cup {bNo'} : n < ioNo
    BY <1>1, <1>4 DEF IInv, Line
  <2>4. \A n \in (Range(queue') \cup {bNo'}) \ {0} : received[n].type \notin Heartbeats
    BY <1>1, <1>3, <1>4 DEF IInv, Line
  <2>5. bNo' # 0 /\ bPc # "start"
    BY <1>2, <1>3, <1>4
  <2>6. QED
    BY <1>1, <1>2, <1>4, <1>6, <2>2, <2>3, <2>4, <2>5 DEF IInv, Line
<1>10. Bounded'
  BY <1>1 DEF IInv, Bounded, AtIo, ioMsg, ioNo, Pop, Business, ioVars, mainVars,
     transit, stats, locks
<1>11. CountsAddUp'
  <2>1. SUFFICES ASSUME NEW t \in Types \ Heartbeats
                 PROVE  fsIo[t] + AtIo(t, {"lock", "count"})'
                          = fsBusiness[t] + AtBusiness(t)' + Of(Range(queue), t)'
                              + Of(dropped, t)'
    BY <1>2 DEF CountsAddUp
  <2>2. AtIo(t, {"lock", "count"})' = AtIo(t, {"lock", "count"})
    BY <1>2, <1>6 DEF AtIo
  <2>3. AtBusiness(t) = 0 /\ AtBusiness(t)' = IF received[bNo'].type = t THEN 1 ELSE 0
    BY <1>2 DEF AtBusiness, bMsg
  <2>4. /\ Of(Range(queue), t)' = Of(Range(queue'), t) /\ Of(dropped, t)' = Of(dropped, t)
        /\ Of(Range(queue), t) \in Nat /\ Of(dropped, t) \in Nat
        /\ fsIo[t] \in Nat /\ fsBusiness[t] \in Nat
    BY <1>1, <1>2, NumbersFinite, CountsBounded DEF Of, IInv
  <2>5. /\ received[bNo'].type = t => Of(Range(queue), t) = Of(Range(queue'), t) + 1
        /\ received[bNo'].type # t => Of(Range(queue), t) = Of(Range(queue'), t)
        /\ Of(Range(queue'), t) \in Nat
    <3>1. IsFiniteSet(Range(queue')) /\ bNo' \notin Range(queue')
          /\ Range(queue) = Range(queue') \cup {bNo'}
      BY <1>3, <1>4, FS_RemoveElement
    <3>2. /\ Of(Range(queue'), t) \in Nat
          /\ received[bNo'].type = t
               => Of(Range(queue') \cup {bNo'}, t) = Of(Range(queue'), t) + 1
          /\ received[bNo'].type # t
               => Of(Range(queue') \cup {bNo'}, t) = Of(Range(queue'), t)
      BY <3>1, OfAdd
    <3>3. QED
      BY <3>1, <3>2
  <2>6. fsIo[t] + AtIo(t, {"lock", "count"})
          = fsBusiness[t] + AtBusiness(t) + Of(Range(queue), t) + Of(dropped, t)
    BY <1>1 DEF IInv, CountsAddUp
  <2>7. AtIo(t, {"lock", "count"}) \in Nat
    BY DEF AtIo
  <2>8. QED
    BY <2>2, <2>3, <2>4, <2>5, <2>6, <2>7
<1>12. StatusFollows'
  BY <1>1 DEF IInv, StatusFollows, StatusAt, Pop, Business, ioVars, mainVars, transit,
     stats, locks
<1>13. HandledInOrder'
  <2>1. \A n : Due(n)' <=> Due(n)
    BY <1>2 DEF Due
  <2>2. \A n : OnItsWay(n) => OnItsWay(n)'
    BY <1>2, <1>4, <1>6 DEF OnItsWay
  <2>3. Ascending(processed)' /\ \A n \in Range(processed)' : Due(n)'
    BY <1>1, <1>2, <2>1 DEF IInv, HandledInOrder, Ascending
  <2>4. QED
    BY <1>1, <1>2, <1>6, <2>1, <2>2, <2>3 DEF IInv, HandledInOrder
<1>14. QED
  BY <1>7, <1>8, <1>9, <1>10, <1>11, <1>12, <1>13 DEF IInv

LEMMA PopTimeoutIInv == IInv /\ PopTimeout => IInv'
<1>1. SUFFICES ASSUME IInv, PopTimeout PROVE IInv'
  OBVIOUS
<1>2. TypeOK'
  BY <1>1 DEF IInv, TypeOK, Numbers, Counts, PopTimeout, Business, ioVars, mainVars,
     transit, stats, locks
<1>3. Mutexes'
  BY <1>1 DEF IInv, TypeOK, Mutexes, PopTimeout, Business, ioVars, mainVars, transit,
     stats, locks
<1>4. Line'
  BY <1>1 DEF IInv, TypeOK, Line, Ascending, ioMsg, ioNo, PopTimeout, Business, ioVars,
     mainVars, transit, stats, locks
<1>5. Bounded'
  BY <1>1 DEF IInv, Bounded, AtIo, ioMsg, ioNo, PopTimeout, Business, ioVars, mainVars,
     transit, stats, locks
<1>6. CountsAddUp'
  BY <1>1 DEF IInv, CountsAddUp, AtIo, AtBusiness, Of, ioMsg, bMsg, ioNo, PopTimeout,
     Business, ioVars, mainVars, transit, stats, locks
<1>7. StatusFollows'
  BY <1>1 DEF IInv, StatusFollows, StatusAt, PopTimeout, Business, ioVars, mainVars,
     transit, stats, locks
<1>8. HandledInOrder'
  BY <1>1 DEF IInv, HandledInOrder, Due, OnItsWay, Ascending, Numbers, ioNo, PopTimeout,
     Business, ioVars, mainVars, transit, stats, locks
<1>9. QED
  BY <1>2, <1>3, <1>4, <1>5, <1>6, <1>7, <1>8 DEF IInv

(* What one more handled message does to the record of those handled. *)
LEMMA Handling ==
  ASSUME IInv, bPc = "route", processed' = Append(processed, bNo), UNCHANGED received
  PROVE  /\ processed' \in Seq(Numbers) /\ Len(processed) \in Nat /\ bNo \in Numbers
         /\ Range(processed') = Range(processed) \cup {bNo}
         /\ Ascending(processed')
         /\ DOMAIN processed = 1 .. Len(processed)
         /\ DOMAIN processed' = 1 .. Len(processed) + 1 /\ Len(processed') = Len(processed) + 1
         /\ \A i \in 1 .. Len(processed) : processed'[i] = processed[i]
         /\ processed'[Len(processed) + 1] = bNo
<1>1. bNo \in Numbers /\ \A n \in Range(processed) : n < bNo
  BY DEF IInv, TypeOK, Line
<1>2. /\ processed \in Seq(Numbers) /\ processed \in Seq(Nat) /\ Numbers \subseteq Nat
      /\ Len(processed) \in Nat /\ DOMAIN processed = 1 .. Len(processed)
  BY NumbersFinite, LenProperties DEF IInv, TypeOK
<1>3. Ascending(processed)
  BY DEF IInv, HandledInOrder
<1>4. Append(processed, bNo) \in Seq(Numbers)
  BY <1>1, <1>2, AppendProperties
<1>5. Ascending(Append(processed, bNo))
  BY <1>1, <1>2, <1>3, AscendingAppend
<1>6. Range(Append(processed, bNo)) = Range(processed) \cup {bNo}
  BY <1>1, <1>2, RangeAppend
<1>7. /\ Len(Append(processed, bNo)) = Len(processed) + 1
      /\ \A i \in 1 .. Len(processed) : Append(processed, bNo)[i] = processed[i]
      /\ Append(processed, bNo)[Len(processed) + 1] = bNo
  BY <1>1, <1>2, AppendProperties
<1>8. DOMAIN Append(processed, bNo) = 1 .. Len(processed) + 1
  BY <1>4, <1>7, LenProperties
<1>9. QED
  BY <1>1, <1>2, <1>4, <1>5, <1>6, <1>7, <1>8

(* A market status that is handled is the last one handled. *)
LEMMA LastStatus ==
  ASSUME IInv, bPc = "route", processed' = Append(processed, bNo), UNCHANGED received,
         bMsg.type = "hkStatus", hkTradingSessionSubId' = bMsg.id,
         hkTradingSessionSubId' \in KnownIds
  PROVE  StatusFollows'
<1>1. /\ Len(processed) \in Nat /\ DOMAIN processed' = 1 .. Len(processed) + 1
      /\ Len(processed') = Len(processed) + 1 /\ processed'[Len(processed) + 1] = bNo
  BY Handling
<1>2. PICK k \in DOMAIN processed' : k = Len(processed')
  BY <1>1
<1>3. StatusAt(k)' /\ received'[processed'[k]].id = hkTradingSessionSubId'
  BY <1>1, <1>2 DEF StatusAt, bMsg
<1>4. \A j \in k + 1 .. Len(processed') : ~StatusAt(j)'
  BY <1>1, <1>2
<1>5. QED
  BY <1>2, <1>3, <1>4 DEF StatusFollows

(* Any other message leaves the last market status the last. *)
LEMMA OtherHandled ==
  ASSUME IInv, bPc = "route", processed' = Append(processed, bNo), UNCHANGED received,
         bMsg.type # "hkStatus", UNCHANGED hkTradingSessionSubId
  PROVE  StatusFollows'
<1>1. /\ Len(processed) \in Nat /\ DOMAIN processed = 1 .. Len(processed)
      /\ DOMAIN processed' = 1 .. Len(processed) + 1 /\ Len(processed') = Len(processed) + 1
      /\ \A i \in 1 .. Len(processed) : processed'[i] = processed[i]
      /\ processed'[Len(processed) + 1] = bNo
  BY Handling
<1>2. \A i \in DOMAIN processed : StatusAt(i)' <=> StatusAt(i)
  BY <1>1 DEF StatusAt
<1>3. ASSUME NEW i \in DOMAIN processed', i \notin DOMAIN processed PROVE ~StatusAt(i)'
  <2>1. i = Len(processed) + 1
    BY <1>1, <1>3
  <2>2. QED
    BY <1>1, <2>1 DEF StatusAt, bMsg
<1>4. StatusFollows
  BY DEF IInv
<1>5. CASE \E i \in DOMAIN processed : StatusAt(i)
  <2>1. PICK i \in DOMAIN processed :
          /\ StatusAt(i) /\ received[processed[i]].id = hkTradingSessionSubId
          /\ \A j \in i + 1 .. Len(processed) : ~StatusAt(j)
    BY <1>4, <1>5 DEF StatusFollows
  <2>2. i \in DOMAIN processed' /\ StatusAt(i)'
        /\ received'[processed'[i]].id = hkTradingSessionSubId'
    BY <1>1, <1>2, <2>1
  <2>3. ASSUME NEW j \in i + 1 .. Len(processed') PROVE ~StatusAt(j)'
    <3>1. CASE j \in DOMAIN processed
      BY <1>1, <1>2, <2>1, <3>1
    <3>2. CASE j \notin DOMAIN processed
      BY <1>1, <1>3, <2>1, <3>2
    <3>3. QED
      BY <3>1, <3>2
  <2>4. QED
    BY <1>4, <2>2, <2>3 DEF StatusFollows
<1>6. CASE ~ \E i \in DOMAIN processed : StatusAt(i)
  <2>1. ~ \E i \in DOMAIN processed' : StatusAt(i)'
    BY <1>2, <1>3, <1>6
  <2>2. QED
    BY <1>4, <1>6, <2>1 DEF StatusFollows
<1>7. QED
  BY <1>5, <1>6

LEMMA RouteIInv == IInv /\ Route => IInv'
<1>1. SUFFICES ASSUME IInv, Route PROVE IInv'
  OBVIOUS
<1>2. /\ bPc = "route" /\ bPc' = "lock"
      /\ processed' = IF Routable THEN Append(processed, bNo) ELSE processed
      /\ UNCHANGED <<ioPc, received, bNo, handlers, hkTradingSessionSubId, mainPc, exitFlag>>
      /\ UNCHANGED <<queue, dropped, fsIo, fsBusiness, mtxIo, mtxBusiness>>
  BY <1>1 DEF Route, Business, ioVars, mainVars, transit, stats, locks
<1>3. /\ Due(bNo) <=> Routable
      /\ \/ processed' = processed /\ ~Due(bNo)
         \/ /\ Due(bNo) /\ bNo \in Numbers /\ processed' \in Seq(Numbers)
            /\ Ascending(processed') /\ Range(processed') = Range(processed) \cup {bNo}
  <2>1. Due(bNo) <=> Routable
    BY <1>1, <1>2 DEF IInv, Line, Due, Routable, bMsg
  <2>2. CASE Routable
    BY <1>1, <1>2, <2>1, <2>2, Handling
  <2>3. CASE ~Routable
    BY <1>2, <2>1, <2>3
  <2>4. QED
    BY <2>1, <2>2, <2>3
<1>4. hkTradingSessionSubId \in KnownIds
  BY <1>1 DEF IInv, TypeOK
<1>5. TypeOK'
  <2>1. processed' \in Seq(Numbers)
    BY <1>1, <1>2, <1>3 DEF IInv, TypeOK
  <2>2. Numbers' = Numbers /\ Counts' = Counts
    BY <1>2 DEF Numbers, Counts
  <2>3. QED
    BY <1>1, <1>2, <1>4, <2>1, <2>2 DEF IInv, TypeOK
<1>6. Mutexes'
  BY <1>1 DEF IInv, TypeOK, Mutexes, Route, Business, ioVars, mainVars, transit, stats,
     locks, Routable, StatusChange
<1>7. Line'
  <2>1. \A n \in Range(processed') : n < bNo \/ (n = bNo /\ bPc' # "route")
    BY <1>1, <1>2, <1>3 DEF IInv, Line
  <2>2. ioNo' = ioNo /\ ioMsg' = ioMsg
    BY <1>2 DEF ioNo, ioMsg
  <2>3. QED
    BY <1>1, <1>2, <2>1, <2>2 DEF IInv, Line
<1>8. Bounded'
  BY <1>1 DEF IInv, Bounded, AtIo, ioMsg, ioNo, Route, Business, ioVars, mainVars,
     transit, stats, locks, Routable, StatusChange
<1>9. CountsAddUp'
  BY <1>1 DEF IInv, CountsAddUp, AtIo, AtBusiness, Of, ioMsg, bMsg, ioNo, Route,
     Business, ioVars, mainVars, transit, stats, locks, Routable, StatusChange
<1>10. StatusFollows'
  <2>1. CASE ~Routable
    BY <1>1, <1>2, <2>1 DEF IInv, StatusFollows, StatusAt
  <2>2. CASE Routable /\ bMsg.type = "hkStatus"
    <3>1. bMsg.id = hkTradingSessionSubId
      BY <1>1, <2>2 DEF Route, StatusChange
    <3>2. QED
      BY <1>1, <1>2, <1>4, <2>2, <3>1, Handling, LastStatus
  <2>3. CASE Routable /\ bMsg.type # "hkStatus"
    BY <1>1, <1>2, <2>3, OtherHandled
  <2>4. QED
    BY <2>1, <2>2, <2>3
<1>11. HandledInOrder'
  <2>1. Numbers' = Numbers /\ \A n : Due(n)' <=> Due(n)
    BY <1>2 DEF Numbers, Due
  <2>2. Ascending(processed')
    BY <1>1, <1>2, <1>3 DEF IInv, HandledInOrder
  <2>3. \A n \in Range(processed') : Due(n)
    BY <1>1, <1>2, <1>3 DEF IInv, HandledInOrder
  <2>4. \A n \in Numbers : OnItsWay(n) /\ Due(n) => n \in Range(processed') \/ OnItsWay(n)'
    BY <1>2, <1>3 DEF OnItsWay, ioNo
  <2>5. \A n \in Range(processed) : n \in Range(processed')
    BY <1>2, <1>3
  <2>6. QED
    BY <1>1, <1>2, <2>1, <2>2, <2>3, <2>4, <2>5 DEF IInv, HandledInOrder
<1>12. QED
  BY <1>5, <1>6, <1>7, <1>8, <1>9, <1>10, <1>11 DEF IInv

LEMMA OnRealTimeHKMarketStatusIInv == IInv /\ OnRealTimeHKMarketStatus => IInv'
<1>1. SUFFICES ASSUME IInv, OnRealTimeHKMarketStatus PROVE IInv'
  OBVIOUS
<1>2. /\ bPc = "route" /\ bPc' = (IF Named THEN "lock" ELSE "aborted") /\ bPc' # "route"
      /\ Routable /\ StatusChange
      /\ Named => hkTradingSessionSubId' = bMsg.id /\ processed' = Append(processed, bNo)
      /\ ~Named => UNCHANGED <<hkTradingSessionSubId, processed>>
      /\ UNCHANGED <<ioPc, received, bNo, handlers, mainPc, exitFlag>>
      /\ UNCHANGED <<queue, dropped, fsIo, fsBusiness, mtxIo, mtxBusiness>>
  BY <1>1 DEF OnRealTimeHKMarketStatus, Business, ioVars, mainVars, transit, stats, locks
<1>3. /\ Due(bNo)
      /\ \/ processed' = processed /\ ~Named /\ bPc' = "aborted"
         \/ /\ bNo \in Numbers /\ processed' \in Seq(Numbers) /\ Named
            /\ Ascending(processed') /\ Range(processed') = Range(processed) \cup {bNo}
  <2>1. Due(bNo)
    BY <1>1, <1>2 DEF IInv, Line, Due, Routable, bMsg
  <2>2. CASE Named
    BY <1>1, <1>2, <2>1, <2>2, Handling
  <2>3. CASE ~Named
    BY <1>2, <2>1, <2>3
  <2>4. QED
    BY <2>1, <2>2, <2>3
<1>4. hkTradingSessionSubId' \in KnownIds
  BY <1>1, <1>2 DEF IInv, TypeOK, Named
<1>5. TypeOK'
  <2>1. processed' \in Seq(Numbers)
    BY <1>1, <1>2, <1>3 DEF IInv, TypeOK
  <2>2. Numbers' = Numbers /\ Counts' = Counts
    BY <1>2 DEF Numbers, Counts
  <2>3. QED
    BY <1>1, <1>2, <1>4, <2>1, <2>2 DEF IInv, TypeOK
<1>6. Mutexes'
  BY <1>1 DEF IInv, TypeOK, Mutexes, OnRealTimeHKMarketStatus, Business, ioVars,
     mainVars, transit, stats, locks, Routable, StatusChange, Named
<1>7. Line'
  <2>1. \A n \in Range(processed') : n < bNo \/ (n = bNo /\ bPc' # "route")
    BY <1>1, <1>2, <1>3 DEF IInv, Line
  <2>2. ioNo' = ioNo /\ ioMsg' = ioMsg
    BY <1>2 DEF ioNo, ioMsg
  <2>3. QED
    BY <1>1, <1>2, <2>1, <2>2 DEF IInv, Line
<1>8. Bounded'
  BY <1>1 DEF IInv, Bounded, AtIo, ioMsg, ioNo, OnRealTimeHKMarketStatus, Business,
     ioVars, mainVars, transit, stats, locks, Routable, StatusChange, Named
<1>9. CountsAddUp'
  BY <1>1 DEF IInv, CountsAddUp, AtIo, AtBusiness, Of, ioMsg, bMsg, ioNo,
     OnRealTimeHKMarketStatus, Business, ioVars, mainVars, transit, stats, locks,
     Routable, StatusChange, Named
<1>10. StatusFollows'
  <2>1. CASE ~Named
    BY <1>1, <1>2, <2>1 DEF IInv, StatusFollows, StatusAt
  <2>2. CASE Named
    BY <1>1, <1>2, <1>4, <2>2, LastStatus DEF StatusChange
  <2>3. QED
    BY <2>1, <2>2
<1>11. HandledInOrder'
  <2>1. Numbers' = Numbers /\ \A n : Due(n)' <=> Due(n)
    BY <1>2 DEF Numbers, Due
  <2>2. Ascending(processed')
    BY <1>1, <1>2, <1>3 DEF IInv, HandledInOrder
  <2>3. \A n \in Range(processed') : Due(n)
    BY <1>1, <1>2, <1>3 DEF IInv, HandledInOrder
  <2>4. \A n \in Numbers : OnItsWay(n) /\ Due(n) => n \in Range(processed') \/ OnItsWay(n)'
    BY <1>2, <1>3 DEF OnItsWay, ioNo
  <2>5. \A n \in Range(processed) : n \in Range(processed')
    BY <1>2, <1>3
  <2>6. QED
    BY <1>1, <1>2, <2>1, <2>2, <2>3, <2>4, <2>5 DEF IInv, HandledInOrder
<1>12. QED
  BY <1>5, <1>6, <1>7, <1>8, <1>9, <1>10, <1>11 DEF IInv

LEMMA BusinessLockIInv == IInv /\ BusinessLock => IInv'
<1>1. SUFFICES ASSUME IInv, BusinessLock PROVE IInv'
  OBVIOUS
<1>2. TypeOK'
  BY <1>1 DEF IInv, TypeOK, Numbers, Counts, BusinessLock, Business, ioVars, mainVars,
     transit, stats, locks, Lock
<1>3. Mutexes'
  BY <1>1 DEF IInv, TypeOK, Mutexes, BusinessLock, Business, ioVars, mainVars, transit,
     stats, locks, Lock
<1>4. Line'
  BY <1>1 DEF IInv, TypeOK, Line, Ascending, ioMsg, ioNo, BusinessLock, Business,
     ioVars, mainVars, transit, stats, locks, Lock
<1>5. Bounded'
  BY <1>1 DEF IInv, Bounded, AtIo, ioMsg, ioNo, BusinessLock, Business, ioVars,
     mainVars, transit, stats, locks, Lock
<1>6. CountsAddUp'
  BY <1>1 DEF IInv, CountsAddUp, AtIo, AtBusiness, Of, ioMsg, bMsg, ioNo, BusinessLock,
     Business, ioVars, mainVars, transit, stats, locks, Lock
<1>7. StatusFollows'
  BY <1>1 DEF IInv, StatusFollows, StatusAt, BusinessLock, Business, ioVars, mainVars,
     transit, stats, locks, Lock
<1>8. HandledInOrder'
  BY <1>1 DEF IInv, HandledInOrder, Due, OnItsWay, Ascending, Numbers, ioNo,
     BusinessLock, Business, ioVars, mainVars, transit, stats, locks, Lock
<1>9. QED
  BY <1>2, <1>3, <1>4, <1>5, <1>6, <1>7, <1>8 DEF IInv

LEMMA BusinessCountIInv == IInv /\ BusinessCount => IInv'
<1>1. SUFFICES ASSUME IInv, BusinessCount PROVE IInv'
  OBVIOUS
<1>2. /\ bPc = "count" /\ bPc' = "loop" /\ mtxBusiness' = "free"
      /\ fsBusiness' = [fsBusiness EXCEPT ![bMsg.type] = @ + 1]
      /\ UNCHANGED <<ioPc, received, bNo, handlers, hkTradingSessionSubId, processed, mainPc>>
      /\ UNCHANGED <<exitFlag, queue, dropped, fsIo, mtxIo>>
  BY <1>1 DEF BusinessCount, Business, Unlock, Counted, ioVars, mainVars, transit
<1>3. bMsg.type \in Types \ Heartbeats /\ bMsg' = bMsg
  <2>1. bNo \in Numbers /\ received[bNo].type \notin Heartbeats
    BY <1>1, <1>2 DEF IInv, TypeOK, Line
  <2>2. bMsg \in Message
    BY <1>1, <2>1, NumbersFinite DEF IInv, bMsg
  <2>3. QED
    BY <1>2, <2>1, <2>2 DEF Message, bMsg
<1>4. ASSUME NEW t \in Types
      PROVE  /\ fsBusiness[t] \in Nat /\ Len(received) \in Nat
             /\ AtBusiness(t) = IF bMsg.type = t THEN 1 ELSE 0
             /\ AtBusiness(t)' = 0
             /\ fsBusiness'[t] = fsBusiness[t] + AtBusiness(t)
             /\ t \notin Heartbeats => fsBusiness'[t] <= Len(received)
             /\ t \in Heartbeats => fsBusiness'[t] = 0
  <2>1. /\ fsBusiness[t] \in Nat /\ Len(received) \in Nat
        /\ fsBusiness[t] + AtBusiness(t) <= Len(received) \/ t \in Heartbeats
    BY <1>1, CountsBounded DEF IInv
  <2>2. AtBusiness(t) = (IF bMsg.type = t THEN 1 ELSE 0) /\ AtBusiness(t)' = 0
    BY <1>2 DEF AtBusiness
  <2>3. fsBusiness'[t] = IF bMsg.type = t THEN fsBusiness[t] + 1 ELSE fsBusiness[t]
    BY <1>1, <1>2, <1>3 DEF IInv, TypeOK, Counts
  <2>4. t \in Heartbeats => fsBusiness[t] = 0 /\ bMsg.type # t
    BY <1>1, <1>3 DEF IInv, Bounded
  <2>5. QED
    BY <2>1, <2>2, <2>3, <2>4
<1>5. TypeOK'
  <2>1. DOMAIN fsBusiness' = Types /\ fsBusiness' = [t \in Types |-> fsBusiness'[t]]
    BY <1>1, <1>2 DEF IInv, TypeOK, Counts
  <2>2. Len(received) <= MaxReceived /\ MaxReceived \in Nat
    BY <1>1, BoundsAssumption DEF IInv, TypeOK
  <2>3. ASSUME NEW t \in Types PROVE fsBusiness'[t] \in 0 .. MaxReceived
    <3>1. AtBusiness(t) \in Nat
      BY DEF AtBusiness
    <3>2. QED
      BY <1>4, <2>2, <3>1
  <2>4. fsBusiness' \in Counts
    BY <2>1, <2>3 DEF Counts
  <2>5. Numbers' = Numbers /\ Counts' = Counts
    BY <1>2 DEF Numbers, Counts
  <2>6. QED
    BY <1>1, <1>2, <2>4, <2>5 DEF IInv, TypeOK
<1>6. Mutexes'
  BY <1>1 DEF IInv, TypeOK, Mutexes, BusinessCount, Business, ioVars, mainVars, transit,
     stats, locks, Unlock, Counted
<1>7. Line'
  BY <1>1 DEF IInv, TypeOK, Line, Ascending, ioMsg, ioNo, BusinessCount, Business,
     ioVars, mainVars, transit, stats, locks, Unlock, Counted
<1>8. Bounded'
  BY <1>1, <1>2, <1>4 DEF IInv, Bounded, AtIo, ioMsg, ioNo, Heartbeats, Types
<1>9. CountsAddUp'
  <2>1. ASSUME NEW t \in Types
        PROVE  /\ AtIo(t, {"lock", "count"})' = AtIo(t, {"lock", "count"})
               /\ Of(Range(queue), t)' = Of(Range(queue), t)
               /\ Of(dropped, t)' = Of(dropped, t)
    BY <1>2 DEF AtIo, ioMsg, ioNo, Of
  <2>2. ASSUME NEW t \in Types
        PROVE  fsBusiness'[t] + AtBusiness(t)' = fsBusiness[t] + AtBusiness(t)
    <3>1. AtBusiness(t) \in Nat
      BY DEF AtBusiness
    <3>2. QED
      BY <1>4, <3>1
  <2>3. QED
    BY <1>1, <1>2, <2>1, <2>2 DEF IInv, CountsAddUp
<1>10. StatusFollows'
  BY <1>1 DEF IInv, StatusFollows, StatusAt, BusinessCount, Business, ioVars, mainVars,
     transit, stats, locks, Unlock, Counted
<1>11. HandledInOrder'
  BY <1>1 DEF IInv, HandledInOrder, Due, OnItsWay, Ascending, Numbers, ioNo,
     BusinessCount, Business, ioVars, mainVars, transit, stats, locks, Unlock, Counted
<1>12. QED
  BY <1>5, <1>6, <1>7, <1>8, <1>9, <1>10, <1>11 DEF IInv

LEMMA ShowIoIInv == IInv /\ ShowIo => IInv'
<1>1. SUFFICES ASSUME IInv, ShowIo PROVE IInv'
  OBVIOUS
<1>2. TypeOK'
  BY <1>1 DEF IInv, TypeOK, Numbers, Counts, ShowIo, Main, ioVars, businessVars,
     transit, stats, locks, Lock
<1>3. Mutexes'
  BY <1>1 DEF IInv, TypeOK, Mutexes, ShowIo, Main, ioVars, businessVars, transit, stats,
     locks, Lock
<1>4. Line'
  BY <1>1 DEF IInv, TypeOK, Line, Ascending, ioMsg, ioNo, ShowIo, Main, ioVars,
     businessVars, transit, stats, locks, Lock
<1>5. Bounded'
  BY <1>1 DEF IInv, Bounded, AtIo, ioMsg, ioNo, ShowIo, Main, ioVars, businessVars,
     transit, stats, locks, Lock
<1>6. CountsAddUp'
  BY <1>1 DEF IInv, CountsAddUp, AtIo, AtBusiness, Of, ioMsg, bMsg, ioNo, ShowIo, Main,
     ioVars, businessVars, transit, stats, locks, Lock
<1>7. StatusFollows'
  BY <1>1 DEF IInv, StatusFollows, StatusAt, ShowIo, Main, ioVars, businessVars,
     transit, stats, locks, Lock
<1>8. HandledInOrder'
  BY <1>1 DEF IInv, HandledInOrder, Due, OnItsWay, Ascending, Numbers, ioNo, ShowIo,
     Main, ioVars, businessVars, transit, stats, locks, Lock
<1>9. QED
  BY <1>2, <1>3, <1>4, <1>5, <1>6, <1>7, <1>8 DEF IInv

LEMMA ShowIoDoneIInv == IInv /\ ShowIoDone => IInv'
<1>1. SUFFICES ASSUME IInv, ShowIoDone PROVE IInv'
  OBVIOUS
<1>2. TypeOK'
  BY <1>1 DEF IInv, TypeOK, Numbers, Counts, ShowIoDone, Main, ioVars, businessVars,
     transit, stats, locks, Unlock
<1>3. Mutexes'
  BY <1>1 DEF IInv, TypeOK, Mutexes, ShowIoDone, Main, ioVars, businessVars, transit,
     stats, locks, Unlock
<1>4. Line'
  BY <1>1 DEF IInv, TypeOK, Line, Ascending, ioMsg, ioNo, ShowIoDone, Main, ioVars,
     businessVars, transit, stats, locks, Unlock
<1>5. Bounded'
  BY <1>1 DEF IInv, Bounded, AtIo, ioMsg, ioNo, ShowIoDone, Main, ioVars, businessVars,
     transit, stats, locks, Unlock
<1>6. CountsAddUp'
  BY <1>1 DEF IInv, CountsAddUp, AtIo, AtBusiness, Of, ioMsg, bMsg, ioNo, ShowIoDone,
     Main, ioVars, businessVars, transit, stats, locks, Unlock
<1>7. StatusFollows'
  BY <1>1 DEF IInv, StatusFollows, StatusAt, ShowIoDone, Main, ioVars, businessVars,
     transit, stats, locks, Unlock
<1>8. HandledInOrder'
  BY <1>1 DEF IInv, HandledInOrder, Due, OnItsWay, Ascending, Numbers, ioNo, ShowIoDone,
     Main, ioVars, businessVars, transit, stats, locks, Unlock
<1>9. QED
  BY <1>2, <1>3, <1>4, <1>5, <1>6, <1>7, <1>8 DEF IInv

LEMMA ShowBusinessIInv == IInv /\ ShowBusiness => IInv'
<1>1. SUFFICES ASSUME IInv, ShowBusiness PROVE IInv'
  OBVIOUS
<1>2. TypeOK'
  BY <1>1 DEF IInv, TypeOK, Numbers, Counts, ShowBusiness, Main, ioVars, businessVars,
     transit, stats, locks, Lock
<1>3. Mutexes'
  BY <1>1 DEF IInv, TypeOK, Mutexes, ShowBusiness, Main, ioVars, businessVars, transit,
     stats, locks, Lock
<1>4. Line'
  BY <1>1 DEF IInv, TypeOK, Line, Ascending, ioMsg, ioNo, ShowBusiness, Main, ioVars,
     businessVars, transit, stats, locks, Lock
<1>5. Bounded'
  BY <1>1 DEF IInv, Bounded, AtIo, ioMsg, ioNo, ShowBusiness, Main, ioVars,
     businessVars, transit, stats, locks, Lock
<1>6. CountsAddUp'
  BY <1>1 DEF IInv, CountsAddUp, AtIo, AtBusiness, Of, ioMsg, bMsg, ioNo, ShowBusiness,
     Main, ioVars, businessVars, transit, stats, locks, Lock
<1>7. StatusFollows'
  BY <1>1 DEF IInv, StatusFollows, StatusAt, ShowBusiness, Main, ioVars, businessVars,
     transit, stats, locks, Lock
<1>8. HandledInOrder'
  BY <1>1 DEF IInv, HandledInOrder, Due, OnItsWay, Ascending, Numbers, ioNo,
     ShowBusiness, Main, ioVars, businessVars, transit, stats, locks, Lock
<1>9. QED
  BY <1>2, <1>3, <1>4, <1>5, <1>6, <1>7, <1>8 DEF IInv

LEMMA ShowDoneIInv == IInv /\ ShowDone => IInv'
<1>1. SUFFICES ASSUME IInv, ShowDone PROVE IInv'
  OBVIOUS
<1>2. TypeOK'
  BY <1>1 DEF IInv, TypeOK, Numbers, Counts, ShowDone, Main, ioVars, businessVars,
     transit, stats, locks, Unlock
<1>3. Mutexes'
  BY <1>1 DEF IInv, TypeOK, Mutexes, ShowDone, Main, ioVars, businessVars, transit,
     stats, locks, Unlock
<1>4. Line'
  BY <1>1 DEF IInv, TypeOK, Line, Ascending, ioMsg, ioNo, ShowDone, Main, ioVars,
     businessVars, transit, stats, locks, Unlock
<1>5. Bounded'
  BY <1>1 DEF IInv, Bounded, AtIo, ioMsg, ioNo, ShowDone, Main, ioVars, businessVars,
     transit, stats, locks, Unlock
<1>6. CountsAddUp'
  BY <1>1 DEF IInv, CountsAddUp, AtIo, AtBusiness, Of, ioMsg, bMsg, ioNo, ShowDone,
     Main, ioVars, businessVars, transit, stats, locks, Unlock
<1>7. StatusFollows'
  BY <1>1 DEF IInv, StatusFollows, StatusAt, ShowDone, Main, ioVars, businessVars,
     transit, stats, locks, Unlock
<1>8. HandledInOrder'
  BY <1>1 DEF IInv, HandledInOrder, Due, OnItsWay, Ascending, Numbers, ioNo, ShowDone,
     Main, ioVars, businessVars, transit, stats, locks, Unlock
<1>9. QED
  BY <1>2, <1>3, <1>4, <1>5, <1>6, <1>7, <1>8 DEF IInv

LEMMA QuitIInv == IInv /\ Quit => IInv'
<1>1. SUFFICES ASSUME IInv, Quit PROVE IInv'
  OBVIOUS
<1>2. TypeOK'
  BY <1>1 DEF IInv, TypeOK, Numbers, Counts, Quit, Main, ioVars, businessVars, transit,
     stats, locks
<1>3. Mutexes'
  BY <1>1 DEF IInv, TypeOK, Mutexes, Quit, Main, ioVars, businessVars, transit, stats,
     locks
<1>4. Line'
  BY <1>1 DEF IInv, TypeOK, Line, Ascending, ioMsg, ioNo, Quit, Main, ioVars,
     businessVars, transit, stats, locks
<1>5. Bounded'
  BY <1>1 DEF IInv, Bounded, AtIo, ioMsg, ioNo, Quit, Main, ioVars, businessVars,
     transit, stats, locks
<1>6. CountsAddUp'
  BY <1>1 DEF IInv, CountsAddUp, AtIo, AtBusiness, Of, ioMsg, bMsg, ioNo, Quit, Main,
     ioVars, businessVars, transit, stats, locks
<1>7. StatusFollows'
  BY <1>1 DEF IInv, StatusFollows, StatusAt, Quit, Main, ioVars, businessVars, transit,
     stats, locks
<1>8. HandledInOrder'
  BY <1>1 DEF IInv, HandledInOrder, Due, OnItsWay, Ascending, Numbers, ioNo, Quit, Main,
     ioVars, businessVars, transit, stats, locks
<1>9. QED
  BY <1>2, <1>3, <1>4, <1>5, <1>6, <1>7, <1>8 DEF IInv

LEMMA JoinIoIInv == IInv /\ JoinIo => IInv'
<1>1. SUFFICES ASSUME IInv, JoinIo PROVE IInv'
  OBVIOUS
<1>2. TypeOK'
  BY <1>1 DEF IInv, TypeOK, Numbers, Counts, JoinIo, Main, ioVars, businessVars,
     transit, stats, locks
<1>3. Mutexes'
  BY <1>1 DEF IInv, TypeOK, Mutexes, JoinIo, Main, ioVars, businessVars, transit, stats,
     locks
<1>4. Line'
  BY <1>1 DEF IInv, TypeOK, Line, Ascending, ioMsg, ioNo, JoinIo, Main, ioVars,
     businessVars, transit, stats, locks
<1>5. Bounded'
  BY <1>1 DEF IInv, Bounded, AtIo, ioMsg, ioNo, JoinIo, Main, ioVars, businessVars,
     transit, stats, locks
<1>6. CountsAddUp'
  BY <1>1 DEF IInv, CountsAddUp, AtIo, AtBusiness, Of, ioMsg, bMsg, ioNo, JoinIo, Main,
     ioVars, businessVars, transit, stats, locks
<1>7. StatusFollows'
  BY <1>1 DEF IInv, StatusFollows, StatusAt, JoinIo, Main, ioVars, businessVars,
     transit, stats, locks
<1>8. HandledInOrder'
  BY <1>1 DEF IInv, HandledInOrder, Due, OnItsWay, Ascending, Numbers, ioNo, JoinIo,
     Main, ioVars, businessVars, transit, stats, locks
<1>9. QED
  BY <1>2, <1>3, <1>4, <1>5, <1>6, <1>7, <1>8 DEF IInv

LEMMA JoinBusinessIInv == IInv /\ JoinBusiness => IInv'
<1>1. SUFFICES ASSUME IInv, JoinBusiness PROVE IInv'
  OBVIOUS
<1>2. TypeOK'
  BY <1>1 DEF IInv, TypeOK, Numbers, Counts, JoinBusiness, Main, ioVars, businessVars,
     transit, stats, locks
<1>3. Mutexes'
  BY <1>1 DEF IInv, TypeOK, Mutexes, JoinBusiness, Main, ioVars, businessVars, transit,
     stats, locks
<1>4. Line'
  BY <1>1 DEF IInv, TypeOK, Line, Ascending, ioMsg, ioNo, JoinBusiness, Main, ioVars,
     businessVars, transit, stats, locks
<1>5. Bounded'
  BY <1>1 DEF IInv, Bounded, AtIo, ioMsg, ioNo, JoinBusiness, Main, ioVars,
     businessVars, transit, stats, locks
<1>6. CountsAddUp'
  BY <1>1 DEF IInv, CountsAddUp, AtIo, AtBusiness, Of, ioMsg, bMsg, ioNo, JoinBusiness,
     Main, ioVars, businessVars, transit, stats, locks
<1>7. StatusFollows'
  BY <1>1 DEF IInv, StatusFollows, StatusAt, JoinBusiness, Main, ioVars, businessVars,
     transit, stats, locks
<1>8. HandledInOrder'
  BY <1>1 DEF IInv, HandledInOrder, Due, OnItsWay, Ascending, Numbers, ioNo,
     JoinBusiness, Main, ioVars, businessVars, transit, stats, locks
<1>9. QED
  BY <1>2, <1>3, <1>4, <1>5, <1>6, <1>7, <1>8 DEF IInv

LEMMA StutterIInv == IInv /\ UNCHANGED vars => IInv'
<1>1. SUFFICES ASSUME IInv, UNCHANGED vars PROVE IInv'
  OBVIOUS
<1>2. TypeOK' /\ Mutexes'
  BY <1>1 DEF IInv, TypeOK, Numbers, Counts, Mutexes, vars, ioVars, businessVars, mainVars,
     transit, stats, locks
<1>3. Line' /\ Bounded'
  BY <1>1 DEF IInv, Line, Ascending, Bounded, AtIo, ioMsg, ioNo, vars, ioVars, businessVars,
     mainVars, transit, stats, locks
<1>4. CountsAddUp'
  BY <1>1 DEF IInv, CountsAddUp, AtIo, AtBusiness, Of, ioMsg, bMsg, ioNo, vars, ioVars,
     businessVars, mainVars, transit, stats, locks
<1>5. StatusFollows' /\ HandledInOrder'
  BY <1>1 DEF IInv, StatusFollows, StatusAt, HandledInOrder, Ascending, Numbers, Due, OnItsWay,
     ioNo, vars, ioVars, businessVars, mainVars, transit, stats, locks
<1>6. QED
  BY <1>2, <1>3, <1>4, <1>5 DEF IInv

LEMMA NextIInv == IInv /\ [Next]_vars => IInv'
<1>1. IInv /\ (\E m \in Messages : Recv(m)) => IInv'
  BY RecvIInv
<1>2. IInv /\ IoStep => IInv'
  BY IoLoopIInv, PushIInv, IoLockIInv, IoCountIInv DEF IoStep
<1>3. IInv /\ BusinessStep => IInv'
  BY initializeMsgHandlersIInv, BusinessLoopIInv, PopIInv, PopTimeoutIInv, RouteIInv,
     OnRealTimeHKMarketStatusIInv, BusinessLockIInv, BusinessCountIInv DEF BusinessStep
<1>4. IInv /\ MainStep => IInv'
  BY ShowIoDoneIInv, ShowBusinessIInv, ShowDoneIInv, JoinIoIInv, JoinBusinessIInv
  DEF MainStep
<1>5. QED
  BY <1>1, <1>2, <1>3, <1>4, RecvFailsIInv, ShowIoIInv, QuitIInv, StutterIInv DEF Next

(* The inductive invariant holds, however the three threads interleave. *)
THEOREM Invariance == Spec => []IInv
  BY InitIInv, NextIInv, PTL DEF Spec

(* Everything stays within its type and its bounds; no count exceeds the   *)
(* number of messages received.                                            *)
THEOREM TypeCorrect == Spec => []TypeOK
<1>1. IInv => TypeOK
  BY DEF IInv
<1>2. QED
  BY <1>1, Invariance, PTL

(* show() never iterates over a table of counts while the thread that owns *)
(* it inserts into it (IoThread.cpp and XSHEBusiness.cpp lock their mutex). *)
THEOREM NoConcurrentShow == Spec => []NoMapRace
<1>1. IInv => NoMapRace
  BY DEF IInv, Mutexes, NoMapRace
<1>2. QED
  BY <1>1, Invariance, PTL

(* For every type that the business thread handles, the two tables differ by *)
(* exactly what is in the queue, what the queue refused, and the message in  *)
(* hand on either side.                                                      *)
THEOREM NothingMiscounted == Spec => []CountsAddUp
<1>1. IInv => CountsAddUp
  BY DEF IInv
<1>2. QED
  BY <1>1, Invariance, PTL

(* hkTradingSessionSubId is what the last market status handled said. *)
THEOREM StatusIsTheLast == Spec => []StatusFollows
<1>1. IInv => StatusFollows
  BY DEF IInv
<1>2. QED
  BY <1>1, Invariance, PTL

(* The handlers deal with the well-formed messages of their types once each, *)
(* in the order of reception, and with every one that push() did not refuse  *)
(* unless it is still on its way.                                            *)
THEOREM EachHandledOnce == Spec => []HandledInOrder
<1>1. IInv => HandledInOrder
  BY DEF IInv
<1>2. QED
  BY <1>1, Invariance, PTL
=============================================================================

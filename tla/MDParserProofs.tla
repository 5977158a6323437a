--------------------------- MODULE MDParserProofs ---------------------------
(* Proofs about MDParser, for any messages of the gateway (whose contents    *)
(* are Contents of their type), any limit of the codes, and any number of   *)
(* quotes and of ends of the process.                                       *)
EXTENDS MDParser, BytesProofs

-----------------------------------------------------------------------------
(* The least and the greatest of a set of numbers. *)

LEMMA MinOf ==
  ASSUME NEW S \in SUBSET Nat, S # {}
  PROVE  Min(S) \in S /\ \A x \in S : Min(S) <= x
<1>1. \E x \in S : \A y \in S : x <= y
  BY LeastNat
<1>2. QED
  BY <1>1 DEF Min

LEMMA MaxOf ==
  ASSUME NEW b \in Nat, NEW S \in SUBSET (0 .. b), S # {}
  PROVE  Max(S) \in S /\ \A x \in S : x <= Max(S)
<1>1. \E x \in S : \A y \in S : y <= x
  BY GreatestNat
<1>2. QED
  BY <1>1 DEF Max

LEMMA MaxIs ==
  ASSUME NEW S \in SUBSET Nat, NEW x \in S, \A y \in S : y <= x
  PROVE  Max(S) = x
<1>1. Max(S) \in S /\ \A y \in S : y <= Max(S)
  BY DEF Max
<1>2. Max(S) <= x /\ x <= Max(S) /\ x \in Nat /\ Max(S) \in Nat
  BY <1>1
<1>3. QED
  BY <1>2

-----------------------------------------------------------------------------
(* The quotes that reach the table, and what one save does to a record. *)

(* A save of a price has an index of MyMDItem.price; whatever a quote says  *)
(* is one of the Values of the table.                                       *)
LEMMA QuoteSays ==
  ASSUME NEW q \in Accepted
  PROVE  /\ q.code < CodeLimit /\ q.market \in Values /\ q.code \in Values
         /\ KeyOf(q) \in Keys
         /\ \A i \in SavesOf(q) :
              i > 1 => /\ q.entries[i - 1].type \in EntryTypes
                       /\ q.entries[i - 1].value \in Values
<1>1. PICK a \in Arrivals : q = QuoteOf(a.type, deserializeBody(a.type, a.body).md)
  BY DEF Accepted
<1>2. q.code < CodeLimit
  BY DEF Accepted
<1>3. q.market \in Values /\ q.code \in Values
  BY DEF Values
<1>4. KeyOf(q) \in Keys
  BY DEF Keys
<1>5. ASSUME NEW i \in SavesOf(q), i > 1
      PROVE  q.entries[i - 1].type \in EntryTypes /\ q.entries[i - 1].value \in Values
  <2>1. i - 1 \in DOMAIN q.entries /\ q.entries[i - 1].type # -1
    BY <1>5 DEF SavesOf, Eligible
  <2>2. q.entries[i - 1].value \in Values
    BY <2>1 DEF Values
  <2>3. PICK c : q.entries[i - 1].type = IF IsDigit(c) THEN c - ZeroChar ELSE -1
    BY <1>1, <2>1 DEF QuoteOf
  <2>4. ZeroChar \in Int /\ Radix \in Int
    BY DigitsAssumption, BytesAssumption DEF Char, Byte
  <2>5. q.entries[i - 1].type \in EntryTypes
    BY <2>1, <2>3, <2>4 DEF IsDigit, EntryTypes
  <2>6. QED
    BY <2>2, <2>5
<1>6. QED
  BY <1>2, <1>3, <1>4, <1>5

LEMMA SavesAre ==
  ASSUME NEW q
  PROVE  /\ MaxEntries + 1 \in Nat /\ SavesOf(q) \subseteq 0 .. MaxEntries + 1
         /\ 0 \in SavesOf(q) /\ 1 \in SavesOf(q)
  BY SizesAssumption DEF SavesOf

ShownIn(element, f) == IF f = -1 THEN element.origTime ELSE element.price[f]

(* A save puts its value into its field and leaves the other fields alone. *)
LEMMA PutOne ==
  ASSUME NEW n \in 0 .. MaxQuotes, received[n] \in Accepted,
         NEW i \in SavesOf(received[n]), NEW e \in Record
  PROVE  /\ Put(e, n, i) \in Record
         /\ \A f \in Fields :
              IF i # 0 /\ FieldOf(n, i) = f THEN ShownIn(Put(e, n, i), f) = ValueOf(n, i)
                                            ELSE ShownIn(Put(e, n, i), f) = ShownIn(e, f)
         /\ IF i = 0 THEN /\ Put(e, n, i).market = received[n].market
                          /\ Put(e, n, i).code = received[n].code
                     ELSE /\ Put(e, n, i).market = e.market
                          /\ Put(e, n, i).code = e.code
<1> DEFINE q == received[n]
<1>1. i \in Nat /\ n \in Values /\ -1 \notin EntryTypes
  BY SavesAre, DigitsAssumption DEF Values, EntryTypes
<1>2. q.market \in Values /\ q.code \in Values
  BY QuoteSays
<1>3. CASE i = 0
  <2>1. Put(e, n, i) = [e EXCEPT !.market = q.market, !.code = q.code]
    BY <1>3 DEF Put
  <2>2. QED
    BY <1>2, <1>3, <2>1 DEF Record, ShownIn
<1>4. CASE i = 1
  <2>1. Put(e, n, i) = [e EXCEPT !.origTime = n]
    BY <1>4 DEF Put
  <2>2. QED
    BY <1>1, <1>4, <2>1 DEF Record, ShownIn, FieldOf, ValueOf, Fields
<1>5. CASE i > 1
  <2>1. Put(e, n, i) = [e EXCEPT !.price[q.entries[i - 1].type] = q.entries[i - 1].value]
    BY <1>1, <1>5 DEF Put
  <2>2. q.entries[i - 1].type \in EntryTypes /\ q.entries[i - 1].value \in Values
    BY <1>5, QuoteSays
  <2>3. FieldOf(n, i) = q.entries[i - 1].type /\ ValueOf(n, i) = q.entries[i - 1].value
    BY <1>1, <1>5 DEF FieldOf, ValueOf
  <2> HIDE DEF q
  <2>4. /\ Put(e, n, i) \in Record
        /\ Put(e, n, i).market = e.market /\ Put(e, n, i).code = e.code
        /\ Put(e, n, i).origTime = e.origTime
        /\ Put(e, n, i).price =
             [e.price EXCEPT ![q.entries[i - 1].type] = q.entries[i - 1].value]
    BY <2>1, <2>2 DEF Record
  <2>5. e.price \in [EntryTypes -> Values]
    BY DEF Record
  <2>6. QED
    BY <1>1, <1>5, <2>2, <2>3, <2>4, <2>5 DEF ShownIn, Fields
<1>6. QED
  BY <1>1, <1>3, <1>4, <1>5

-----------------------------------------------------------------------------
(* What the invariant says of the numbers of messages and saves. *)

LEMMA Bounds ==
  ASSUME Shape
  PROVE  /\ Latest \in Nat /\ Latest <= MaxQuotes
         /\ \A n \in 1 .. Latest : received[n] \in Accepted /\ n \in 0 .. MaxQuotes
         /\ \A n, k, f : SavesFor(n, k, f) \subseteq 0 .. MaxEntries + 1
         /\ \A k \in Keys : \A f : /\ cleared[k] \in Nat /\ cleared[k] <= Finished
                                   /\ Since(k, f) \subseteq 1 .. Latest
<1>1. /\ received \in Seq(Accepted) /\ Latest <= MaxQuotes /\ MaxQuotes \in Nat
      /\ Latest \in Nat
  BY BoundsAssumption, LenProperties DEF Shape, Latest
<1>2. ASSUME NEW n \in 1 .. Latest PROVE received[n] \in Accepted /\ n \in 0 .. MaxQuotes
  BY <1>1, ElementOfSeq DEF Latest
<1>3. \A n, k, f : SavesFor(n, k, f) \subseteq 0 .. MaxEntries + 1
  BY SavesAre DEF SavesFor
<1>4. ASSUME NEW k \in Keys, NEW f
      PROVE  cleared[k] \in Nat /\ cleared[k] <= Finished
             /\ Since(k, f) \subseteq 1 .. Latest
  <2>1. cleared[k] \in Nat /\ cleared[k] <= Finished
    BY DEF Shape
  <2>2. QED
    BY <1>1, <2>1 DEF Since
<1>5. QED
  BY <1>1, <1>2, <1>3, <1>4

(* A message that says anything of a stock says its OrigTime; so nothing is *)
(* settled of a stock that has no record, but what a wipe may have reached. *)
LEMMA NothingSettled ==
  ASSUME AllCurrent, NEW k \in Keys, k \notin valid, NEW f \in Fields
  PROVE  MayBeGone(k, f)
<1>1. SUFFICES ASSUME NEW n \in Settled(k, f) PROVE n <= halfWiped
  BY DEF MayBeGone
<1>2. n \in Since(k, f) /\ n \notin cut \cup InWork /\ KeyOf(received[n]) = k
  BY <1>1 DEF Settled, Since, SavesFor
<1>3. 1 \in SavesFor(n, k, -1)
  BY <1>2, SavesAre DEF SavesFor, FieldOf
<1>4. n \in Settled(k, -1)
  BY <1>2, <1>3 DEF Settled, Since
<1>5. QED
  BY <1>4 DEF AllCurrent, MayBeGone

(* The message in work comes after all that are settled. *)
LEMMA WorkIsOpen ==
  ASSUME Shape, Working, pc # "idle", NEW f \in Fields, SavesFor(Latest, key, f) # {}
  PROVE  Latest \in Open(key, f) /\ Latest \in Since(key, f)
<1>1. Latest \in Nat /\ Latest # 0 /\ InWork = {Latest} /\ key \in Keys
      /\ cleared[key] \in Nat /\ cleared[key] <= Latest - 1
  <2>1. Latest \in Nat /\ Latest # 0 /\ key = KeyOf(received[Latest])
    BY Bounds DEF Working
  <2>2. key \in Keys
    BY <2>1, Bounds, QuoteSays
  <2>3. QED
    BY <2>1, <2>2, Bounds DEF InWork, Finished
<1>2. Latest \in Since(key, f)
  BY <1>1 DEF Since
<1>3. \A m \in Settled(key, f) : m < Latest
  BY <1>1 DEF Settled, Since
<1>4. QED
  BY <1>1, <1>2, <1>3 DEF Open

(* As long as the same messages are interrupted or in work, the same are    *)
(* settled and open.                                                        *)
LEMMA SameOpen ==
  ASSUME UNCHANGED <<received, cleared>>, (cut \cup InWork)' = cut \cup InWork,
         NEW k, NEW f
  PROVE  /\ Settled(k, f)' = Settled(k, f) /\ Open(k, f)' = Open(k, f)
         /\ Said(k, f)' = Said(k, f)
         /\ \A n : SavesFor(n, k, f)' = SavesFor(n, k, f)
         /\ \A n, i : ValueOf(n, i)' = ValueOf(n, i)
         /\ halfWiped' = halfWiped =>
              /\ MayBeGone(k, f)' <=> MayBeGone(k, f)
              /\ Shown(k, f)' = Shown(k, f) => (IsCurrent(k, f)' <=> IsCurrent(k, f))
<1>1. Latest' = Latest /\ cleared' = cleared /\ received' = received
  BY DEF Latest
<1>2. \A n : SavesFor(n, k, f)' = SavesFor(n, k, f)
  BY <1>1 DEF SavesFor, FieldOf
<1>3. Since(k, f)' = Since(k, f)
  BY <1>1, <1>2 DEF Since
<1>4. Settled(k, f)' = Settled(k, f)
  BY <1>3 DEF Settled
<1>5. Open(k, f)' = Open(k, f)
  BY <1>3, <1>4 DEF Open
<1>6. \A n, i : ValueOf(n, i)' = ValueOf(n, i)
  BY <1>1 DEF ValueOf
<1>7. Said(k, f)' = Said(k, f)
  BY <1>2, <1>4, <1>6 DEF Said
<1>8. halfWiped' = halfWiped => (MayBeGone(k, f)' <=> MayBeGone(k, f))
  BY <1>4 DEF MayBeGone
<1>9. QED
  BY <1>2, <1>4, <1>5, <1>6, <1>7, <1>8 DEF IsCurrent

(* A record that was left without its codes stays so until a quote of its   *)
(* stock has been saved.                                                    *)
LEMMA UnnamedKept ==
  ASSUME NEW k, LeftUnnamed(k), UNCHANGED <<received, halfWiped>>, died \subseteq died',
         \A m : m \in died \cup InWork /\ KeyOf(received[m]) = k => m \in died' \cup InWork'
  PROVE  LeftUnnamed(k)'
<1>1. Latest' = Latest
  BY DEF Latest
<1>2. ASSUME NEW n, NotMended(k, n) PROVE NotMended(k, n)'
  BY <1>1, <1>2 DEF NotMended
<1>3. QED
  BY <1>2 DEF LeftUnnamed

-----------------------------------------------------------------------------
(* One save, of parse()'s latest quote, into the record of its stock: what  *)
(* Create and Write have in common.                                         *)
LEMMA Saving ==
  ASSUME Shape, Working, NamesItsKey, AllCurrent, NEW e \in Record,
         pc \in {"create", "write"}, SaveNext,
         item' = [item EXCEPT ![key] = Put(e, Latest, NextSave)],
         \/ pc = "write" /\ e = item[key] /\ valid' = valid
         \/ pc = "create" /\ e = MakeElement(received[Latest]) /\ valid' = valid \cup {key},
         listed' \subseteq valid'
  PROVE  Shape' /\ Working' /\ NamesItsKey' /\ AllCurrent'
<1> DEFINE i == NextSave
           P == Put(e, Latest, i)
           N == Latest
<1>1. /\ saves' = saves \ {i} /\ pc' = (IF saves' = {} THEN "idle" ELSE "lookup")
      /\ UNCHANGED <<holder, key, received, cleared, cut, halfWiped, died>>
  BY DEF SaveNext, clearing, ending
<1>2. /\ N \in Nat \ {0} /\ N <= MaxQuotes /\ received[N] \in Accepted /\ key \in Keys
      /\ key = KeyOf(received[N]) /\ InWork = {N} /\ saves \subseteq SavesOf(received[N])
      /\ \A j \in saves : \A l \in SavesOf(received[N]) : j <= l => l \in saves
  <2>1. /\ N \in Nat /\ N # 0 /\ key = KeyOf(received[N])
        /\ saves \subseteq SavesOf(received[N])
        /\ \A j \in saves : \A l \in SavesOf(received[N]) : j <= l => l \in saves
    BY Bounds DEF Working
  <2>2. received[N] \in Accepted /\ N <= MaxQuotes
    BY <2>1, Bounds
  <2>3. key \in Keys
    BY <2>1, <2>2, QuoteSays
  <2>4. QED
    BY <2>1, <2>2, <2>3 DEF InWork
<1>3. i \in saves /\ i \in Nat /\ \A j \in saves : j \in Nat /\ i <= j
  <2>1. saves \in SUBSET Nat /\ saves # {}
    BY <1>2, SavesAre DEF Working
  <2>2. QED
    BY <2>1, MinOf DEF NextSave
<1>4. /\ P \in Record
      /\ \A f \in Fields : IF i # 0 /\ FieldOf(N, i) = f THEN ShownIn(P, f) = ValueOf(N, i)
                                                         ELSE ShownIn(P, f) = ShownIn(e, f)
      /\ i = 0 => P.market = received[N].market /\ P.code = received[N].code
      /\ i # 0 => P.market = e.market /\ P.code = e.code
  <2>1. N \in 0 .. MaxQuotes /\ i \in SavesOf(received[N])
    BY <1>2, <1>3
  <2> HIDE DEF i
  <2>2. QED
    BY <1>2, <2>1, PutOne
<1> HIDE DEF i, P
<1>5. /\ item' = [item EXCEPT ![key] = P] /\ item \in [Keys -> Record]
      /\ item' \in [Keys -> Record]
      /\ \A k \in Keys : \A f :
           Shown(k, f)' = IF k = key THEN ShownIn(P, f) ELSE Shown(k, f)
      /\ \A f : pc = "write" => ShownIn(e, f) = Shown(key, f)
  <2>1. item' = [item EXCEPT ![key] = P] /\ item \in [Keys -> Record]
    BY DEF Shape, P, i
  <2>2. \A k \in Keys : item'[k] = IF k = key THEN P ELSE item[k]
    BY <1>2, <2>1
  <2>3. QED
    BY <1>2, <1>4, <2>1, <2>2 DEF Shown, ShownIn
<1>6. /\ N' = N /\ \A n, k, f : SavesFor(n, k, f)' = SavesFor(n, k, f)
      /\ \A n, j : ValueOf(n, j)' = ValueOf(n, j)
  BY <1>1 DEF Latest, SavesFor, FieldOf, ValueOf
<1>7. pc = "create" => key \notin valid /\ (N \in cut \/ i = 0)
  BY <1>3 DEF Working
<1>8. key \in valid' \/ N \in cut
  BY DEF Working
(* What has been made of the message is in the record. *)
<1>9. ASSUME NEW f \in Fields
      PROVE  \/ SavesFor(N, key, f) \ saves' = {} \/ N \in cut
             \/ ShownIn(P, f) = ValueOf(N, Max(SavesFor(N, key, f) \ saves'))
  <2> DEFINE made == SavesFor(N, key, f) \ saves
             made2 == SavesFor(N, key, f) \ saves'
  <2>1. made = {} \/ N \in cut \/ Shown(key, f) = ValueOf(N, Max(made))
    BY DEF Working
  <2>2. \A j \in made : j < i
    BY <1>2, <1>3, SavesAre DEF SavesFor
  <2>3. CASE i # 0 /\ FieldOf(N, i) = f
    <3>1. i \in made2 /\ \A j \in made2 : j = i \/ j \in made
      BY <1>1, <1>2, <1>3, <2>3 DEF SavesFor
    <3>2. made2 \in SUBSET Nat /\ \A j \in made2 : j <= i
      BY <1>3, <2>2, <3>1, SavesAre DEF SavesFor
    <3>3. Max(made2) = i
      BY <3>1, <3>2, MaxIs
    <3>4. QED
      BY <1>4, <2>3, <3>3
  <2>4. CASE ~(i # 0 /\ FieldOf(N, i) = f)
    <3>1. made2 = made
      BY <1>1, <2>4 DEF SavesFor
    <3>2. ShownIn(P, f) = ShownIn(e, f)
      BY <1>4, <2>4
    <3>3. CASE pc = "write"
      BY <1>5, <2>1, <3>1, <3>2, <3>3
    <3>4. CASE pc = "create"
      <4>1. N \in cut \/ i = 0
        BY <1>7, <3>4
      <4>2. i = 0 => made = {}
        BY <1>2, <1>3, <2>2, SavesAre DEF SavesFor
      <4>3. QED
        BY <3>1, <4>1, <4>2
    <3>5. QED
      BY <3>3, <3>4
  <2>5. QED
    BY <2>3, <2>4
<1>10. key \in valid' => Named(key)'
  <2>1. SUFFICES ASSUME key \in valid'
                 PROVE  P.code < CodeLimit /\ MakeKey(P.market, P.code) = key
    BY <1>1, <1>2, <1>5 DEF Named
  <2>2. received[N].code < CodeLimit /\ MakeKey(received[N].market, received[N].code) = key
    BY <1>2, QuoteSays DEF KeyOf
  <2>3. CASE i = 0
    BY <1>4, <2>2, <2>3
  <2>4. CASE i # 0 /\ pc = "write"
    <3>1. 0 \notin saves
      BY <1>3, <2>4
    <3>2. Named(key) /\ e = item[key]
      BY <2>1, <2>4, <3>1 DEF Working
    <3>3. QED
      BY <1>4, <2>4, <3>2 DEF Named
  <2>5. CASE i # 0 /\ pc = "create"
    <3>1. e.market = received[N].market /\ e.code = received[N].code
      BY <2>5 DEF MakeElement, Zeroed
    <3>2. QED
      BY <1>4, <2>2, <2>5, <3>1
  <2>6. QED
    BY <2>3, <2>4, <2>5
<1>11. Shape'
  <2>1. \A k \in Keys : cleared[k] \in Nat /\ cleared[k] <= Finished'
    <3>1. Finished = N - 1 /\ Finished' \in {N - 1, N}
      BY <1>6 DEF Finished
    <3>2. QED
      BY <1>2, <3>1, Bounds
  <2>2. valid' \subseteq Keys
    BY <1>2 DEF Shape
  <2>3. QED
    BY <1>1, <1>5, <1>6, <2>1, <2>2 DEF Shape
<1>12. Working'
  <2>1. pc' = "idle" <=> saves' = {}
    BY <1>1
  <2>2. \A j \in saves' : \A l \in SavesOf(received[N]) : j <= l => l \in saves'
    BY <1>1, <1>2, <1>3
  <2>3. \A f \in Fields : Shown(key, f)' = ShownIn(P, f)
    BY <1>1, <1>2, <1>5
  <2>4. /\ N' # 0 /\ key' = KeyOf(received'[N']) /\ saves' \subseteq SavesOf(received'[N'])
        /\ \A j \in saves' : \A l \in SavesOf(received'[N']) : j <= l => l \in saves'
        /\ pc' \notin {"create", "write"}
    BY <1>1, <1>2, <1>6, <2>2
  <2>5. (\A f \in Fields :
           LET made == SavesFor(Latest, key, f) \ saves
           IN  made = {} \/ Latest \in cut \/ Shown(key, f) = ValueOf(Latest, Max(made)))'
    BY <1>1, <1>6, <1>9, <2>3
  <2>6. QED
    BY <1>1, <1>6, <1>8, <1>10, <2>1, <2>4, <2>5 DEF Working
<1>13. NamesItsKey'
  <2>0. \A k \in valid' : k = key => Named(k)'
    BY <1>1, <1>10 DEF Named
  <2>1. SUFFICES ASSUME NEW k \in valid', k # key PROVE Named(k)' \/ LeftUnnamed(k)'
    BY <2>0 DEF NamesItsKey
  <2>2. k \in valid /\ k \in Keys /\ Named(k)' = Named(k)
    BY <1>2, <1>5, <2>1 DEF Named, Shape
  <2>3. CASE Named(k)
    BY <2>2, <2>3
  <2>4. CASE LeftUnnamed(k)
    <3>1. \A m : m \in died \cup InWork
          /\ KeyOf(received[m]) = k => m \in died' \cup InWork'
      BY <1>1, <1>2, <2>1
    <3>2. QED
      BY <1>1, <2>4, <3>1, UnnamedKept
  <2>5. QED
    BY <2>2, <2>3, <2>4 DEF NamesItsKey
<1>14. AllCurrent'
  <2>1. SUFFICES ASSUME NEW k \in Keys
                 PROVE  /\ k \in valid' \/ MayBeGone(k, -1)'
                        /\ \A f \in Fields : IsCurrent(k, f)'
    BY DEF AllCurrent
  <2>2. -1 \in Fields /\ (k # key => \A f : SavesFor(N, k, f) = {})
    BY <1>2 DEF SavesFor, Fields
(* Where the save does not settle anything ... *)
  <2>3. ASSUME NEW f \in Fields, Settled(k, f)' = Settled(k, f), Open(k, f)' = Open(k, f),
               Said(k, f)' = Said(k, f), SavesFor(N, k, f) # {} => N \in Open(k, f)
        PROVE  IsCurrent(k, f)'
    <3>1. CASE k = key /\ i # 0 /\ FieldOf(N, i) = f
      <4>1. i \in SavesFor(N, k, f)
        BY <1>2, <1>3, <3>1 DEF SavesFor
      <4>2. Shown(k, f)' = ValueOf(N, i)
        BY <1>4, <1>5, <3>1
      <4>3. QED
        BY <1>6, <2>3, <4>1, <4>2 DEF IsCurrent
    <3>2. CASE k = key /\ ~(i # 0 /\ FieldOf(N, i) = f) /\ pc = "create"
      <4>1. Shown(k, f)' = 0
        <5>1. e.origTime = 0 /\ e.price = [t \in EntryTypes |-> 0]
          BY <3>2 DEF MakeElement, Zeroed
        <5>2. ShownIn(e, f) = 0
          BY <5>1 DEF ShownIn, Fields
        <5>3. QED
          BY <1>4, <1>5, <3>2, <5>2
      <4>2. MayBeGone(k, f)
        BY <1>7, <3>2, NothingSettled
      <4>3. QED
        BY <1>1, <2>3, <4>1, <4>2 DEF IsCurrent, MayBeGone
    <3>3. CASE k # key \/ (~(i # 0 /\ FieldOf(N, i) = f) /\ pc = "write")
      <4>1. Shown(k, f)' = Shown(k, f)
        BY <1>4, <1>5, <3>3
      <4>2. IsCurrent(k, f)
        BY DEF AllCurrent
      <4>3. MayBeGone(k, f)' <=> MayBeGone(k, f)
        BY <1>1, <2>3 DEF MayBeGone
      <4>4. QED
        BY <1>6, <2>3, <4>1, <4>2, <4>3 DEF IsCurrent
    <3>4. QED
      BY <3>1, <3>2, <3>3
  <2>4. CASE (cut \cup InWork)' = cut \cup InWork
    <3>1. \A f : /\ Settled(k, f)' = Settled(k, f) /\ Open(k, f)' = Open(k, f)
                 /\ Said(k, f)' = Said(k, f)
      BY <1>1, <2>4, SameOpen
    <3>2. k \in valid' \/ MayBeGone(k, -1)'
      BY <1>1, <3>1 DEF AllCurrent, MayBeGone
    <3>3. \A f \in Fields : SavesFor(N, k, f) # {} => N \in Open(k, f)
      BY <2>2, WorkIsOpen
    <3>4. QED
      BY <2>3, <3>1, <3>2, <3>3
(* ... and where it is the last one of a message that nothing interrupted.  *)
  <2>5. CASE pc' = "idle" /\ N \notin cut
    <3>1. InWork' = {} /\ saves' = {} /\ cut' = cut
      BY <1>1, <2>5 DEF InWork
    <3>2. \A f : Since(k, f)' = Since(k, f)
      BY <1>1, <1>6 DEF Since
    <3>3. \A f : SavesFor(N, k, f) = {} =>
            /\ Settled(k, f)' = Settled(k, f) /\ Open(k, f)' = Open(k, f)
            /\ Said(k, f)' = Said(k, f)
      <4>1. SUFFICES ASSUME NEW f, SavesFor(N, k, f) = {}
                     PROVE  /\ Settled(k, f)' = Settled(k, f) /\ Open(k, f)' = Open(k, f)
                            /\ Said(k, f)' = Said(k, f)
        OBVIOUS
      <4>2. N \notin Since(k, f)
        BY <4>1 DEF Since
      <4>3. Settled(k, f)' = Settled(k, f)
        BY <1>2, <3>1, <3>2, <4>2 DEF Settled
      <4>4. Open(k, f)' = Open(k, f)
        BY <1>2, <3>1, <3>2, <4>2, <4>3 DEF Open
      <4>5. QED
        BY <1>6, <4>3, <4>4 DEF Said
    <3>4. ASSUME NEW f \in Fields, SavesFor(N, k, f) # {}
          PROVE  IsCurrent(k, f)'
      <4>1. k = key /\ N \in Since(k, f)
        BY <2>2, <3>4, WorkIsOpen
      <4>2. N \in Settled(k, f)' /\ Settled(k, f)' \subseteq 1 .. N
        BY <2>5, <3>1, <3>2, <4>1, Bounds DEF Settled
      <4>3. Max(Settled(k, f)') = N
        <5> DEFINE S == Settled(k, f)'
        <5>1. S \in SUBSET Nat /\ N \in S /\ \A m \in S : m <= N
          BY <1>2, <4>2
        <5> HIDE DEF S
        <5>2. Max(S) = N
          BY <5>1, MaxIs
        <5>3. QED
          BY <5>2 DEF S
      <4>4. Said(k, f)' = ValueOf(N, Max(SavesFor(N, k, f)))
        BY <1>6, <4>2, <4>3 DEF Said
      <4>5. Shown(k, f)' = ValueOf(N, Max(SavesFor(N, k, f)))
        <5>1. SavesFor(N, key, f) \ saves' = SavesFor(N, key, f)
          BY <3>1
        <5>2. QED
          BY <1>5, <1>9, <2>5, <3>4, <4>1, <5>1
      <4>6. QED
        BY <4>4, <4>5 DEF IsCurrent
    <3>5. k \in valid' \/ MayBeGone(k, -1)'
      <4>1. CASE k = key
        BY <1>8, <2>5, <4>1
      <4>2. CASE k # key
        BY <1>1, <2>2, <3>3, <4>2 DEF AllCurrent, MayBeGone
      <4>3. QED
        BY <4>1, <4>2
    <3>6. QED
      BY <2>3, <3>3, <3>4, <3>5
  <2>6. QED
    <3>1. InWork' = {N} \/ pc' = "idle"
      BY <1>6 DEF InWork
    <3>2. pc' = "idle" /\ N \in cut => (cut \cup InWork)' = cut \cup InWork
      BY <1>1, <1>2 DEF InWork
    <3>3. InWork' = {N} => (cut \cup InWork)' = cut \cup InWork
      BY <1>1, <1>2
    <3>4. QED
      BY <2>4, <2>5, <3>1, <3>2, <3>3
<1>15. QED
  BY <1>11, <1>12, <1>13, <1>14

-----------------------------------------------------------------------------
(* The other steps, by what they do to the record of messages. *)

LEMMA ZeroedRecord == Zeroed \in Record /\ \A f \in Fields : ShownIn(Zeroed, f) = 0
<1>1. 0 \in Values
  BY BoundsAssumption DEF Values
<1>2. QED
  BY <1>1 DEF Zeroed, Record, ShownIn, Fields

(* A record that nothing touches goes on naming its key. *)
LEMMA NamesKept ==
  ASSUME NamesItsKey, UNCHANGED <<received, halfWiped>>, died \subseteq died',
         died \cup InWork \subseteq died' \cup InWork',
         NEW k \in valid, item'[k] = item[k]
  PROVE  Named(k)' \/ LeftUnnamed(k)'
<1>1. CASE Named(k)
  BY <1>1 DEF Named
<1>2. CASE LeftUnnamed(k)
  BY <1>2, UnnamedKept
<1>3. QED
  BY <1>1, <1>2 DEF NamesItsKey

(* A wipe: nothing is settled any more, and the message in work, which may  *)
(* have been saved in part, is interrupted.                                 *)
LEMMA Wiping ==
  ASSUME Shape, Working, Wipe, cut' = cut \cup InWork, UNCHANGED received,
         \/ UNCHANGED <<pc, key, saves, died>>
         \/ pc' = "idle" /\ saves' = {} /\ died' = died \cup InWork,
         holder' \in {"nobody", "dump"}
  PROVE  Shape' /\ Working' /\ NamesItsKey' /\ AllCurrent'
<1>1. /\ Latest' = Latest /\ Latest \in Nat /\ InWork \subseteq {Latest}
      /\ InWork' \subseteq InWork
  BY Bounds DEF Latest, InWork
<1>2. /\ listed' = {} /\ valid' = {} /\ halfWiped' = -1
      /\ item' = [k \in Keys |-> Zeroed] /\ cleared' = [k \in Keys |-> Finished]
  BY DEF Wipe
<1>3. /\ InWork \subseteq 1 .. Latest /\ Finished \in Nat /\ Finished <= Finished'
      /\ (cut \cup InWork)' = cut \cup InWork
      /\ Finished + 1 .. Latest \subseteq InWork
  <2>1. pc # "idle" => Latest # 0
    BY DEF Working
  <2>2. Finished = (IF pc = "idle" THEN Latest ELSE Latest - 1)
        /\ Finished' = (IF pc' = "idle" THEN Latest ELSE Latest - 1)
        /\ InWork = (IF pc = "idle" THEN {} ELSE {Latest})
    BY <1>1 DEF Finished, InWork
  <2>3. pc' = pc \/ pc' = "idle"
    OBVIOUS
  <2>4. Finished \in Nat /\ Finished <= Finished' /\ Finished + 1 .. Latest \subseteq InWork
    BY <1>1, <2>1, <2>2, <2>3
  <2>5. InWork \subseteq 1 .. Latest
    BY <1>1, <2>1, <2>2
  <2>6. (cut \cup InWork)' = cut \cup InWork
    BY <1>1
  <2>7. QED
    BY <2>4, <2>5, <2>6
<1>4. Shape'
  <2>1. item' \in [Keys -> Record] /\ cleared' \in [Keys -> Nat]
        /\ \A k \in Keys : cleared'[k] <= Finished'
    BY <1>2, <1>3, ZeroedRecord
  <2>2. died' \subseteq cut' /\ cut' \subseteq 1 .. Latest'
    BY <1>1, <1>3 DEF Shape
  <2>3. pc' \in {"idle", "lookup", "create", "write"} /\ halfWiped' \in -1 .. Latest'
    BY <1>1, <1>2 DEF Shape
  <2>4. QED
    BY <1>1, <1>2, <2>1, <2>2, <2>3 DEF Shape
<1>5. Working'
  <2>1. CASE pc' = "idle" /\ saves' = {}
    BY <2>1 DEF Working
  <2>2. CASE UNCHANGED <<pc, key, saves>> /\ pc # "idle"
    <3>1. Latest' \in cut'
      BY <1>1, <2>2 DEF InWork
    <3>2. QED
      BY <1>1, <1>2, <2>2, <3>1 DEF Working
  <2>3. QED
    BY <2>1, <2>2 DEF Working
<1>6. NamesItsKey'
  BY <1>2 DEF NamesItsKey
<1>7. AllCurrent'
  <2>1. \A k \in Keys : \A f : Since(k, f)' \subseteq InWork
    BY <1>1, <1>2, <1>3 DEF Since
  <2>2. \A k \in Keys : \A f : Settled(k, f)' = {}
    BY <1>3, <2>1 DEF Settled
  <2>3. \A k \in Keys : \A f \in Fields : Shown(k, f)' = 0
    BY <1>2, ZeroedRecord DEF Shown, ShownIn
  <2>4. QED
    BY <2>2, <2>3 DEF AllCurrent, IsCurrent, Said, MayBeGone
<1>8. QED
  BY <1>4, <1>5, <1>6, <1>7

(* A step that leaves the table and the record of messages alone, but that  *)
(* the message in work may be interrupted.                                  *)
LEMMA Resting ==
  ASSUME Shape, Working, NamesItsKey, AllCurrent,
         UNCHANGED <<valid, listed, item, cleared, received, halfWiped>>,
         \/ UNCHANGED <<pc, key, saves, cut, died>>
         \/ pc = "lookup" /\ pc' = (IF key \in valid THEN "write" ELSE "create")
              /\ UNCHANGED <<key, saves, cut, died>>
         \/ /\ pc' = "idle" /\ saves' = {}
            /\ cut' = cut \cup InWork /\ died' = died \cup InWork,
         holder' \in {"nobody", "dump"}
  PROVE  Shape' /\ Working' /\ NamesItsKey' /\ AllCurrent'
<1>1. Latest' = Latest /\ Latest \in Nat
  BY Bounds DEF Latest
<1>2. /\ (cut \cup InWork)' = cut \cup InWork /\ died \subseteq died'
      /\ died \cup InWork \subseteq died' \cup InWork'
  BY <1>1 DEF InWork
<1>3. InWork \subseteq 1 .. Latest /\ Finished \in Int /\ Finished <= Finished'
      /\ Finished' \in Int
  BY <1>1 DEF Working, InWork, Finished
<1>4. Shape'
  <2>1. \A k \in Keys : cleared[k] \in Nat /\ cleared[k] <= Finished'
    BY <1>3, Bounds
  <2>2. died' \subseteq cut' /\ cut' \subseteq 1 .. Latest'
    BY <1>1, <1>3 DEF Shape
  <2>3. pc' \in {"idle", "lookup", "create", "write"}
    BY DEF Shape
  <2>4. QED
    BY <1>1, <2>1, <2>2, <2>3 DEF Shape
<1>5. Working'
  <2>1. CASE pc' = "idle" /\ saves' = {}
    BY <2>1 DEF Working
  <2>2. \A k, f : SavesFor(Latest, k, f)' = SavesFor(Latest, k, f)
    BY <1>1 DEF SavesFor, FieldOf
  <2>3. \A k, f : Shown(k, f)' = Shown(k, f)
    BY DEF Shown
  <2>4. \A k : Named(k)' <=> Named(k)
    BY DEF Named
  <2>5. \A j : ValueOf(Latest, j)' = ValueOf(Latest, j)
    BY <1>1 DEF ValueOf
  <2>6. CASE /\ UNCHANGED <<key, saves, cut>> /\ pc' # "idle"
             /\ \/ pc' = pc
                \/ pc = "lookup" /\ pc' = (IF key \in valid THEN "write" ELSE "create")
    <3>1. pc # "idle" /\ saves' # {}
      BY <2>6 DEF Working
    <3>2. /\ Latest' # 0 /\ key' = KeyOf(received[Latest])'
          /\ saves' \subseteq SavesOf(received[Latest])'
          /\ (\A i \in saves : \A j \in SavesOf(received[Latest]) : i <= j => j \in saves)'
          /\ 0 \in saves' \/ key' \notin valid' \/ Named(key)'
      BY <1>1, <2>4, <2>6, <3>1 DEF Working
    <3>3. /\ pc' = "create" => key' \notin valid'
          /\ key' \in valid' \/ Latest' \in cut' \/ (0 \in saves' /\ pc' # "write")
      BY <1>1, <2>6, <3>1 DEF Working
    <3>4. (\A f \in Fields :
             LET made == SavesFor(Latest, key, f) \ saves
             IN  made = {} \/ Latest \in cut \/ Shown(key, f) = ValueOf(Latest, Max(made)))'
      BY <1>1, <2>2, <2>3, <2>5, <2>6, <3>1 DEF Working
    <3>5. QED
      BY <2>6, <3>1, <3>2, <3>3, <3>4 DEF Working
  <2>7. QED
    BY <2>1, <2>6 DEF Working
<1>6. NamesItsKey'
  BY <1>2, NamesKept DEF NamesItsKey
<1>7. AllCurrent'
  <2>1. \A k, f : Shown(k, f)' = Shown(k, f)
    BY DEF Shown
  <2>2. QED
    BY <1>2, <2>1, SameOpen DEF AllCurrent
<1>8. QED
  BY <1>4, <1>5, <1>6, <1>7

-----------------------------------------------------------------------------
(* The inductive invariant. *)

LEMMA InitIInv == Init => IInv
<1>1. SUFFICES ASSUME Init PROVE IInv
  OBVIOUS
<1>2. /\ Latest = 0 /\ InWork = {} /\ Finished = 0
      /\ \A k \in Keys : \A f : Since(k, f) = {} /\ Settled(k, f) = {} /\ Said(k, f) = 0
  <2>1. Latest = 0 /\ InWork = {} /\ Finished = 0
    BY <1>1 DEF Init, Latest, InWork, Finished
  <2>2. \A k \in Keys : \A f : Since(k, f) = {}
    BY <1>1, <2>1 DEF Init, Since
  <2>3. QED
    BY <2>1, <2>2 DEF Settled, Said
<1>3. Shape
  <2>1. received \in Seq(Accepted)
    BY <1>1, EmptySeq DEF Init
  <2>2. item \in [Keys -> Record] /\ cleared \in [Keys -> Nat]
        /\ \A k \in Keys : cleared[k] <= 0
    BY <1>1, ZeroedRecord DEF Init
  <2>3. Latest <= MaxQuotes /\ \A k \in Keys : cleared[k] <= Finished
    BY <1>2, <2>2, BoundsAssumption
  <2>4. /\ valid = {} /\ listed = {} /\ holder = "nobody" /\ halfWiped \in -1 .. Latest
        /\ pc = "idle" /\ died = {} /\ cut = {}
    BY <1>1, <1>2 DEF Init
  <2>5. QED
    BY <2>1, <2>2, <2>3, <2>4 DEF Shape
<1>4. Working
  BY <1>1 DEF Init, Working
<1>5. NamesItsKey
  BY <1>1 DEF Init, NamesItsKey
<1>6. AllCurrent
  <2>1. \A k \in Keys : \A f \in Fields : Shown(k, f) = 0
    BY <1>1, ZeroedRecord DEF Init, Shown, ShownIn
  <2>2. QED
    BY <1>2, <2>1 DEF AllCurrent, IsCurrent, MayBeGone
<1>7. Dumping /\ DumpIsSnapshot
  BY <1>1 DEF Init, Dumping, DumpIsSnapshot
<1>8. QED
  BY <1>3, <1>4, <1>5, <1>6, <1>7 DEF IInv

(* A new quote: it is in work, and nothing else has changed yet. *)
LEMMA ParseIInv ==
  ASSUME IInv, NEW q \in Accepted, Parse(q)
  PROVE  IInv'
<1>1. /\ pc = "idle" /\ Latest < MaxQuotes /\ received' = Append(received, q)
      /\ key' = KeyOf(q) /\ saves' = SavesOf(q) /\ pc' = "lookup"
      /\ UNCHANGED <<valid, listed, item, holder, toVisit, printed, atDump, cleared, cut>>
      /\ UNCHANGED <<halfWiped, died>>
  BY DEF Parse, table, dumper, clearing, ending
<1>2. /\ Latest \in Nat /\ Latest' = Latest + 1 /\ received' \in Seq(Accepted)
      /\ received'[Latest + 1] = q /\ \A n \in 1 .. Latest : received'[n] = received[n]
  BY <1>1, AppendProperties, LenProperties DEF IInv, Shape, Latest
<1>3. /\ InWork = {} /\ InWork' = {Latest + 1} /\ Finished = Latest /\ Finished' = Latest
      /\ died \subseteq cut /\ cut \subseteq 1 .. Latest
  BY <1>1, <1>2 DEF InWork, Finished, IInv, Shape
<1>4. Shape'
  <2>1. \A k \in Keys : cleared[k] \in Nat /\ cleared[k] <= Latest
    BY <1>3, Bounds DEF IInv
  <2>2. Latest + 1 <= MaxQuotes /\ cut \subseteq 1 .. Latest + 1
    BY <1>1, <1>2, <1>3, BoundsAssumption
  <2>3. QED
    BY <1>1, <1>2, <1>3, <2>1, <2>2 DEF IInv, Shape
<1>5. Working'
  <2>1. 0 \in saves' /\ saves' # {}
    BY <1>1, SavesAre
  <2>2. \A f : SavesFor(Latest, key, f)' \ saves' = {}
    BY <1>1, <1>2 DEF SavesFor
  <2>3. QED
    BY <1>1, <1>2, <2>1, <2>2 DEF Working
<1>6. NamesItsKey'
  <2>1. ASSUME NEW k, NEW n \in 0 .. Latest, NotMended(k, n) PROVE NotMended(k, n)'
    <3>1. SUFFICES ASSUME NEW m \in n + 1 .. Latest + 1, KeyOf(received'[m]) = k
                   PROVE  m \in died \cup InWork'
      BY <1>1, <1>2 DEF NotMended
    <3>2. CASE m = Latest + 1
      BY <1>3, <3>2
    <3>3. CASE m \in n + 1 .. Latest
      <4>1. m \in 1 .. Latest
        BY <1>2, <3>3
      <4>2. KeyOf(received[m]) = k
        BY <1>2, <3>1, <4>1
      <4>3. QED
        BY <1>3, <2>1, <3>3, <4>2 DEF NotMended
    <3>4. QED
      BY <1>2, <3>2, <3>3
  <2>2. ASSUME NEW k, LeftUnnamed(k) PROVE LeftUnnamed(k)'
    <3>1. CASE halfWiped # -1 /\ NotMended(k, halfWiped)
      <4>1. halfWiped \in 0 .. Latest
        BY <1>2, <3>1 DEF IInv, Shape
      <4>2. QED
        BY <1>1, <2>1, <3>1, <4>1 DEF LeftUnnamed
    <3>2. ASSUME NEW n \in died, KeyOf(received[n]) = k, NotMended(k, n)
          PROVE  LeftUnnamed(k)'
      <4>1. n \in 0 .. Latest /\ n \in 1 .. Latest
        BY <1>2, <1>3
      <4>2. n \in died' /\ KeyOf(received'[n]) = k
        BY <1>1, <1>2, <3>2, <4>1
      <4>3. NotMended(k, n)'
        BY <2>1, <3>2, <4>1
      <4>4. QED
        BY <4>2, <4>3 DEF LeftUnnamed
    <3>3. QED
      BY <2>2, <3>1, <3>2 DEF LeftUnnamed
  <2>3. \A k : Named(k)' <=> Named(k)
    BY <1>1 DEF Named
  <2>4. QED
    BY <1>1, <2>2, <2>3 DEF IInv, NamesItsKey
<1>7. AllCurrent'
  <2>1. SUFFICES ASSUME NEW k \in Keys
                 PROVE  /\ k \in valid \/ MayBeGone(k, -1)'
                        /\ \A f \in Fields : IsCurrent(k, f)'
    BY <1>1 DEF AllCurrent
  <2>2. \A n \in 1 .. Latest : \A f : SavesFor(n, k, f)' = SavesFor(n, k, f)
    BY <1>2 DEF SavesFor, FieldOf
  <2>3. \A n \in 1 .. Latest : \A i : ValueOf(n, i)' = ValueOf(n, i)
    BY <1>2 DEF ValueOf
  <2>4. \A f : Since(k, f)' \ {Latest + 1} = Since(k, f)
    <3>1. cleared[k] \in Nat /\ cleared[k] <= Latest
      BY <1>3, Bounds DEF IInv
    <3>2. \A n : n \in cleared[k] + 1 .. Latest + 1 /\ n # Latest + 1
            <=> n \in cleared[k] + 1 .. Latest
      BY <1>2, <3>1
    <3>3. cleared[k] + 1 .. Latest \subseteq 1 .. Latest
      BY <1>2, <3>1
    <3>4. QED
      BY <1>1, <1>2, <2>2, <3>2, <3>3 DEF Since
  <2>5. \A f : Settled(k, f)' = Settled(k, f) /\ Settled(k, f) \subseteq 1 .. Latest
    BY <1>1, <1>3, <2>4, Bounds DEF IInv, Settled
  <2>6. \A f : Open(k, f) \subseteq Open(k, f)' /\ Open(k, f) \subseteq 1 .. Latest
    BY <1>1, <1>3, <2>4, <2>5, Bounds DEF IInv, Open
  <2>7. \A f : Said(k, f)' = Said(k, f)
    <3>1. SUFFICES ASSUME NEW f, Settled(k, f) # {} PROVE Said(k, f)' = Said(k, f)
      BY <2>5 DEF Said
    <3>2. Max(Settled(k, f)) \in 1 .. Latest
      <4> DEFINE S == Settled(k, f)
      <4>1. S \in SUBSET (0 .. Latest) /\ S \subseteq 1 .. Latest /\ S # {}
        BY <1>2, <2>5, <3>1
      <4> HIDE DEF S
      <4>2. Max(S) \in S
        BY <1>2, <4>1, MaxOf
      <4>3. QED
        BY <4>1, <4>2 DEF S
    <3>3. QED
      BY <2>2, <2>3, <2>5, <3>1, <3>2 DEF Said
  <2>8. \A f : Shown(k, f)' = Shown(k, f)
    BY <1>1 DEF Shown
  <2>9. ASSUME NEW f \in Fields PROVE IsCurrent(k, f)'
    <3>1. IsCurrent(k, f)
      BY DEF IInv, AllCurrent
    <3>2. CASE Shown(k, f) = Said(k, f)
      BY <2>7, <2>8, <3>2 DEF IsCurrent
    <3>3. CASE \E n \in Open(k, f) : \E i \in SavesFor(n, k, f) :
                 Shown(k, f) = ValueOf(n, i)
      <4>1. PICK n \in Open(k, f) : \E i \in SavesFor(n, k, f) : Shown(k, f) = ValueOf(n, i)
        BY <3>3
      <4>2. n \in Open(k, f)' /\ \E i \in SavesFor(n, k, f)' : Shown(k, f)' = ValueOf(n, i)'
        BY <2>2, <2>3, <2>6, <2>8, <4>1
      <4>3. QED
        BY <4>2 DEF IsCurrent
    <3>4. CASE Shown(k, f) = 0 /\ MayBeGone(k, f)
      BY <1>1, <2>5, <2>8, <3>4 DEF IsCurrent, MayBeGone
    <3>5. QED
      BY <3>1, <3>2, <3>3, <3>4 DEF IsCurrent
  <2>10. QED
    BY <1>1, <2>5, <2>9 DEF IInv, AllCurrent, MayBeGone
<1>8. Dumping' /\ DumpIsSnapshot'
  BY <1>1 DEF IInv, Dumping, DumpIsSnapshot
<1>9. QED
  BY <1>4, <1>5, <1>6, <1>7, <1>8 DEF IInv

LEMMA LookupIInv ==
  ASSUME IInv, Lookup
  PROVE  IInv'
<1>1. /\ pc = "lookup" /\ holder = "nobody"
      /\ pc' = (IF key \in valid THEN "write" ELSE "create")
      /\ UNCHANGED <<valid, listed, item, holder, key, saves, received, toVisit, printed>>
      /\ UNCHANGED <<atDump, cleared, cut, halfWiped, died>>
  BY DEF Lookup, Unlocked, table, dumper, clearing, ending
<1>2. Shape' /\ Working' /\ NamesItsKey' /\ AllCurrent'
  BY <1>1, Resting DEF IInv
<1>3. Dumping' /\ DumpIsSnapshot'
  BY <1>1 DEF IInv, Dumping, DumpIsSnapshot
<1>4. QED
  BY <1>2, <1>3 DEF IInv

LEMMA CreateIInv ==
  ASSUME IInv, Create
  PROVE  IInv'
<1>1. /\ pc = "create" /\ holder = "nobody" /\ SaveNext /\ valid' = valid \cup {key}
      /\ listed' = (IF key \in valid THEN listed ELSE listed \cup {key})
      /\ item' = [item EXCEPT ![key] = Created]
      /\ UNCHANGED <<holder, toVisit, printed, atDump, halfWiped>>
  BY DEF Create, Unlocked, SaveNext, dumper, clearing
<1>2. MakeElement(received[Latest]) \in Record
  <2>1. received[Latest] \in Accepted
    BY <1>1, Bounds DEF IInv, Working
  <2>2. received[Latest].market \in Values /\ received[Latest].code \in Values
    BY <2>1, QuoteSays
  <2>3. QED
    BY <2>2, ZeroedRecord DEF MakeElement, Record
<1>3. listed' \subseteq valid'
  BY <1>1 DEF IInv, Shape
<1>4. Shape' /\ Working' /\ NamesItsKey' /\ AllCurrent'
  BY <1>1, <1>2, <1>3, Saving DEF IInv, Created
<1>5. Dumping' /\ DumpIsSnapshot'
  BY <1>1 DEF IInv, Dumping, DumpIsSnapshot
<1>6. QED
  BY <1>4, <1>5 DEF IInv

(* The one step that may change the table while it is dumped. *)
LEMMA WriteIInv ==
  ASSUME IInv, Write
  PROVE  IInv'
<1>1. /\ pc = "write" /\ SaveNext /\ item' = Written /\ UNCHANGED <<valid, listed>>
      /\ UNCHANGED <<holder, toVisit, printed, atDump, halfWiped>> /\ pc' # "write"
  BY DEF Write, SaveNext, dumper, clearing
<1>2. item' = [item EXCEPT ![key] = Put(item[key], Latest, NextSave)]
  BY <1>1 DEF Written
<1>3. item[key] \in Record
  <2>1. received[Latest] \in Accepted /\ key = KeyOf(received[Latest])
    BY <1>1, Bounds DEF IInv, Working
  <2>2. key \in Keys
    BY <2>1, QuoteSays
  <2>3. QED
    BY <2>2 DEF IInv, Shape
<1>4. listed' \subseteq valid'
  BY <1>1 DEF IInv, Shape
<1>5. Shape' /\ Working' /\ NamesItsKey' /\ AllCurrent'
  BY <1>1, <1>2, <1>3, <1>4, Saving DEF IInv
<1>6. Dumping' /\ DumpIsSnapshot'
  BY <1>1 DEF IInv, Dumping, DumpIsSnapshot
<1>7. QED
  BY <1>5, <1>6 DEF IInv

LEMMA DumpIInv ==
  ASSUME IInv, Dump
  PROVE  IInv'
<1>1. /\ holder = "nobody" /\ holder' = "dump" /\ toVisit' = listed /\ printed' = <<>>
      /\ atDump' = [shown |-> IF halfWiped # -1 THEN listed ELSE valid, item |-> item,
                    late |-> IF pc = "write" THEN Written ELSE item]
      /\ UNCHANGED <<valid, listed, item, pc, key, saves, received, cleared, cut, halfWiped,
         died>>
  BY DEF Dump, Unlocked, table, business, clearing, ending
<1>2. Shape' /\ Working' /\ NamesItsKey' /\ AllCurrent'
  BY <1>1, Resting DEF IInv
<1>3. Dumping'
  <2>1. Written' = Written
    BY <1>1 DEF Written, Put, NextSave, Latest
  <2>2. listed \subseteq Keys /\ (halfWiped # -1 \/ listed = valid)
    BY DEF IInv, Shape, Dumping
  <2>3. atDump'.item = item /\ (pc = "write" => atDump'.late = Written)
    BY <1>1
  <2>4. QED
    BY <1>1, <2>1, <2>2, <2>3 DEF Dumping
<1>4. DumpIsSnapshot'
  <2>1. listed \subseteq valid /\ (halfWiped # -1 \/ listed = valid)
    BY DEF IInv, Shape, Dumping
  <2>2. atDump'.shown = listed /\ DOMAIN printed' = {}
    BY <1>1, <2>1
  <2>3. QED
    BY <1>1, <2>1, <2>2 DEF DumpIsSnapshot
<1>5. QED
  BY <1>2, <1>3, <1>4 DEF IInv

LEMMA DumpRecordIInv ==
  ASSUME IInv, NEW k \in Keys, DumpRecord(k)
  PROVE  IInv'
<1>1. /\ k \in toVisit /\ toVisit' = toVisit \ {k}
      /\ printed' = [j \in DOMAIN printed \cup {k} |-> IF j = k THEN item[k] ELSE printed[j]]
      /\ UNCHANGED <<valid, listed, item, pc, key, saves, received, cleared, cut, halfWiped,
         died>>
      /\ UNCHANGED <<holder, atDump>>
  BY DEF DumpRecord, table, business, clearing, ending
<1>2. holder = "dump"
  BY <1>1 DEF IInv, Shape, Dumping
<1>3. Shape' /\ Working' /\ NamesItsKey' /\ AllCurrent'
  BY <1>1, <1>2, Resting DEF IInv
<1>4. Dumping'
  <2>1. Written' = Written
    BY <1>1 DEF Written, Put, NextSave, Latest
  <2>2. QED
    BY <1>1, <2>1 DEF IInv, Dumping
<1>5. DumpIsSnapshot'
  <2>1. /\ DOMAIN printed \cup toVisit = atDump.shown /\ atDump.shown \subseteq valid
        /\ \A j \in DOMAIN printed : printed[j] \in {atDump.item[j], atDump.late[j]}
        /\ item \in {atDump.item, atDump.late}
    BY <1>2 DEF IInv, Dumping, DumpIsSnapshot
  <2>2. DOMAIN printed' = DOMAIN printed \cup {k}
    BY <1>1
  <2>3. \A j \in DOMAIN printed' : printed'[j] \in {atDump.item[j], atDump.late[j]}
    BY <1>1, <2>1
  <2>4. QED
    BY <1>1, <2>1, <2>2, <2>3 DEF DumpIsSnapshot
<1>6. QED
  BY <1>3, <1>4, <1>5 DEF IInv

LEMMA DumpDoneIInv ==
  ASSUME IInv, DumpDone
  PROVE  IInv'
<1>1. /\ holder' = "nobody" /\ toVisit' = {}
      /\ UNCHANGED <<valid, listed, item, pc, key, saves, received, cleared, cut, halfWiped,
         died>>
  BY DEF DumpDone, EndDump, table, business, clearing, ending
<1>2. Shape' /\ Working' /\ NamesItsKey' /\ AllCurrent'
  BY <1>1, Resting DEF IInv
<1>3. Dumping' /\ DumpIsSnapshot'
  BY <1>1 DEF IInv, Dumping, DumpIsSnapshot
<1>4. QED
  BY <1>2, <1>3 DEF IInv

LEMMA ClearIInv ==
  ASSUME IInv, Clear
  PROVE  IInv'
<1>1. /\ holder = "nobody" /\ Wipe /\ cut' = cut \cup InWork
      /\ UNCHANGED <<holder, pc, key, saves, received, toVisit, died>>
  BY DEF Clear, Unlocked, business, dumper, ending
<1>2. Shape' /\ Working' /\ NamesItsKey' /\ AllCurrent'
  BY <1>1, Wiping DEF IInv
<1>3. listed' = {} /\ valid' = {}
  BY <1>1 DEF Wipe
<1>4. Dumping' /\ DumpIsSnapshot'
  BY <1>1, <1>3 DEF IInv, Dumping, DumpIsSnapshot
<1>5. QED
  BY <1>2, <1>4 DEF IInv

(* The process ends: a dump too, and the message in work is interrupted. *)
LEMMA RestartEnds ==
  ASSUME Restart
  PROVE  /\ pc' = "idle" /\ saves' = {} /\ cut' = cut \cup InWork
            /\ died' = died \cup InWork
         /\ holder' = "nobody" /\ toVisit' = {} /\ UNCHANGED received
         /\ (halfWiped # -1 \/ listed = valid)' => Dumping' /\ DumpIsSnapshot'
  BY DEF Restart, EndDump, Dumping, DumpIsSnapshot

LEMMA CrashIInv ==
  ASSUME IInv, Crash
  PROVE  IInv'
<1>1. Restart /\ UNCHANGED <<valid, listed, item, cleared, halfWiped>>
  BY DEF Crash, table
<1>2. Shape' /\ Working' /\ NamesItsKey' /\ AllCurrent'
  BY <1>1, RestartEnds, Resting DEF IInv
<1>3. Dumping' /\ DumpIsSnapshot'
  BY <1>1, RestartEnds DEF IInv, Dumping
<1>4. QED
  BY <1>2, <1>3 DEF IInv

(* The memset of a whole table was cut in the list, or not cut at all.      *)
LEMMA WipedIInv ==
  ASSUME IInv, Restart, Wipe
  PROVE  IInv'
<1>1. Shape' /\ Working' /\ NamesItsKey' /\ AllCurrent'
  BY RestartEnds, Wiping DEF IInv
<1>2. (halfWiped # -1 \/ listed = valid)'
  BY DEF Wipe
<1>3. QED
  BY <1>1, <1>2, RestartEnds DEF IInv

(* Each field of a record between two is that of the one or of the other.   *)
LEMMA BetweenIs ==
  ASSUME NEW old \in Record, NEW new \in Record, NEW r \in Between(old, new)
  PROVE  /\ r \in Record
         /\ \A f \in Fields : ShownIn(r, f) \in {ShownIn(new, f), ShownIn(old, f)}
<1>1. PICK m \in {old.market, new.market}, c \in {old.code, new.code},
           t \in {old.origTime, new.origTime}, done \in SUBSET EntryTypes :
        r = [market |-> m, code |-> c, origTime |-> t,
             price |-> [e \in EntryTypes |-> IF e \in done THEN new.price[e] ELSE old.price[e]]]
  BY DEF Between
<1>2. r \in Record
  BY <1>1 DEF Record
<1>3. -1 \notin EntryTypes
  BY DigitsAssumption DEF EntryTypes
<1>4. QED
  BY <1>1, <1>2, <1>3 DEF ShownIn, Fields

(* Where the records were wiped in part, what was said before may be gone.  *)
LEMMA HalfWipedIInv ==
  ASSUME IInv, Restart, listed' = {}, UNCHANGED cleared, halfWiped' = Latest,
         valid' \subseteq valid, item' \in [Keys -> Record],
         \A k \in Keys : \A f \in Fields : Shown(k, f)' \in {0, Shown(k, f)}
  PROVE  IInv'
<1>1. /\ pc' = "idle" /\ saves' = {} /\ cut' = cut \cup InWork /\ died' = died \cup InWork
      /\ holder' = "nobody" /\ UNCHANGED received
  BY RestartEnds
<1>2. /\ Latest' = Latest /\ Latest \in Nat /\ InWork' = {} /\ InWork \subseteq 1 .. Latest
      /\ (cut \cup InWork)' = cut \cup InWork
  <2>1. Latest \in Nat /\ (pc # "idle" => Latest # 0)
    BY Bounds DEF IInv, Working
  <2>2. QED
    BY <1>1, <2>1 DEF Latest, InWork
<1>3. Shape'
  <2>1. \A k \in Keys : cleared[k] \in Nat /\ cleared[k] <= Finished'
    <3>1. Finished \in Int /\ Finished' \in Int /\ Finished <= Finished'
      BY <1>1, <1>2 DEF Finished
    <3>2. QED
      BY <3>1, Bounds DEF IInv
  <2>2. died' \subseteq cut' /\ cut' \subseteq 1 .. Latest'
    BY <1>1, <1>2 DEF IInv, Shape
  <2>3. halfWiped' \in -1 .. Latest'
    BY <1>2
  <2>4. QED
    BY <1>1, <1>2, <2>1, <2>2, <2>3 DEF IInv, Shape
<1>4. Working'
  BY <1>1 DEF Working
<1>5. NamesItsKey'
  <2>1. \A k : NotMended(k, Latest)'
    BY <1>2 DEF NotMended
  <2>2. halfWiped' # -1
    BY <1>2
  <2>3. QED
    BY <1>2, <2>1, <2>2 DEF NamesItsKey, LeftUnnamed
<1>6. AllCurrent'
  <2>1. SUFFICES ASSUME NEW k \in Keys
                 PROVE  MayBeGone(k, -1)' /\ \A f \in Fields : IsCurrent(k, f)'
    BY DEF AllCurrent
  <2>2. \A f : MayBeGone(k, f)'
    <3>1. \A f : Settled(k, f)' = Settled(k, f) /\ Settled(k, f) \subseteq 1 .. Latest
      BY <1>1, <1>2, SameOpen, Bounds DEF IInv, Settled
    <3>2. QED
      BY <1>2, <3>1 DEF MayBeGone
  <2>3. ASSUME NEW f \in Fields PROVE IsCurrent(k, f)'
    <3>1. CASE Shown(k, f)' = 0
      BY <2>2, <3>1 DEF IsCurrent
    <3>2. CASE Shown(k, f)' = Shown(k, f) /\ Shown(k, f)' # 0
      <4>1. /\ Open(k, f)' = Open(k, f) /\ Said(k, f)' = Said(k, f)
            /\ \A n : SavesFor(n, k, f)' = SavesFor(n, k, f)
            /\ \A n, i : ValueOf(n, i)' = ValueOf(n, i)
        BY <1>1, <1>2, SameOpen
      <4>2. IsCurrent(k, f)
        BY DEF IInv, AllCurrent
      <4>3. QED
        BY <3>2, <4>1, <4>2 DEF IsCurrent
    <3>3. QED
      BY <3>1, <3>2
  <2>4. QED
    BY <2>2, <2>3
<1>7. Dumping' /\ DumpIsSnapshot'
  <2>1. (halfWiped # -1 \/ listed = valid)'
    BY <1>2
  <2>2. QED
    BY <2>1, RestartEnds
<1>8. QED
  BY <1>3, <1>4, <1>5, <1>6, <1>7 DEF IInv

LEMMA CrashInClearIInv ==
  ASSUME IInv, CrashInClear
  PROVE  IInv'
<1>1. Restart
  BY DEF CrashInClear
<1>2. CASE Wipe
  BY <1>1, <1>2, WipedIInv
<1>3. CASE /\ listed' = {}
           /\ \E wiped \in SUBSET Keys : \E k \in Keys : \E part \in Between(item[k],
              Zeroed) :
                /\ valid' = valid \ wiped
                /\ item' = [j \in Keys |-> IF j = k THEN part
                                          ELSE IF j \in wiped THEN Zeroed ELSE item[j]]
           /\ halfWiped' = Latest /\ UNCHANGED cleared
  <2>a. PICK wiped \in SUBSET Keys, k \in Keys :
          \E part \in Between(item[k], Zeroed) :
            /\ valid' = valid \ wiped
            /\ item' = [j \in Keys |-> IF j = k THEN part
                                      ELSE IF j \in wiped THEN Zeroed ELSE item[j]]
    BY <1>3
  <2>1. PICK part \in Between(item[k], Zeroed) :
          /\ valid' = valid \ wiped
          /\ item' = [j \in Keys |-> IF j = k THEN part
                                    ELSE IF j \in wiped THEN Zeroed ELSE item[j]]
    BY <2>a
  <2>2. item \in [Keys -> Record] /\ item[k] \in Record
    BY DEF IInv, Shape
  <2>3. part \in Record /\ \A f \in Fields : ShownIn(part, f) \in {0, ShownIn(item[k], f)}
    BY <2>2, BetweenIs, ZeroedRecord
  <2>4. item' \in [Keys -> Record]
    BY <2>1, <2>2, <2>3, ZeroedRecord
  <2>5. \A j \in Keys : \A f : Shown(j, f)' = ShownIn(item'[j], f)
        /\ Shown(j, f) = ShownIn(item[j], f)
    BY DEF Shown, ShownIn
  <2>6. \A j \in Keys : \A f \in Fields : Shown(j, f)' \in {0, Shown(j, f)}
    <3>1. SUFFICES ASSUME NEW j \in Keys, NEW f \in Fields
                   PROVE  ShownIn(item'[j], f) \in {0, ShownIn(item[j], f)}
      BY <2>5
    <3>2. item'[j] = IF j = k THEN part ELSE IF j \in wiped THEN Zeroed ELSE item[j]
      BY <2>1
    <3>3. QED
      BY <2>3, <3>2, ZeroedRecord
  <2>7. QED
    BY <1>1, <1>3, <2>1, <2>4, <2>6, HalfWipedIInv
<1>4. QED
  BY <1>2, <1>3 DEF CrashInClear

(* A record of which only some of the fields were copied: they are zero or  *)
(* what the message in work says; the others are what was there before.     *)
LEMMA CrashInSetIInv ==
  ASSUME IInv, CrashInSet
  PROVE  IInv'
<1> DEFINE N == Latest
<1>1. pc = "create" /\ key \notin valid /\ Restart
  BY DEF CrashInSet
<1>2. CASE Wipe
  BY <1>1, <1>2, WipedIInv
<1>3. CASE /\ valid' = valid \cup {key} /\ listed' = listed \cup {key}
           /\ \E part \in Between(item[key], Created) : item' = [item EXCEPT ![key] = part]
           /\ UNCHANGED <<cleared, halfWiped>>
  <2>1. /\ N \in Nat \ {0} /\ N' = N /\ InWork = {N} /\ InWork' = {} /\ key \in Keys
        /\ received[N] \in Accepted /\ key = KeyOf(received[N])
        /\ NextSave \in SavesOf(received[N]) /\ N \in 0 .. MaxQuotes
    <3>1. /\ N \in Nat \ {0} /\ saves # {} /\ saves \subseteq SavesOf(received[N])
          /\ key = KeyOf(received[N])
      BY <1>1, Bounds DEF IInv, Working
    <3>2. received[N] \in Accepted /\ N \in 0 .. MaxQuotes
      BY <3>1, Bounds DEF IInv
    <3>3. key \in Keys
      BY <3>1, <3>2, QuoteSays
    <3>4. saves \in SUBSET Nat
      BY <3>1, SavesAre
    <3>5. NextSave \in saves
      BY <3>1, <3>4, MinOf DEF NextSave
    <3>6. N' = N /\ InWork = {N} /\ InWork' = {}
      BY <1>1, RestartEnds DEF Latest, InWork
    <3>7. QED
      BY <3>1, <3>2, <3>3, <3>5, <3>6
  <2> DEFINE E == MakeElement(received[N])
  <2>2. E \in Record /\ \A f \in Fields : ShownIn(E, f) = 0
    <3>1. received[N].market \in Values /\ received[N].code \in Values
      BY <2>1, QuoteSays
    <3>2. E \in Record /\ E.origTime = Zeroed.origTime /\ E.price = Zeroed.price
      BY <3>1, ZeroedRecord DEF MakeElement, Record
    <3>3. QED
      BY <3>2, ZeroedRecord DEF ShownIn
  <2>3. /\ Created \in Record
        /\ \A f \in Fields :
             \/ ShownIn(Created, f) = 0
             \/ NextSave # 0 /\ FieldOf(N, NextSave) = f
                /\ ShownIn(Created, f) = ValueOf(N, NextSave)
    <3> HIDE DEF E
    <3>1. Created = Put(E, N, NextSave)
      BY DEF Created, E
    <3>2. QED
      BY <2>1, <2>2, <3>1, PutOne
  <2>4. item \in [Keys -> Record] /\ item[key] \in Record
    BY <2>1 DEF IInv, Shape
  <2>5. PICK r : /\ item' = [item EXCEPT ![key] = r] /\ r \in Record
                 /\ \A f \in Fields : ShownIn(r, f) \in {ShownIn(Created, f), Shown(key, f)}
    <3>1. PICK part \in Between(item[key], Created) : item' = [item EXCEPT ![key] = part]
      BY <1>3
    <3>2. /\ part \in Record
          /\ \A f \in Fields : ShownIn(part, f) \in {ShownIn(Created, f),
             ShownIn(item[key], f)}
      BY <2>3, <2>4, BetweenIs
    <3>3. \A f : Shown(key, f) = ShownIn(item[key], f)
      BY DEF Shown, ShownIn
    <3>4. QED
      BY <3>1, <3>2, <3>3
  <2>6. \A k \in Keys : item'[k] = IF k = key THEN r ELSE item[k]
    BY <2>4, <2>5
  <2>7. /\ pc' = "idle" /\ saves' = {} /\ cut' = cut \cup {N} /\ died' = died \cup {N}
        /\ holder' = "nobody" /\ UNCHANGED <<received, cleared>>
    BY <1>1, <1>3, <2>1, RestartEnds
  <2>8. Shape'
    <3>1. item' \in [Keys -> Record] /\ valid' \subseteq Keys /\ listed' \subseteq valid'
      BY <1>3, <2>1, <2>4, <2>5 DEF IInv, Shape
    <3>2. \A k \in Keys : cleared[k] \in Nat /\ cleared[k] <= Finished'
      <4>1. Finished \in Int /\ Finished' \in Int /\ Finished <= Finished'
        BY <2>1, <2>7 DEF Finished
      <4>2. QED
        BY <4>1, Bounds DEF IInv
    <3>3. died' \subseteq cut' /\ cut' \subseteq 1 .. N
      BY <2>1, <2>7 DEF IInv, Shape
    <3>4. QED
      BY <1>3, <2>1, <2>7, <3>1, <3>2, <3>3 DEF IInv, Shape
  <2>9. Working'
    BY <2>7 DEF Working
  <2>10. NamesItsKey'
    <3>1. \A k : k = key => LeftUnnamed(k)'
      <4>0. SUFFICES ASSUME NEW k, k = key PROVE LeftUnnamed(k)'
        OBVIOUS
      <4>1. N \in died' /\ KeyOf(received'[N]) = k /\ Latest' = N
        BY <2>1, <2>7, <4>0
      <4>2. \A m \in N + 1 .. Latest' : FALSE
        BY <2>1, <4>1
      <4> HIDE DEF N
      <4>3. \A m \in N + 1 .. Latest' : KeyOf(received'[m]) = k => m \in died' \cup InWork'
        BY <4>2
      <4>4. \E n \in died' : /\ KeyOf(received'[n]) = k
                            /\ \A m \in n + 1 .. Latest' :
                                 KeyOf(received'[m]) = k => m \in died' \cup InWork'
        BY <4>1, <4>3
      <4>5. QED
        BY <4>4 DEF LeftUnnamed, NotMended
    <3>2. \A k \in valid' : k # key => k \in valid /\ item'[k] = item[k]
      BY <1>3, <2>6 DEF IInv, Shape
    <3>3. died \subseteq died' /\ died \cup InWork \subseteq died' \cup InWork'
      BY <2>1, <2>7
    <3>4. SUFFICES ASSUME NEW k \in valid', k # key PROVE Named(k)' \/ LeftUnnamed(k)'
      BY <3>1 DEF NamesItsKey
    <3>5. k \in valid /\ Named(k)' = Named(k)
      BY <3>2, <3>4 DEF Named
    <3>6. LeftUnnamed(k) => LeftUnnamed(k)'
      BY <1>3, <2>7, <3>3, UnnamedKept
    <3>7. QED
      BY <3>5, <3>6 DEF IInv, NamesItsKey
  <2>11. AllCurrent'
    <3>1. (cut \cup InWork)' = cut \cup InWork
      BY <2>1, <2>7
    <3>2. SUFFICES ASSUME NEW k \in Keys
                   PROVE  /\ k \in valid' \/ MayBeGone(k, -1)'
                          /\ \A f \in Fields : IsCurrent(k, f)'
      BY DEF AllCurrent
    <3>3. k \in valid' \/ MayBeGone(k, -1)'
      BY <1>3, <2>7, <3>1, SameOpen DEF IInv, AllCurrent
    <3>4. ASSUME NEW f \in Fields PROVE IsCurrent(k, f)'
      <4>1. CASE Shown(k, f)' = Shown(k, f)
        BY <1>3, <2>7, <3>1, <4>1, SameOpen DEF IInv, AllCurrent
      <4>2. CASE k = key /\ Shown(k, f)' = 0
        BY <1>1, <1>3, <2>7, <3>1, <4>2, SameOpen, NothingSettled DEF IInv, IsCurrent
      <4>3. CASE /\ k = key /\ NextSave # 0 /\ FieldOf(N, NextSave) = f
                 /\ Shown(k, f)' = ValueOf(N, NextSave)
        <5>1. NextSave \in SavesFor(N, k, f)
          BY <2>1, <4>3 DEF SavesFor
        <5>2. N \in Open(k, f)
          BY <1>1, <4>3, <5>1, WorkIsOpen DEF IInv
        <5>3. Open(k, f)' = Open(k, f)
          BY <2>7, <3>1, SameOpen
        <5>4. SavesFor(N, k, f)' = SavesFor(N, k, f)
          BY <2>1, <2>7 DEF SavesFor, FieldOf
        <5>5. \A j : ValueOf(N, j)' = ValueOf(N, j)
          BY <2>1, <2>7 DEF ValueOf
        <5>6. QED
          BY <2>1, <4>3, <5>1, <5>2, <5>3, <5>4, <5>5 DEF IsCurrent
      <4>4. Shown(k, f)' = IF k = key THEN ShownIn(r, f) ELSE Shown(k, f)
        BY <2>6 DEF Shown, ShownIn
      <4>5. QED
        BY <2>3, <2>5, <4>1, <4>2, <4>3, <4>4
    <3>5. QED
      BY <3>3, <3>4
  <2>12. Dumping' /\ DumpIsSnapshot'
    <3>1. (halfWiped # -1 \/ listed = valid)'
      BY <1>3 DEF IInv, Dumping
    <3>2. QED
      BY <1>1, <3>1, RestartEnds
  <2>13. QED
    BY <2>8, <2>9, <2>10, <2>11, <2>12 DEF IInv
<1>4. QED
  BY <1>2, <1>3 DEF CrashInSet

-----------------------------------------------------------------------------
LEMMA StutterIInv ==
  ASSUME IInv, UNCHANGED vars
  PROVE  IInv'
<1>1. /\ UNCHANGED <<table, business, dumper>> /\ UNCHANGED <<clearing, ending>>
      /\ UNCHANGED holder
  BY DEF vars
<1>2. /\ UNCHANGED <<valid, listed, item, cleared, received, halfWiped>>
      /\ UNCHANGED <<pc, key, saves, cut, died>>
      /\ UNCHANGED <<toVisit, printed, atDump, holder>>
  BY <1>1 DEF table, business, dumper, clearing, ending
<1>3. holder' \in {"nobody", "dump"}
  BY <1>2 DEF IInv, Shape
<1>4. Shape' /\ Working' /\ NamesItsKey' /\ AllCurrent'
  BY <1>2, <1>3, Resting DEF IInv
<1>5. Dumping' /\ DumpIsSnapshot'
  <2>1. Written' = Written
    BY <1>2 DEF Written, Put, Latest, NextSave
  <2>2. QED
    BY <1>2, <2>1 DEF IInv, Dumping, DumpIsSnapshot
<1>6. QED
  BY <1>4, <1>5 DEF IInv

LEMMA NextIInv ==
  ASSUME IInv, [Next]_vars
  PROVE  IInv'
<1>1. ASSUME NEW q \in Accepted, Parse(q) PROVE IInv'
  BY <1>1, ParseIInv
<1>2. CASE Lookup
  BY <1>2, LookupIInv
<1>3. CASE Create
  BY <1>3, CreateIInv
<1>4. CASE Write
  BY <1>4, WriteIInv
<1>5. CASE Dump
  BY <1>5, DumpIInv
<1>6. ASSUME NEW k \in Keys, DumpRecord(k) PROVE IInv'
  BY <1>6, DumpRecordIInv
<1>7. CASE DumpDone
  BY <1>7, DumpDoneIInv
<1>8. CASE Clear
  BY <1>8, ClearIInv
<1>9. CASE Crash
  BY <1>9, CrashIInv
<1>10. CASE CrashInSet
  BY <1>10, CrashInSetIInv
<1>11. CASE CrashInClear
  BY <1>11, CrashInClearIInv
<1>12. CASE UNCHANGED vars
  BY <1>12, StutterIInv
<1>13. QED
  BY <1>1, <1>2, <1>3, <1>4, <1>5, <1>6, <1>7, <1>8, <1>9, <1>10, <1>11, <1>12 DEF Next

(* The inductive invariant: what parse(), dump(), clear() and the ends of   *)
(* the process leave in the table, at every moment.                         *)
THEOREM Invariance == Spec => []IInv
<1>1. Init => IInv
  BY InitIInv
<1>2. IInv /\ [Next]_vars => IInv'
  BY NextIInv
<1>3. QED
  BY <1>1, <1>2, PTL DEF Spec

(* Whichever save of parse() creates a record, and whatever clear() and the *)
(* ends of the process do in between, a record names the stock whose key it *)
(* has, but for one that the process died in creating and one that a clear() *)
(* left half wiped in which it died, until the next quote of that stock.    *)
THEOREM RecordsNameTheirKeys == Spec => []NamesItsKey
<1>1. IInv => NamesItsKey
  BY DEF IInv
<1>2. QED
  BY <1>1, Invariance, PTL

(* Every field of every record shows what the latest quote since the last   *)
(* clear() said of it, save what clear(), the end of the process or this    *)
(* moment cut off; and where the process died within a clear(), what was    *)
(* said before may be gone, of a whole record or of single fields.          *)
THEOREM TableIsCurrent == Spec => []BookIsCurrent
<1>1. IInv => BookIsCurrent
  BY DEF IInv, AllCurrent, BookIsCurrent
<1>2. QED
  BY <1>1, Invariance, PTL

(* A dump shows each record once, as the table was when forEach() took the  *)
(* mutex, but for the one field whose address parse() already had.          *)
THEOREM DumpsAreSnapshots == Spec => []DumpIsSnapshot
<1>1. IInv => DumpIsSnapshot
  BY DEF IInv
<1>2. QED
  BY <1>1, Invariance, PTL

-----------------------------------------------------------------------------
(* The structures: where their fields are, and that they are read there. *)

(* What a layout has to be: the names of its fields differ, and those that  *)
(* the client turns round are its numbers.                                  *)
Laid(layout, numbers) ==
  /\ Len(layout) \in Nat /\ DOMAIN layout = 1 .. Len(layout)
  /\ \A i \in DOMAIN layout : layout[i].bytes \in Nat
  /\ \A i \in DOMAIN layout : layout[i].number <=> layout[i].name \in numbers
  /\ \A i, j \in DOMAIN layout : layout[i].name = layout[j].name => i = j

LEMMA LaidFields ==
  ASSUME NEW layout, NEW numbers, Laid(layout, numbers)
  PROVE  /\ Len(layout) \in Nat /\ DOMAIN layout = 1 .. Len(layout)
         /\ \A i \in 1 .. Len(layout) : layout[i].bytes \in Nat
BY DEF Laid

(* Each field ends where the next one begins. *)
LEMMA BoundIs ==
  ASSUME NEW layout, NEW numbers, Laid(layout, numbers)
  PROVE  /\ Bound(layout, 0) = 0 /\ \A i \in 0 .. Len(layout) : Bound(layout, i) \in Nat
         /\ \A i \in 1 .. Len(layout) :
              Bound(layout, i) = Bound(layout, i - 1) + layout[i].bytes
<1> DEFINE n == Len(layout)
           g == [i \in 1 .. n |-> [x \in Nat |-> x + layout[i].bytes]]
           F == CHOOSE F : F = [i \in 0 .. n |-> IF i = 0 THEN 0 ELSE F[i - 1] + layout[i].bytes]
<1>1. n \in Nat /\ \A i \in 1 .. n : layout[i].bytes \in Nat
  BY LaidFields
<1>2. g \in [1 .. n -> [Nat -> Nat]]
  BY <1>1
<1>3. PICK r : Recursive(r, n, Nat, 0, g)
  <2> HIDE DEF n, g
  <2>1. QED
    BY <1>1, <1>2, Recursion
<1>4. /\ r \in [0 .. n -> Nat] /\ r[0] = 0
      /\ \A i \in 1 .. n : r[i - 1] \in Nat /\ r[i] = g[i][r[i - 1]]
  <2> HIDE DEF n, g
  <2>1. QED
    BY <1>1, <1>3, RecursiveStep
<1>5. \A i \in 1 .. n : r[i] = r[i - 1] + layout[i].bytes
  BY <1>4
<1>6. r = [i \in 0 .. n |-> IF i = 0 THEN 0 ELSE r[i - 1] + layout[i].bytes]
  <2> HIDE DEF n
  <2>1. \A i \in 0 .. n : r[i] = IF i = 0 THEN 0 ELSE r[i - 1] + layout[i].bytes
    BY <1>1, <1>4, <1>5
  <2>2. QED
    BY <1>4, <2>1
<1>7. F = [i \in 0 .. n |-> IF i = 0 THEN 0 ELSE F[i - 1] + layout[i].bytes]
  <2> HIDE DEF n
  <2>1. QED
    BY <1>6
<1>8. \A i \in 0 .. n : Bound(layout, i) = F[i]
  BY DEF Bound
<1> HIDE DEF F
<1>9. F[0] = 0 /\ \A i \in 1 .. n : F[i] = F[i - 1] + layout[i].bytes
  <2> HIDE DEF n
  <2>1. \A i \in 0 .. n : F[i] = IF i = 0 THEN 0 ELSE F[i - 1] + layout[i].bytes
    BY <1>7
  <2>2. QED
    BY <1>1, <2>1
<1> DEFINE T == {i \in 0 .. n : F[i] \in Nat}
<1>10. 0 .. n \subseteq T
  <2> HIDE DEF n
  <2>1. 0 \in T
    BY <1>1, <1>9
  <2>2. ASSUME NEW i \in 1 .. n, i - 1 \in T PROVE i \in T
    <3>1. F[i - 1] \in Nat /\ layout[i].bytes \in Nat
      BY <1>1, <2>2
    <3>2. F[i] \in Nat
      BY <1>9, <3>1
    <3>3. QED
      BY <1>1, <3>2
  <2> HIDE DEF T
  <2>3. QED
    BY <1>1, <2>1, <2>2, Along
<1>11. \A i \in 1 .. n : i \in 0 .. n /\ i - 1 \in 0 .. n
  BY <1>1
<1>12. 0 \in 0 .. n
  BY <1>1
<1> HIDE DEF n
<1>13. QED
  BY <1>8, <1>9, <1>10, <1>11, <1>12 DEF n

(* The size of a structure. *)
LEMMA SizeIs ==
  ASSUME NEW layout, NEW numbers, Laid(layout, numbers)
  PROVE  Size(layout) \in Nat
<1>1. Len(layout) \in 0 .. Len(layout)
  BY LaidFields
<1>2. QED
  BY <1>1, BoundIs DEF Size

(* The bytes of a structure in a message. *)
LEMMA EncodeIs ==
  ASSUME NEW layout, NEW numbers, Laid(layout, numbers), NEW fields \in Fillings(layout)
  PROVE  /\ Encode(layout, fields) \in Seq(Byte)
            /\ Len(Encode(layout, fields)) = Size(layout)
         /\ \A i \in 1 .. Len(layout) :
              LET field == fields[layout[i].name]
                  sent == IF layout[i].number THEN Reverse(field) ELSE field
              IN  /\ field \in Seq(Byte) /\ Len(field) = layout[i].bytes
                  /\ Bound(layout, i) <= Size(layout)
                  /\ \A p \in 1 .. layout[i].bytes :
                       Encode(layout, fields)[Bound(layout, i - 1) + p] = sent[p]
<1> DEFINE n == Len(layout)
           field(i) == fields[layout[i].name]
           sent(i) == IF layout[i].number THEN Reverse(field(i)) ELSE field(i)
           s == [i \in DOMAIN layout |-> sent(i)]
<1>1. n \in Nat /\ DOMAIN layout = 1 .. n /\ \A i \in 1 .. n : layout[i].bytes \in Nat
  BY LaidFields
<1>2. ASSUME NEW i \in 1 .. n
      PROVE  /\ field(i) \in Seq(Byte) /\ Len(field(i)) = layout[i].bytes
             /\ sent(i) \in Seq(Byte) /\ Len(sent(i)) = layout[i].bytes
  <2>1. layout[i].name \in Names(layout)
    BY <1>1 DEF Names
  <2>2. field(i) \in Seq(Byte) /\ Len(field(i)) = layout[i].bytes
    BY <1>1, <2>1 DEF Fillings
  <2> HIDE DEF field
  <2>3. Reverse(field(i)) \in Seq(Byte) /\ Len(Reverse(field(i))) = Len(field(i))
    BY <2>2, ReverseIs
  <2>4. QED
    BY <2>2, <2>3
<1>3. /\ s \in Seq(Seq(Byte)) /\ Len(s) = n
      /\ \A i \in 1 .. n : s[i] = sent(i)
  <2> HIDE DEF sent, n
  <2>1. s \in [1 .. n -> Seq(Byte)]
    BY <1>1, <1>2
  <2>2. s \in Seq(Seq(Byte)) /\ Len(s) = n
    BY <1>1, <2>1
  <2>3. QED
    BY <1>1, <2>2
<1>4. Encode(layout, fields) = FlattenSeq(s)
  BY DEF Encode
<1> HIDE DEF s, sent
<1>5. PICK e \in [0 .. n -> Nat] :
        /\ e[0] = 0 /\ Len(FlattenSeq(s)) = e[n] /\ FlattenSeq(s) \in Seq(Byte)
        /\ \A i \in 1 .. n :
             /\ e[i] = e[i - 1] + Len(s[i]) /\ e[i] <= Len(FlattenSeq(s))
             /\ \A p \in 1 .. Len(s[i]) : FlattenSeq(s)[e[i - 1] + p] = s[i][p]
  <2> HIDE DEF n
  <2>1. /\ FlattenSeq(s) \in Seq(Byte)
        /\ \E e \in [0 .. Len(s) -> Nat] :
              /\ e[0] = 0 /\ Len(FlattenSeq(s)) = e[Len(s)]
              /\ \A i \in 1 .. Len(s) :
                   /\ e[i] = e[i - 1] + Len(s[i]) /\ e[i] <= Len(FlattenSeq(s))
                   /\ \A p \in 1 .. Len(s[i]) : FlattenSeq(s)[e[i - 1] + p] = s[i][p]
    <3>1. s \in Seq(Seq(Byte))
      BY <1>3
    <3>2. QED
      BY <3>1, FlattenParts, Zenon
  <2>2. QED
    BY <1>3, <2>1
<1> DEFINE T == {i \in 0 .. n : e[i] = Bound(layout, i)}
<1>6. /\ Bound(layout, 0) = 0
      /\ \A i \in 1 .. n : Bound(layout, i) = Bound(layout, i - 1) + layout[i].bytes
  BY BoundIs
<1>7. 0 .. n \subseteq T
  <2> HIDE DEF n
  <2>1. 0 \in T
    BY <1>1, <1>5, <1>6
  <2>2. ASSUME NEW i \in 1 .. n, i - 1 \in T PROVE i \in T
    <3>1. e[i] = e[i - 1] + layout[i].bytes /\ e[i - 1] = Bound(layout, i - 1)
      BY <1>2, <1>3, <1>5, <2>2
    <3>2. e[i] = Bound(layout, i)
      BY <1>6, <3>1
    <3>3. QED
      BY <1>1, <3>2
  <2> HIDE DEF T
  <2>3. QED
    BY <1>1, <2>1, <2>2, Along
<1>8. /\ \A i \in 1 .. n : e[i] = Bound(layout, i) /\ e[i - 1] = Bound(layout, i - 1)
      /\ e[n] = Size(layout)
  <2>1. \A i \in 1 .. n : i \in 0 .. n /\ i - 1 \in 0 .. n
    BY <1>1
  <2>2. n \in 0 .. n
    BY <1>1
  <2>3. QED
    BY <1>7, <2>1, <2>2 DEF Size
<1>9. ASSUME NEW i \in 1 .. n
      PROVE  /\ Bound(layout, i) <= Size(layout)
             /\ \A p \in 1 .. layout[i].bytes :
                  Encode(layout, fields)[Bound(layout, i - 1) + p] = sent(i)[p]
  <2>1. s[i] = sent(i) /\ Len(s[i]) = layout[i].bytes
    BY <1>2, <1>3
  <2>2. \A p \in 1 .. Len(s[i]) : FlattenSeq(s)[e[i - 1] + p] = s[i][p]
    BY <1>5
  <2>3. QED
    BY <1>4, <1>5, <1>8, <2>1, <2>2
<1>10. QED
  BY <1>2, <1>4, <1>5, <1>8, <1>9 DEF sent

(* A structure is read where it was put. *)
LiesAt(layout, fields, body, from) ==
  /\ from + Size(layout) <= Len(body)
  /\ \A p \in 1 .. Size(layout) : body[from + p] = Encode(layout, fields)[p]

LEMMA StructIs ==
  ASSUME NEW layout, NEW numbers, Laid(layout, numbers), NEW fields \in Fillings(layout),
         NEW body \in Seq(Byte), NEW from \in Nat, LiesAt(layout, fields, body, from)
  PROVE  Struct(layout, body, from, numbers) = fields
<1> DEFINE read(name) ==
             LET at == Place(layout, name)
                 field == Read(body, from + Bound(layout, at - 1), layout[at].bytes)
             IN  IF name \in numbers THEN Reverse(field) ELSE field
<1>1. /\ Len(layout) \in Nat /\ DOMAIN layout = 1 .. Len(layout)
      /\ \A i \in 1 .. Len(layout) : layout[i].bytes \in Nat
  BY LaidFields
<1>2. ASSUME NEW name \in Names(layout)
      PROVE  read(name) = fields[name]
  <2> DEFINE i == Place(layout, name)
             field == fields[name]
             sent == IF layout[i].number THEN Reverse(field) ELSE field
             start == Bound(layout, i - 1)
             size == layout[i].bytes
             raw == Read(body, from + start, size)
  <2>1. i \in 1 .. Len(layout) /\ layout[i].name = name
    BY <1>1 DEF Names, Place
  <2>2. layout[i].number <=> name \in numbers
    BY <1>1, <2>1 DEF Laid
  <2> HIDE DEF i
  <2>3. /\ field \in Seq(Byte) /\ Len(field) = size /\ Bound(layout, i) <= Size(layout)
        /\ \A p \in 1 .. size : Encode(layout, fields)[start + p] = sent[p]
    BY <2>1, EncodeIs
  <2>4. /\ start \in Nat /\ size \in Nat /\ Bound(layout, i) = start + size
        /\ Size(layout) \in Nat
    <3>1. i - 1 \in 0 .. Len(layout) /\ Len(layout) \in 0 .. Len(layout)
      BY <1>1, <2>1
    <3>2. QED
      BY <1>1, <2>1, <3>1, BoundIs DEF Size
  <2>5. sent \in Seq(Byte) /\ Len(sent) = size
    BY <2>3, ReverseIs
  <2> HIDE DEF start, size, sent, field
  <2>6. ASSUME NEW p \in 1 .. size
        PROVE  /\ from + start + p \in DOMAIN body
               /\ body[from + start + p] = sent[p]
    <3>1. start + p \in 1 .. Size(layout)
      BY <2>3, <2>4
    <3>2. body[from + (start + p)] = Encode(layout, fields)[start + p]
      BY <3>1 DEF LiesAt
    <3>3. from + start + p = from + (start + p)
      BY <2>4
    <3>4. from + (start + p) \in 1 .. Len(body)
      BY <2>4, <3>1 DEF LiesAt
    <3>5. QED
      BY <2>3, <3>2, <3>3, <3>4
  <2>7. raw = [p \in 1 .. size |-> sent[p]]
    BY <2>6 DEF Read
  <2>8. sent = [p \in 1 .. size |-> sent[p]]
    BY <2>5
  <2>9. raw = sent
    BY <2>7, <2>8
  <2>10. read(name) = IF name \in numbers THEN Reverse(raw) ELSE raw
    BY DEF i, start, size
  <2> HIDE DEF raw, read
  <2>11. CASE name \in numbers
    <3>1. sent = Reverse(field)
      BY <2>2, <2>11 DEF sent
    <3>2. QED
      BY <2>3, <2>9, <2>10, <2>11, <3>1, ReverseIs DEF field
  <2>12. CASE name \notin numbers
    BY <2>2, <2>9, <2>10, <2>12 DEF sent, field
  <2>13. QED
    BY <2>11, <2>12
<1>3. fields = [name \in Names(layout) |-> fields[name]]
  BY DEF Fillings
<1>4. Struct(layout, body, from, numbers) = [name \in Names(layout) |-> read(name)]
  BY DEF Struct
<1> HIDE DEF read
<1>5. QED
  BY <1>2, <1>3, <1>4

(* The sizes of the numbers. *)
LEMMA Widths ==
  /\ Int16 \in Nat /\ Int32 \in Nat \ {0} /\ Int64 \in Nat /\ Int64 = Int32 + Int32
  /\ CodeChars \in Nat /\ MaxEntries \in Nat \ {0}
<1>1. WordBytes \in Nat \ {0}
  BY BytesAssumption
<1>2. WordBytes \div 2 \in Nat
  BY <1>1, DivNat
<1>3. QED
  BY <1>1, <1>2, SizesAssumption DEF Int16, Int32, Int64

(* The structures of XSHETypes.h are such layouts. *)
LEMMA HeadLaid == Laid(MDHead, MDNumbers)
<1>1. DOMAIN MDHead = 1 .. 10 /\ Len(MDHead) = 10
  BY DEF MDHead
<1>2. \A i \in DOMAIN MDHead : MDHead[i].bytes \in Nat
  BY <1>1, Widths DEF MDHead, Numeric, Text
<1>3. \A i \in DOMAIN MDHead : MDHead[i].number <=> MDHead[i].name \in MDNumbers
  BY <1>1 DEF MDHead, Numeric, Text, MDNumbers
<1>4. \A i, j \in DOMAIN MDHead : MDHead[i].name = MDHead[j].name => i = j
  BY <1>1 DEF MDHead, Numeric, Text
<1>5. QED
  BY <1>1, <1>2, <1>3, <1>4 DEF Laid

LEMMA StatusLaid == Laid(MarketStatus, MarketStatusNumbers)
<1>1. DOMAIN MarketStatus = 1 .. 12 /\ Len(MarketStatus) = 12
  BY DEF MarketStatus
<1>2. \A i \in DOMAIN MarketStatus : MarketStatus[i].bytes \in Nat
  BY <1>1, Widths DEF MarketStatus, Numeric, Text
<1>3. \A i \in DOMAIN MarketStatus :
        MarketStatus[i].number <=> MarketStatus[i].name \in MarketStatusNumbers
  BY <1>1 DEF MarketStatus, Numeric, Text, MarketStatusNumbers
<1>4. \A i, j \in DOMAIN MarketStatus : MarketStatus[i].name = MarketStatus[j].name => i = j
  BY <1>1 DEF MarketStatus, Numeric, Text
<1>5. QED
  BY <1>1, <1>2, <1>3, <1>4 DEF Laid

LEMMA HkEntryLaid == Laid(HkMDEntry, HkMDEntryNumbers) /\ Len(HkMDEntry) = 4
<1>1. DOMAIN HkMDEntry = 1 .. 4 /\ Len(HkMDEntry) = 4
  BY DEF HkMDEntry
<1>2. \A i \in DOMAIN HkMDEntry : HkMDEntry[i].bytes \in Nat
  BY <1>1, Widths DEF HkMDEntry, Numeric, Text
<1>3. \A i \in DOMAIN HkMDEntry : HkMDEntry[i].number <=> HkMDEntry[i].name \in HkMDEntryNumbers
  BY <1>1 DEF HkMDEntry, Numeric, Text, HkMDEntryNumbers
<1>4. \A i, j \in DOMAIN HkMDEntry : HkMDEntry[i].name = HkMDEntry[j].name => i = j
  BY <1>1 DEF HkMDEntry, Numeric, Text
<1>5. QED
  BY <1>1, <1>2, <1>3, <1>4 DEF Laid

LEMMA EntryLaid ==
  /\ Laid(MDEntry, MDEntryNumbers) /\ Len(MDEntry) = 6 /\ MDEntry[6].bytes = Int32
  /\ DOMAIN MDEntry = 1 .. 6 /\ MDEntry[2] = HkMDEntry[2]
<1> DEFINE more == <<Numeric("NumberOfOrders", Int64), Numeric("NoOrders", Int32)>>
<1>1. HkMDEntry \in Seq({HkMDEntry[i] : i \in 1 .. 4}) /\ Len(HkMDEntry) = 4
  BY DEF HkMDEntry
<1>2. more \in Seq({more[1], more[2]}) /\ Len(more) = 2
  OBVIOUS
<1> DEFINE F == {HkMDEntry[i] : i \in 1 .. 4} \cup {more[1], more[2]}
<1>3. /\ Len(MDEntry) = 6 /\ DOMAIN MDEntry = 1 .. 6
      /\ MDEntry[1] = HkMDEntry[1] /\ MDEntry[2] = HkMDEntry[2] /\ MDEntry[3] = HkMDEntry[3]
      /\ MDEntry[4] = HkMDEntry[4] /\ MDEntry[5] = more[1] /\ MDEntry[6] = more[2]
  <2>1. MDEntry = HkMDEntry \o more
    BY DEF MDEntry
  <2>2. HkMDEntry \in Seq(F) /\ more \in Seq(F)
    BY <1>1, <1>2
  <2> HIDE DEF more, F
  <2>3. /\ MDEntry \in Seq(F) /\ Len(MDEntry) = 4 + 2
        /\ \A i \in 1 .. 4 : MDEntry[i] = HkMDEntry[i]
        /\ \A i \in 1 .. 2 : MDEntry[4 + i] = more[i]
    <3>1. /\ HkMDEntry \o more \in Seq(F)
          /\ Len(HkMDEntry \o more) = Len(HkMDEntry) + Len(more)
          /\ \A i \in 1 .. Len(HkMDEntry) : (HkMDEntry \o more)[i] = HkMDEntry[i]
          /\ \A i \in 1 .. Len(more) : (HkMDEntry \o more)[Len(HkMDEntry) + i] = more[i]
      BY <2>2, ConcatIs
    <3>2. QED
      BY <1>1, <1>2, <2>1, <3>1
  <2>4. QED
    BY <2>3
<1>4. \A i \in DOMAIN MDEntry : MDEntry[i].bytes \in Nat
  BY <1>3, Widths DEF HkMDEntry, Numeric, Text
<1>5. \A i \in DOMAIN MDEntry : MDEntry[i].number <=> MDEntry[i].name \in MDEntryNumbers
  BY <1>3 DEF HkMDEntry, Numeric, Text, MDEntryNumbers, HkMDEntryNumbers
<1>6. \A i, j \in DOMAIN MDEntry : MDEntry[i].name = MDEntry[j].name => i = j
  BY <1>3 DEF HkMDEntry, Numeric, Text
<1>7. QED
  BY <1>3, <1>4, <1>5, <1>6 DEF Laid, Numeric

LEMMA EventLaid == Laid(ComplexEvent, ComplexEventNumbers)
/\ Size(ComplexEvent) = Int64 + Int64
<1>1. DOMAIN ComplexEvent = 1 .. 2 /\ Len(ComplexEvent) = 2
  BY DEF ComplexEvent
<1>2. Laid(ComplexEvent, ComplexEventNumbers)
  BY <1>1, Widths DEF ComplexEvent, Numeric, ComplexEventNumbers, Laid
<1>3. ComplexEvent[1].bytes = Int64 /\ ComplexEvent[2].bytes = Int64
  BY DEF ComplexEvent, Numeric
<1>4. /\ Bound(ComplexEvent, 0) = 0
      /\ \A i \in 1 .. 2 :
           Bound(ComplexEvent, i) = Bound(ComplexEvent, i - 1) + ComplexEvent[i].bytes
  BY <1>1, <1>2, BoundIs
<1>5. Bound(ComplexEvent, 1) = 0 + Int64
      /\ Bound(ComplexEvent, 2) = Bound(ComplexEvent, 1) + Int64
  BY <1>3, <1>4
<1>6. QED
  BY <1>1, <1>2, <1>5, Widths DEF Size

LEMMA StatLaid == Laid(StatHead, {"OrigTime", "ChannelNo"})
<1>1. DOMAIN StatHead = 1 .. 2 /\ Len(StatHead) = 2
  BY DEF StatHead
<1>2. QED
  BY <1>1, Widths DEF StatHead, Numeric, Laid

LEMMA StatEntryLaid == Laid(ChannelStatEntry, {"StockNum"})
<1>1. DOMAIN ChannelStatEntry = 1 .. 3 /\ Len(ChannelStatEntry) = 3
  BY DEF ChannelStatEntry
<1>2. QED
  BY <1>1, Widths DEF ChannelStatEntry, Numeric, Text, Laid

(* No layout is smaller than one of its fields. *)
LEMMA HoldsField ==
  ASSUME NEW layout, NEW numbers, Laid(layout, numbers), NEW i \in 1 .. Len(layout)
  PROVE  Size(layout) \in Nat /\ layout[i].bytes <= Size(layout)
<1> DEFINE n == Len(layout)
           T == {j \in 0 .. n : i <= j => layout[i].bytes <= Bound(layout, j)}
<1>1. n \in Nat /\ \A j \in 1 .. n : layout[j].bytes \in Nat
  BY LaidFields
<1>2. /\ \A j \in 0 .. n : Bound(layout, j) \in Nat
      /\ \A j \in 1 .. n : Bound(layout, j) = Bound(layout, j - 1) + layout[j].bytes
  BY BoundIs
<1> HIDE DEF n
<1>3. 0 .. n \subseteq T
  <2>1. 0 \in T
    BY <1>1 DEF n
  <2>2. ASSUME NEW j \in 1 .. n, j - 1 \in T PROVE j \in T
    <3>1. /\ Bound(layout, j) = Bound(layout, j - 1) + layout[j].bytes
          /\ Bound(layout, j - 1) \in Nat /\ layout[j].bytes \in Nat /\ j \in 0 .. n
      <4>1. j - 1 \in 0 .. n /\ j \in 0 .. n
        BY <1>1
      <4>2. QED
        BY <1>1, <1>2, <4>1
    <3>2. CASE i = j
      <4>1. layout[i].bytes <= Bound(layout, j)
        BY <3>1, <3>2
      <4>2. QED
        BY <3>1, <4>1
    <3>3. CASE i # j
      <4>1. layout[i].bytes \in Nat
        BY <1>1 DEF n
      <4>2. i <= j => layout[i].bytes <= Bound(layout, j - 1)
        <5>1. i <= j => i <= j - 1
          BY <1>1, <3>3 DEF n
        <5>2. QED
          BY <2>2, <5>1
      <4>3. i <= j => layout[i].bytes <= Bound(layout, j)
        BY <3>1, <4>1, <4>2
      <4>4. QED
        BY <3>1, <4>3
    <3>4. QED
      BY <3>2, <3>3
  <2> HIDE DEF T
  <2>3. QED
    BY <1>1, <2>1, <2>2, Along
<1>4. n \in T /\ i <= n /\ n \in 0 .. n
  BY <1>1, <1>3 DEF n
<1>5. QED
  BY <1>2, <1>4 DEF n, Size

(* Zeros are bytes. *)
LEMMA ZerosAre ==
  ASSUME NEW n \in Nat
  PROVE  Zeros(n) \in Seq(Byte) /\ Len(Zeros(n)) = n
<1>1. 0 \in Byte
  BY Constants
<1>2. QED
  BY <1>1 DEF Zeros

(* A number that is sent, and the number zero. *)
LEMMA WordSent ==
  ASSUME NEW k \in Nat, k < Weight(Int32)
  PROVE  /\ Reverse(Memory(k)) \in Seq(Byte) /\ Len(Reverse(Memory(k))) = Int32
         /\ Value(Reverse(Reverse(Memory(k)))) = k
<1>1. Int32 \in Nat /\ Memory(k) = Stored(k, Int32)
  BY Widths DEF Memory, Int32
<1>2. Memory(k) \in Seq(Byte) /\ Len(Memory(k)) = Int32 /\ Value(Memory(k)) = k
  BY <1>1, ValueStored
<1>3. QED
  BY <1>2, ReverseIs

LEMMA ZeroSent ==
  ASSUME NEW p \in 1 .. Int32
  PROVE  Reverse(Memory(0))[p] = 0
<1> DEFINE n == Int32
<1>1. n \in Nat /\ Memory(0) = Stored(0, n)
  BY Widths DEF Memory, Int32
<1>2. PICK f \in [0 .. n -> Nat] :
        /\ f[0] = 0 /\ Stored(0, n) = [i \in 1 .. n |-> f[i - 1] % ByteBase]
        /\ \A i \in 1 .. n : f[i] = f[i - 1] \div ByteBase
  <2> HIDE DEF n
  <2>1. 0 \in Nat
    OBVIOUS
  <2>2. QED
    BY <1>1, <2>1, StoredIs
<1>3. 0 \div ByteBase = 0 /\ 0 % ByteBase = 0
  <2>1. ByteBase \in Nat \ {0} /\ 0 = ByteBase * 0 + 0 /\ 0 \in 0 .. ByteBase - 1
    BY Constants
  <2>2. QED
    BY <2>1, DivModUnique
<1> DEFINE T == {j \in 0 .. n : f[j] = 0}
<1>4. 0 .. n \subseteq T
  <2> HIDE DEF n
  <2>1. 0 \in T
    BY <1>1, <1>2
  <2>2. ASSUME NEW i \in 1 .. n, i - 1 \in T PROVE i \in T
    BY <1>1, <1>2, <1>3, <2>2
  <2> HIDE DEF T
  <2>3. QED
    BY <1>1, <2>1, <2>2, Along
<1>5. Memory(0) = [i \in 1 .. n |-> 0]
  <2>1. \A i \in 1 .. n : i - 1 \in 0 .. n
    BY <1>1
  <2>2. \A i \in 1 .. n : f[i - 1] = 0
    BY <1>4, <2>1
  <2>3. QED
    BY <1>1, <1>2, <1>3, <2>2
<1>6. Memory(0) \in Seq(Byte) /\ Len(Memory(0)) = n
  BY <1>1, <1>5, Constants
<1>7. Reverse(Memory(0))[p] = Memory(0)[n - p + 1]
  BY <1>6, ReverseIs
<1>8. n - p + 1 \in 1 .. n
  BY <1>1
<1>9. QED
  BY <1>5, <1>7, <1>8

(* The bytes of a body, and zero behind it. *)
At(body, i) == IF i \in DOMAIN body THEN body[i] ELSE 0

(* The number that htnu32() makes of the bytes at a place. *)
LEMMA CountIs ==
  ASSUME NEW body, NEW from \in Nat, NEW k \in Nat, k < Weight(Int32),
         \A p \in 1 .. Int32 : At(body, from + p) = Reverse(Memory(k))[p]
  PROVE  Count(body, from) = k
<1>1. /\ Reverse(Memory(k)) \in Seq(Byte) /\ Len(Reverse(Memory(k))) = Int32
      /\ Value(Reverse(Reverse(Memory(k)))) = k
  BY WordSent
<1>2. Read(body, from, Int32) = [p \in 1 .. Int32 |-> Reverse(Memory(k))[p]]
  BY DEF Read, At
<1>3. Reverse(Memory(k)) = [p \in 1 .. Int32 |-> Reverse(Memory(k))[p]]
  BY <1>1
<1>4. QED
  BY <1>1, <1>2, <1>3 DEF Count

(* NoOrders, or zero where there is no such field. *)
LEMMA RevealedIs ==
  ASSUME NEW layout, NEW numbers, Laid(layout, numbers), NEW fields \in Fillings(layout)
  PROVE  Revealed(fields) \in Nat
<1>1. CASE "NoOrders" \in DOMAIN fields
  <2>1. fields.NoOrders \in Seq(Byte)
    BY <1>1 DEF Fillings
  <2>2. QED
    BY <1>1, <2>1, StoredValue DEF Revealed
<1>2. CASE "NoOrders" \notin DOMAIN fields
  BY <1>2 DEF Revealed
<1>3. QED
  BY <1>1, <1>2

(* A group of entries in a message. *)
LEMMA GroupIs ==
  ASSUME NEW layout, NEW numbers, Laid(layout, numbers),
         NEW entries \in Seq(Fillings(layout)), Len(entries) < Weight(Int32)
  PROVE  LET k == Len(entries)
             z == Size(layout)
             g == Group(layout, entries)
             none == \A i \in 1 .. k : Revealed(entries[i]) = 0
         IN  /\ k \in Nat /\ z \in Nat /\ g \in Seq(Byte)
             /\ \E s \in Nat : (s = 0 <=> none) /\ Len(g) = Int32 + k * z + Int64 * s
             /\ \A p \in 1 .. Int32 : g[p] = Reverse(Memory(k))[p]
             /\ none => \A i \in 1 .. k : \A p \in 1 .. z :
                          g[Int32 + (i - 1) * z + p] = Encode(layout, entries[i])[p]
<1> DEFINE k == Len(entries)
           z == Size(layout)
           g == Group(layout, entries)
           R(i) == Revealed(entries[i])
           piece(i) == Encode(layout, entries[i]) \o Zeros(Int64 * R(i))
           s == [i \in DOMAIN entries |-> piece(i)]
           all == FlattenSeq(s)
<1>1. k \in Nat /\ DOMAIN entries = 1 .. k
      /\ \A i \in 1 .. k : entries[i] \in Fillings(layout)
  BY ElementOfSeq, LenProperties
<1>2. z \in Nat
  BY SizeIs
<1>3. ASSUME NEW i \in 1 .. k
      PROVE  /\ R(i) \in Nat /\ Encode(layout, entries[i]) \in Seq(Byte)
             /\ piece(i) \in Seq(Byte) /\ Len(piece(i)) = z + Int64 * R(i)
             /\ \A p \in 1 .. z : piece(i)[p] = Encode(layout, entries[i])[p]
  <2> DEFINE x == Encode(layout, entries[i])
             y == Zeros(Int64 * R(i))
  <2>1. R(i) \in Nat
    BY <1>1, RevealedIs
  <2>2. x \in Seq(Byte) /\ Len(x) = z
    BY <1>1, EncodeIs
  <2>3. y \in Seq(Byte) /\ Len(y) = Int64 * R(i)
    <3> HIDE DEF R
    <3>1. Int64 * R(i) \in Nat
      BY <2>1, Widths
    <3>2. QED
      BY <3>1, ZerosAre
  <2>4. piece(i) = x \o y
    OBVIOUS
  <2> HIDE DEF x, y, z, R, piece
  <2>5. /\ x \o y \in Seq(Byte) /\ Len(x \o y) = Len(x) + Len(y)
        /\ \A p \in 1 .. Len(x) : (x \o y)[p] = x[p]
    BY <2>2, <2>3, ConcatIs
  <2>6. QED
    BY <2>1, <2>2, <2>3, <2>4, <2>5 DEF x
<1>4. s \in Seq(Seq(Byte)) /\ Len(s) = k /\ \A i \in 1 .. k : s[i] = piece(i)
  <2> HIDE DEF piece, k
  <2>1. s \in [1 .. k -> Seq(Byte)]
    BY <1>1, <1>3
  <2>2. QED
    BY <1>1, <2>1
<1>5. g = Reverse(Memory(k)) \o all
  BY DEF Group
<1> HIDE DEF s, piece, g, z, R
<1>6. PICK e \in [0 .. k -> Nat] :
        /\ e[0] = 0 /\ Len(all) = e[k] /\ all \in Seq(Byte)
        /\ \A i \in 1 .. k :
             /\ e[i] = e[i - 1] + Len(s[i]) /\ e[i] <= Len(all)
             /\ \A p \in 1 .. Len(s[i]) : all[e[i - 1] + p] = s[i][p]
  <2> HIDE DEF k
  <2>1. s \in Seq(Seq(Byte))
    BY <1>4
  <2>2. /\ all \in Seq(Byte)
        /\ \E e \in [0 .. Len(s) -> Nat] :
              /\ e[0] = 0 /\ Len(all) = e[Len(s)]
              /\ \A i \in 1 .. Len(s) :
                   /\ e[i] = e[i - 1] + Len(s[i]) /\ e[i] <= Len(all)
                   /\ \A p \in 1 .. Len(s[i]) : all[e[i - 1] + p] = s[i][p]
    BY <2>1, FlattenParts, Zenon
  <2>3. QED
    BY <1>4, <2>2
<1> HIDE DEF k, all
<1> DEFINE T == {j \in 0 .. k : \E n \in Nat :
                    e[j] = j * z + Int64 * n /\ (n = 0 <=> \A i \in 1 .. j : R(i) = 0)}
<1>7. 0 .. k \subseteq T
  <2>1. 0 \in T
    <3>1. e[0] = 0 * z + Int64 * 0
      BY <1>2, <1>6, Widths
    <3>2. 0 \in 0 .. k /\ 0 \in Nat /\ \A i \in 1 .. 0 : R(i) = 0
      BY <1>1
    <3>3. QED
      BY <3>1, <3>2
  <2>2. ASSUME NEW j \in 1 .. k, j - 1 \in T PROVE j \in T
    <3>1. PICK n \in Nat : /\ e[j - 1] = (j - 1) * z + Int64 * n
                           /\ n = 0 <=> \A i \in 1 .. j - 1 : R(i) = 0
      BY <2>2
    <3>2. e[j] = e[j - 1] + (z + Int64 * R(j)) /\ R(j) \in Nat
      BY <1>3, <1>4, <1>6
    <3>3. e[j] = j * z + Int64 * (n + R(j))
      <4>1. (j - 1) * z + z = j * z /\ (j - 1) * z \in Nat
        BY <1>1, <1>2, Row
      <4>2. Int64 * n + Int64 * R(j) = Int64 * (n + R(j)) /\ Int64 * n \in Nat
            /\ Int64 * R(j) \in Nat
        BY <3>2, Widths
      <4>3. QED
        BY <1>2, <3>1, <3>2, <4>1, <4>2
    <3>4. n + R(j) \in Nat /\ (n + R(j) = 0 <=> n = 0 /\ R(j) = 0)
      BY <3>2
    <3>5. (\A i \in 1 .. j : R(i) = 0) <=> (\A i \in 1 .. j - 1 : R(i) = 0) /\ R(j) = 0
      <4>1. \A i \in 1 .. j : i \in 1 .. j - 1 \/ i = j
        BY <1>1
      <4>2. j \in 1 .. j /\ \A i \in 1 .. j - 1 : i \in 1 .. j
        BY <1>1
      <4>3. QED
        BY <4>1, <4>2
    <3>6. j \in 0 .. k
      BY <1>1
    <3>7. QED
      BY <3>1, <3>3, <3>4, <3>5, <3>6
  <2> HIDE DEF T
  <2>3. QED
    BY <1>1, <2>1, <2>2, Along
<1>8. k < Weight(Int32)
  BY DEF k
<1> DEFINE w == Reverse(Memory(k))
<1>9. w \in Seq(Byte) /\ Len(w) = Int32
  BY <1>1, <1>8, WordSent
<1> HIDE DEF w
<1>10. /\ g \in Seq(Byte) /\ Len(g) = Int32 + Len(all)
       /\ \A p \in 1 .. Int32 : g[p] = w[p]
       /\ \A p \in 1 .. Len(all) : g[Int32 + p] = all[p]
  <2>1. g = w \o all
    BY <1>5 DEF w
  <2>2. QED
    <3>1. /\ w \o all \in Seq(Byte) /\ Len(w \o all) = Len(w) + Len(all)
          /\ \A p \in 1 .. Len(w) : (w \o all)[p] = w[p]
          /\ \A p \in 1 .. Len(all) : (w \o all)[Len(w) + p] = all[p]
      <4>1. w \in Seq(Byte) /\ all \in Seq(Byte)
        BY <1>6, <1>9
      <4>2. QED
        BY <4>1, ConcatIs
    <3>2. QED
      BY <1>9, <2>1, <3>1
<1>11. \E n \in Nat : (n = 0 <=> \A i \in 1 .. k : R(i) = 0)
       /\ Len(g) = Int32 + k * z + Int64 * n
  <2>1. k \in T
    BY <1>1, <1>7
  <2>2. PICK n \in Nat : e[k] = k * z + Int64 * n /\ (n = 0 <=> \A i \in 1 .. k : R(i) = 0)
    BY <2>1
  <2>3. Int32 + (k * z + Int64 * n) = Int32 + k * z + Int64 * n
    BY <1>1, <1>2, Widths
  <2>4. QED
    BY <1>6, <1>10, <2>2, <2>3
<1>12. ASSUME \A i \in 1 .. k : R(i) = 0, NEW i \in 1 .. k, NEW p \in 1 .. z
       PROVE  g[Int32 + (i - 1) * z + p] = Encode(layout, entries[i])[p]
  <2>1. i - 1 \in 0 .. k /\ i - 1 \in Nat /\ i \in Nat
    BY <1>1
  <2>2. i - 1 \in T
    BY <1>7, <2>1
  <2>3. PICK n \in Nat : /\ e[i - 1] = (i - 1) * z + Int64 * n
                         /\ n = 0 <=> \A j \in 1 .. i - 1 : R(j) = 0
    BY <2>2
  <2>4. \A j \in 1 .. i - 1 : j \in 1 .. k
    BY <1>1
  <2>5. n = 0
    BY <1>12, <2>3, <2>4
  <2>6. e[i - 1] = (i - 1) * z /\ (i - 1) * z \in Nat
    BY <1>2, <2>1, <2>3, <2>5, Widths
  <2>7. Len(s[i]) = z /\ s[i][p] = Encode(layout, entries[i])[p]
    <3>1. R(i) = 0
      BY <1>12
    <3>2. s[i] = piece(i) /\ Len(piece(i)) = z + Int64 * R(i)
      BY <1>3, <1>4
    <3>3. QED
      BY <1>2, <1>3, <3>1, <3>2, Widths
  <2>8. all[e[i - 1] + p] = s[i][p] /\ e[i - 1] + z <= Len(all)
    BY <1>6, <2>7
  <2>9. e[i - 1] + p \in 1 .. Len(all)
    <3>1. e[i - 1] \in Nat /\ Len(all) \in Nat /\ p \in Nat /\ 1 <= p /\ p <= z
      BY <1>2, <1>6, <2>6, LenProperties
    <3>2. \A a, b, c, d \in Nat : a + c <= d /\ 1 <= b /\ b <= c => a + b \in 1 .. d
      OBVIOUS
    <3>3. e[i - 1] + z <= Len(all)
      BY <2>8
    <3>4. QED
      BY <1>2, <3>1, <3>2, <3>3
  <2>10. g[Int32 + (e[i - 1] + p)] = all[e[i - 1] + p]
    BY <1>10, <2>9
  <2>11. Int32 + (e[i - 1] + p) = Int32 + (i - 1) * z + p
    BY <2>6, Widths
  <2>12. QED
    BY <2>7, <2>8, <2>10, <2>11
<1>13. QED
  BY <1>1, <1>2, <1>10, <1>11, <1>12 DEF k, z, g, R, w

(* What becomes of a body on its way. *)
LEMMA FormIs ==
  ASSUME NEW b \in Seq(Byte), Int32 <= Len(b), NEW c \in Forms(b)
  PROVE  /\ c \in Seq(Byte) /\ Len(c) \in Nat
         /\ \/ c = b
            \/ c # b /\ Len(c) = Len(b) - Int32 /\ \A i \in 1 .. Len(c) : c[i] = b[i]
            \/ c # b /\ Len(c) = Len(b) + Int32 /\ \A i \in 1 .. Len(b) : c[i] = b[i]
<1>1. Len(b) \in Nat /\ Int32 \in Nat \ {0}
  BY Widths, LenProperties
<1>2. CASE c = b
  BY <1>1, <1>2
<1>3. CASE c = SubSeq(b, 1, Len(b) - Int32)
  <2> DEFINE m == Len(b) - Int32
  <2>1. m \in Nat /\ m <= Len(b) /\ m # Len(b) /\ 0 \in Nat /\ 0 <= m
    BY <1>1
  <2>2. /\ SubSeq(b, 0 + 1, m) \in Seq(Byte) /\ Len(SubSeq(b, 0 + 1, m)) = m - 0
        /\ \A i \in 1 .. m - 0 : SubSeq(b, 0 + 1, m)[i] = b[0 + i]
    <3> HIDE DEF m
    <3>1. QED
      BY <2>1, SubSeqIs
  <2>3. c = SubSeq(b, 0 + 1, m)
    BY <1>3
  <2> HIDE DEF m
  <2>4. c \in Seq(Byte) /\ Len(c) = m /\ \A i \in 1 .. m : c[i] = b[i]
    BY <2>1, <2>2, <2>3
  <2>5. c # b
    BY <2>1, <2>4
  <2>6. QED
    BY <2>1, <2>4, <2>5 DEF m
<1>4. CASE c = b \o Zeros(Int32)
  <2> DEFINE y == Zeros(Int32)
  <2>1. y \in Seq(Byte) /\ Len(y) = Int32
    BY <1>1, ZerosAre
  <2>2. c = b \o y
    BY <1>4
  <2> HIDE DEF y
  <2>3. /\ b \o y \in Seq(Byte) /\ Len(b \o y) = Len(b) + Len(y)
        /\ \A i \in 1 .. Len(b) : (b \o y)[i] = b[i]
    BY <2>1, ConcatIs
  <2>4. Len(c) = Len(b) + Int32 /\ c \in Seq(Byte) /\ \A i \in 1 .. Len(b) : c[i] = b[i]
    BY <2>1, <2>2, <2>3
  <2>5. c # b
    BY <1>1, <2>4
  <2>6. QED
    BY <1>1, <2>4, <2>5
<1>5. QED
  BY <1>2, <1>3, <1>4 DEF Forms

(* A number is read in every form of the body, if there are more bytes than *)
(* one number behind it, or if it is zero and the last.                     *)
LEMMA CountIn ==
  ASSUME NEW b \in Seq(Byte), NEW c \in Forms(b), NEW from \in Nat, NEW k \in Nat,
         k < Weight(Int32), from + Int32 <= Len(b),
         \A p \in 1 .. Int32 : b[from + p] = Reverse(Memory(k))[p],
         from + Int32 + Int32 <= Len(b) \/ (k = 0 /\ from + Int32 = Len(b))
  PROVE  Count(c, from) = k
<1>1. Len(b) \in Nat /\ Int32 \in Nat \ {0}
  BY Widths, LenProperties
<1>2. Int32 <= Len(b)
  BY <1>1
<1>3. /\ c \in Seq(Byte) /\ Len(c) \in Nat
      /\ \/ c = b
         \/ c # b /\ Len(c) = Len(b) - Int32 /\ \A i \in 1 .. Len(c) : c[i] = b[i]
         \/ c # b /\ Len(c) = Len(b) + Int32 /\ \A i \in 1 .. Len(b) : c[i] = b[i]
  BY <1>2, FormIs
<1>4. DOMAIN c = 1 .. Len(c)
  BY <1>3
<1>5. ASSUME NEW p \in 1 .. Int32 PROVE At(c, from + p) = Reverse(Memory(k))[p]
  <2>1. b[from + p] = Reverse(Memory(k))[p]
    OBVIOUS
  <2>2. CASE from + p <= Len(c)
    <3>1. from + p \in 1 .. Len(c) /\ from + p \in 1 .. Len(b)
      BY <1>1, <1>3, <2>2
    <3>2. c[from + p] = b[from + p]
      BY <1>3, <3>1
    <3>3. QED
      BY <1>4, <2>1, <3>1, <3>2 DEF At
  <2>3. CASE ~(from + p <= Len(c))
    <3>1. Len(c) = Len(b) - Int32
      BY <1>1, <1>3, <2>3
    <3>2. k = 0
      BY <1>1, <2>3, <3>1
    <3>3. from + p \notin DOMAIN c
      BY <1>3, <1>4, <2>3
    <3>4. Reverse(Memory(k))[p] = 0
      BY <3>2, ZeroSent
    <3>5. QED
      BY <3>3, <3>4 DEF At
  <2>4. QED
    BY <2>2, <2>3
<1>6. QED
  BY <1>5, CountIs

(* Entries are read where they lie one behind the other. *)
AllLieAt(layout, entries, body, from) ==
  /\ from + Len(entries) * Size(layout) <= Len(body)
  /\ \A i \in 1 .. Len(entries) : \A p \in 1 .. Size(layout) :
       body[from + (i - 1) * Size(layout) + p] = Encode(layout, entries[i])[p]

LEMMA StructsIs ==
  ASSUME NEW layout, NEW numbers, Laid(layout, numbers),
         NEW entries \in Seq(Fillings(layout)), NEW body \in Seq(Byte), NEW from \in Nat,
         AllLieAt(layout, entries, body, from)
  PROVE  Structs(layout, body, from, Len(entries), numbers) = entries
<1> DEFINE k == Len(entries)
           z == Size(layout)
<1>1. k \in Nat /\ DOMAIN entries = 1 .. k
      /\ \A i \in 1 .. k : entries[i] \in Fillings(layout)
  BY ElementOfSeq, LenProperties
<1>2. z \in Nat
  BY SizeIs
<1>3. ASSUME NEW i \in 1 .. k
      PROVE  Struct(layout, body, from + (i - 1) * z, numbers) = entries[i]
  <2>1. (i - 1) * z \in Nat /\ (i - 1) * z + z <= k * z /\ k * z \in Nat
    <3> HIDE DEF k, z
    <3>1. (i - 1) * z \in Nat /\ (i - 1) * z + z = i * z /\ i * z <= k * z /\ k * z \in Nat
      BY <1>1, <1>2, Row
    <3>2. QED
      BY <3>1
  <2> DEFINE at == from + (i - 1) * z
  <2>2. from + k * z <= Len(body) /\ Len(body) \in Nat
    BY LenProperties DEF AllLieAt
  <2>3. \A p \in 1 .. z : body[at + p] = Encode(layout, entries[i])[p]
    BY DEF AllLieAt
  <2> HIDE DEF k
  <2>4. at \in Nat
    BY <2>1
  <2>5. at + z <= Len(body)
    <3> HIDE DEF z
    <3>1. at + z = from + ((i - 1) * z + z)
      BY <1>2, <2>1
    <3>2. QED
      BY <1>2, <2>1, <2>2, <3>1
  <2> HIDE DEF at
  <2>6. QED
    <3>1. entries[i] \in Fillings(layout)
      BY <1>1
    <3>2. LiesAt(layout, entries[i], body, at)
      BY <2>3, <2>5 DEF LiesAt
    <3>3. Struct(layout, body, at, numbers) = entries[i]
      BY <2>4, <3>1, <3>2, StructIs
    <3>4. QED
      BY <3>3 DEF at
<1>4. Structs(layout, body, from, k, numbers) = [i \in 1 .. k |-> entries[i]]
  BY <1>3 DEF Structs
<1>5. entries = [i \in 1 .. k |-> entries[i]]
  BY <1>1
<1>6. QED
  BY <1>4, <1>5

-----------------------------------------------------------------------------
(* The four functions deserializeBody, on every form of every message. *)

(* A head and a group of entries behind it, and what else there is: where   *)
(* the parts are.                                                           *)
PartsAt(head, entry, h, entries, rest) ==
  LET at == Size(head)
      k == Len(entries)
      z == Size(entry)
      b == Encode(head, h) \o Group(entry, entries) \o rest
      none == \A i \in 1 .. k : Revealed(entries[i]) = 0
  IN  /\ b \in Seq(Byte) /\ Len(b) \in Nat /\ at \in Nat /\ k \in Nat /\ z \in Nat
      /\ Len(rest) \in Nat
      /\ \E s \in Nat : /\ s = 0 <=> none
                        /\ Len(b) = at + Int32 + k * z + Int64 * s + Len(rest)
      /\ \A p \in 1 .. at : b[p] = Encode(head, h)[p]
      /\ \A p \in 1 .. Int32 : b[at + p] = Reverse(Memory(k))[p]
      /\ none =>
           /\ \A i \in 1 .. k : \A p \in 1 .. z :
                b[at + Int32 + (i - 1) * z + p] = Encode(entry, entries[i])[p]
           /\ \A p \in 1 .. Len(rest) : b[at + Int32 + k * z + p] = rest[p]

LEMMA PartsAre ==
  ASSUME NEW head, NEW headNumbers, Laid(head, headNumbers),
         NEW entry, NEW numbers, Laid(entry, numbers),
         NEW h \in Fillings(head), NEW entries \in Seq(Fillings(entry)),
         Len(entries) < Weight(Int32), NEW rest \in Seq(Byte)
  PROVE  PartsAt(head, entry, h, entries, rest)
<1> DEFINE at == Size(head)
           k == Len(entries)
           z == Size(entry)
           x == Encode(head, h)
           g == Group(entry, entries)
           b == x \o g \o rest
           none == \A i \in 1 .. k : Revealed(entries[i]) = 0
<1>1. at \in Nat /\ x \in Seq(Byte) /\ Len(x) = at
  BY SizeIs, EncodeIs
<1>2. /\ k \in Nat /\ z \in Nat /\ g \in Seq(Byte)
      /\ \E s \in Nat : (s = 0 <=> none) /\ Len(g) = Int32 + k * z + Int64 * s
      /\ \A p \in 1 .. Int32 : g[p] = Reverse(Memory(k))[p]
      /\ none => \A i \in 1 .. k : \A p \in 1 .. z :
                   g[Int32 + (i - 1) * z + p] = Encode(entry, entries[i])[p]
  BY GroupIs
<1>3. PICK s \in Nat : (s = 0 <=> none) /\ Len(g) = Int32 + k * z + Int64 * s
  BY <1>2
<1>4. Int32 \in Nat \ {0} /\ Int64 \in Nat /\ Len(rest) \in Nat
  BY Widths, LenProperties
<1>5. k * z \in Nat /\ Int64 * s \in Nat /\ Len(g) \in Nat
  BY <1>2, <1>3, <1>4
<1> HIDE DEF at, k, z, x, g, none
<1>6. /\ x \o g \in Seq(Byte) /\ Len(x \o g) = Len(x) + Len(g)
      /\ \A p \in 1 .. Len(x) : (x \o g)[p] = x[p]
      /\ \A p \in 1 .. Len(g) : (x \o g)[Len(x) + p] = g[p]
  <2>1. x \in Seq(Byte) /\ g \in Seq(Byte)
    BY <1>1, <1>2
  <2>2. QED
    BY <2>1, ConcatIs
<1> DEFINE xg == x \o g
<1>7. /\ xg \in Seq(Byte) /\ Len(xg) = at + Len(g)
      /\ \A p \in 1 .. at : xg[p] = x[p]
      /\ \A p \in 1 .. Len(g) : xg[at + p] = g[p]
  BY <1>1, <1>6
<1> HIDE DEF xg
<1>8. /\ xg \o rest \in Seq(Byte) /\ Len(xg \o rest) = Len(xg) + Len(rest)
      /\ \A p \in 1 .. Len(xg) : (xg \o rest)[p] = xg[p]
      /\ \A p \in 1 .. Len(rest) : (xg \o rest)[Len(xg) + p] = rest[p]
  <2>1. xg \in Seq(Byte)
    BY <1>7
  <2>2. QED
    BY <2>1, ConcatIs
<1>9. b = xg \o rest
  BY DEF xg
<1> HIDE DEF b
<1>10. /\ b \in Seq(Byte) /\ Len(b) = at + Len(g) + Len(rest)
       /\ \A p \in 1 .. at + Len(g) : b[p] = xg[p]
       /\ \A p \in 1 .. Len(rest) : b[at + Len(g) + p] = rest[p]
  BY <1>7, <1>8, <1>9
<1>11. \A p \in 1 .. at : b[p] = x[p]
  <2>1. \A p \in 1 .. at : p \in 1 .. at + Len(g)
    BY <1>1, <1>5
  <2>2. QED
    BY <1>7, <1>10, <2>1
<1>12. \A p \in 1 .. Len(g) : b[at + p] = g[p]
  <2>1. \A p \in 1 .. Len(g) : at + p \in 1 .. at + Len(g)
    BY <1>1, <1>5
  <2>2. QED
    BY <1>7, <1>10, <2>1
<1>13. Len(b) \in Nat /\ Len(b) = at + Int32 + k * z + Int64 * s + Len(rest)
  BY <1>1, <1>2, <1>3, <1>4, <1>5, <1>10
<1>14. \A p \in 1 .. Int32 : b[at + p] = Reverse(Memory(k))[p]
  <2>1. \A p \in 1 .. Int32 : p \in 1 .. Len(g)
    <3>1. Int32 <= Len(g)
      BY <1>3, <1>4, <1>5
    <3>2. QED
      BY <1>4, <1>5, <3>1
  <2>2. QED
    BY <1>2, <1>12, <2>1
<1>15. ASSUME none
       PROVE  /\ \A i \in 1 .. k : \A p \in 1 .. z :
                   b[at + Int32 + (i - 1) * z + p] = Encode(entry, entries[i])[p]
              /\ \A p \in 1 .. Len(rest) : b[at + Int32 + k * z + p] = rest[p]
  <2>1. Len(g) = Int32 + k * z
    <3>1. Int64 * s = 0
      BY <1>3, <1>4, <1>15
    <3>2. QED
      BY <1>3, <1>4, <1>5, <3>1
  <2>2. ASSUME NEW i \in 1 .. k, NEW p \in 1 .. z
        PROVE  b[at + Int32 + (i - 1) * z + p] = Encode(entry, entries[i])[p]
    <3>1. (i - 1) * z \in Nat /\ (i - 1) * z + z <= k * z
      <4>1. (i - 1) * z \in Nat /\ (i - 1) * z + z = i * z /\ i * z <= k * z
        BY <1>2, Row
      <4>2. QED
        BY <4>1
    <3>2. Int32 + (i - 1) * z + p \in 1 .. Len(g)
      <4> DEFINE row == (i - 1) * z
      <4>1. row \in Nat /\ row + z <= k * z /\ k * z \in Nat
        BY <1>5, <3>1
      <4>2. p \in Nat /\ 1 <= p /\ p <= z
        BY <1>2
      <4> HIDE DEF row
      <4>3. Int32 + row + p \in Nat /\ 1 <= Int32 + row + p
        BY <1>4, <4>1, <4>2
      <4>4. Int32 + row + p <= Int32 + k * z
        BY <1>2, <1>4, <4>1, <4>2
      <4>5. QED
        BY <1>5, <2>1, <4>3, <4>4 DEF row
    <3>3. b[at + (Int32 + (i - 1) * z + p)] = g[Int32 + (i - 1) * z + p]
      BY <1>12, <3>2
    <3>4. at + (Int32 + (i - 1) * z + p) = at + Int32 + (i - 1) * z + p
      BY <1>1, <1>2, <1>4, <3>1
    <3>5. QED
      BY <1>2, <1>15, <3>3, <3>4
  <2>3. at + Len(g) = at + Int32 + k * z
    BY <1>1, <1>4, <1>5, <2>1
  <2>4. QED
    BY <1>10, <2>2, <2>3
<1>16. QED
  BY <1>1, <1>2, <1>3, <1>4, <1>10, <1>11, <1>13, <1>14, <1>15
     DEF PartsAt, at, k, z, x, g, b, none

(* What has arrived of a body, and what a client makes of it: it takes it   *)
(* if it is whole and supported, as it was meant, and not otherwise.        *)
TakesIt(type, read, c, b, md) ==
  /\ read.result = 0 <=> c = b /\ Supported(type, md)
  /\ read.result = 0 => read.md = Kept(md)

(* Without periods there is nothing that is not kept. *)
LEMMA AllIsKept ==
  ASSUME NEW h, NEW entries
  PROVE  LET md == [head |-> h, entries |-> entries, times |-> <<>>] IN Kept(md) = md
<1>1. DOMAIN <<>> = {} /\ [i \in {} |-> <<>>[1]] = <<>>
  OBVIOUS
<1>2. QED
  BY <1>1 DEF Kept

(* A quote of the mainland market, or the statistics of a channel. *)
LEMMA GroupedIs ==
  ASSUME NEW head, NEW headNumbers, Laid(head, headNumbers),
         NEW entry, NEW numbers, Laid(entry, numbers), Int32 <= Size(entry),
         NEW h \in Fillings(head), NEW entries \in Seq(Fillings(entry)),
         Len(entries) < Weight(Int32), NEW type, type # "hkQuote",
         NEW b, b = Encode(head, h) \o Group(entry, entries), NEW c \in Forms(b)
  PROVE  TakesIt(type, Grouped(c, head, headNumbers, entry, numbers), c, b,
                 [head |-> h, entries |-> entries, times |-> <<>>])
<1> DEFINE at == Size(head)
           k == Len(entries)
           z == Size(entry)
           md == [head |-> h, entries |-> entries, times |-> <<>>]
           none == \A i \in 1 .. k : Revealed(entries[i]) = 0
           read == Grouped(c, head, headNumbers, entry, numbers)
<1>1. b = Encode(head, h) \o Group(entry, entries) \o <<>> /\ <<>> \in Seq(Byte)
  <2>1. Encode(head, h) \in Seq(Byte) /\ Group(entry, entries) \in Seq(Byte)
    BY EncodeIs, GroupIs
  <2>2. b \in Seq(Byte)
    BY <2>1, ConcatIs
  <2>3. b \o <<>> = b
    BY <2>2
  <2>4. QED
    BY <2>3
<1>2. /\ b \in Seq(Byte) /\ Len(b) \in Nat /\ at \in Nat /\ k \in Nat /\ z \in Nat
      /\ \E s \in Nat : /\ s = 0 <=> none
                        /\ Len(b) = at + Int32 + k * z + Int64 * s + Len(<<>>)
      /\ \A p \in 1 .. at : b[p] = Encode(head, h)[p]
      /\ \A p \in 1 .. Int32 : b[at + p] = Reverse(Memory(k))[p]
      /\ none => \A i \in 1 .. k : \A p \in 1 .. z :
                   b[at + Int32 + (i - 1) * z + p] = Encode(entry, entries[i])[p]
  <2> DEFINE rest == <<>>
  <2>1. b = Encode(head, h) \o Group(entry, entries) \o rest /\ rest \in Seq(Byte)
    BY <1>1
  <2> HIDE DEF rest
  <2>2. /\ b \in Seq(Byte) /\ Len(b) \in Nat /\ at \in Nat /\ k \in Nat /\ z \in Nat
        /\ \E s \in Nat : /\ s = 0 <=> none
                          /\ Len(b) = at + Int32 + k * z + Int64 * s + Len(rest)
        /\ \A p \in 1 .. at : b[p] = Encode(head, h)[p]
        /\ \A p \in 1 .. Int32 : b[at + p] = Reverse(Memory(k))[p]
        /\ none => \A i \in 1 .. k : \A p \in 1 .. z :
                     b[at + Int32 + (i - 1) * z + p] = Encode(entry, entries[i])[p]
    <3> DEFINE B == Encode(head, h) \o Group(entry, entries) \o rest
    <3>1. /\ B \in Seq(Byte) /\ Len(B) \in Nat /\ at \in Nat /\ k \in Nat /\ z \in Nat
          /\ \E s \in Nat : /\ s = 0 <=> none
                            /\ Len(B) = at + Int32 + k * z + Int64 * s + Len(rest)
          /\ \A p \in 1 .. at : B[p] = Encode(head, h)[p]
          /\ \A p \in 1 .. Int32 : B[at + p] = Reverse(Memory(k))[p]
          /\ none => \A i \in 1 .. k : \A p \in 1 .. z :
                       B[at + Int32 + (i - 1) * z + p] = Encode(entry, entries[i])[p]
      <4>1. PartsAt(head, entry, h, entries, rest)
        BY <2>1, PartsAre
      <4>2. QED
        BY <4>1 DEF PartsAt
    <3>2. B = b
      BY <2>1
    <3> HIDE DEF B, at, k, z, none
    <3>3. QED
      BY <3>1, <3>2
  <2>3. QED
    BY <2>2 DEF rest
<1>3. PICK s \in Nat : (s = 0 <=> none) /\ Len(b) = at + Int32 + k * z + Int64 * s
  <2>1. PICK s \in Nat : /\ s = 0 <=> none
                         /\ Len(b) = at + Int32 + k * z + Int64 * s + Len(<<>>)
    BY <1>2
  <2>2. k * z \in Nat /\ Int64 * s \in Nat /\ Int32 \in Nat
    BY <1>2, Widths
  <2>3. Len(b) = at + Int32 + k * z + Int64 * s
    BY <1>2, <2>1, <2>2
  <2>4. QED
    BY <2>1, <2>3
<1>4. k * z \in Nat /\ (k # 0 => z <= k * z)
  <2>1. CASE k = 0
    BY <1>2, <2>1
  <2>2. CASE k # 0
    <3>1. 1 \in 1 .. k
      BY <1>2, <2>2
    <3>2. (1 - 1) * z + z = 1 * z /\ 1 * z <= k * z /\ k * z \in Nat
      BY <1>2, <3>1, Row
    <3>3. QED
      BY <1>2, <3>2
  <2>3. QED
    BY <2>1, <2>2
<1>5. Int64 * s \in Nat /\ (s = 0 => Int64 * s = 0) /\ (s # 0 => Int64 <= Int64 * s)
  <2>1. Int64 \in Nat
    BY Widths
  <2>2. CASE s = 0
    BY <2>1, <2>2
  <2>3. CASE s # 0
    <3>1. 1 \in 1 .. s
      BY <2>3
    <3>2. 1 * Int64 <= s * Int64 /\ s * Int64 \in Nat
      BY <2>1, <3>1, Row
    <3>3. s * Int64 = Int64 * s
      BY <2>1
    <3>4. QED
      BY <2>1, <2>3, <3>2, <3>3
  <2>4. QED
    BY <2>2, <2>3
<1>6. Int32 \in Nat \ {0} /\ Int64 = Int32 + Int32 /\ Int32 <= z /\ k < Weight(Int32)
  BY Widths
<1> DEFINE kz == k * z
           shown == Int64 * s
<1> HIDE DEF at, k, z, none
<1>16. /\ Len(b) = at + Int32 + kz + shown /\ kz \in Nat /\ shown \in Nat /\ at \in Nat
       /\ k # 0 => Int32 <= kz
       /\ (s = 0 => shown = 0) /\ (s # 0 => Int32 + Int32 <= shown)
       /\ Int32 \in Nat \ {0} /\ Len(b) \in Nat /\ (s = 0 <=> none)
  <2>1. z \in Nat /\ kz \in Nat /\ (k # 0 => z <= kz) /\ Int32 <= z /\ Int32 \in Nat
    BY <1>2, <1>4, <1>6
  <2>2. k # 0 => Int32 <= kz
    <3> HIDE DEF kz
    <3>1. QED
      BY <2>1
  <2>3. QED
    BY <1>2, <1>3, <1>5, <1>6, <2>1, <2>2
<1> HIDE DEF kz, shown
<1>7. Count(c, at) = k
  <2>1. at + Int32 <= Len(b)
    BY <1>16
  <2>2. at + Int32 + Int32 <= Len(b) \/ (k = 0 /\ at + Int32 = Len(b))
    <3>1. CASE k = 0 /\ s = 0
      <4>1. kz = 0
        BY <1>2, <3>1 DEF kz
      <4>2. QED
        BY <1>16, <3>1, <4>1
    <3>2. CASE k # 0
      BY <1>16, <3>2
    <3>3. CASE s # 0
      BY <1>16, <3>3
    <3>4. QED
      BY <3>1, <3>2, <3>3
  <2>3. QED
    BY <1>2, <1>6, <2>1, <2>2, CountIn
<1>8. Supported(type, md) <=> k <= MaxEntries /\ none
  <2>1. DOMAIN entries = 1 .. k /\ md.entries = entries
    BY <1>2 DEF k
  <2>2. QED
    BY <2>1 DEF Supported, k, none
<1>9. read = CASE k > MaxEntries -> Refused(-1)
               [] k <= MaxEntries /\ Len(c) # at + Int32 + k * z -> Refused(-2)
               [] OTHER -> Message(Struct(head, c, 0, headNumbers),
                                   Structs(entry, c, at + Int32, k, numbers), <<>>)
  BY <1>7 DEF Grouped, at, z
<1>10. MaxEntries \in Nat
  BY Widths
<1>11. Len(c) = at + Int32 + k * z <=> c = b /\ none
  <2>1. Int32 <= Len(b)
    BY <1>16
  <2>2. c = b \/ (c # b /\ Len(c) = Len(b) - Int32) \/ (c # b /\ Len(c) = Len(b) + Int32)
    BY <1>2, <2>1, FormIs
  <2>3. Len(c) = at + Int32 + kz <=> c = b /\ none
    BY <1>16, <2>2
  <2>4. QED
    BY <2>3 DEF kz
<1>12. CASE ~(k <= MaxEntries)
  <2>1. k > MaxEntries
    BY <1>2, <1>10, <1>12
  <2>2. read = Refused(-1)
    BY <1>9, <1>12, <2>1
  <2>3. read.result # 0
    BY <2>2 DEF Refused
  <2>4. QED
    BY <1>8, <1>12, <2>3 DEF TakesIt
<1>13. CASE k <= MaxEntries /\ ~(c = b /\ none)
  <2>1. ~(k > MaxEntries)
    BY <1>2, <1>10, <1>13
  <2>2. read = Refused(-2)
    BY <1>9, <1>11, <1>13, <2>1
  <2>3. read.result # 0
    BY <2>2 DEF Refused
  <2>4. QED
    BY <1>8, <1>13, <2>3 DEF TakesIt
<1>14. CASE k <= MaxEntries /\ c = b /\ none
  <2>1. ~(k > MaxEntries)
    BY <1>2, <1>10, <1>14
  <2>2. read = Message(Struct(head, c, 0, headNumbers),
                       Structs(entry, c, at + Int32, k, numbers), <<>>)
    BY <1>9, <1>11, <1>14, <2>1
  <2>3. Struct(head, b, 0, headNumbers) = h
    <3>1. 0 \in Nat /\ 0 + Size(head) <= Len(b)
      BY <1>16 DEF at
    <3>2. \A p \in 1 .. Size(head) : b[0 + p] = Encode(head, h)[p]
      <4>1. \A p \in 1 .. at : 0 + p = p
        BY <1>16
      <4>2. QED
        BY <1>2, <4>1 DEF at
    <3>3. QED
      <4>1. LiesAt(head, h, b, 0)
        BY <3>1, <3>2 DEF LiesAt
      <4>2. QED
        BY <1>2, <3>1, <4>1, StructIs
  <2>4. Structs(entry, b, at + Int32, Len(entries), numbers) = entries
    <3>1. at + Int32 \in Nat /\ at + Int32 + k * z <= Len(b)
      BY <1>16 DEF kz
    <3>2. \A i \in 1 .. k : \A p \in 1 .. z :
            b[at + Int32 + (i - 1) * z + p] = Encode(entry, entries[i])[p]
      BY <1>2, <1>14
    <3> DEFINE from == at + Int32
    <3>3. from \in Nat /\ AllLieAt(entry, entries, b, from) /\ b \in Seq(Byte)
      BY <1>2, <3>1, <3>2 DEF k, z, AllLieAt
    <3> HIDE DEF from
    <3>4. Structs(entry, b, from, Len(entries), numbers) = entries
      BY <3>3, StructsIs
    <3>5. QED
      BY <3>4 DEF from
  <2>5. read = [result |-> 0, md |-> md]
    BY <1>14, <2>2, <2>3, <2>4 DEF Message, k
  <2>6. read.result = 0 /\ read.md = md
    <3> HIDE DEF md, read
    <3>1. QED
      BY <2>5
  <2>7. Kept(md) = md
    BY AllIsKept
  <2>8. QED
    BY <1>8, <1>14, <2>6, <2>7 DEF TakesIt
<1>15. QED
  BY <1>12, <1>13, <1>14

(* Only a quote of the mainland market has entries that reveal orders. *)
LEMMA NoneRevealed ==
  ASSUME NEW fields, fields \in Fillings(HkMDEntry) \/ fields \in Fillings(ComplexEvent)
  PROVE  Revealed(fields) = 0
<1>1. "NoOrders" \notin Names(HkMDEntry)
  <2>1. DOMAIN HkMDEntry = 1 .. 4
    BY DEF HkMDEntry
  <2>2. QED
    BY <2>1 DEF Names, HkMDEntry, Numeric, Text
<1>2. "NoOrders" \notin Names(ComplexEvent)
  <2>1. DOMAIN ComplexEvent = 1 .. 2
    BY DEF ComplexEvent
  <2>2. QED
    BY <2>1 DEF Names, ComplexEvent, Numeric, Text
<1>3. DOMAIN fields = Names(HkMDEntry) \/ DOMAIN fields = Names(ComplexEvent)
  BY DEF Fillings
<1>4. QED
  BY <1>1, <1>2, <1>3 DEF Revealed

(* A number in a message can be more than one. *)
LEMMA OneFits == Weight(Int32) \in Nat /\ Weight(Int32) > 1
<1> DEFINE s == [i \in 1 .. Int32 |-> 0]
<1>1. s \in Seq(Byte) /\ Len(s) = Int32 /\ Int32 # 0
  BY Widths, Constants
<1> HIDE DEF s
<1>2. PICK w \in Nat : w > 0 /\ Weight(Int32) = ByteBase * w
  BY <1>1, TopByte
<1>3. ByteBase \in Nat /\ ByteBase > 2
  BY Constants
<1>4. ByteBase * w \in Nat /\ ByteBase * w > 1
  BY <1>2, <1>3, Z3
<1>5. QED
  BY <1>2, <1>4

(* The second group of a quote from Hong Kong. *)
LEMMA TimesAre ==
  ASSUME NEW times \in Seq(Fillings(ComplexEvent)), Len(times) < Weight(Int32)
  PROVE  LET g == Group(ComplexEvent, times)
             n == Len(times)
             z == Size(ComplexEvent)
         IN  /\ n \in Nat /\ g \in Seq(Byte) /\ n < Weight(Int32)
             /\ Len(g) = Int32 + n * z /\ z = Int64 + Int64
             /\ \A p \in 1 .. Int32 : g[p] = Reverse(Memory(n))[p]
             /\ n # 0 => /\ times[1] \in Fillings(ComplexEvent)
                         /\ \A p \in 1 .. z : g[Int32 + p] = Encode(ComplexEvent,
                            times[1])[p]
<1> DEFINE g == Group(ComplexEvent, times)
           n == Len(times)
           z == Size(ComplexEvent)
<1>1. n \in Nat /\ n < Weight(Int32) /\ (n # 0 => times[1] \in Fillings(ComplexEvent))
  BY LenProperties, ElementOfSeq
<1>3. Laid(ComplexEvent, ComplexEventNumbers) /\ z = Int64 + Int64
  BY EventLaid
<1>4. /\ n \in Nat /\ z \in Nat /\ g \in Seq(Byte)
      /\ \E s \in Nat : /\ s = 0 <=> \A i \in 1 .. n : Revealed(times[i]) = 0
                        /\ Len(g) = Int32 + n * z + Int64 * s
      /\ \A p \in 1 .. Int32 : g[p] = Reverse(Memory(n))[p]
      /\ (\A i \in 1 .. n : Revealed(times[i]) = 0) =>
            \A i \in 1 .. n : \A p \in 1 .. z :
              g[Int32 + (i - 1) * z + p] = Encode(ComplexEvent, times[i])[p]
  BY <1>3, GroupIs
<1>5. \A i \in 1 .. n : Revealed(times[i]) = 0
  BY ElementOfSeq, NoneRevealed
<1> HIDE DEF g, n, z
<1>6. Len(g) = Int32 + n * z
  <2>1. PICK s \in Nat : s = 0 /\ Len(g) = Int32 + n * z + Int64 * s
    BY <1>4, <1>5
  <2>2. n * z \in Nat /\ Int32 \in Nat /\ Int64 * s = 0
    BY <1>4, <2>1, Widths
  <2>3. QED
    BY <2>1, <2>2
<1>7. ASSUME n # 0, NEW p \in 1 .. z PROVE g[Int32 + p] = Encode(ComplexEvent, times[1])[p]
  <2>1. 1 \in 1 .. n
    BY <1>4, <1>7
  <2>2. g[Int32 + (1 - 1) * z + p] = Encode(ComplexEvent, times[1])[p]
    BY <1>4, <1>5, <2>1
  <2>3. Int32 + (1 - 1) * z + p = Int32 + p
    BY <1>4, Widths
  <2>4. QED
    BY <2>2, <2>3
<1>8. QED
  BY <1>1, <1>3, <1>4, <1>6, <1>7 DEF g, n, z

(* What a body is cut by is less than an entry. *)
LEMMA EntriesAreLarge ==
  Int32 <= Size(MDEntry) /\ Int32 <= Size(ChannelStatEntry)
<1>1. DOMAIN ChannelStatEntry = 1 .. 3 /\ Len(ChannelStatEntry) = 3
      /\ ChannelStatEntry[2].bytes = Int32
  BY DEF ChannelStatEntry, Numeric, Text
<1>2. Len(MDEntry) = 6 /\ MDEntry[6].bytes = Int32
  BY EntryLaid
<1>3. 2 \in 1 .. Len(ChannelStatEntry) /\ 6 \in 1 .. Len(MDEntry)
  BY <1>1, <1>2
<1>4. ChannelStatEntry[2].bytes <= Size(ChannelStatEntry)
  BY <1>3, StatEntryLaid, HoldsField
<1>5. MDEntry[6].bytes <= Size(MDEntry)
  BY <1>3, EntryLaid, HoldsField
<1>6. QED
  BY <1>1, <1>2, <1>4, <1>5

LEMMA StatusIsLarge == Int32 <= Size(MarketStatus)
<1>1. Len(MarketStatus) = 12 /\ MarketStatus[1].bytes = Int64
  BY DEF MarketStatus, Numeric
<1>2. 1 \in 1 .. Len(MarketStatus)
  BY <1>1
<1>3. Size(MarketStatus) \in Nat /\ MarketStatus[1].bytes <= Size(MarketStatus)
  BY <1>2, StatusLaid, HoldsField
<1>4. QED
  BY <1>1, <1>3, Widths

(* The same of a quote from Hong Kong, with its second group, ... *)
LEMMA HkQuoteIs ==
  ASSUME NEW h \in Fillings(MDHead), NEW entries \in Seq(Fillings(HkMDEntry)),
         Len(entries) < Weight(Int32), NEW times \in Seq(Fillings(ComplexEvent)),
         Len(times) < Weight(Int32),
         NEW b,
         b = Encode(MDHead, h) \o Group(HkMDEntry, entries) \o Group(ComplexEvent, times),
         b = Body("hkQuote", [head |-> h, entries |-> entries, times |-> times]),
         NEW c \in Forms(b)
  PROVE  TakesIt("hkQuote", deserializeHkQuote(c), c, b,
                 [head |-> h, entries |-> entries, times |-> times])
<1> DEFINE at == Size(MDHead)
           k == Len(entries)
           z == Size(HkMDEntry)
           kz == k * z
           rest == Group(ComplexEvent, times)
           n == Len(times)
           y == Size(ComplexEvent)
           md == [head |-> h, entries |-> entries, times |-> times]
           read == deserializeHkQuote(c)
<1>1. /\ Laid(MDHead, MDNumbers) /\ Laid(HkMDEntry, HkMDEntryNumbers)
      /\ Laid(ComplexEvent, ComplexEventNumbers)
  BY HeadLaid, HkEntryLaid, EventLaid
<1>2. /\ n \in Nat /\ rest \in Seq(Byte) /\ n < Weight(Int32)
      /\ Len(rest) = Int32 + n * y /\ y = Int64 + Int64
      /\ \A p \in 1 .. Int32 : rest[p] = Reverse(Memory(n))[p]
      /\ n # 0 => /\ times[1] \in Fillings(ComplexEvent)
                  /\ \A p \in 1 .. y : rest[Int32 + p] = Encode(ComplexEvent, times[1])[p]
  BY TimesAre
<1>2a. y \in Nat /\ y = Int32 + Int32 + Int32 + Int32
  <2>1. y = Int64 + Int64
    BY <1>2
  <2> HIDE DEF y
  <2>2. QED
    BY <2>1, Widths
<1>3. PartsAt(MDHead, HkMDEntry, h, entries, rest)
  <2> HIDE DEF rest
  <2>1. QED
    BY <1>1, <1>2, PartsAre
<1>4. \A i \in 1 .. k : entries[i] \in Fillings(HkMDEntry) /\ Revealed(entries[i]) = 0
  BY ElementOfSeq, NoneRevealed
<1>5. /\ b \in Seq(Byte) /\ Len(b) \in Nat /\ at \in Nat /\ k \in Nat /\ z \in Nat
      /\ Len(rest) \in Nat
      /\ \E s \in Nat : s = 0 /\ Len(b) = at + Int32 + k * z + Int64 * s + Len(rest)
      /\ \A p \in 1 .. at : b[p] = Encode(MDHead, h)[p]
      /\ \A p \in 1 .. Int32 : b[at + p] = Reverse(Memory(k))[p]
      /\ \A i \in 1 .. k : \A p \in 1 .. z :
           b[at + Int32 + (i - 1) * z + p] = Encode(HkMDEntry, entries[i])[p]
      /\ \A p \in 1 .. Len(rest) : b[at + Int32 + k * z + p] = rest[p]
  BY <1>3, <1>4 DEF PartsAt
<1> HIDE DEF rest, k, z, at, n, y
<1>6. /\ Len(b) = at + Int32 + kz + Len(rest) /\ kz \in Nat
      /\ Int32 \in Nat \ {0} /\ Int64 = Int32 + Int32
  <2>1. PICK s \in Nat : s = 0 /\ Len(b) = at + Int32 + k * z + Int64 * s + Len(rest)
    BY <1>5
  <2>2. kz \in Nat /\ Int64 * s = 0 /\ Int32 \in Nat \ {0} /\ Int64 = Int32 + Int32
    BY <1>5, <2>1, Widths
  <2> HIDE DEF kz
  <2>3. Len(b) = at + Int32 + kz + Int64 * s + Len(rest)
    BY <2>1 DEF kz
  <2>4. QED
    BY <1>5, <2>1, <2>2, <2>3
<1>7. \A p \in 1 .. Len(rest) : b[at + Int32 + kz + p] = rest[p]
  BY <1>5
<1> DEFINE vcm == at + Int32 + kz
           ny == n * y
<1>8. ny \in Nat /\ (n = 0 => ny = 0) /\ (n # 0 => ny >= y)
      /\ y = Int32 + Int32 + Int32 + Int32
      /\ Len(rest) = Int32 + ny
  <2>1. Int32 \in Nat /\ y \in Nat /\ y = Int32 + Int32 + Int32 + Int32
    BY <1>2a, Widths
  <2>2. CASE n = 0
    BY <1>2, <2>1, <2>2
  <2>3. CASE n # 0
    <3>1. n - 1 \in Nat /\ (n - 1) * y \in Nat
      BY <1>2, <2>1, <2>3
    <3>2. ny = (n - 1) * y + y
      BY <1>2, <2>1
    <3> HIDE DEF ny
    <3>3. ny \in Nat /\ ny >= y
      BY <2>1, <3>1, <3>2
    <3>4. QED
      BY <1>2, <2>1, <2>3, <3>3 DEF ny
  <2>4. QED
    BY <1>2, <2>2, <2>3
<1> HIDE DEF kz, ny
<1>9. /\ vcm \in Nat /\ Len(b) = vcm + Int32 + ny
      /\ at + Int32 + Int32 <= Len(b) /\ at + Int32 <= Len(b) /\ Int32 <= Len(b)
  <2>1. /\ Len(b) = at + Int32 + kz + (Int32 + ny) /\ at \in Nat /\ kz \in Nat /\ ny \in Nat
        /\ Int32 \in Nat
    BY <1>5, <1>6, <1>8
  <2>2. vcm \in Nat /\ Len(b) = vcm + Int32 + ny
    BY <2>1
  <2>3. at + Int32 + Int32 <= Len(b)
    BY <2>1
  <2>4. at + Int32 <= Len(b) /\ Int32 <= Len(b)
    BY <2>1
  <2>5. QED
    BY <2>2, <2>3, <2>4
<1>10. Count(c, at) = k
  <2>1. k < Weight(Int32)
    BY DEF k
  <2>2. at + Int32 <= Len(b)
    BY <1>9
  <2>3. QED
    BY <1>5, <1>9, <2>1, <2>2, CountIn
<1>11. Count(c, vcm) = n
  <2>1. n \in Nat /\ n < Weight(Int32)
    BY <1>2
  <2>2. vcm + Int32 <= Len(b)
    BY <1>6, <1>8, <1>9
  <2>3. vcm + Int32 + Int32 <= Len(b) \/ (n = 0 /\ vcm + Int32 = Len(b))
    <3>1. CASE n = 0
      BY <1>6, <1>8, <1>9, <3>1
    <3>2. CASE n # 0
      BY <1>6, <1>8, <1>9, <3>2
    <3>3. QED
      BY <3>1, <3>2
  <2>4. \A p \in 1 .. Int32 : b[vcm + p] = Reverse(Memory(n))[p]
    <3>1. \A p \in 1 .. Int32 : p \in 1 .. Len(rest)
      BY <1>6, <1>8
    <3>2. QED
      BY <1>2, <1>7, <3>1
  <2> HIDE DEF vcm
  <2>5. vcm \in Nat
    BY <1>9
  <2>6. QED
    BY <1>5, <2>1, <2>2, <2>3, <2>4, <2>5, CountIn
<1>12. Supported("hkQuote", md) <=> k <= MaxEntries /\ Len(b) <= HkRoom
  <2>1. DOMAIN entries = 1 .. k /\ md.entries = entries /\ Body("hkQuote", md) = b
    BY <1>5 DEF k
  <2> HIDE DEF md
  <2>2. QED
    BY <1>4, <2>1 DEF Supported, k
<1>12a. HkRoom \in Int
  <2>1. MaxEntries \in Nat
    BY Widths
  <2> DEFINE mz == MaxEntries * z
  <2>2. mz \in Int
    BY <1>5, <2>1
  <2>3. HkRoom = at + Int32 + mz + Int32 + y
    BY DEF HkRoom, at, z, y
  <2>4. at \in Int /\ Int32 \in Int /\ y \in Int
    BY <1>2a, <1>5, Widths
  <2> HIDE DEF mz
  <2>5. QED
    BY <2>2, <2>3, <2>4
<1>13. read = CASE k > MaxEntries -> Refused(-1)
                [] k <= MaxEntries /\ Len(c) # vcm + Int32 + ny -> Refused(-2)
                [] k <= MaxEntries /\ Len(c) = vcm + Int32 + ny
                /\ Len(c) > HkRoom -> Overrun
                [] OTHER -> Message(Struct(MDHead, c, 0, MDNumbers),
                              Structs(HkMDEntry, c, at + Int32, k, HkMDEntryNumbers),
                              [i \in 1 .. n |->
                                 Struct(ComplexEvent, c, vcm + Int32, ComplexEventNumbers)])
  BY <1>10, <1>11 DEF deserializeHkQuote, at, z, kz, y, ny
<1>14. MaxEntries \in Nat
  BY Widths
<1>15. Len(c) = vcm + Int32 + ny <=> c = b
  <2>1. c = b \/ (c # b /\ Len(c) = Len(b) - Int32) \/ (c # b /\ Len(c) = Len(b) + Int32)
    BY <1>5, <1>9, FormIs
  <2> HIDE DEF vcm
  <2>2. /\ Len(b) = vcm + Int32 + ny /\ Len(b) \in Nat /\ vcm \in Nat /\ ny \in Nat
        /\ Int32 \in Nat \ {0}
    BY <1>5, <1>6, <1>8, <1>9
  <2>3. QED
    BY <2>1, <2>2
<1> HIDE DEF read
<1>16. CASE ~(k <= MaxEntries)
  <2>1. k > MaxEntries
    BY <1>5, <1>14, <1>16
  <2>2. read = Refused(-1)
    BY <1>13, <1>16, <2>1
  <2>3. read.result # 0
    BY <2>2 DEF Refused
  <2>4. QED
    BY <1>12, <1>16, <2>3 DEF TakesIt, read
<1>17. CASE k <= MaxEntries /\ c # b
  <2>1. ~(k > MaxEntries)
    BY <1>5, <1>14, <1>17
  <2>2. read = Refused(-2)
    BY <1>13, <1>15, <1>17, <2>1
  <2>3. read.result # 0
    BY <2>2 DEF Refused
  <2>4. QED
    BY <1>12, <1>17, <2>3 DEF TakesIt, read
<1>18. CASE k <= MaxEntries /\ c = b /\ ~(Len(b) <= HkRoom)
  <2>1. ~(k > MaxEntries) /\ Len(b) > HkRoom
    BY <1>5, <1>12a, <1>14, <1>18
  <2>2. read = Overrun
    BY <1>13, <1>15, <1>18, <2>1
  <2>3. read.result # 0
    BY <2>2 DEF Overrun
  <2>4. QED
    BY <1>12, <1>18, <2>3 DEF TakesIt, read
<1>19. CASE k <= MaxEntries /\ c = b /\ Len(b) <= HkRoom
  <2>1. ~(k > MaxEntries) /\ ~(Len(b) > HkRoom)
    BY <1>5, <1>12a, <1>14, <1>19
  <2>2. read = Message(Struct(MDHead, b, 0, MDNumbers),
                       Structs(HkMDEntry, b, at + Int32, k, HkMDEntryNumbers),
                       [i \in 1 .. n |->
                          Struct(ComplexEvent, b, vcm + Int32, ComplexEventNumbers)])
    BY <1>5, <1>12a, <1>13, <1>15, <1>19, <2>1
  <2>3. Struct(MDHead, b, 0, MDNumbers) = h
    <3>1. 0 \in Nat /\ 0 + at <= Len(b)
      BY <1>5, <1>6, <1>9
    <3>2. \A p \in 1 .. at : b[0 + p] = Encode(MDHead, h)[p]
      <4>1. \A p \in 1 .. at : 0 + p = p
        BY <1>5
      <4>2. QED
        BY <1>5, <4>1
    <3>3. LiesAt(MDHead, h, b, 0)
      BY <3>1, <3>2 DEF LiesAt, at
    <3>4. QED
      BY <1>1, <1>5, <3>1, <3>3, StructIs
  <2>4. Structs(HkMDEntry, b, at + Int32, k, HkMDEntryNumbers) = entries
    <3> DEFINE from == at + Int32
    <3>1. from \in Nat /\ from + kz <= Len(b)
      BY <1>5, <1>6, <1>8, <1>9
    <3>2. AllLieAt(HkMDEntry, entries, b, from)
      BY <1>5, <3>1 DEF k, z, kz, AllLieAt
    <3> HIDE DEF from
    <3>3. Structs(HkMDEntry, b, from, Len(entries), HkMDEntryNumbers) = entries
      BY <1>1, <1>5, <3>1, <3>2, StructsIs
    <3>4. QED
      BY <3>3 DEF from, k
  <2>5. n # 0 => Struct(ComplexEvent, b, vcm + Int32, ComplexEventNumbers) = times[1]
    <3> DEFINE from == vcm + Int32
    <3>1. SUFFICES ASSUME n # 0 PROVE Struct(ComplexEvent, b, from,
                          ComplexEventNumbers) = times[1]
      OBVIOUS
    <3>2. from \in Nat /\ from + y <= Len(b)
      BY <1>6, <1>8, <1>9, <3>1
    <3>3. ASSUME NEW p \in 1 .. y PROVE b[from + p] = Encode(ComplexEvent, times[1])[p]
      <4>1. Int32 + p \in 1 .. Len(rest) /\ vcm + (Int32 + p) = from + p
        BY <1>6, <1>8, <1>9, <3>1
      <4>2. b[vcm + (Int32 + p)] = rest[Int32 + p]
        BY <1>7, <4>1
      <4>3. rest[Int32 + p] = Encode(ComplexEvent, times[1])[p]
        BY <1>2, <3>1
      <4>4. QED
        BY <4>1, <4>2, <4>3
    <3>4. LiesAt(ComplexEvent, times[1], b, from) /\ times[1] \in Fillings(ComplexEvent)
      BY <1>2, <3>1, <3>2, <3>3 DEF LiesAt, y
    <3> HIDE DEF from
    <3>5. QED
      BY <1>1, <1>5, <3>2, <3>4, StructIs
  <2>6. [i \in 1 .. n |-> Struct(ComplexEvent, b, vcm + Int32, ComplexEventNumbers)] =
          Kept(md).times
    <3>1. Kept(md).times = [i \in 1 .. n |-> times[1]]
      <4>1. DOMAIN times = 1 .. n /\ md.times = times
        BY DEF n
      <4>2. QED
        BY <4>1 DEF Kept
    <3>2. \A i \in 1 .. n : n # 0
      BY <1>2
    <3>3. QED
      BY <2>5, <3>1, <3>2
  <2>7. Kept(md) = [head |-> h, entries |-> entries, times |-> Kept(md).times]
    <3> DEFINE ones == [i \in DOMAIN md.times |-> md.times[1]]
    <3>1. Kept(md) = [md EXCEPT !.times = ones]
      BY DEF Kept
    <3> HIDE DEF ones
    <3>2. [md EXCEPT !.times = ones] = [head |-> h, entries |-> entries, times |-> ones]
      OBVIOUS
    <3>3. QED
      BY <3>1, <3>2
  <2>8. read = Message(h, entries, Kept(md).times)
    BY <2>2, <2>3, <2>4, <2>6
  <2>9. read.result = 0 /\ read.md = Kept(md)
    <3> HIDE DEF md
    <3>1. QED
      BY <2>7, <2>8 DEF Message
  <2>10. QED
    BY <1>12, <1>19, <2>9 DEF TakesIt, read
<1>20. QED
  BY <1>16, <1>17, <1>18, <1>19

(* ... and of a status, which has no group. *)
LEMMA StatusIs ==
  ASSUME NEW h \in Fillings(MarketStatus), NEW b, b = Encode(MarketStatus, h),
         NEW c \in Forms(b), Int32 <= Size(MarketStatus)
  PROVE  TakesIt("hkStatus", deserializeHkStatus(c), c, b,
         [head |-> h, entries |-> <<>>, times |-> <<>>])
<1> DEFINE z == Size(MarketStatus)
           md == [head |-> h, entries |-> <<>>, times |-> <<>>]
           read == deserializeHkStatus(c)
<1>1. Laid(MarketStatus, MarketStatusNumbers) /\ z \in Nat
  BY StatusLaid, SizeIs
<1>2. b \in Seq(Byte) /\ Len(b) = z
  BY <1>1, EncodeIs
<1>3. c = b \/ (c # b /\ Len(c) = Len(b) - Int32) \/ (c # b /\ Len(c) = Len(b) + Int32)
  BY <1>2, FormIs
<1>4. Len(c) = z <=> c = b
  <2> HIDE DEF z
  <2>1. QED
    BY <1>1, <1>2, <1>3, Widths
<1>5. Supported("hkStatus", md) /\ Kept(md) = md
  <2>0. Kept(md) = md
    BY AllIsKept
  <2>1. md.entries = <<>> /\ Len(<<>>) = 0 /\ DOMAIN <<>> = {}
    OBVIOUS
  <2> HIDE DEF md
  <2>2. QED
    BY <2>0, <2>1, Widths DEF Supported
<1>6. CASE c # b
  <2>1. read = Refused(-1)
    BY <1>4, <1>6 DEF deserializeHkStatus
  <2>2. read.result # 0
    BY <2>1 DEF Refused
  <2>3. QED
    BY <1>6, <2>2 DEF TakesIt
<1>7. CASE c = b
  <2>1. read = Message(Struct(MarketStatus, b, 0, MarketStatusNumbers), <<>>, <<>>)
    BY <1>4, <1>7 DEF deserializeHkStatus
  <2>2. LiesAt(MarketStatus, h, b, 0)
    <3>1. 0 + z <= Len(b) /\ \A p \in 1 .. z : 0 + p = p
      BY <1>1, <1>2
    <3>2. QED
      BY <3>1 DEF LiesAt
  <2>3. Struct(MarketStatus, b, 0, MarketStatusNumbers) = h
    <3>1. 0 \in Nat
      OBVIOUS
    <3>2. QED
      BY <1>1, <1>2, <2>2, <3>1, StructIs
  <2>4. read.result = 0 /\ read.md = md
    BY <2>1, <2>3 DEF Message
  <2>5. QED
    BY <1>5, <1>7, <2>4 DEF TakesIt
<1>8. QED
  BY <1>6, <1>7

(* So every message is read, in every form that it may take on its way. *)
LEMMA EachIsRead ==
  ASSUME NEW m \in Messages, NEW c \in Forms(Body(m.type, m.md))
  PROVE  TakesIt(m.type, deserializeBody(m.type, c), c, Body(m.type, m.md), m.md)
<1> DEFINE h == m.md.head
           entries == m.md.entries
           times == m.md.times
           b == Body(m.type, m.md)
<1>1. /\ m.type \in {"quote", "hkQuote", "hkStatus", "channelStat"}
      /\ m.md \in Contents(m.type)
  BY MessagesAssumption
<1>2. /\ m.md = [head |-> h, entries |-> entries, times |-> times]
      /\ h \in Fillings(HeadOf(m.type))
      /\ entries \in IF m.type = "hkStatus" THEN {<<>>} ELSE Groups(EntryOf(m.type))
      /\ times \in IF m.type = "hkQuote" THEN Groups(ComplexEvent) ELSE {<<>>}
  BY <1>1 DEF Contents
<1>3. ASSUME NEW x \in Seq(Byte) PROVE x \o <<>> = x
  OBVIOUS
<1>4. CASE m.type = "quote"
  <2>1. /\ h \in Fillings(MDHead) /\ entries \in Seq(Fillings(MDEntry))
        /\ Len(entries) < Weight(Int32) /\ times = <<>>
    BY <1>2, <1>4 DEF HeadOf, EntryOf, Groups
  <2>2. b = Encode(MDHead, h) \o Group(MDEntry, entries)
    <3>1. Encode(MDHead, h) \in Seq(Byte) /\ Group(MDEntry, entries) \in Seq(Byte)
      BY <2>1, HeadLaid, EntryLaid, EncodeIs, GroupIs
    <3>2. b = Encode(MDHead, h) \o Group(MDEntry, entries) \o <<>>
      BY <1>4 DEF Body, HeadOf, EntryOf
    <3>3. QED
      BY <1>3, <3>1, <3>2
  <2>3. deserializeBody(m.type, c) = Grouped(c, MDHead, MDNumbers, MDEntry, MDEntryNumbers)
    BY <1>4 DEF deserializeBody, deserializeQuote
  <2> HIDE DEF h, entries, times
  <2>4. TakesIt(m.type, Grouped(c, MDHead, MDNumbers, MDEntry, MDEntryNumbers), c, b,
                [head |-> h, entries |-> entries, times |-> <<>>])
    <3> HIDE DEF b
    <3>1. c \in Forms(b)
      BY DEF b
    <3>2. QED
      BY <1>4, <2>1, <2>2, <3>1, HeadLaid, EntryLaid, EntriesAreLarge, GroupedIs
  <2>5. QED
    BY <1>2, <2>1, <2>3, <2>4
<1>5. CASE m.type = "channelStat"
  <2>1. /\ h \in Fillings(StatHead) /\ entries \in Seq(Fillings(ChannelStatEntry))
        /\ Len(entries) < Weight(Int32) /\ times = <<>>
    BY <1>2, <1>5 DEF HeadOf, EntryOf, Groups
  <2>2. b = Encode(StatHead, h) \o Group(ChannelStatEntry, entries)
    <3>1. Encode(StatHead, h) \in Seq(Byte)
          /\ Group(ChannelStatEntry, entries) \in Seq(Byte)
      BY <2>1, StatLaid, StatEntryLaid, EncodeIs, GroupIs
    <3>2. b = Encode(StatHead, h) \o Group(ChannelStatEntry, entries) \o <<>>
      BY <1>5 DEF Body, HeadOf, EntryOf
    <3>3. QED
      BY <1>3, <3>1, <3>2
  <2> DEFINE numbers == {"OrigTime", "ChannelNo"}
             counts == {"StockNum"}
  <2>3. deserializeBody(m.type, c) = Grouped(c, StatHead, numbers, ChannelStatEntry, counts)
    BY <1>5 DEF deserializeBody, deserializeChannelStat
  <2>4. Laid(StatHead, numbers) /\ Laid(ChannelStatEntry, counts)
    BY StatLaid, StatEntryLaid
  <2> HIDE DEF h, entries, times, numbers, counts
  <2>5. TakesIt(m.type, Grouped(c, StatHead, numbers, ChannelStatEntry, counts), c, b,
                [head |-> h, entries |-> entries, times |-> <<>>])
    <3> HIDE DEF b
    <3>1. c \in Forms(b)
      BY DEF b
    <3>2. QED
      BY <1>5, <2>1, <2>2, <2>4, <3>1, EntriesAreLarge, GroupedIs
  <2>6. QED
    BY <1>2, <2>1, <2>3, <2>5
<1>6. CASE m.type = "hkQuote"
  <2>1. /\ h \in Fillings(MDHead) /\ entries \in Seq(Fillings(HkMDEntry))
        /\ Len(entries) < Weight(Int32)
        /\ times \in Seq(Fillings(ComplexEvent)) /\ Len(times) < Weight(Int32)
    BY <1>2, <1>6 DEF HeadOf, EntryOf, Groups
  <2>2. b = Encode(MDHead, h) \o Group(HkMDEntry, entries) \o Group(ComplexEvent, times)
    BY <1>6 DEF Body, HeadOf, EntryOf
  <2>3. deserializeBody(m.type, c) = deserializeHkQuote(c)
    BY <1>6 DEF deserializeBody
  <2> HIDE DEF h, entries, times
  <2>4. TakesIt(m.type, deserializeHkQuote(c), c, b,
                [head |-> h, entries |-> entries, times |-> times])
    <3> HIDE DEF b
    <3>1. c \in Forms(b)
      BY DEF b
    <3>2. b = Body("hkQuote", [head |-> h, entries |-> entries, times |-> times])
      BY <1>2, <1>6 DEF b
    <3>3. QED
      BY <1>6, <2>1, <2>2, <3>1, <3>2, HkQuoteIs
  <2>5. QED
    BY <1>2, <2>3, <2>4
<1>7. CASE m.type = "hkStatus"
  <2>1. h \in Fillings(MarketStatus) /\ entries = <<>> /\ times = <<>>
    BY <1>2, <1>7 DEF HeadOf
  <2>2. b = Encode(MarketStatus, h)
    <3>1. Encode(MarketStatus, h) \in Seq(Byte)
      BY <2>1, StatusLaid, EncodeIs
    <3>2. b = Encode(MarketStatus, h) \o <<>> \o <<>>
      BY <1>7 DEF Body, HeadOf
    <3>3. QED
      BY <1>3, <3>1, <3>2
  <2>3. deserializeBody(m.type, c) = deserializeHkStatus(c)
    BY <1>7 DEF deserializeBody
  <2> HIDE DEF h, entries, times
  <2>4. TakesIt(m.type, deserializeHkStatus(c), c, b,
                [head |-> h, entries |-> <<>>, times |-> <<>>])
    <3> HIDE DEF b
    <3>1. c \in Forms(b)
      BY DEF b
    <3>2. QED
      BY <1>7, <2>1, <2>2, <3>1, StatusIsLarge, StatusIs
  <2>5. QED
    BY <1>2, <2>1, <2>3, <2>4
<1>8. QED
  BY <1>1, <1>4, <1>5, <1>6, <1>7

LEMMA BodiesAreRead == ReadsRight
<1>1. ASSUME NEW a \in Arrivals
      PROVE  /\ deserializeBody(a.type, a.body).result = 0
                  <=> a.body = Body(a.type, a.md) /\ Supported(a.type, a.md)
             /\ deserializeBody(a.type, a.body).result = 0
                  => deserializeBody(a.type, a.body).md = Kept(a.md)
  <2>1. PICK m \in Messages :
          \E c \in Forms(Body(m.type, m.md)) : a = [type |-> m.type, md |-> m.md,
          body |-> c]
    BY DEF Arrivals
  <2>2. a.type = m.type /\ a.md = m.md /\ a.body \in Forms(Body(m.type, m.md))
    BY <2>1
  <2>3. TakesIt(m.type, deserializeBody(m.type, a.body), a.body, Body(m.type, m.md), m.md)
    BY <2>2, EachIsRead
  <2>4. QED
    BY <2>2, <2>3 DEF TakesIt
<1>2. QED
  BY <1>1 DEF ReadsRight

(* Hence a quote that reaches the table is one that was meant. *)
LEMMA AcceptedAreMeant == Accepted \subseteq MeantQuotes
<1>1. ASSUME NEW q \in Accepted PROVE q \in MeantQuotes
  <2>1. PICK a \in Arrivals : /\ a.type \in {"quote", "hkQuote"}
                              /\ deserializeBody(a.type, a.body).result = 0
                              /\ q = QuoteOf(a.type, deserializeBody(a.type, a.body).md)
    BY DEF Accepted
  <2>2. deserializeBody(a.type, a.body).md = Kept(a.md)
    BY <2>1, BodiesAreRead DEF ReadsRight
  <2>3. PICK m \in Messages : a.type = m.type /\ a.md = m.md
    BY DEF Arrivals
  <2>4. QuoteOf(a.type, Kept(m.md)) = QuoteOf(a.type, m.md)
    <3>1. m.md \in Contents(m.type)
      BY MessagesAssumption
    <3>2. Kept(m.md).head = m.md.head /\ Kept(m.md).entries = m.md.entries
      BY <3>1 DEF Kept, Contents
    <3>3. QED
      BY <3>2 DEF QuoteOf
  <2>5. QED
    BY <2>1, <2>2, <2>3, <2>4 DEF MeantQuotes
<1>2. QED
  BY <1>1


(* Whatever the gateway has to say, and however its body is cut or grows: a *)
(* body is taken exactly if it is one that the client is made for, with     *)
(* every field as it was meant that its structure keeps, and parse() gets   *)
(* no other quotes.  One whose cooling-off periods run past the structure   *)
(* is not counted as taken: nothing is said of what comes then.             *)
THEOREM QuotesAreMeant == Spec => []ReadsWhatWasMeant
<1>1. IInv => ReadsWhatWasMeant
  <2>1. ASSUME IInv PROVE \A n \in DOMAIN received : received[n] \in MeantQuotes
    <3>1. received \in Seq(Accepted)
      BY <2>1 DEF IInv, Shape
    <3>2. \A n \in DOMAIN received : received[n] \in Accepted
      BY <3>1, ElementOfSeq
    <3>3. QED
      BY <3>2, AcceptedAreMeant
  <2>2. QED
    BY <2>1, BodiesAreRead DEF ReadsWhatWasMeant
<1>2. QED
  BY <1>1, Invariance, PTL

-----------------------------------------------------------------------------
(* The types of what the two threads share. *)

(* The range of an int. *)
Price == -Weight(Int32) \div 2 .. Weight(Int32) \div 2 - 1

(* The price of a record without one. *)
LEMMA ZeroPrice == 0 \in Price
<1> DEFINE W == Weight(Int32)
<1>1. W \in Nat /\ W > 1
  BY OneFits
<1> HIDE DEF W
<1>2. W \div 2 >= 1 /\ W \div 2 \in Int /\ (-W) \div 2 \in Int /\ (-W) \div 2 <= 0
  BY <1>1, Z3
<1>3. QED
  BY <1>2 DEF Price, W

(* What parse() makes of a message is typed as the table is. *)
LEMMA QuotesTyped ==
  ASSUME NEW q \in Accepted
  PROVE  /\ q.market \in {0, 2, 9} /\ q.code \in 0 .. CodeLimit - 1
         /\ \A i \in DOMAIN q.entries : q.entries[i].value \in Price
<1>1. q \in MeantQuotes
  BY AcceptedAreMeant
<1>2. PICK m \in Messages : m.type \in {"quote", "hkQuote"} /\ q = QuoteOf(m.type, m.md)
  BY <1>1 DEF MeantQuotes
<1> DEFINE h == m.md.head
           entries == m.md.entries
           layout == EntryOf(m.type)
<1>3. /\ h \in Fillings(MDHead) /\ entries \in Seq(Fillings(layout))
      /\ layout \in {MDEntry, HkMDEntry}
  <2>1. m.md \in Contents(m.type) /\ m.type # "hkStatus"
    BY <1>2, MessagesAssumption
  <2>2. h \in Fillings(HeadOf(m.type)) /\ entries \in Seq(Fillings(layout))
    BY <2>1 DEF Contents, Groups
  <2>3. QED
    BY <1>2, <2>2 DEF HeadOf, EntryOf
<1>4. q.code \in Nat
  <2>1. "SecurityID" \in Names(MDHead)
    <3>1. DOMAIN MDHead = 1 .. 10 /\ MDHead[4].name = "SecurityID"
      BY DEF MDHead, Text
    <3>2. QED
      BY <3>1 DEF Names
  <2>2. h.SecurityID \in Seq(Byte)
    BY <1>3, <2>1 DEF Fillings
  <2>3. q.code = Number(Leading(h.SecurityID))
    BY <1>2 DEF QuoteOf, fixedCharToInt
  <2>4. QED
    BY <2>2, <2>3, LeadingIs
<1>5. q.code < CodeLimit
  BY QuoteSays
<1>6. q.market \in {0, 2, 9}
  BY <1>2 DEF QuoteOf
<1>7. ASSUME NEW i \in DOMAIN q.entries PROVE q.entries[i].value \in Price
  <2>1. /\ DOMAIN q.entries = DOMAIN entries
        /\ q.entries[i].value = ToInt(SignedValue(entries[i].MDEntryPx))
    BY <1>2, <1>7 DEF QuoteOf
  <2>2. entries[i] \in Fillings(layout)
    BY <1>3, <2>1
  <2>3. "MDEntryPx" \in Names(layout)
    <3>1. DOMAIN HkMDEntry = 1 .. 4 /\ HkMDEntry[2].name = "MDEntryPx"
      BY DEF HkMDEntry, Numeric, Text
    <3>2. 2 \in DOMAIN MDEntry /\ MDEntry[2].name = HkMDEntry[2].name
      BY EntryLaid
    <3>3. QED
      BY <1>3, <3>1, <3>2 DEF Names
  <2>4. entries[i].MDEntryPx \in Seq(Byte)
    BY <2>2, <2>3 DEF Fillings
  <2>5. SignedValue(entries[i].MDEntryPx) \in Int
    BY <2>4, SignedTyped
  <2>6. ToInt(SignedValue(entries[i].MDEntryPx)) \in Price
    <3> DEFINE px == SignedValue(entries[i].MDEntryPx)
               s == Stored(px, Int32)
    <3> HIDE DEF px
    <3>1. s \in Seq(Byte) /\ Len(s) = Int32 /\ Int32 # 0
      BY <2>5, Widths, StoredTyped DEF px
    <3> HIDE DEF s
    <3>2. SignedValue(s) \in -Weight(Len(s)) \div 2 .. Weight(Len(s)) \div 2 - 1
      BY <3>1, SignedRange
    <3>3. QED
      BY <3>1, <3>2 DEF Price, ToInt, px, s
  <2>7. QED
    BY <2>1, <2>6
<1>8. QED
  BY <1>4, <1>5, <1>6, <1>7, CodeLimitAssumption

(* A save keeps the type of a record; so do a new one and a wiped one. *)
LEMMA PutTyped ==
  ASSUME NEW n \in 0 .. MaxQuotes, received[n] \in Accepted,
         NEW i \in SavesOf(received[n]), NEW e \in Element
  PROVE  Put(e, n, i) \in Element
<1> DEFINE q == received[n]
<1>1. i \in Nat
  BY SavesAre
<1>2. Element = [market : {0, 2, 9}, code : 0 .. CodeLimit - 1, origTime : 0 .. MaxQuotes,
                 price : [EntryTypes -> Price]]
  BY DEF Element, Price
<1>3. CASE i = 0
  <2>1. Put(e, n, i) = [e EXCEPT !.market = q.market, !.code = q.code]
    BY <1>3 DEF Put
  <2>2. q.market \in {0, 2, 9} /\ q.code \in 0 .. CodeLimit - 1
    BY QuotesTyped
  <2>3. QED
    BY <1>2, <2>1, <2>2
<1>4. CASE i = 1
  <2>1. Put(e, n, i) = [e EXCEPT !.origTime = n]
    BY <1>4 DEF Put
  <2>2. QED
    BY <1>2, <2>1
<1>5. CASE i > 1
  <2>1. Put(e, n, i) = [e EXCEPT !.price[q.entries[i - 1].type] = q.entries[i - 1].value]
    BY <1>1, <1>5 DEF Put
  <2>2. q.entries[i - 1].type \in EntryTypes
    BY <1>5, QuoteSays
  <2>3. i - 1 \in DOMAIN q.entries
    BY <1>5 DEF SavesOf
  <2>4. q.entries[i - 1].value \in Price
    BY <2>3, QuotesTyped
  <2>5. QED
    BY <1>2, <2>1, <2>2, <2>4
<1>6. QED
  BY <1>1, <1>3, <1>4, <1>5

LEMMA FreshTyped == Zeroed \in Element
<1>1. 0 \in 0 .. MaxQuotes /\ 0 \in 0 .. CodeLimit - 1 /\ 0 \in Price
  BY ZeroPrice, BoundsAssumption, CodeLimitAssumption
<1>2. Element = [market : {0, 2, 9}, code : 0 .. CodeLimit - 1, origTime : 0 .. MaxQuotes,
                 price : [EntryTypes -> Price]]
  BY DEF Element, Price
<1>3. QED
  BY <1>1, <1>2 DEF Zeroed

(* What TypeOK says beyond IInv. *)
Typed ==
  item \in [Keys -> Element] /\ key \in Keys \cup {-1} /\ toVisit \subseteq listed

(* What the next save leaves. *)
LEMMA SaveTyped ==
  ASSUME IInv, Typed, pc # "idle"
  PROVE  /\ key \in Keys /\ Created \in Element
         /\ Put(item[key], Latest, NextSave) \in Element
<1>1. /\ received[Latest] \in Accepted /\ Latest \in 0 .. MaxQuotes
      /\ key = KeyOf(received[Latest]) /\ saves \subseteq SavesOf(received[Latest])
         /\ saves # {}
  BY Bounds DEF IInv, Working
<1>2. key \in Keys
  BY <1>1, QuoteSays
<1>3. NextSave \in SavesOf(received[Latest])
  <2>1. saves \subseteq Nat
    BY <1>1, SavesAre
  <2>2. QED
    BY <1>1, <2>1, MinOf DEF NextSave
<1>4. MakeElement(received[Latest]) \in Element
  <2>1. /\ received[Latest].market \in {0, 2, 9}
        /\ received[Latest].code \in 0 .. CodeLimit - 1
    BY <1>1, QuotesTyped
  <2>2. QED
    BY <2>1, FreshTyped DEF MakeElement, Element
<1>5. item[key] \in Element
  BY <1>2 DEF Typed
<1>6. QED
  BY <1>1, <1>2, <1>3, <1>4, <1>5, PutTyped DEF Created

LEMMA WipeTyped ==
  ASSUME Wipe
  PROVE  item' \in [Keys -> Element]
BY FreshTyped DEF Wipe

LEMMA BetweenTyped ==
  ASSUME NEW old \in Element, NEW new \in Element, NEW r \in Between(old, new)
  PROVE  r \in Element
<1>1. PICK m \in {old.market, new.market}, c \in {old.code, new.code},
           t \in {old.origTime, new.origTime}, done \in SUBSET EntryTypes :
        r = [market |-> m, code |-> c, origTime |-> t,
             price |-> [e \in EntryTypes |-> IF e \in done THEN new.price[e] ELSE old.price[e]]]
  BY DEF Between
<1>2. Element = [market : {0, 2, 9}, code : 0 .. CodeLimit - 1, origTime : 0 .. MaxQuotes,
                 price : [EntryTypes -> Price]]
  BY DEF Element, Price
<1>3. QED
  BY <1>1, <1>2

LEMMA NextTyped ==
  ASSUME IInv, Typed, [Next]_vars
  PROVE  Typed'
<1>1. ASSUME NEW q \in Accepted, Parse(q) PROVE Typed'
  BY <1>1, QuoteSays DEF Parse, Typed, table, dumper
<1>2. CASE Lookup
  BY <1>2 DEF Lookup, Typed, table, dumper
<1>3. CASE Create
  <2>1. pc # "idle" /\ toVisit' = toVisit /\ key' = key
        /\ item' = [item EXCEPT ![key] = Created]
    BY <1>3 DEF Create, SaveNext, dumper
  <2>2. toVisit = {}
    BY <1>3 DEF Create, Unlocked, IInv, Dumping
  <2>3. QED
    BY <2>1, <2>2, SaveTyped DEF Typed
<1>4. CASE Write
  <2>1. pc # "idle" /\ UNCHANGED <<toVisit, key, listed>> /\ item' = Written
    BY <1>4 DEF Write, SaveNext, dumper
  <2>2. QED
    BY <2>1, SaveTyped DEF Typed, Written
<1>5. CASE Dump
  BY <1>5 DEF Dump, Typed, table, business
<1>6. ASSUME NEW k \in Keys, DumpRecord(k) PROVE Typed'
  BY <1>6 DEF DumpRecord, Typed, table, business
<1>7. CASE DumpDone
  BY <1>7 DEF DumpDone, EndDump, Typed, table, business
<1>8. CASE Clear
  <2>1. toVisit' = {} /\ key' = key /\ Wipe
    BY <1>8 DEF Clear, Unlocked, IInv, Dumping, business, dumper
  <2>2. QED
    BY <2>1, WipeTyped DEF Typed
<1>9. CASE Crash
  BY <1>9 DEF Crash, Restart, EndDump, Typed, table
<1>10. CASE CrashInSet
  <2>1. toVisit' = {} /\ key' = key /\ pc = "create"
    BY <1>10 DEF CrashInSet, Restart, EndDump
  <2>2. item' \in [Keys -> Element]
    <3>1. CASE Wipe
      BY <3>1, WipeTyped
    <3>2. CASE \E part \in Between(item[key], Created) : item' = [item EXCEPT ![key] = part]
      <4>1. PICK part \in Between(item[key], Created) : item' = [item EXCEPT ![key] = part]
        BY <3>2
      <4>2. Created \in Element /\ item[key] \in Element
        BY <2>1, SaveTyped DEF Typed
      <4>3. part \in Element
        BY <4>2, BetweenTyped
      <4>4. QED
        BY <4>1, <4>3 DEF Typed
    <3>3. QED
      BY <1>10, <3>1, <3>2 DEF CrashInSet
  <2>3. QED
    BY <2>1, <2>2 DEF Typed
<1>11. CASE CrashInClear
  <2>1. toVisit' = {} /\ key' = key
    BY <1>11 DEF CrashInClear, Restart, EndDump
  <2>2. CASE Wipe
    BY <2>1, <2>2, WipeTyped DEF Typed
  <2>3. CASE \E wiped \in SUBSET Keys : \E k \in Keys : \E part \in Between(item[k],
             Zeroed) :
               item' = [j \in Keys |-> IF j = k THEN part
                                      ELSE IF j \in wiped THEN Zeroed ELSE item[j]]
    <3>a. PICK wiped \in SUBSET Keys, k \in Keys :
            \E part \in Between(item[k], Zeroed) :
              item' = [j \in Keys |-> IF j = k THEN part
                                     ELSE IF j \in wiped THEN Zeroed ELSE item[j]]
      BY <2>3
    <3>1. PICK part \in Between(item[k], Zeroed) :
            item' = [j \in Keys |-> IF j = k THEN part
                                   ELSE IF j \in wiped THEN Zeroed ELSE item[j]]
      BY <3>a
    <3>2. item[k] \in Element /\ Zeroed \in Element /\ \A j \in Keys : item[j] \in Element
      BY FreshTyped DEF Typed
    <3>3. part \in Element
      BY <3>2, BetweenTyped
    <3> HIDE DEF Element, Zeroed
    <3>4. QED
      BY <2>1, <3>1, <3>2, <3>3 DEF Typed
  <2>4. QED
    BY <1>11, <2>2, <2>3 DEF CrashInClear
<1>12. CASE UNCHANGED vars
  BY <1>12 DEF vars, table, business, dumper, Typed
<1>13. QED
  BY <1>1, <1>2, <1>3, <1>4, <1>5, <1>6, <1>7, <1>8, <1>9, <1>10, <1>11, <1>12 DEF Next


(* The types of the table and of what the two threads do with it: above all *)
(* codes below the limit, prices in the range of an int, whatever the       *)
(* messages say; and a dump only ever visits what is listed.                *)
THEOREM TypeCorrect == Spec => []TypeOK
<1>1. Init => IInv /\ Typed
  <2>1. Init => Typed
    BY FreshTyped DEF Init, Typed
  <2>2. QED
    BY <2>1, InitIInv
<1>2. IInv /\ Typed /\ [Next]_vars => (IInv /\ Typed)'
  BY NextIInv, NextTyped
<1>3. IInv /\ Typed => TypeOK
  <2>1. SUFFICES ASSUME IInv, Typed PROVE TypeOK
    OBVIOUS
  <2>2. InWork = {} <=> saves = {}
    <3>1. pc = "idle" <=> saves = {}
      BY <2>1 DEF IInv, Working
    <3>2. {Latest} # {}
      OBVIOUS
    <3>3. QED
      BY <3>1, <3>2 DEF InWork
  <2>3. cleared \in [Keys -> 0 .. Latest]
    <3>1. /\ cleared \in [Keys -> Nat] /\ \A k \in Keys : cleared[k] <= Finished
          /\ Latest \in Nat
      <4>1. Shape
        BY <2>1 DEF IInv
      <4>2. Latest \in Nat
        BY <4>1, Bounds
      <4>3. QED
        BY <4>1, <4>2 DEF Shape
    <3>2. Finished \in Int /\ Finished <= Latest
      BY <3>1 DEF Finished
    <3>3. QED
      BY <3>1, <3>2
  <2>4. QED
    <3>1. Shape
      BY <2>1 DEF IInv
    <3>2. QED
      BY <2>1, <2>2, <2>3, <3>1 DEF Shape, Typed, TypeOK
<1>4. QED
  BY <1>1, <1>2, <1>3, PTL DEF Spec
=============================================================================

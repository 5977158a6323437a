------------------------- MODULE FIFOQueueNLProofs -------------------------
(* Proofs about FIFOQueueNL, for every capacity and every set of items.    *)
EXTENDS FIFOQueueNL, TLAPS

-----------------------------------------------------------------------------
(* Arithmetic of wrapped indices, for any modulus above 1.                 *)

(* Division with remainder, as the provers know it. *)
LEMMA DivMod ==
  ASSUME NEW n \in Nat
  PROVE  /\ n = Capacity * (n \div Capacity) + (n % Capacity)
         /\ n \div Capacity \in Nat
         /\ n % Capacity \in Slots
  BY CapacityAssumption, Z3 DEF Slots

(* The only multiple of Capacity closer to zero than Capacity is zero. *)
LEMMA SmallMultiple ==
  ASSUME NEW a \in Int, a * Capacity < Capacity, a * Capacity > -Capacity
  PROVE  a = 0
<1>1. CASE a >= 1
  <2>1. a * Capacity >= Capacity
    BY CapacityAssumption, <1>1, Z3
  <2>2. QED
    BY <2>1, CapacityAssumption
<1>2. CASE a <= -1
  <2>1. a * Capacity <= -Capacity
    BY CapacityAssumption, <1>2, Z3
  <2>2. QED
    BY <2>1, CapacityAssumption
<1>3. QED
  BY <1>1, <1>2

(* The remainder is unique. *)
LEMMA ModUnique ==
  ASSUME NEW q \in Int, NEW r \in Slots, NEW n \in Nat, n = Capacity * q + r
  PROVE  n % Capacity = r
<1> DEFINE p == n \div Capacity
           m == n % Capacity
<1>1. n = Capacity * p + m /\ m \in Slots /\ p \in Int
  BY DivMod
<1>2. (p - q) * Capacity = r - m
  BY <1>1, CapacityAssumption, Z3 DEF Slots
<1>3. p - q = 0
  BY <1>1, <1>2, SmallMultiple, CapacityAssumption DEF Slots
<1>4. QED
  BY <1>1, <1>2, <1>3, CapacityAssumption DEF Slots

(* Advancing a wrapped counter wraps the advanced counter. *)
LEMMA ModNext ==
  ASSUME NEW n \in Nat
  PROVE  NextIndex(n % Capacity) = (n + 1) % Capacity
<1> DEFINE q == n \div Capacity
           r == n % Capacity
<1>1. n = Capacity * q + r /\ r \in Slots /\ q \in Nat
  BY DivMod
<1>2. CASE r + 1 < Capacity
  <2>1. (r + 1) % Capacity = r + 1
    BY <1>1, <1>2, CapacityAssumption DEF Slots
  <2>2. n + 1 = Capacity * q + (r + 1) /\ r + 1 \in Slots
    BY <1>1, <1>2, CapacityAssumption, Z3 DEF Slots
  <2>3. (n + 1) % Capacity = r + 1
    BY <2>2, <1>1, ModUnique DEF Slots
  <2>4. QED
    BY <2>1, <2>3 DEF NextIndex
<1>3. CASE r + 1 = Capacity
  <2>1. (r + 1) % Capacity = 0
    BY <1>3, CapacityAssumption
  <2>2. n + 1 = Capacity * (q + 1) + 0 /\ 0 \in Slots
    BY <1>1, <1>3, CapacityAssumption, Z3 DEF Slots
  <2>3. (n + 1) % Capacity = 0
    BY <2>2, <1>1, ModUnique
  <2>4. QED
    BY <2>1, <2>3 DEF NextIndex
<1>4. QED
  BY <1>1, <1>2, <1>3, CapacityAssumption DEF Slots

(* Two counters less than a lap apart have different slots. *)
LEMMA ModDistinct ==
  ASSUME NEW a \in Nat, NEW b \in Nat, a < b, b < a + Capacity
  PROVE  a % Capacity # b % Capacity
<1> DEFINE p == a \div Capacity
           q == b \div Capacity
<1>1. SUFFICES ASSUME a % Capacity = b % Capacity
               PROVE  FALSE
  OBVIOUS
<1>2. /\ a = Capacity * p + (a % Capacity) /\ p \in Nat
      /\ b = Capacity * q + (b % Capacity) /\ q \in Nat
      /\ a % Capacity \in Slots
  BY DivMod
<1>3. (q - p) * Capacity = b - a
  BY <1>1, <1>2, CapacityAssumption, Z3 DEF Slots
<1>4. q - p = 0
  BY <1>2, <1>3, SmallMultiple, CapacityAssumption
<1>5. QED
  BY <1>2, <1>3, <1>4, CapacityAssumption

(* Wrapping before an addition makes no difference to the wrapped sum. *)
LEMMA ModAbsorb ==
  ASSUME NEW a \in Nat, NEW k \in Nat, k >= 1
  PROVE  ((a % Capacity) + k - 1) % Capacity = (a + k - 1) % Capacity
<1> DEFINE p == a \div Capacity
           m == a % Capacity
           q == (m + k - 1) \div Capacity
           r == (m + k - 1) % Capacity
<1>1. a = Capacity * p + m /\ p \in Nat /\ m \in Slots
  BY DivMod
<1>2. m + k - 1 \in Nat /\ a + k - 1 \in Nat
  BY <1>1, CapacityAssumption DEF Slots
<1>3. m + k - 1 = Capacity * q + r /\ q \in Nat /\ r \in Slots
  BY <1>2, DivMod
<1>4. a + k - 1 = Capacity * (p + q) + r
  <2> HIDE DEF p, m, q, r
  <2>1. m \in Nat /\ r \in Nat
    BY <1>1, <1>3, CapacityAssumption DEF Slots
  <2>2. a + k - 1 = Capacity * p + (Capacity * q + r)
    BY <1>1, <1>3, <2>1, CapacityAssumption
  <2>3. Capacity * (p + q) = Capacity * p + Capacity * q
    BY <1>1, <1>3, CapacityAssumption, Z3
  <2>4. QED
    BY <1>1, <1>3, <2>1, <2>2, <2>3, CapacityAssumption
<1>5. p + q \in Int
  BY <1>1, <1>3
<1>6. QED
  BY <1>2, <1>3, <1>4, <1>5, ModUnique

(* Two counters exactly a lap apart have the same slot. *)
LEMMA ModLap ==
  ASSUME NEW a \in Nat
  PROVE  (a + Capacity) % Capacity = a % Capacity
<1> DEFINE q == a \div Capacity
<1>1. a = Capacity * q + (a % Capacity) /\ q \in Nat /\ a % Capacity \in Slots
  BY DivMod
<1>2. a + Capacity = Capacity * (q + 1) + (a % Capacity)
  BY <1>1, CapacityAssumption, Z3 DEF Slots
<1>3. a + Capacity \in Nat /\ q + 1 \in Int
  BY <1>1, CapacityAssumption
<1>4. QED
  BY <1>1, <1>2, <1>3, ModUnique

-----------------------------------------------------------------------------
(* The inductive invariant.                                                *)

(* What IInv says of the four index values the code compares. *)
LEMMA IndexValues ==
  ASSUME IInv
  PROVE  /\ Len(accepted) \in Nat /\ Len(delivered) \in Nat
         /\ Len(delivered) <= Len(accepted)
         /\ Latest(write_index) = Len(accepted) % Capacity
         /\ Latest(read_index) = Len(delivered) % Capacity
         /\ wSeen \in Nat /\ wSeen >= 1 /\ wSeen <= Len(accepted) + 1
         /\ write_index[wSeen] = (wSeen - 1) % Capacity
         /\ rSeen \in Nat /\ rSeen >= 1 /\ rSeen <= Len(delivered) + 1
         /\ read_index[rSeen] = (rSeen - 1) % Capacity
         /\ Len(write_index) = Len(accepted) + 1
         /\ Len(read_index) = Len(delivered) + 1
  BY DEF IInv, TypeOK, Positions, FifoDelivery, Latest

(* The same for the counters behind them, without remainders. *)
LEMMA Counters ==
  ASSUME IInv
  PROVE  /\ Len(accepted) \in Nat /\ Len(delivered) \in Nat
         /\ wSeen \in Nat /\ rSeen \in Nat
         /\ Len(write_index) = Len(accepted) + 1
         /\ Len(read_index) = Len(delivered) + 1
         /\ 1 <= rSeen /\ rSeen <= Len(delivered) + 1
         /\ Len(delivered) + 1 <= wSeen /\ wSeen <= Len(accepted) + 1
         /\ Len(accepted) + 1 - rSeen <= Capacity - 1
         /\ pPc \in {"copy", "store"} => Len(accepted) + 1 - rSeen < Capacity - 1
         /\ cPc \in {"copy", "store"} => Len(delivered) + 1 < wSeen
<1>1. /\ Len(accepted) \in Nat /\ Len(delivered) \in Nat
      /\ Len(write_index) = Len(accepted) + 1 /\ Len(read_index) = Len(delivered) + 1
      /\ wSeen \in 1 .. Len(write_index) /\ rSeen \in 1 .. Len(read_index)
  BY DEF IInv, TypeOK, Positions
<1>2. Room
  BY DEF IInv
<1>3. QED
  BY <1>1, <1>2 DEF Room

(* The ring starts empty, with both indices on slot 0. *)
LEMMA InitIInv == Init => IInv
<1>1. SUFFICES ASSUME Init PROVE IInv
  OBVIOUS
<1>2. 0 \in Slots /\ 0 % Capacity = 0
  BY CapacityAssumption DEF Slots
<1>3. TypeOK
  BY <1>1, <1>2 DEF Init, TypeOK
<1>4. Positions /\ Room /\ Contents /\ FifoDelivery
  BY <1>1, <1>2, CapacityAssumption
     DEF Init, Positions, Room, Contents, FifoDelivery
<1>5. QED
  BY <1>3, <1>4 DEF IInv

LEMMA PushCallIInv == IInv /\ (\E v \in Items : PushCall(v)) => IInv'
<1>1. SUFFICES ASSUME IInv, NEW v \in Items, PushCall(v) PROVE IInv'
  OBVIOUS
<1>2. TypeOK'
  BY <1>1 DEF IInv, TypeOK, PushCall, memory, consumer
<1>3. Positions' /\ Room' /\ Contents' /\ FifoDelivery'
  BY <1>1 DEF IInv, Positions, Room, Contents, FifoDelivery, PushCall, memory, consumer
<1>4. QED
  BY <1>2, <1>3 DEF IInv

(* A ring that does not look full is not full: the producer's last free     *)
(* slot stays between its index and the consumer's, as it sees it.          *)
LEMMA PushLoadIInv == IInv /\ PushLoad => IInv'
<1>1. SUFFICES ASSUME IInv, PushLoad PROVE IInv'
  OBVIOUS
<1>2. TypeOK'
  BY <1>1 DEF IInv, TypeOK, PushLoad, memory, consumer
<1>3. Positions' /\ FifoDelivery'
  BY <1>1 DEF IInv, Positions, FifoDelivery, PushLoad, memory, consumer
<1>4. Contents'
  BY <1>1 DEF IInv, Contents, PushLoad, memory, consumer
<1>5. ASSUME ~Full PROVE Len(write_index) - rSeen < Capacity - 1
  <2>1. SUFFICES ASSUME Len(accepted) + 1 - rSeen >= Capacity - 1 PROVE FALSE
    BY <1>1, Counters, CapacityAssumption
  <2>2. Len(accepted) + 1 = (rSeen - 1) + Capacity
    BY <1>1, <2>1, Counters, CapacityAssumption
  <2>3. (Len(accepted) + 1) % Capacity = (rSeen - 1) % Capacity
    <3>1. rSeen - 1 \in Nat
      BY <1>1, IndexValues
    <3>2. QED
      BY <3>1, <2>2, ModLap
  <2>4. NextIndex(Latest(write_index)) = (Len(accepted) + 1) % Capacity
    BY <1>1, IndexValues, ModNext
  <2>5. QED
    BY <1>1, <1>5, <2>3, <2>4, IndexValues DEF Full
<1>6. Room'
  BY <1>1, <1>5 DEF IInv, Room, PushLoad, memory, consumer
<1>7. QED
  BY <1>2, <1>3, <1>4, <1>6 DEF IInv

(* The slot written holds no item that still waits. *)
LEMMA PushCopyIInv == IInv /\ PushCopy => IInv'
<1>1. SUFFICES ASSUME IInv, PushCopy PROVE IInv'
  OBVIOUS
<1> DEFINE slot == Len(accepted) % Capacity
<1>2. Latest(write_index) = slot /\ slot \in Slots
  BY <1>1, IndexValues, DivMod
<1>3. buffer' = [buffer EXCEPT ![slot] = pValue] /\ pValue \in Items
  BY <1>1, <1>2 DEF PushCopy, IInv, Contents
<1>4. TypeOK'
  BY <1>1, <1>3 DEF IInv, TypeOK, PushCopy, consumer
<1>5. Positions' /\ FifoDelivery' /\ Room'
  BY <1>1 DEF IInv, Positions, FifoDelivery, Room, PushCopy, consumer
<1>6. ASSUME NEW n \in Len(delivered) + 1 .. Len(accepted)
      PROVE  buffer'[(n - 1) % Capacity] = accepted[n]
  <2>1. pPc = "copy"
    BY <1>1 DEF PushCopy
  <2>2. n - 1 \in Nat /\ n - 1 < Len(accepted) /\ Len(accepted) < (n - 1) + Capacity
    BY <1>1, <2>1, Counters, CapacityAssumption
  <2>3. (n - 1) % Capacity # slot /\ (n - 1) % Capacity \in Slots
    BY <1>1, <2>2, ModDistinct, DivMod, IndexValues
  <2>4. buffer[(n - 1) % Capacity] = accepted[n]
    BY <1>1 DEF IInv, Contents
  <2>5. QED
    BY <1>1, <1>3, <2>3, <2>4 DEF IInv, TypeOK
<1>7. buffer'[slot] = pValue
  BY <1>1, <1>2, <1>3 DEF IInv, TypeOK
<1>8. Contents'
  BY <1>1, <1>3, <1>6, <1>7 DEF IInv, Contents, PushCopy, consumer
<1>9. QED
  BY <1>4, <1>5, <1>8 DEF IInv

(* Publishing the new index adds the copied item to what waits. *)
LEMMA PushStoreIInv == IInv /\ PushStore => IInv'
<1>1. SUFFICES ASSUME IInv, PushStore PROVE IInv'
  OBVIOUS
<1> DEFINE A == Len(accepted)
<1>2. pValue \in Items /\ accepted' = Append(accepted, pValue)
  BY <1>1 DEF PushStore, IInv, Contents
<1>3. /\ accepted \in Seq(Items) /\ accepted' \in Seq(Items)
      /\ Len(accepted') = A + 1 /\ A \in Nat
      /\ \A n \in 1 .. A : accepted'[n] = accepted[n]
      /\ accepted'[A + 1] = pValue
  BY <1>1, <1>2 DEF IInv, TypeOK
<1>4. write_index' = Append(write_index, (A + 1) % Capacity)
  BY <1>1, IndexValues, ModNext DEF PushStore
<1>5. (A + 1) % Capacity \in Slots
  BY <1>3, DivMod
<1>6. /\ write_index' \in Seq(Slots)
      /\ Len(write_index') = A + 2
      /\ \A i \in 1 .. A + 1 : write_index'[i] = write_index[i]
      /\ write_index'[A + 2] = (A + 1) % Capacity
  BY <1>1, <1>3, <1>4, <1>5, IndexValues DEF IInv, TypeOK
<1>7. TypeOK'
  BY <1>1, <1>3, <1>6, IndexValues DEF IInv, TypeOK, PushStore, consumer
<1>8. Positions'
  <2>1. ASSUME NEW i \in 1 .. A + 2 PROVE write_index'[i] = (i - 1) % Capacity
    <3>1. CASE i = A + 2
      BY <1>3, <1>6, <3>1
    <3>2. CASE i \in 1 .. A + 1
      BY <1>1, <1>6, <3>2 DEF IInv, Positions
    <3>3. QED
      BY <1>3, <3>1, <3>2
  <2>2. QED
    BY <1>1, <1>3, <1>6, <2>1 DEF IInv, Positions, PushStore, consumer
<1>9. Room'
  <2>1. /\ pPc = "store" /\ pPc' = "idle" /\ cPc' = cPc
        /\ rSeen' = rSeen /\ wSeen' = wSeen /\ read_index' = read_index
    BY <1>1 DEF PushStore, consumer
  <2>2. Len(write_index') = Len(accepted) + 2
    BY <1>6
  <2>3. QED
    BY <1>1, <2>1, <2>2, Counters, CapacityAssumption DEF Room
<1>10. FifoDelivery'
  BY <1>1, <1>3, IndexValues DEF IInv, FifoDelivery, PushStore, consumer
<1>11. Contents'
  <2>1. buffer[A % Capacity] = pValue
    BY <1>1 DEF IInv, Contents, PushStore
  <2>2. ASSUME NEW n \in Len(delivered) + 1 .. A + 1
        PROVE  buffer[(n - 1) % Capacity] = accepted'[n]
    <3>1. CASE n = A + 1
      BY <3>1, <1>3, <2>1
    <3>2. CASE n # A + 1
      <4>1. n \in Len(delivered) + 1 .. A /\ n \in 1 .. A
        BY <3>2, <1>1, <1>3, IndexValues
      <4>2. buffer[(n - 1) % Capacity] = accepted[n]
        BY <1>1, <4>1 DEF IInv, Contents
      <4>3. QED
        BY <1>3, <4>1, <4>2
    <3>3. QED
      BY <3>1, <3>2
  <2>3. ASSUME cPc = "store" PROVE cValue = accepted'[Len(delivered) + 1]
    <3>1. Len(delivered) + 1 <= A
      BY <1>1, <2>3, IndexValues DEF IInv, Room
    <3>2. QED
      BY <1>1, <1>3, <2>3, <3>1, IndexValues DEF IInv, Contents
  <2>4. QED
    BY <1>1, <1>3, <2>2, <2>3 DEF Contents, PushStore, consumer
<1>12. QED
  BY <1>7, <1>8, <1>9, <1>10, <1>11 DEF IInv

LEMMA TryPopCallIInv == IInv /\ TryPopCall => IInv'
<1>1. SUFFICES ASSUME IInv, TryPopCall PROVE IInv'
  OBVIOUS
<1>2. TypeOK'
  BY <1>1 DEF IInv, TypeOK, TryPopCall, memory, producer
<1>3. Positions' /\ Room' /\ Contents' /\ FifoDelivery'
  BY <1>1 DEF IInv, Positions, Room, Contents, FifoDelivery, TryPopCall, memory, producer
<1>4. QED
  BY <1>2, <1>3 DEF IInv

(* A ring that does not look empty has an item the consumer can see. *)
LEMMA PopLoadIInv == IInv /\ PopLoad => IInv'
<1>1. SUFFICES ASSUME IInv, PopLoad PROVE IInv'
  OBVIOUS
<1>2. TypeOK'
  BY <1>1 DEF IInv, TypeOK, PopLoad, memory, producer
<1>3. Positions' /\ Contents' /\ FifoDelivery'
  BY <1>1 DEF IInv, Positions, Contents, FifoDelivery, PopLoad, memory, producer
<1>4. ASSUME ~Empty PROVE Len(read_index) < wSeen
  <2>1. Len(read_index) <= wSeen
    BY <1>1 DEF IInv, Room
  <2>2. Len(read_index) # wSeen
    BY <1>1, <1>4, IndexValues DEF Empty
  <2>3. QED
    BY <1>1, <2>1, <2>2, IndexValues
<1>5. Room'
  BY <1>1, <1>4 DEF IInv, Room, PopLoad, memory, producer
<1>6. QED
  BY <1>2, <1>3, <1>5 DEF IInv

LEMMA PopCopyIInv == IInv /\ PopCopy => IInv'
<1>1. SUFFICES ASSUME IInv, PopCopy PROVE IInv'
  OBVIOUS
<1> DEFINE next == Len(delivered) + 1
<1>2. next \in 1 .. Len(accepted)
  <2>1. Len(read_index) < wSeen
    BY <1>1 DEF IInv, Room, PopCopy
  <2>2. QED
    BY <1>1, <2>1, IndexValues
<1>3. cValue' = accepted[next]
  <2>1. buffer[(next - 1) % Capacity] = accepted[next]
    BY <1>1, <1>2, IndexValues DEF IInv, Contents
  <2>2. next - 1 = Len(delivered)
    BY <1>1, IndexValues
  <2>3. QED
    BY <1>1, <2>1, <2>2, IndexValues DEF PopCopy
<1>4. TypeOK'
  BY <1>1, <1>2, <1>3 DEF IInv, TypeOK, PopCopy, memory, producer
<1>5. Positions' /\ Room' /\ FifoDelivery'
  BY <1>1 DEF IInv, Positions, Room, FifoDelivery, PopCopy, memory, producer
<1>6. Contents'
  BY <1>1, <1>3 DEF IInv, Contents, PopCopy, memory, producer
<1>7. QED
  BY <1>4, <1>5, <1>6 DEF IInv

(* Publishing the read index removes the oldest waiting item. *)
LEMMA PopStoreIInv == IInv /\ PopStore => IInv'
<1>1. SUFFICES ASSUME IInv, PopStore PROVE IInv'
  OBVIOUS
<1> DEFINE D == Len(delivered)
<1>2. D + 1 \in 1 .. Len(accepted) /\ D + 1 < wSeen
  <2>1. Len(read_index) < wSeen
    BY <1>1 DEF IInv, Room, PopStore
  <2>2. QED
    BY <1>1, <2>1, IndexValues
<1>3. cValue = accepted[D + 1] /\ delivered' = Append(delivered, cValue)
  BY <1>1 DEF PopStore, IInv, Contents
<1>4. /\ delivered' \in Seq(Items \cup {NoItem})
      /\ Len(delivered') = D + 1 /\ D \in Nat
      /\ \A n \in 1 .. D : delivered'[n] = delivered[n]
      /\ delivered'[D + 1] = accepted[D + 1]
  BY <1>1, <1>3 DEF IInv, TypeOK
<1>5. read_index' = Append(read_index, (D + 1) % Capacity)
  BY <1>1, IndexValues, ModNext DEF PopStore
<1>6. (D + 1) % Capacity \in Slots
  BY <1>4, DivMod
<1>7. /\ read_index' \in Seq(Slots)
      /\ Len(read_index') = D + 2
      /\ \A i \in 1 .. D + 1 : read_index'[i] = read_index[i]
      /\ read_index'[D + 2] = (D + 1) % Capacity
  BY <1>1, <1>4, <1>5, <1>6, IndexValues DEF IInv, TypeOK
<1>8. TypeOK'
  BY <1>1, <1>4, <1>7, IndexValues DEF IInv, TypeOK, PopStore, producer
<1>9. Positions'
  <2>1. ASSUME NEW i \in 1 .. D + 2 PROVE read_index'[i] = (i - 1) % Capacity
    <3>1. CASE i = D + 2
      BY <1>4, <1>7, <3>1
    <3>2. CASE i \in 1 .. D + 1
      BY <1>1, <1>7, <3>2 DEF IInv, Positions
    <3>3. QED
      BY <1>4, <3>1, <3>2
  <2>2. QED
    BY <1>1, <1>4, <1>7, <2>1 DEF IInv, Positions, PopStore, producer
<1>10. Room'
  BY <1>1, <1>2, <1>4, <1>7, IndexValues, CapacityAssumption
     DEF IInv, Room, PopStore, producer
<1>11. FifoDelivery'
  BY <1>1, <1>2, <1>4, IndexValues DEF IInv, FifoDelivery, PopStore, producer
<1>12. Contents'
  BY <1>1, <1>4, IndexValues DEF IInv, Contents, PopStore, producer
<1>13. QED
  BY <1>8, <1>9, <1>10, <1>11, <1>12 DEF IInv

LEMMA TryPopTimeoutIInv == IInv /\ TryPopTimeout => IInv'
<1>1. SUFFICES ASSUME IInv, TryPopTimeout PROVE IInv'
  OBVIOUS
<1>2. TypeOK'
  BY <1>1 DEF IInv, TypeOK, TryPopTimeout, memory, producer
<1>3. Positions' /\ Room' /\ Contents' /\ FifoDelivery'
  BY <1>1 DEF IInv, Positions, Room, Contents, FifoDelivery, TryPopTimeout, memory, producer
<1>4. QED
  BY <1>2, <1>3 DEF IInv

LEMMA TryPopSleepIInv == IInv /\ TryPopSleep => IInv'
<1>1. SUFFICES ASSUME IInv, TryPopSleep PROVE IInv'
  OBVIOUS
<1>2. TypeOK'
  BY <1>1 DEF IInv, TypeOK, TryPopSleep, memory, producer
<1>3. Positions' /\ Room' /\ Contents' /\ FifoDelivery'
  BY <1>1 DEF IInv, Positions, Room, Contents, FifoDelivery, TryPopSleep, memory, producer
<1>4. QED
  BY <1>2, <1>3 DEF IInv

(* Seeing one more store only gives the observer more room. *)
LEMMA SeeIInv == IInv /\ (SeeWrite \/ SeeRead) => IInv'
<1>1. SUFFICES ASSUME IInv, SeeWrite \/ SeeRead PROVE IInv'
  OBVIOUS
<1>2. CASE SeeWrite
  <2>1. TypeOK'
    BY <1>1, <1>2, IndexValues DEF IInv, TypeOK, SeeWrite, consumer, producer
  <2>2. Positions' /\ Contents' /\ FifoDelivery'
    BY <1>1, <1>2 DEF IInv, Positions, Contents, FifoDelivery, SeeWrite, consumer, producer
  <2>3. Room'
    <3>1. wSeen \in Nat /\ Len(read_index) \in Nat
      BY <1>1, IndexValues
    <3>2. wSeen' \in Nat /\ wSeen <= wSeen' /\ Room
      BY <1>1, <1>2, <3>1 DEF IInv, SeeWrite
    <3>3. QED
      BY <1>2, <3>1, <3>2 DEF Room, SeeWrite, consumer, producer
  <2>4. QED
    BY <2>1, <2>2, <2>3 DEF IInv
<1>3. CASE SeeRead
  <2>1. TypeOK'
    BY <1>1, <1>3, IndexValues DEF IInv, TypeOK, SeeRead, consumer, producer
  <2>2. Positions' /\ Contents' /\ FifoDelivery'
    BY <1>1, <1>3 DEF IInv, Positions, Contents, FifoDelivery, SeeRead, consumer, producer
  <2>3. Room'
    <3>1. rSeen \in Nat /\ Len(write_index) \in Nat
      BY <1>1, IndexValues
    <3>2. rSeen' \in Nat /\ rSeen <= rSeen' /\ Room
      BY <1>1, <1>3, <3>1 DEF IInv, SeeRead
    <3>3. QED
      BY <1>3, <3>1, <3>2, CapacityAssumption DEF Room, SeeRead, consumer, producer
  <2>4. QED
    BY <2>1, <2>2, <2>3 DEF IInv
<1>4. QED
  BY <1>1, <1>2, <1>3

LEMMA StutterIInv == IInv /\ UNCHANGED vars => IInv'
<1>1. SUFFICES ASSUME IInv, UNCHANGED vars PROVE IInv'
  OBVIOUS
<1>2. TypeOK'
  BY <1>1 DEF IInv, TypeOK, vars, memory, producer, consumer
<1>3. Positions' /\ Room' /\ Contents' /\ FifoDelivery'
  BY <1>1 DEF IInv, Positions, Room, Contents, FifoDelivery, vars, memory, producer, consumer
<1>4. QED
  BY <1>2, <1>3 DEF IInv

LEMMA NextIInv == IInv /\ [Next]_vars => IInv'
  BY PushCallIInv, PushLoadIInv, PushCopyIInv, PushStoreIInv, TryPopCallIInv,
     PopLoadIInv, PopCopyIInv, PopStoreIInv, TryPopTimeoutIInv, TryPopSleepIInv,
     SeeIInv, StutterIInv
  DEF Next, ProducerStep, ConsumerStep

(* Every reachable state of the ring satisfies the inductive invariant: both *)
(* indices are the numbers of finished operations modulo Capacity, the views *)
(* are less than a lap apart, and the waiting items lie in their slots.      *)
THEOREM Invariance == Spec => []IInv
<1>1. Init => IInv
  BY InitIInv
<1>2. IInv /\ [Next]_vars => IInv'
  BY NextIInv
<1>3. QED
  BY <1>1, <1>2, PTL DEF Spec

(* Type correctness: no index stored or used ever leaves buffer_. *)
THEOREM TypeCorrect == Spec => []TypeOK
<1>1. IInv => TypeOK
  BY DEF IInv
<1>2. QED
  BY <1>1, Invariance, PTL

-----------------------------------------------------------------------------
(* What push() and pop() promise.                                          *)

(* The business thread is handed the items of the I/O thread in order, each *)
(* once and unharmed.                                                       *)
THEOREM DeliveryInOrder == Spec => []FifoDelivery
<1>1. IInv => FifoDelivery
  BY DEF IInv
<1>2. QED
  BY <1>1, Invariance, PTL

LEMMA IInvNoDataRace == IInv => NoDataRace
<1>1. SUFFICES ASSUME IInv PROVE NoDataRace
  OBVIOUS
<1>2. ASSUME pPc = "copy"
      PROVE  Len(accepted) + 1 - Capacity <= rSeen - 1 /\ Len(accepted) < Len(delivered) + Capacity
  BY <1>1, <1>2, Counters, CapacityAssumption
<1>3. ASSUME cPc = "copy"
      PROVE  Len(delivered) + 1 <= wSeen - 1 /\ Len(delivered) < Len(accepted)
  BY <1>1, <1>3, Counters
<1>4. ASSUME pPc = "copy", cPc = "copy"
      PROVE  Latest(write_index) # Latest(read_index)
  BY <1>1, <1>2, <1>3, <1>4, IndexValues, ModDistinct
<1>5. QED
  BY <1>2, <1>3, <1>4 DEF NoDataRace

(* buffer_ needs no lock: the two threads never copy the same slot at once,  *)
(* and each copy is ordered after the other side's last use of its slot.     *)
THEOREM RaceFree == Spec => []NoDataRace
  BY Invariance, IInvNoDataRace, PTL

(* push() drops a message only with Capacity - 1 messages in the ring, as   *)
(* far as the producer can tell.                                            *)
THEOREM RefusalMeansFull == Spec => RefusedOnlyWhenFull
<1>1. ASSUME IInv, [Next]_vars, pPc = "load", pPc' = "idle"
      PROVE  Len(accepted) - (rSeen - 1) = Capacity - 1
  <2>1. PushLoad
    BY <1>1 DEF Next, ProducerStep, ConsumerStep, PushCall, PushLoad, PushCopy, PushStore,
       TryPopCall, PopLoad, PopCopy, PopStore, TryPopTimeout, TryPopSleep, SeeWrite, SeeRead,
       vars, producer
  <2>2. NextIndex(Latest(write_index)) = read_index[rSeen]
    BY <1>1, <2>1 DEF PushLoad, Full
  <2>3. (Len(accepted) + 1) % Capacity = (rSeen - 1) % Capacity
    BY <1>1, <2>2, IndexValues, ModNext
  <2>4. /\ rSeen - 1 \in Nat /\ Len(accepted) + 1 \in Nat
        /\ rSeen - 1 < Len(accepted) + 1
    BY <1>1, Counters
  <2>5. Len(accepted) + 1 <= (rSeen - 1) + Capacity
    BY <1>1, Counters, CapacityAssumption
  <2>6. Len(accepted) + 1 = (rSeen - 1) + Capacity
    <3>1. ~ (Len(accepted) + 1 < (rSeen - 1) + Capacity)
      BY <2>3, <2>4, ModDistinct
    <3>2. QED
      BY <2>4, <2>5, <3>1, CapacityAssumption
  <2>7. QED
    BY <2>4, <2>6, CapacityAssumption
<1>2. IInv /\ [Next]_vars
        => [pPc = "load" /\ pPc' = "idle" => Len(accepted) - (rSeen - 1) = Capacity - 1]_vars
  BY <1>1
<1>3. QED
  BY <1>2, Invariance, PTL DEF Spec, RefusedOnlyWhenFull

(* pop() reports an empty ring only when it has taken every item whose      *)
(* publication the business thread can see.                                 *)
THEOREM EmptinessMeansDrained == Spec => EmptyOnlyWhenDrained
<1>1. ASSUME IInv, [Next]_vars, cPc = "load", cPc' = "empty"
      PROVE  wSeen - 1 = Len(delivered)
  <2>1. PopLoad
    BY <1>1 DEF Next, ProducerStep, ConsumerStep, PushCall, PushLoad, PushCopy, PushStore,
       TryPopCall, PopLoad, PopCopy, PopStore, TryPopTimeout, TryPopSleep, SeeWrite, SeeRead,
       vars, consumer
  <2>2. Latest(read_index) = write_index[wSeen]
    BY <1>1, <2>1 DEF PopLoad, Empty
  <2>3. Len(delivered) % Capacity = (wSeen - 1) % Capacity
    BY <1>1, <2>2, IndexValues
  <2>4. Len(delivered) <= wSeen - 1 /\ wSeen - 1 \in Nat /\ Len(delivered) \in Nat
    BY <1>1, Counters
  <2>5. wSeen - 1 < Len(delivered) + Capacity
    BY <1>1, Counters, CapacityAssumption
  <2>6. QED
    BY <2>3, <2>4, <2>5, ModDistinct
<1>2. IInv /\ [Next]_vars
        => [cPc = "load" /\ cPc' = "empty" => wSeen - 1 = Len(delivered)]_vars
  BY <1>1
<1>3. QED
  BY <1>2, Invariance, PTL DEF Spec, EmptyOnlyWhenDrained

-----------------------------------------------------------------------------
(* The ring implements the bounded FIFO queue.                             *)

(* What lies between the indices, in terms of the histories. *)
WaitingIsSuffix ==
  /\ Waiting = [k \in 1 .. Len(accepted) - Len(delivered) |-> accepted[Len(delivered) + k]]
  /\ Waiting \in Seq(Items)
  /\ Len(Waiting) = Len(accepted) - Len(delivered)

LEMMA WaitingIs == IInv => WaitingIsSuffix
<1>0. SUFFICES ASSUME IInv PROVE WaitingIsSuffix
  OBVIOUS
<1> DEFINE A == Len(accepted)
           D == Len(delivered)
<1>1. /\ A \in Nat /\ D \in Nat /\ D <= A
      /\ Len(write_index) - Len(read_index) = A - D
      /\ Latest(read_index) = D % Capacity
      /\ accepted \in Seq(Items)
  <2>1. /\ A \in Nat /\ D \in Nat /\ D <= A
        /\ Len(write_index) = A + 1 /\ Len(read_index) = D + 1
        /\ Latest(read_index) = D % Capacity
    BY <1>0, IndexValues
  <2>2. accepted \in Seq(Items)
    BY <1>0 DEF IInv, TypeOK
  <2>3. QED
    BY <2>1, <2>2
<1>2. ASSUME NEW k \in 1 .. A - D
      PROVE  buffer[((D % Capacity) + k - 1) % Capacity] = accepted[D + k]
  <2>1. ((D % Capacity) + k - 1) % Capacity = (D + k - 1) % Capacity
    BY <1>1, ModAbsorb
  <2>2. D + k \in D + 1 .. A /\ (D + k) - 1 = D + k - 1
    BY <1>1
  <2>3. buffer[((D + k) - 1) % Capacity] = accepted[D + k]
    BY <1>0, <2>2 DEF IInv, Contents
  <2>4. QED
    BY <2>1, <2>2, <2>3
<1>3. Waiting = [k \in 1 .. A - D |-> accepted[D + k]]
  BY <1>1, <1>2 DEF Waiting
<1>4. \A k \in 1 .. A - D : accepted[D + k] \in Items
  BY <1>1
<1>5. A - D \in Nat
  BY <1>1
<1>6. QED
  BY <1>3, <1>4, <1>5 DEF WaitingIsSuffix

(* The same after a step. *)
LEMMA WaitingIsNext == IInv' => WaitingIsSuffix'
  BY WaitingIs, PTL

(* A step that adds nothing to either history leaves the abstract queue     *)
(* alone, whatever it writes in the slots.                                  *)
LEMMA SameQueue ==
  ASSUME IInv, IInv', accepted' = accepted, delivered' = delivered
  PROVE  UNCHANGED Fifo!vars
<1>1. Waiting = [k \in 1 .. Len(accepted) - Len(delivered) |-> accepted[Len(delivered) + k]]
  BY WaitingIs DEF WaitingIsSuffix
<1>2. Waiting' = [k \in 1 .. Len(accepted') - Len(delivered') |-> accepted'[Len(delivered') + k]]
  BY WaitingIsNext DEF WaitingIsSuffix
<1>3. QED
  BY <1>1, <1>2 DEF Fifo!vars

(* The release store of push() is where the abstract queue grows. *)
LEMMA StorePuts == IInv /\ IInv' /\ PushStore => \E v \in Items : Fifo!Put(v)
<1>1. SUFFICES ASSUME IInv, IInv', PushStore PROVE Fifo!Put(pValue) /\ pValue \in Items
  OBVIOUS
<1> DEFINE A == Len(accepted)
           D == Len(delivered)
<1>2. pValue \in Items /\ accepted' = Append(accepted, pValue) /\ delivered' = delivered
  BY <1>1 DEF PushStore, IInv, Contents, consumer
<1>3. A \in Nat /\ D \in Nat /\ D <= A /\ accepted \in Seq(Items)
  BY <1>1, IndexValues DEF IInv, TypeOK
<1>4. /\ Waiting = [k \in 1 .. A - D |-> accepted[D + k]]
      /\ Waiting \in Seq(Items) /\ Len(Waiting) = A - D
  BY <1>1, WaitingIs DEF WaitingIsSuffix
<1>5. Waiting' = [k \in 1 .. A + 1 - D |-> accepted'[D + k]] /\ Waiting' \in Seq(Items)
  <2>1. /\ Waiting' = [k \in 1 .. Len(accepted') - Len(delivered')
                         |-> accepted'[Len(delivered') + k]]
        /\ Waiting' \in Seq(Items)
    BY <1>1, WaitingIsNext DEF WaitingIsSuffix
  <2>2. Len(accepted') = A + 1
    BY <1>2, <1>3
  <2>3. Len(accepted') - Len(delivered') = A + 1 - D /\ Len(delivered') = D
    BY <2>2, <1>2, <1>3
  <2>4. QED
    BY <2>1, <2>3
<1>6. Len(Waiting) < Capacity - 1
  <2>1. pPc = "store"
    BY <1>1 DEF PushStore
  <2>2. QED
    BY <1>1, <1>4, <2>1, Counters, CapacityAssumption
<1>7. Waiting' = Append(Waiting, pValue)
  <2>1. Append(Waiting, pValue) = [k \in 1 .. A + 1 - D |-> IF k <= A - D THEN Waiting[k] ELSE pValue]
    BY <1>2, <1>3, <1>4
  <2>2. ASSUME NEW k \in 1 .. A + 1 - D
        PROVE  accepted'[D + k] = IF k <= A - D THEN Waiting[k] ELSE pValue
    BY <1>2, <1>3, <1>4
  <2>3. QED
    BY <1>5, <2>1, <2>2
<1>8. QED
  BY <1>2, <1>6, <1>7 DEF Fifo!Put

(* The release store of pop() is where the oldest item leaves it. *)
LEMMA StoreTakes == IInv /\ IInv' /\ PopStore => Fifo!Take
<1>1. SUFFICES ASSUME IInv, IInv', PopStore PROVE Fifo!Take
  OBVIOUS
<1> DEFINE A == Len(accepted)
           D == Len(delivered)
<1>2. /\ delivered' = Append(delivered, cValue) /\ accepted' = accepted
      /\ cValue = accepted[D + 1]
  BY <1>1 DEF PopStore, IInv, Contents, producer
<1>3. A \in Nat /\ D \in Nat /\ D < A /\ accepted \in Seq(Items)
  <2>1. Len(read_index) < wSeen
    BY <1>1 DEF IInv, Room, PopStore
  <2>2. accepted \in Seq(Items)
    BY <1>1 DEF IInv, TypeOK
  <2>3. QED
    BY <1>1, <2>1, <2>2, IndexValues
<1>4. /\ Waiting = [k \in 1 .. A - D |-> accepted[D + k]]
      /\ Waiting \in Seq(Items) /\ Len(Waiting) = A - D
  BY <1>1, WaitingIs DEF WaitingIsSuffix
<1>5. Waiting' = [k \in 1 .. A - (D + 1) |-> accepted[(D + 1) + k]]
  <2>1. Waiting' = [k \in 1 .. Len(accepted') - Len(delivered')
                      |-> accepted'[Len(delivered') + k]]
    BY <1>1, WaitingIsNext DEF WaitingIsSuffix
  <2>2. Len(delivered') = D + 1
    BY <1>1, <1>2 DEF IInv, TypeOK
  <2>3. QED
    BY <2>1, <2>2, <1>2
<1>6. Waiting # <<>> /\ Head(Waiting) = cValue
  <2>1. 1 \in 1 .. A - D /\ Len(Waiting) # 0
    BY <1>3, <1>4
  <2>2. Waiting[1] = accepted[D + 1]
    BY <1>4, <2>1
  <2>3. QED
    BY <1>2, <1>4, <2>1, <2>2
<1>7. Waiting' = Tail(Waiting)
  <2>1. Tail(Waiting) = [k \in 1 .. A - D - 1 |-> Waiting[k + 1]]
    BY <1>3, <1>4
  <2>2. ASSUME NEW k \in 1 .. A - D - 1
        PROVE  Waiting[k + 1] = accepted[(D + 1) + k]
    <3>1. k + 1 \in 1 .. A - D /\ D + (k + 1) = (D + 1) + k
      BY <1>3
    <3>2. QED
      BY <1>4, <3>1
  <2>3. A - (D + 1) = A - D - 1
    BY <1>3
  <2>4. QED
    BY <1>5, <2>1, <2>2, <2>3
<1>8. QED
  BY <1>2, <1>6, <1>7 DEF Fifo!Take

(* Every step of the ring is a step of the bounded queue or none at all. *)
LEMMA StepRefines == IInv /\ IInv' /\ [Next]_vars => [Fifo!Next]_(Fifo!vars)
<1>1. SUFFICES ASSUME IInv, IInv', [Next]_vars PROVE [Fifo!Next]_(Fifo!vars)
  OBVIOUS
<1>2. CASE PushStore
  BY <1>1, <1>2, StorePuts DEF Fifo!Next
<1>3. CASE PopStore
  BY <1>1, <1>3, StoreTakes DEF Fifo!Next
<1>4. CASE ~PushStore /\ ~PopStore
  <2>1. accepted' = accepted /\ delivered' = delivered
    BY <1>1, <1>4 DEF Next, ProducerStep, ConsumerStep, PushCall, PushLoad, PushCopy,
       TryPopCall, PopLoad, PopCopy, TryPopTimeout, TryPopSleep, SeeWrite, SeeRead,
       vars, producer, consumer
  <2>2. QED
    BY <1>1, <2>1, SameQueue
<1>5. QED
  BY <1>2, <1>3, <1>4

(* For every capacity the ring with its two wrapped indices and its stale   *)
(* views is a bounded FIFO queue of one item less (the safety part of       *)
(* ImplementsFifo, which the runs check with its progress).                 *)
THEOREM RingIsFifo == Spec => Fifo!SafeSpec
<1>1. Init => Fifo!Init
  <2>1. SUFFICES ASSUME Init PROVE Fifo!Init
    OBVIOUS
  <2>2. Waiting = [k \in 1 .. 0 |-> accepted[k]] /\ Waiting \in Seq(Items) /\ Len(Waiting) = 0
    BY <2>1, InitIInv, WaitingIs DEF Init, WaitingIsSuffix
  <2>3. QED
    BY <2>1, <2>2 DEF Fifo!Init, Init
<1>2. IInv /\ IInv' /\ [Next]_vars => [Fifo!Next]_(Fifo!vars)
  BY StepRefines
<1>3. QED
  BY <1>1, <1>2, Invariance, PTL DEF Spec, Fifo!SafeSpec
=============================================================================

-------------------------- MODULE ShmStorageProofs --------------------------
(* Proofs about ShmStorage, for every table size and any set of threads,   *)
(* keys and records, and any number of crashes.                            *)
EXTENDS ShmStorage, FiniteSetTheorems, TLAPS

(* Distinct listed keys that all have a record leave room for one more when *)
(* some key has none: set() never writes past the end of index_.            *)
LEMMA RoomForOneMore ==
  ASSUME TypeOK, ListedValid, ListedOnce, NEW k \in Slots, ~valid[k]
  PROVE  size < TableSize
<1> DEFINE f == [i \in 0 .. size - 1 |-> index[i]]
           T == Slots \ {k}
<1>1. size \in 0 .. TableSize /\ index \in [Slots -> Slots]
  BY DEF TypeOK
<1>2. IsFiniteSet(T) /\ Cardinality(T) = TableSize - 1
  <2>1. IsFiniteSet(Slots) /\ Cardinality(Slots) = TableSize
    BY FS_Interval, TableSizeAssumption DEF Slots
  <2>2. QED
    BY <2>1, FS_RemoveElement
<1>3. f \in Injection(0 .. size - 1, T)
  <2>1. ASSUME NEW i \in 0 .. size - 1 PROVE index[i] \in T
    <3>1. i \in Slots
      BY <1>1, TableSizeAssumption DEF Slots
    <3>2. index[i] \in Slots
      BY <1>1, <3>1
    <3>3. index[i] # k
      BY DEF ListedValid
    <3>4. QED
      BY <3>2, <3>3
  <2>2. f \in [0 .. size - 1 -> T]
    BY <2>1
  <2>3. \A i, j \in 0 .. size - 1 : f[i] = f[j] => i = j
    BY DEF ListedOnce
  <2>4. QED
    BY <2>2, <2>3 DEF Injection, IsInjective
<1>4. Cardinality(0 .. size - 1) <= Cardinality(T) /\ IsFiniteSet(0 .. size - 1)
  BY <1>2, <1>3, FS_Injection, FS_Interval, <1>1
<1>5. Cardinality(0 .. size - 1) = size
  BY FS_Interval, <1>1, TableSizeAssumption
<1>6. QED
  BY <1>1, <1>2, <1>4, <1>5, TableSizeAssumption

LEMMA ZeroSlot == 0 \in Slots /\ (\A h \in Slots : h \in 0 .. TableSize)
  BY TableSizeAssumption DEF Slots

(* The empty memory of a table just created. *)
LEMMA InitIInv == Init => IInv
<1>1. SUFFICES ASSUME Init PROVE IInv
  OBVIOUS
<1>2. TypeOK
  <2>1. size \in 0 .. TableSize /\ key \in 0 .. TableSize /\ crashes \in 0 .. MaxCrashes
    BY <1>1, TableSizeAssumption, MaxCrashesAssumption DEF Init
  <2>2. QED
    BY <1>1, <2>1, ZeroSlot DEF Init, TypeOK
<1>3. Control /\ ListSteps /\ Listing /\ Filled /\ Visiting
  BY <1>1, TableSizeAssumption DEF Init, Control, ListSteps, Listing, Filled, Visiting,
     Wiping, ListedOnce, ListedValid, FreeZero, Recorded, Listed
<1>4. QED
  BY <1>2, <1>3 DEF IInv

LEMMA OpenAcceptIInv == IInv /\ OpenAccept => IInv'
<1>1. SUFFICES ASSUME IInv, OpenAccept PROVE IInv'
  OBVIOUS
<1>2. TypeOK'
  BY <1>1, TableSizeAssumption, KeysAssumption DEF IInv, TypeOK, Control, OpenAccept,
     memory, running, NeedsReset
<1>3. Control'
  BY <1>1 DEF IInv, TypeOK, Control, Wiping, OpenAccept, running, NeedsReset
<1>4. ListSteps'
  BY <1>1, TableSizeAssumption DEF IInv, TypeOK, Control, ListSteps, ListedOnce,
     ListedValid, FreeZero, Listed, Wiping, Slots, OpenAccept, memory, running,
     NeedsReset
<1>5. Listing'
  BY <1>1 DEF IInv, TypeOK, Control, ListSteps, Listing, Recorded, Listed, Wiping,
     OpenAccept, memory, NeedsReset
<1>6. Filled'
  BY <1>1, BlankAssumption
     DEF IInv, TypeOK, Control, Filled, CopyDue, HalfWiped, Wiping, OpenAccept, memory,
     NeedsReset
<1>7. Visiting'
  BY <1>1 DEF IInv, TypeOK, Control, Visiting, OpenAccept, running, NeedsReset
<1>8. QED
  BY <1>2, <1>3, <1>4, <1>5, <1>6, <1>7 DEF IInv

LEMMA OpenResetIInv == IInv /\ OpenReset => IInv'
<1>1. SUFFICES ASSUME IInv, OpenReset PROVE IInv'
  OBVIOUS
<1>2. TypeOK'
  <2>1. size' \in 0 .. TableSize /\ unwiped' \subseteq Cells
    BY <1>1, TableSizeAssumption DEF OpenReset
  <2>2. /\ phase' = "resetting" /\ pc' = pc
        /\ UNCHANGED <<index, valid, item, mutex, key, arg, visited, pointer, crashes,
                       broken, torn, halved>>
    BY <1>1 DEF OpenReset, history
  <2>3. pc # "list" /\ pc # "count"
    BY <1>1 DEF IInv, Control, OpenReset
  <2>4. QED
    BY <1>1, <2>1, <2>2, <2>3 DEF IInv, TypeOK
<1>3. Control'
  BY <1>1 DEF IInv, TypeOK, Control, Wiping, OpenReset
<1>4. ListSteps'
  <2>1. \A c \in {"index", "item", "valid"}, i \in Slots : <<c, i>> \in unwiped'
    BY <1>1 DEF OpenReset, Cells
  <2>2. Wiping' /\ size' = 0 /\ phase' = "resetting" /\ pc' = "idle"
    BY <1>1 DEF IInv, Control, OpenReset, Wiping
  <2>3. QED
    BY <2>1, <2>2 DEF ListSteps, ListedOnce
<1>5. Listing'
  BY <1>1 DEF IInv, TypeOK, Control, ListSteps, Listing, Recorded, Listed, Wiping, OpenReset
<1>6. Filled'
  BY <1>1, BlankAssumption
     DEF IInv, TypeOK, Control, Filled, CopyDue, HalfWiped, Wiping, OpenReset, history
<1>7. Visiting'
  BY <1>1 DEF IInv, TypeOK, Control, Visiting, OpenReset
<1>8. QED
  BY <1>2, <1>3, <1>4, <1>5, <1>6, <1>7 DEF IInv

LEMMA SetIInv == IInv /\ (\E t \in Threads, k \in Keys, v \in Items : Set(t, k, v)) => IInv'
<1>1. SUFFICES ASSUME IInv, NEW t \in Threads, NEW k \in Keys, NEW v \in Items,
                      Set(t, k, v) PROVE IInv'
  OBVIOUS
<1>2. TypeOK'
  <2>1. ListedValid /\ ListedOnce
    BY <1>1 DEF IInv, Control, ListSteps, Set, Lock, Lockable
  <2>2. k \in Slots /\ k \in 0 .. TableSize
    BY KeysAssumption, ZeroSlot DEF Slots
  <2>3. pc' = "list" => size < TableSize
    BY <1>1, <2>1, <2>2, RoomForOneMore DEF IInv, Set
  <2>4. pc' \in {"list", "mark"}
    BY <1>1 DEF Set
  <2>5. QED
    BY <1>1, <2>2, <2>3, <2>4
       DEF IInv, TypeOK, Set, Lock, Lockable, memory, process, history
<1>3. Control'
  BY <1>1, NoThreadAssumption
     DEF IInv, TypeOK, Control, Wiping, Set, process, Lock, Lockable
<1>4. ListSteps'
  BY <1>1, TableSizeAssumption DEF IInv, TypeOK, Control, ListSteps, ListedOnce,
     ListedValid, FreeZero, Listed, Wiping, Set, memory, process, Lock, Lockable
<1>5. Listing'
  BY <1>1 DEF IInv, TypeOK, Control, ListSteps, Listing, Recorded, Listed, Wiping, Set,
     memory, history, Lock, Lockable
<1>6. Filled'
  BY <1>1, BlankAssumption
     DEF IInv, TypeOK, Control, Filled, CopyDue, HalfWiped, Wiping, Set, memory, history,
     Lock, Lockable
<1>7. Visiting'
  BY <1>1 DEF IInv, TypeOK, Control, Visiting, Set
<1>8. QED
  BY <1>2, <1>3, <1>4, <1>5, <1>6, <1>7 DEF IInv

LEMMA SetListIInv == IInv /\ SetList => IInv'
<1>1. SUFFICES ASSUME IInv, SetList PROVE IInv'
  OBVIOUS
<1>2. TypeOK'
  BY <1>1, TableSizeAssumption, KeysAssumption DEF IInv, TypeOK, Control, Slots, SetList,
     process, history
<1>3. Control'
  BY <1>1 DEF IInv, TypeOK, Control, Wiping, SetList, process
<1>4. ListSteps'
  BY <1>1, TableSizeAssumption DEF IInv, TypeOK, Control, ListSteps, ListedOnce,
     ListedValid, FreeZero, Listed, Wiping, Slots, SetList, process
<1>5. Listing'
  BY <1>1 DEF IInv, TypeOK, Control, ListSteps, Listing, Recorded, Listed, Wiping,
     SetList, history
<1>6. Filled'
  BY <1>1, BlankAssumption
     DEF IInv, TypeOK, Control, Filled, CopyDue, HalfWiped, Wiping, SetList, history
<1>7. Visiting'
  BY <1>1 DEF IInv, TypeOK, Control, Visiting, SetList
<1>8. QED
  BY <1>2, <1>3, <1>4, <1>5, <1>6, <1>7 DEF IInv

LEMMA SetCountIInv == IInv /\ SetCount => IInv'
<1>1. SUFFICES ASSUME IInv, SetCount PROVE IInv'
  OBVIOUS
<1>2. TypeOK'
  <2>1. size' \in 0 .. TableSize
    BY <1>1, TableSizeAssumption DEF IInv, TypeOK, SetCount
  <2>2. QED
    BY <1>1, <2>1 DEF IInv, TypeOK, SetCount, process, history
<1>3. Control'
  BY <1>1 DEF IInv, TypeOK, Control, Wiping, SetCount, process
<1>4. ListSteps'
  <2>1. /\ size \in 0 .. TableSize - 1 /\ size' = size + 1 /\ pc' = "mark"
        /\ index' = index /\ valid' = valid /\ key' = key /\ phase' = phase
    BY <1>1, TableSizeAssumption DEF IInv, TypeOK, SetCount, process
  <2>2. /\ ListedValid /\ ListedOnce /\ index[size] = key /\ ~valid[key]
        /\ \A i \in size + 1 .. TableSize - 1 : index[i] = 0
    BY <1>1 DEF IInv, ListSteps, SetCount
  <2>3. \A i \in 0 .. size : i = size \/ i \in 0 .. size - 1
    BY <2>1
  <2>4. ListedOnce'
    BY <2>1, <2>2, <2>3 DEF ListedOnce, ListedValid
  <2>5. \A i \in 0 .. size' - 1 : valid'[index'[i]] \/ index'[i] = key'
    BY <2>1, <2>2, <2>3 DEF ListedValid
  <2>6. key' \in Listed' /\ FreeZero'
    BY <2>1, <2>2 DEF Listed, FreeZero
  <2>7. ~Wiping'
    BY <1>1, <2>1 DEF IInv, Control, Wiping, SetCount
  <2>8. QED
    BY <2>1, <2>4, <2>5, <2>6, <2>7 DEF ListSteps
<1>5. Listing'
  BY <1>1 DEF IInv, TypeOK, Control, ListSteps, Listing, Recorded, Listed, Wiping,
     SetCount, history
<1>6. Filled'
  BY <1>1, BlankAssumption
     DEF IInv, TypeOK, Control, Filled, CopyDue, HalfWiped, Wiping, SetCount, history
<1>7. Visiting'
  BY <1>1 DEF IInv, TypeOK, Control, Visiting, SetCount
<1>8. QED
  BY <1>2, <1>3, <1>4, <1>5, <1>6, <1>7 DEF IInv

LEMMA SetMarkIInv == IInv /\ SetMark => IInv'
<1>1. SUFFICES ASSUME IInv, SetMark PROVE IInv'
  OBVIOUS
<1>2. TypeOK'
  BY <1>1, TableSizeAssumption, KeysAssumption DEF IInv, TypeOK, Control, SetMark,
     process, history
<1>3. Control'
  BY <1>1 DEF IInv, TypeOK, Control, Wiping, SetMark, process
<1>4. ListSteps'
  BY <1>1, TableSizeAssumption DEF IInv, TypeOK, Control, ListSteps, ListedOnce,
     ListedValid, FreeZero, Listed, Wiping, Slots, SetMark, process
<1>5. Listing'
  BY <1>1 DEF IInv, TypeOK, Control, ListSteps, Listing, Recorded, Listed, Wiping,
     SetMark, history
<1>6. Filled'
  BY <1>1, BlankAssumption
     DEF IInv, TypeOK, Control, Filled, CopyDue, HalfWiped, Wiping, SetMark, history
<1>7. Visiting'
  BY <1>1 DEF IInv, TypeOK, Control, Visiting, SetMark
<1>8. QED
  BY <1>2, <1>3, <1>4, <1>5, <1>6, <1>7 DEF IInv

LEMMA SetCopyIInv == IInv /\ SetCopy => IInv'
<1>1. SUFFICES ASSUME IInv, SetCopy PROVE IInv'
  OBVIOUS
<1>2. TypeOK'
  <2>1. key' = 0 /\ 0 \in 0 .. TableSize /\ arg' = Blank /\ visited' = {} /\ pc' = "idle"
    BY <1>1, TableSizeAssumption DEF SetCopy, Leave
  <2>2. key \in Slots /\ arg \in Items
    BY <1>1, KeysAssumption DEF IInv, Control, SetCopy, Slots
  <2>3. QED
    BY <1>1, <2>1, <2>2 DEF IInv, TypeOK, SetCopy, process, Leave
<1>3. Control'
  BY <1>1 DEF IInv, TypeOK, Control, Wiping, SetCopy, process, Leave
<1>4. ListSteps'
  BY <1>1, TableSizeAssumption DEF IInv, TypeOK, Control, ListSteps, ListedOnce,
     ListedValid, FreeZero, Listed, Wiping, SetCopy, process, Leave
<1>5. Listing'
  BY <1>1 DEF IInv, TypeOK, Control, ListSteps, Listing, Recorded, Listed, Wiping,
     SetCopy, Leave
<1>6. Filled'
  <2>1. /\ item' = [item EXCEPT ![key] = arg] /\ arg \in Items /\ halved' = halved \ {key}
        /\ valid' = valid /\ pc' = "idle" /\ ~Wiping
    BY <1>1 DEF IInv, Control, Wiping, SetCopy, Leave
  <2>2. item \in [Slots -> Items \cup {Blank}]
    BY <1>1 DEF IInv, TypeOK
  <2>3. \A h \in Slots : valid[h] /\ item[h] = Blank => h \in halved \/ h = key
    BY <1>1, <2>1 DEF IInv, Filled, CopyDue
  <2>4. \A h \in Slots : valid[h] /\ item'[h] = Blank => h \in halved'
    BY <2>1, <2>2, <2>3, BlankAssumption
  <2>5. QED
    BY <2>1, <2>4 DEF Filled
<1>7. Visiting'
  BY <1>1 DEF IInv, TypeOK, Control, Visiting, SetCopy, Leave
<1>8. QED
  BY <1>2, <1>3, <1>4, <1>5, <1>6, <1>7 DEF IInv

LEMMA GetPtrIInv == IInv /\ (\E t \in Threads, k \in Keys : GetPtr(t, k)) => IInv'
<1>1. SUFFICES ASSUME IInv, NEW t \in Threads, NEW k \in Keys, GetPtr(t, k) PROVE IInv'
  OBVIOUS
<1>2. TypeOK'
  BY <1>1, TableSizeAssumption, KeysAssumption DEF IInv, TypeOK, Control, Slots, GetPtr,
     memory, running, process, history
<1>3. Control'
  BY <1>1 DEF IInv, TypeOK, Control, Wiping, GetPtr, process, Lockable, running
<1>4. ListSteps'
  BY <1>1, TableSizeAssumption DEF IInv, TypeOK, Control, ListSteps, ListedOnce,
     ListedValid, FreeZero, Listed, Wiping, GetPtr, memory, process, running
<1>5. Listing'
  BY <1>1 DEF IInv, TypeOK, Control, ListSteps, Listing, Recorded, Listed, Wiping,
     GetPtr, memory, history, Lockable, running
<1>6. Filled'
  BY <1>1, BlankAssumption
     DEF IInv, TypeOK, Control, Filled, CopyDue, HalfWiped, Wiping, GetPtr, memory, running,
     process, history
<1>7. Visiting'
  BY <1>1 DEF IInv, TypeOK, Control, Visiting, GetPtr, Lockable, running
<1>8. QED
  BY <1>2, <1>3, <1>4, <1>5, <1>6, <1>7 DEF IInv

LEMMA PointerWriteIInv == IInv
/\ (\E t \in Threads, v \in Items : PointerWrite(t, v)) => IInv'
<1>1. SUFFICES ASSUME IInv, NEW t \in Threads, NEW v \in Items,
                      PointerWrite(t, v) PROVE IInv'
  OBVIOUS
<1>2. TypeOK'
  BY <1>1, TableSizeAssumption, KeysAssumption DEF IInv, TypeOK, Control, PointerWrite,
     running, process
<1>3. Control'
  BY <1>1 DEF IInv, TypeOK, Control, Wiping, PointerWrite, running, process
<1>4. ListSteps'
  BY <1>1, TableSizeAssumption DEF IInv, TypeOK, Control, ListSteps, ListedOnce,
     ListedValid, FreeZero, Listed, Wiping, PointerWrite, running, process
<1>5. Listing'
  BY <1>1 DEF IInv, TypeOK, Control, ListSteps, Listing, Recorded, Listed, Wiping,
     PointerWrite, running
<1>6. Filled'
  BY <1>1, BlankAssumption
     DEF IInv, TypeOK, Control, Filled, CopyDue, HalfWiped, Wiping, PointerWrite, running
<1>7. Visiting'
  BY <1>1 DEF IInv, TypeOK, Control, Visiting, PointerWrite, running
<1>8. QED
  BY <1>2, <1>3, <1>4, <1>5, <1>6, <1>7 DEF IInv

LEMMA ForEachIInv == IInv /\ (\E t \in Threads : ForEach(t)) => IInv'
<1>1. SUFFICES ASSUME IInv, NEW t \in Threads, ForEach(t) PROVE IInv'
  OBVIOUS
<1>2. TypeOK'
  <2>1. key' \in 0 .. TableSize /\ visited' \subseteq Slots
    BY <1>1, TableSizeAssumption DEF ForEach
  <2>2. pc' = "each" /\ mutex' \in Threads
    BY <1>1 DEF ForEach, Lock, Lockable
  <2>3. QED
    BY <1>1, <2>1, <2>2 DEF IInv, TypeOK, ForEach, memory, process, history
<1>3. Control'
  BY <1>1, NoThreadAssumption
     DEF IInv, TypeOK, Control, Wiping, ForEach, process, Lock, Lockable
<1>4. ListSteps'
  BY <1>1, TableSizeAssumption DEF IInv, TypeOK, Control, ListSteps, ListedOnce,
     ListedValid, FreeZero, Listed, Wiping, ForEach, memory, process, Lock, Lockable
<1>5. Listing'
  BY <1>1 DEF IInv, TypeOK, Control, ListSteps, Listing, Recorded, Listed, Wiping,
     ForEach, memory, history, Lock, Lockable
<1>6. Filled'
  BY <1>1, BlankAssumption
     DEF IInv, TypeOK, Control, Filled, CopyDue, HalfWiped, Wiping, ForEach, memory,
     history, Lock, Lockable
<1>7. Visiting'
  BY <1>1 DEF IInv, TypeOK, Control, Visiting, ForEach, memory
<1>8. QED
  BY <1>2, <1>3, <1>4, <1>5, <1>6, <1>7 DEF IInv

LEMMA EachRecordIInv == IInv /\ EachRecord => IInv'
<1>1. SUFFICES ASSUME IInv, EachRecord PROVE IInv'
  OBVIOUS
<1>2. TypeOK'
  <2>1. key \in 0 .. size - 1 /\ key' \in 0 .. TableSize
    BY <1>1, TableSizeAssumption DEF IInv, TypeOK, EachRecord
  <2>2. index[key] \in Slots
    BY <1>1, <2>1, TableSizeAssumption DEF IInv, TypeOK, Slots
  <2>3. QED
    BY <1>1, <2>1, <2>2 DEF IInv, TypeOK, EachRecord, memory, process, history
<1>3. Control'
  BY <1>1 DEF IInv, TypeOK, Control, Wiping, EachRecord, process
<1>4. ListSteps'
  BY <1>1, TableSizeAssumption DEF IInv, TypeOK, Control, ListSteps, ListedOnce,
     ListedValid, FreeZero, Listed, Wiping, EachRecord, memory, process
<1>5. Listing'
  BY <1>1 DEF IInv, TypeOK, Control, ListSteps, Listing, Recorded, Listed, Wiping,
     EachRecord, memory, history
<1>6. Filled'
  BY <1>1, BlankAssumption
     DEF IInv, TypeOK, Control, Filled, CopyDue, HalfWiped, Wiping, EachRecord, memory,
     history
<1>7. Visiting'
  <2>1. key \in 0 .. size - 1 /\ size \in Nat /\ key' = key + 1 /\ size' = size
        /\ index' = index
    BY <1>1, TableSizeAssumption DEF IInv, TypeOK, EachRecord, memory
  <2>2. visited' = visited \cup {index[key]}
    BY <1>1, <2>1 DEF IInv, Control, ListSteps, ListedValid, EachRecord
  <2>3. visited = {index[i] : i \in 0 .. key - 1}
    BY <1>1 DEF IInv, Visiting, EachRecord
  <2>4. 0 .. key' - 1 = (0 .. key - 1) \cup {key}
    BY <2>1
  <2>5. visited' = {index'[i] : i \in 0 .. key' - 1} /\ key' <= size'
    BY <2>1, <2>2, <2>3, <2>4
  <2>6. QED
    BY <2>5 DEF Visiting
<1>8. QED
  BY <1>2, <1>3, <1>4, <1>5, <1>6, <1>7 DEF IInv

LEMMA EachDoneIInv == IInv /\ EachDone => IInv'
<1>1. SUFFICES ASSUME IInv, EachDone PROVE IInv'
  OBVIOUS
<1>2. TypeOK'
  BY <1>1, TableSizeAssumption, KeysAssumption DEF IInv, TypeOK, Control, EachDone,
     memory, process, history, Leave
<1>3. Control'
  BY <1>1 DEF IInv, TypeOK, Control, Wiping, EachDone, process, Leave
<1>4. ListSteps'
  BY <1>1, TableSizeAssumption DEF IInv, TypeOK, Control, ListSteps, ListedOnce,
     ListedValid, FreeZero, Listed, Wiping, EachDone, memory, process, Leave
<1>5. Listing'
  BY <1>1 DEF IInv, TypeOK, Control, ListSteps, Listing, Recorded, Listed, Wiping,
     EachDone, memory, history, Leave
<1>6. Filled'
  BY <1>1, BlankAssumption
     DEF IInv, TypeOK, Control, Filled, CopyDue, HalfWiped, Wiping, EachDone, memory,
     history,
     Leave
<1>7. Visiting'
  BY <1>1 DEF IInv, TypeOK, Control, Visiting, EachDone, Leave
<1>8. QED
  BY <1>2, <1>3, <1>4, <1>5, <1>6, <1>7 DEF IInv

LEMMA ClearIInv == IInv /\ (\E t \in Threads : Clear(t)) => IInv'
<1>1. SUFFICES ASSUME IInv, NEW t \in Threads, Clear(t) PROVE IInv'
  OBVIOUS
<1>2. TypeOK'
  <2>1. size' \in 0 .. TableSize /\ unwiped' \subseteq Cells
    BY <1>1, TableSizeAssumption DEF Clear
  <2>2. pc' = "wipe" /\ mutex' \in Threads
    BY <1>1 DEF Clear, Lock, Lockable
  <2>3. QED
    BY <1>1, <2>1, <2>2 DEF IInv, TypeOK, Clear, process, history
<1>3. Control'
  BY <1>1, NoThreadAssumption
     DEF IInv, TypeOK, Control, Wiping, Clear, process, Lock, Lockable
<1>4. ListSteps'
  <2>1. \A c \in {"index", "item", "valid"}, i \in Slots : <<c, i>> \in unwiped'
    BY <1>1 DEF Clear, Cells
  <2>2. size' = 0 /\ pc' = "wipe"
    BY <1>1 DEF Clear
  <2>3. QED
    BY <2>1, <2>2 DEF ListSteps, ListedOnce
<1>5. Listing'
  BY <1>1 DEF IInv, TypeOK, Control, ListSteps, Listing, Recorded, Listed, Wiping, Clear
<1>6. Filled'
  BY <1>1, BlankAssumption
     DEF IInv, TypeOK, Control, Filled, CopyDue, HalfWiped, Wiping, Clear, history, Lock,
     Lockable
<1>7. Visiting'
  BY <1>1 DEF IInv, TypeOK, Control, Visiting, Clear
<1>8. QED
  BY <1>2, <1>3, <1>4, <1>5, <1>6, <1>7 DEF IInv

LEMMA WipeIndexIInv == IInv /\ (\E i \in Slots : WipeIndex(i)) => IInv'
<1>1. SUFFICES ASSUME IInv, NEW i \in Slots, WipeIndex(i) PROVE IInv'
  OBVIOUS
<1>2. TypeOK'
  <2>1. index' \in [Slots -> Slots]
    BY <1>1, ZeroSlot DEF IInv, TypeOK, WipeIndex
  <2>2. QED
    BY <1>1, <2>1 DEF IInv, TypeOK, WipeIndex, process, history
<1>3. Control'
  BY <1>1 DEF IInv, TypeOK, Control, Wiping, WipeIndex, process
<1>4. ListSteps'
  <2>1. Wiping /\ Wiping' /\ size = 0 /\ size' = 0
    BY <1>1 DEF IInv, Control, Wiping, WipeIndex, process
  <2>2. \A j \in Slots : <<"index", j>> \in unwiped' \/ index'[j] = 0
    BY <1>1, <2>1 DEF IInv, TypeOK, ListSteps, WipeIndex
  <2>3. \A h \in Slots : <<"valid", h>> \in unwiped' \/ ~valid'[h]
    BY <1>1, <2>1 DEF IInv, ListSteps, WipeIndex
  <2>4. pc' \in {"idle", "wipe"} /\ (phase' = "up" => pc' = "wipe")
    BY <1>1, <2>1 DEF IInv, Control, Wiping, WipeIndex
  <2>5. QED
    BY <2>1, <2>2, <2>3, <2>4 DEF ListSteps, ListedOnce
<1>5. Listing'
  BY <1>1 DEF IInv, TypeOK, Control, ListSteps, Listing, Recorded, Listed, Wiping,
     WipeIndex, process
<1>6. Filled'
  <2>1. unwiped' = unwiped \ {<<"index", i>>}
        /\ \A h \in Slots : HalfWiped(h)' <=> HalfWiped(h)
    BY <1>1 DEF WipeIndex, HalfWiped
  <2>2. UNCHANGED <<valid, item, halved, pc, key, phase>>
    BY <1>1 DEF WipeIndex, process, history
  <2>3. QED
    BY <1>1, <2>1, <2>2 DEF IInv, Filled, CopyDue, Wiping
<1>7. Visiting'
  BY <1>1 DEF IInv, TypeOK, Control, Visiting, WipeIndex
<1>8. QED
  BY <1>2, <1>3, <1>4, <1>5, <1>6, <1>7 DEF IInv

LEMMA WipeItemIInv == IInv /\ (\E h \in Slots : WipeItem(h)) => IInv'
<1>1. SUFFICES ASSUME IInv, NEW h \in Slots, WipeItem(h) PROVE IInv'
  OBVIOUS
<1>2. TypeOK'
  BY <1>1, TableSizeAssumption, KeysAssumption DEF IInv, TypeOK, Control, WipeItem,
     process, history
<1>3. Control'
  BY <1>1 DEF IInv, TypeOK, Control, Wiping, WipeItem, process
<1>4. ListSteps'
  <2>1. Wiping /\ Wiping' /\ size = 0 /\ size' = 0
    BY <1>1 DEF IInv, Control, Wiping, WipeItem, process
  <2>2. \A j \in Slots : <<"index", j>> \in unwiped' \/ index'[j] = 0
    BY <1>1, <2>1 DEF IInv, ListSteps, WipeItem
  <2>3. \A j \in Slots : <<"valid", j>> \in unwiped' \/ ~valid'[j]
    BY <1>1, <2>1 DEF IInv, ListSteps, WipeItem
  <2>4. pc' \in {"idle", "wipe"} /\ (phase' = "up" => pc' = "wipe")
    BY <1>1, <2>1 DEF IInv, Control, Wiping, WipeItem
  <2>5. QED
    BY <2>1, <2>2, <2>3, <2>4 DEF ListSteps, ListedOnce
<1>5. Listing'
  BY <1>1 DEF IInv, TypeOK, Control, ListSteps, Listing, Recorded, Listed, Wiping,
     WipeItem, process, history
<1>6. Filled'
  <2>1. /\ Wiping /\ Wiping' /\ UNCHANGED <<valid, halved, pc, key, phase>>
        /\ item' = [item EXCEPT ![h] = Blank] /\ unwiped' = unwiped \ {<<"item", h>>}
    BY <1>1 DEF IInv, Control, Wiping, WipeItem, process, history
  <2>2. \A j \in Slots : <<"valid", j>> \in unwiped \/ ~valid[j]
    BY <1>1, <2>1 DEF IInv, ListSteps
  <2>3. HalfWiped(h)' \/ ~valid[h]
    BY <2>1, <2>2 DEF HalfWiped
  <2>4. ASSUME NEW j \in Slots, j # h PROVE item'[j] = item[j]
               /\ (HalfWiped(j) => HalfWiped(j)')
    BY <1>1, <2>1, <2>4 DEF IInv, TypeOK, HalfWiped
  <2>5. QED
    BY <1>1, <2>1, <2>3, <2>4 DEF IInv, Filled, CopyDue
<1>7. Visiting'
  BY <1>1 DEF IInv, TypeOK, Control, Visiting, WipeItem
<1>8. QED
  BY <1>2, <1>3, <1>4, <1>5, <1>6, <1>7 DEF IInv

LEMMA WipeValidIInv == IInv /\ (\E h \in Slots : WipeValid(h)) => IInv'
<1>1. SUFFICES ASSUME IInv, NEW h \in Slots, WipeValid(h) PROVE IInv'
  OBVIOUS
<1>2. TypeOK'
  BY <1>1, TableSizeAssumption, KeysAssumption DEF IInv, TypeOK, Control, WipeValid,
     process
<1>3. Control'
  BY <1>1 DEF IInv, TypeOK, Control, Wiping, WipeValid, process
<1>4. ListSteps'
  <2>1. Wiping /\ Wiping' /\ size = 0 /\ size' = 0
    BY <1>1 DEF IInv, Control, Wiping, WipeValid, process
  <2>2. \A j \in Slots : <<"index", j>> \in unwiped' \/ index'[j] = 0
    BY <1>1, <2>1 DEF IInv, ListSteps, WipeValid
  <2>3. \A j \in Slots : <<"valid", j>> \in unwiped' \/ ~valid'[j]
    <3>1. valid' = [valid EXCEPT ![h] = FALSE] /\ unwiped' = unwiped \ {<<"valid", h>>}
      BY <1>1 DEF WipeValid
    <3>2. valid \in [Slots -> BOOLEAN]
          /\ (\A j \in Slots : <<"valid", j>> \in unwiped \/ ~valid[j])
      BY <1>1, <2>1 DEF IInv, TypeOK, ListSteps
    <3>3. QED
      BY <3>1, <3>2
  <2>4. pc' \in {"idle", "wipe"} /\ (phase' = "up" => pc' = "wipe")
    BY <1>1, <2>1 DEF IInv, Control, Wiping, WipeValid
  <2>5. QED
    BY <2>1, <2>2, <2>3, <2>4 DEF ListSteps, ListedOnce
<1>5. Listing'
  BY <1>1 DEF IInv, TypeOK, Control, ListSteps, Listing, Recorded, Listed, Wiping,
     WipeValid, process
<1>6. Filled'
  <2>1. /\ Wiping /\ Wiping' /\ UNCHANGED <<item, pc, key, phase>> /\ halved' = halved \ {h}
        /\ valid' = [valid EXCEPT ![h] = FALSE] /\ unwiped' = unwiped \ {<<"valid", h>>}
    BY <1>1 DEF IInv, Control, Wiping, WipeValid, process
  <2>2. ~valid'[h]
    BY <1>1, <2>1 DEF IInv, TypeOK
  <2>3. ASSUME NEW j \in Slots, j # h PROVE valid'[j] = valid[j]
               /\ (HalfWiped(j) => HalfWiped(j)')
    BY <1>1, <2>1, <2>3 DEF IInv, TypeOK, HalfWiped
  <2>4. QED
    BY <1>1, <2>1, <2>2, <2>3 DEF IInv, Filled, CopyDue
<1>7. Visiting'
  BY <1>1 DEF IInv, TypeOK, Control, Visiting, WipeValid
<1>8. QED
  BY <1>2, <1>3, <1>4, <1>5, <1>6, <1>7 DEF IInv

LEMMA WipeDoneIInv == IInv /\ WipeDone => IInv'
<1>1. SUFFICES ASSUME IInv, WipeDone PROVE IInv'
  OBVIOUS
<1>2. TypeOK'
  <2>1. key' = 0 /\ 0 \in 0 .. TableSize /\ arg' = Blank /\ visited' = {} /\ pc' = "idle"
    BY <1>1, TableSizeAssumption DEF WipeDone, Leave
  <2>2. QED
    BY <1>1, <2>1 DEF IInv, TypeOK, WipeDone, memory, Leave
<1>3. Control'
  BY <1>1 DEF IInv, TypeOK, Control, Wiping, WipeDone, Leave
<1>4. ListSteps'
  BY <1>1, TableSizeAssumption DEF IInv, TypeOK, Control, ListSteps, ListedOnce,
     ListedValid, FreeZero, Listed, Wiping, Slots, WipeDone, memory, Leave
<1>5. Listing'
  BY <1>1 DEF IInv, TypeOK, Control, ListSteps, Listing, Recorded, Listed, Wiping,
     WipeDone, memory, Leave
<1>6. Filled'
  BY <1>1, BlankAssumption
     DEF IInv, TypeOK, Control, Filled, CopyDue, HalfWiped, Wiping, WipeDone, memory, Leave
<1>7. Visiting'
  BY <1>1 DEF IInv, TypeOK, Control, Visiting, WipeDone, Leave
<1>8. QED
  BY <1>2, <1>3, <1>4, <1>5, <1>6, <1>7 DEF IInv

LEMMA ExitIInv == IInv /\ Exit => IInv'
<1>1. SUFFICES ASSUME IInv, Exit PROVE IInv'
  OBVIOUS
<1>2. TypeOK'
  BY <1>1, TableSizeAssumption, KeysAssumption DEF IInv, TypeOK, Control, Exit, memory,
     history, Forget, Leave
<1>3. Control'
  BY <1>1 DEF IInv, TypeOK, Control, Wiping, Exit, Forget, Leave
<1>4. ListSteps'
  BY <1>1, TableSizeAssumption DEF IInv, TypeOK, Control, ListSteps, ListedOnce,
     ListedValid, FreeZero, Listed, Wiping, Exit, memory, Forget, Leave
<1>5. Listing'
  BY <1>1 DEF IInv, TypeOK, Control, ListSteps, Listing, Recorded, Listed, Wiping, Exit,
     memory, history, Forget, Leave
<1>6. Filled'
  BY <1>1, BlankAssumption
     DEF IInv, TypeOK, Control, Filled, CopyDue, HalfWiped, Wiping, Exit, memory, history,
     Forget, Leave
<1>7. Visiting'
  BY <1>1 DEF IInv, TypeOK, Control, Visiting, Exit, Forget, Leave
<1>8. QED
  BY <1>2, <1>3, <1>4, <1>5, <1>6, <1>7 DEF IInv

LEMMA CrashIInv == IInv /\ Crash => IInv'
<1>1. SUFFICES ASSUME IInv, Crash PROVE IInv'
  OBVIOUS
<1>2. TypeOK'
  <2>1. crashes' \in 0 .. MaxCrashes
    BY <1>1, MaxCrashesAssumption DEF IInv, TypeOK, Crash
  <2>2. 0 \in 0 .. TableSize /\ halved' \subseteq Slots
    BY <1>1, TableSizeAssumption DEF IInv, TypeOK, Crash
  <2>3. QED
    BY <1>1, <2>1, <2>2 DEF IInv, TypeOK, Crash, Forget, Leave, memory
<1>3. Control'
  BY <1>1 DEF IInv, TypeOK, Control, Wiping, Crash, Forget, Leave, ListingNew
<1>4. ListSteps'
  BY <1>1, TableSizeAssumption DEF IInv, TypeOK, Control, ListSteps, ListedOnce,
     ListedValid, FreeZero, Listed, Wiping, Crash, memory, Forget, Leave, ListingNew
<1>5. Listing'
  BY <1>1 DEF IInv, TypeOK, Control, ListSteps, Listing, Recorded, Listed, Wiping, Crash,
     memory, Forget, Leave, ListingNew
<1>6. Filled'
  BY <1>1, BlankAssumption
     DEF IInv, TypeOK, Control, Filled, CopyDue, HalfWiped, Wiping, Crash, memory, Forget,
     Leave,
     ListingNew
<1>7. Visiting'
  BY <1>1 DEF IInv, TypeOK, Control, Visiting, Crash, Forget, Leave, ListingNew
<1>8. QED
  BY <1>2, <1>3, <1>4, <1>5, <1>6, <1>7 DEF IInv

LEMMA StutterIInv == IInv /\ UNCHANGED vars => IInv'
<1>1. SUFFICES ASSUME IInv, UNCHANGED vars PROVE IInv'
  OBVIOUS
<1>2. TypeOK' /\ Control'
  BY <1>1 DEF IInv, TypeOK, Control, Wiping, vars, memory, running, process, history
<1>3. ListSteps' /\ Listing'
  BY <1>1 DEF IInv, ListSteps, Listing, ListedOnce, ListedValid, FreeZero, Listed, Recorded,
     Wiping, vars, memory, running, process, history
<1>4. Filled' /\ Visiting'
  BY <1>1 DEF IInv, Filled, CopyDue, HalfWiped, Wiping, Visiting, vars, memory, running,
     process, history
<1>5. QED
  BY <1>2, <1>3, <1>4 DEF IInv

LEMMA NextIInv == IInv /\ [Next]_vars => IInv'
  BY OpenAcceptIInv, OpenResetIInv, SetIInv, SetListIInv, SetCountIInv, SetMarkIInv,
     SetCopyIInv, GetPtrIInv, PointerWriteIInv, ForEachIInv, EachRecordIInv, EachDoneIInv,
     ClearIInv, WipeIndexIInv, WipeItemIInv, WipeValidIInv, WipeDoneIInv, ExitIInv,
     CrashIInv, StutterIInv
  DEF Next

(* Every reachable state of the table, through any number of crashes and    *)
(* restarts, satisfies the inductive invariant.                             *)
THEOREM Invariance == Spec => []IInv
  BY InitIInv, NextIInv, PTL DEF Spec

(* Type correctness; part of it is that set() writes inside index_, which   *)
(* it does not check.                                                       *)
THEOREM TypeCorrect == Spec => []TypeOK
<1>1. IInv => TypeOK
  BY DEF IInv
<1>2. QED
  BY <1>1, Invariance, PTL

(* The list that an operation finds when it has taken the mutex is sound.   *)
THEOREM ListAlwaysSound == Spec => []ListSound
<1>1. IInv => ListSound
  BY DEF IInv, Control, ListSteps, ListSound
<1>2. QED
  BY <1>1, Invariance, PTL

(* Every record is on the list, unless a memset was cut short.              *)
THEOREM RecordsListed == Spec => []EveryRecordListed
<1>1. IInv => EveryRecordListed
  BY DEF IInv, Control, Listing, Wiping, EveryRecordListed
<1>2. QED
  BY <1>1, Invariance, PTL

(* No operation hands out a record that nobody has filled, except what a    *)
(* crash has left between the last two stores of set(), or in a memset that *)
(* had wiped a record's item and not yet its valid.                         *)
THEOREM BlankNeverServed == Spec => []NoBlankServed
<1>1. IInv => NoBlankServed
  BY DEF IInv, Control, Filled, CopyDue, Wiping, NoBlankServed
<1>2. QED
  BY <1>1, Invariance, PTL

(* dump() sees every record exactly as the list was when it began.          *)
THEOREM ForEachComplete == Spec => ForEachSeesAll
<1>1. ASSUME IInv, [Next]_vars, pc = "each", pc' = "idle", phase' = "up", ~torn
      PROVE  visited = Recorded
  <2>1. EachDone
    BY <1>1 DEF Next, OpenAccept, OpenReset, Set, SetList, SetCount, SetMark, SetCopy,
       GetPtr, PointerWrite, ForEach, EachRecord, Clear, WipeIndex, WipeItem, WipeValid,
       WipeDone,
       Exit, Crash, Forget, Leave, IInv, Control, running, vars
  <2>2. phase = "up" /\ key >= size /\ mutex # NoThread
    BY <1>1, <2>1 DEF EachDone, IInv, Control
  <2>3. key = size /\ visited = {index[i] : i \in 0 .. key - 1}
    BY <1>1, <2>2, TableSizeAssumption DEF IInv, TypeOK, Visiting
  <2>4. visited = Listed
    BY <2>3 DEF Listed
  <2>5. ListedValid
    BY <1>1, <2>2 DEF IInv, ListSteps
  <2>6. Listed \subseteq Recorded
    BY <1>1, <2>5, TableSizeAssumption DEF IInv, TypeOK, ListedValid, Listed, Recorded,
       Slots
  <2>7. Recorded \subseteq Listed
    BY <1>1, <2>2 DEF IInv, Listing, Wiping
  <2>8. QED
    BY <2>4, <2>6, <2>7
<1>2. IInv /\ [Next]_vars
        => [pc = "each" /\ pc' = "idle" /\ phase' = "up" /\ ~torn => visited = Recorded]_vars
  BY <1>1
<1>3. QED
  BY <1>2, Invariance, PTL DEF Spec, ForEachSeesAll

-----------------------------------------------------------------------------
(* What a restart keeps.                                                   *)

LEMMA UndamagedInit == Init => Undamaged
  BY ZeroSlot, TableSizeAssumption
  DEF Init, Undamaged, ListedValid, FreeZero, Slots

LEMMA UndamagedNext == IInv /\ Undamaged /\ [Next]_vars => Undamaged'
<1>1. SUFFICES ASSUME IInv, Undamaged, [Next]_vars PROVE Undamaged'
  OBVIOUS
<1>2. ASSUME phase' = "down", ~broken' PROVE ListedValid' /\ FreeZero'
  <2>1. CASE phase = "down"
    <3>1. UNCHANGED <<memory, broken>>
      BY <1>1, <1>2, <2>1 DEF Next, OpenAccept, OpenReset, Set, SetList, SetCount,
         SetMark, SetCopy, GetPtr, PointerWrite, ForEach, EachRecord, EachDone, Clear,
         WipeIndex, WipeItem, WipeValid, WipeDone, Exit, Crash, Forget, Leave, Lock,
         Lockable, history, vars, IInv,
         Control, Wiping
    <3>2. QED
      BY <1>1, <1>2, <2>1, <3>1 DEF Undamaged, ListedValid, FreeZero, memory
  <2>2. CASE phase # "down"
    <3>1. Exit \/ Crash
      BY <1>1, <1>2, <2>2 DEF Next, OpenAccept, OpenReset, Set, SetList, SetCount, SetMark,
         SetCopy, GetPtr, PointerWrite, ForEach, EachRecord, EachDone, Clear, WipeIndex,
         WipeItem, WipeValid, WipeDone, process, vars
    <3>2. ListedValid /\ FreeZero
      <4>1. CASE Exit
        BY <1>1, <4>1 DEF Exit, IInv, Control, ListSteps
      <4>2. CASE Crash
        <5>1. ~ListingNew /\ ~Wiping /\ phase = "up" /\ pc # "wipe"
          BY <1>1, <1>2, <2>2, <4>2 DEF Crash, Wiping, IInv, TypeOK
        <5>2. CASE pc = "count"
          BY <1>1, <5>1, <5>2 DEF IInv, ListSteps, ListingNew
        <5>3. CASE pc = "mark"
          BY <1>1, <5>1, <5>3 DEF IInv, ListSteps, ListingNew, ListedValid
        <5>4. CASE pc \in {"idle", "each", "list", "copy"}
          BY <1>1, <5>1, <5>4 DEF IInv, ListSteps
        <5>5. QED
          BY <1>1, <5>1, <5>2, <5>3, <5>4 DEF IInv, TypeOK
      <4>3. QED
        BY <3>1, <4>1, <4>2
    <3>3. UNCHANGED memory
      BY <3>1 DEF Exit, Crash, Forget, Leave
    <3>4. QED
      BY <3>2, <3>3 DEF ListedValid, FreeZero, memory
  <2>3. QED
    BY <2>1, <2>2
<1>3. QED
  BY <1>2 DEF Undamaged

(* A restart throws records away only when a crash hit the few stores that  *)
(* list a new key, or a memset, or when there is a record under key 0.      *)
THEOREM RestartSafe == Spec => RestartKeepsTable
<1>1. ASSUME IInv, Undamaged, [Next]_vars, phase = "down", phase' = "resetting"
      PROVE  broken \/ valid[0]
  <2>1. NeedsReset
    BY <1>1 DEF Next, OpenAccept, OpenReset, Set, SetList, SetCount, SetMark, SetCopy,
       GetPtr,
       PointerWrite, ForEach, EachRecord, EachDone, Clear, WipeIndex, WipeItem, WipeValid,
       WipeDone,
       Exit, Crash, Forget, Leave, process, vars
  <2>2. SUFFICES ASSUME ~broken, ~valid[0] PROVE FALSE
    OBVIOUS
  <2>3. ListedValid /\ FreeZero /\ ~valid[0]
    BY <1>1, <2>2 DEF Undamaged
  <2>4. PICK i \in Slots :
          IF i < size THEN index[i] >= TableSize \/ ~valid[index[i]]
                      ELSE index[i] # 0 \/ valid[index[i]]
    BY <2>1 DEF NeedsReset
  <2>5. size \in 0 .. TableSize /\ index[i] \in Slots /\ i \in 0 .. TableSize - 1
    BY <1>1, <2>4 DEF IInv, TypeOK, Slots
  <2>6. CASE i < size
    BY <2>3, <2>4, <2>5, <2>6, TableSizeAssumption DEF ListedValid, Slots
  <2>7. CASE i >= size
    BY <2>3, <2>4, <2>5, <2>7, TableSizeAssumption DEF FreeZero
  <2>8. QED
    BY <2>5, <2>6, <2>7, TableSizeAssumption
<1>2. IInv /\ Undamaged /\ [Next]_vars
        => [phase = "down" /\ phase' = "resetting" => broken \/ valid[0]]_vars
  BY <1>1
<1>3. Spec => []Undamaged
  BY UndamagedInit, UndamagedNext, Invariance, PTL DEF Spec
<1>4. QED
  BY <1>2, <1>3, Invariance, PTL DEF Spec, RestartKeepsTable
=============================================================================

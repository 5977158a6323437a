----------------------------- MODULE ShmStorage -----------------------------
(***************************************************************************)
(* ShmStorage (myPub/shmStorage.h): a table of records in POSIX shared     *)
(* memory, addressed directly by key, with a dense list of the keys that   *)
(* hold a record.  The memory outlives the process; the mutex that guards  *)
(* set, get, getPtr, clear, size and forEach does not, and neither does    *)
(* what a thread was doing.  A pointer from getPtr is used after the mutex *)
(* has been released.                                                      *)
(*                                                                         *)
(* A store to the memory is a step of its own wherever a crash after it    *)
(* leaves something to find, in the order in which the source has them;    *)
(* memset may clear the cells in any order and be cut between any two, a   *)
(* record's item and its valid among them. What is left of an item wiped   *)
(* in part is not told apart from the item; MDParser does so.              *)
(***************************************************************************)
EXTENDS Integers, FiniteSets

CONSTANTS
  TableSize,  \* TABLE_SIZE
  Keys,       \* keys that the callers pass to set()
  Items,      \* MyMDItem values that they pass or write
  Blank,      \* a MyMDItem whose bytes are all zero
  Threads,    \* threads of the process that opened the table
  NoThread,   \* the mutex is free
  MaxCrashes  \* bound: how often the process dies

ASSUME TableSizeAssumption == TableSize \in Nat /\ TableSize > 0
ASSUME KeysAssumption == Keys \subseteq 0 .. TableSize - 1
ASSUME BlankAssumption == Blank \notin Items
ASSUME NoThreadAssumption == NoThread \notin Threads
ASSUME MaxCrashesAssumption == MaxCrashes \in Nat

Slots == 0 .. TableSize - 1
Null == -1  \* a thread has no record's address

VARIABLES
  size,     \* ctrl_->size
  index,    \* index_[i].recordId
  valid,    \* table_[h].valid
  item,     \* table_[h].myMDItem
  phase,    \* the process: "down", "resetting" in its constructor, "up"
  mutex,    \* who holds mutex_
  pc,       \* where the thread that holds it is
  key, arg, \* arguments of its set()
  pointer,  \* the record whose address a thread last got from getPtr()
  unwiped,  \* cells that a running memset has not reached
  visited,  \* keys that a running forEach() has handed to func
  crashes,
  (* history *)
  broken,   \* a crash hit a set() that was listing a new key, or a memset
  torn,     \* a crash hit a memset and none has run to its end since
  halved    \* keys whose record a crash left valid, its item not yet copied or wiped

memory == <<size, index, valid, item>>
running == <<mutex, pc, key, arg, unwiped, visited>>
history == <<broken, torn, halved>>
process == <<phase, crashes>>
vars == <<memory, running, pointer, process, history>>

(* The cells of index_ and table_, which one memset clears: recordId, and   *)
(* of a record myMDItem and valid.                                          *)
Cells == {"index", "item", "valid"} \X Slots

Listed == {index[i] : i \in 0 .. size - 1}
Recorded == {h \in Slots : valid[h]}

Init ==
  /\ size = 0 /\ index = [i \in Slots |-> 0]
  /\ valid = [h \in Slots |-> FALSE] /\ item = [h \in Slots |-> Blank]
  /\ phase = "down" /\ mutex = NoThread /\ pc = "idle"
  /\ key = 0 /\ arg = Blank /\ pointer = [t \in Threads |-> Null]
  /\ unwiped = {} /\ visited = {} /\ crashes = 0
  /\ broken = FALSE /\ torn = FALSE /\ halved = {}

-----------------------------------------------------------------------------
(* The constructor. No other thread uses the table before it returns. *)

(* Definitions named ...Slip are mistakes a maintainer could make in the one *)
(* that follows; no specification uses them, the properties notice each.     *)
NeedsResetListSlip ==
  \E i \in 0 .. size - 1 : index[i] >= TableSize \/ ~valid[index[i]]
NeedsResetBoundSlip ==
  \E i \in Slots :
    IF i <= size THEN index[i] >= TableSize \/ ~valid[index[i]]
                 ELSE index[i] # 0 \/ valid[index[i]]

(* The scan finds a listed key without a record, or a free list cell that   *)
(* is not zero or whose key, zero, has a record.                            *)
NeedsReset ==
  \E i \in Slots :
    IF i < size THEN index[i] >= TableSize \/ ~valid[index[i]]
                ELSE index[i] # 0 \/ valid[index[i]]

OpenAccept ==
  /\ phase = "down"
  /\ ~NeedsReset
  /\ phase' = "up"
  /\ broken' = FALSE
  /\ UNCHANGED <<memory, running, pointer, crashes, torn, halved>>

OpenReset ==
  /\ phase = "down"
  /\ NeedsReset
  /\ phase' = "resetting"
  /\ size' = 0
  /\ unwiped' = Cells
  /\ UNCHANGED <<index, valid, item, mutex, pc, key, arg, visited, pointer,
                 crashes, history>>

-----------------------------------------------------------------------------
(* Taking the mutex, at the start of every operation. *)

Lockable == phase = "up" /\ mutex = NoThread
Lock(t) == Lockable /\ mutex' = t

(* The mutex is released, and what the operation kept for itself is gone. *)
Leave ==
  /\ mutex' = NoThread /\ pc' = "idle"
  /\ key' = 0 /\ arg' = Blank /\ visited' = {}

SetSlip(t, k, v) ==
  /\ Lock(t)
  /\ key' = k /\ arg' = v
  /\ pc' = "list"
  /\ UNCHANGED <<memory, pointer, unwiped, visited, process, history>>

(* set(): a key without a record is listed first. *)
Set(t, k, v) ==
  /\ Lock(t)
  /\ key' = k /\ arg' = v
  /\ pc' = IF valid[k] THEN "mark" ELSE "list"
  /\ UNCHANGED <<memory, pointer, unwiped, visited, process, history>>

SetList ==
  /\ pc = "list"
  /\ index' = [index EXCEPT ![size] = key]
  /\ pc' = "count"
  /\ UNCHANGED <<size, valid, item, mutex, key, arg, unwiped, visited, pointer,
                 process, history>>

SetCountSlip ==
  /\ pc = "count"
  /\ size' = size
  /\ pc' = "mark"
  /\ UNCHANGED <<index, valid, item, mutex, key, arg, unwiped, visited, pointer,
                 process, history>>

SetCount ==
  /\ pc = "count"
  /\ size' = size + 1
  /\ pc' = "mark"
  /\ UNCHANGED <<index, valid, item, mutex, key, arg, unwiped, visited, pointer,
                 process, history>>

SetMark ==
  /\ pc = "mark"
  /\ valid' = [valid EXCEPT ![key] = TRUE]
  /\ pc' = "copy"
  /\ UNCHANGED <<size, index, item, mutex, key, arg, unwiped, visited, pointer,
                 process, history>>

SetCopySlip ==
  /\ pc = "copy"
  /\ Leave
  /\ UNCHANGED <<memory, unwiped, pointer, process, history>>

SetCopy ==
  /\ pc = "copy"
  /\ item' = [item EXCEPT ![key] = arg]
  /\ halved' = halved \ {key}
  /\ Leave
  /\ UNCHANGED <<size, index, valid, unwiped, pointer, process, broken, torn>>

-----------------------------------------------------------------------------
(* getPtr(): the address outlives the critical section. get() and size()   *)
(* change nothing; what they would read is what the invariants are about.  *)
GetPtr(t, k) ==
  /\ Lockable
  /\ valid[k]
  /\ pointer' = [pointer EXCEPT ![t] = k]
  /\ UNCHANGED <<memory, running, process, history>>

(* A write through such an address, whatever happened to the record since. *)
PointerWrite(t, v) ==
  /\ phase = "up"
  /\ pointer[t] # Null
  /\ mutex # t
  /\ item' = [item EXCEPT ![pointer[t]] = v]
  /\ halved' = halved \ {pointer[t]}
  /\ UNCHANGED <<size, index, valid, running, pointer, process, broken, torn>>

-----------------------------------------------------------------------------
(* forEach(): key is its loop counter. *)

ForEach(t) ==
  /\ Lock(t)
  /\ pc' = "each"
  /\ key' = 0 /\ visited' = {}
  /\ UNCHANGED <<memory, arg, pointer, unwiped, process, history>>

EachRecord ==
  /\ pc = "each"
  /\ key < size
  /\ visited' = IF valid[index[key]] THEN visited \cup {index[key]} ELSE visited
  /\ key' = key + 1
  /\ UNCHANGED <<memory, mutex, pc, arg, pointer, unwiped, process, history>>

EachDoneSlip ==
  /\ pc = "each"
  /\ key + 1 >= size
  /\ Leave
  /\ UNCHANGED <<memory, pointer, unwiped, process, history>>

EachDone ==
  /\ pc = "each"
  /\ key >= size
  /\ Leave
  /\ UNCHANGED <<memory, pointer, unwiped, process, history>>

-----------------------------------------------------------------------------
(* clear(), and the memset that it shares with the constructor. *)

Clear(t) ==
  /\ Lock(t)
  /\ pc' = "wipe"
  /\ size' = 0
  /\ unwiped' = Cells
  /\ UNCHANGED <<index, valid, item, key, arg, pointer, visited, process, history>>

WipeIndex(i) ==
  /\ <<"index", i>> \in unwiped
  /\ index' = [index EXCEPT ![i] = 0]
  /\ unwiped' = unwiped \ {<<"index", i>>}
  /\ UNCHANGED <<size, valid, item, mutex, pc, key, arg, pointer, visited,
                 process, history>>

WipeItem(h) ==
  /\ <<"item", h>> \in unwiped
  /\ item' = [item EXCEPT ![h] = Blank]
  /\ unwiped' = unwiped \ {<<"item", h>>}
  /\ UNCHANGED <<size, index, valid, mutex, pc, key, arg, pointer, visited, process,
                 history>>

WipeValid(h) ==
  /\ <<"valid", h>> \in unwiped
  /\ valid' = [valid EXCEPT ![h] = FALSE]
  /\ unwiped' = unwiped \ {<<"valid", h>>}
  /\ halved' = halved \ {h}
  /\ UNCHANGED <<size, index, item, mutex, pc, key, arg, pointer, visited, process,
                 broken, torn>>

(* The memset ends: clear() returns, or the constructor does. *)
WipeDone ==
  /\ pc = "wipe" \/ phase = "resetting"
  /\ unwiped = {}
  /\ Leave
  /\ phase' = "up"
  /\ torn' = FALSE /\ broken' = FALSE
  /\ UNCHANGED <<memory, pointer, unwiped, crashes, halved>>

-----------------------------------------------------------------------------
(* The end of the process, orderly (no thread is inside an operation) or in *)
(* the middle of anything. The memory keeps what was stored in it.          *)

Forget ==
  /\ phase' = "down"
  /\ Leave
  /\ unwiped' = {}
  /\ pointer' = [t \in Threads |-> Null]
  /\ UNCHANGED memory

Exit ==
  /\ phase = "up"
  /\ mutex = NoThread
  /\ Forget
  /\ UNCHANGED <<crashes, history>>

ListingNew == pc \in {"count", "mark"} /\ ~valid[key]
Wiping == pc = "wipe" \/ phase = "resetting"
CopyDue(h) == pc = "copy" /\ h = key
HalfWiped(h) == <<"item", h>> \notin unwiped /\ <<"valid", h>> \in unwiped

Crash ==
  /\ phase # "down"
  /\ crashes < MaxCrashes
  /\ crashes' = crashes + 1
  /\ Forget
  /\ broken' = (broken \/ ListingNew \/ Wiping)
  /\ torn' = (torn \/ Wiping)
  /\ halved' = halved \cup {h \in Slots :
                            valid[h] /\ item[h] = Blank /\ (CopyDue(h) \/ HalfWiped(h))}

Next ==
  \/ OpenAccept \/ OpenReset
  \/ \E t \in Threads, k \in Keys, v \in Items : Set(t, k, v)
  \/ SetList \/ SetCount \/ SetMark \/ SetCopy
  \/ \E t \in Threads, k \in Keys : GetPtr(t, k)
  \/ \E t \in Threads, v \in Items : PointerWrite(t, v)
  \/ \E t \in Threads : ForEach(t)
  \/ EachRecord \/ EachDone
  \/ \E t \in Threads : Clear(t)
  \/ \E i \in Slots : WipeIndex(i) \/ WipeItem(i) \/ WipeValid(i)
  \/ WipeDone
  \/ Exit \/ Crash

Spec == Init /\ [][Next]_vars

-----------------------------------------------------------------------------
(* The cell of the list that set() fills is always inside index_, although  *)
(* set() never compares size with TABLE_SIZE: the keys listed are distinct. *)
TypeOK ==
  /\ size \in 0 .. TableSize
  /\ index \in [Slots -> Slots]
  /\ valid \in [Slots -> BOOLEAN] /\ item \in [Slots -> Items \cup {Blank}]
  /\ phase \in {"down", "resetting", "up"}
  /\ mutex \in Threads \cup {NoThread}
  /\ pc \in {"idle", "list", "count", "mark", "copy", "each", "wipe"}
  /\ pc \in {"list", "count"} => size < TableSize
  /\ key \in 0 .. TableSize /\ arg \in Items \cup {Blank}
  /\ pointer \in [Threads -> Slots \cup {Null}]
  /\ unwiped \subseteq Cells /\ visited \subseteq Slots
  /\ crashes \in 0 .. MaxCrashes
  /\ broken \in BOOLEAN /\ torn \in BOOLEAN /\ halved \subseteq Slots

(* A thread that takes the mutex finds a sound list: every listed key has a *)
(* record and is listed once, and the free cells are zero, after whatever   *)
(* crashes and restarts.                                                    *)
ListedValid == \A i \in 0 .. size - 1 : valid[index[i]]
ListedOnce == \A i, j \in 0 .. size - 1 : index[i] = index[j] => i = j
FreeZero == \A i \in size .. TableSize - 1 : index[i] = 0
ListSound ==
  phase = "up" /\ mutex = NoThread => ListedValid /\ ListedOnce /\ FreeZero

(* Every record is listed, so that dump() sees it; only a memset cut short  *)
(* by a crash leaves records that the list does not know.                   *)
EveryRecordListed ==
  phase = "up" /\ mutex = NoThread /\ ~torn => Recorded \subseteq Listed

(* get(), getPtr() and forEach() hand out no record that nobody has filled, *)
(* but for one that a crash left between its two stores: in set(), when it  *)
(* was valid and not yet copied, or in a memset, when it was wiped and      *)
(* still valid. The constructor accepts it, whatever its scan looks at.     *)
NoBlankServed ==
  phase = "up" /\ pc \in {"idle", "each"} =>
    \A h \in Slots : valid[h] /\ item[h] = Blank => h \in halved

(* The constructor throws the table away only after a crash in the middle   *)
(* of listing a new key or of a memset, or for a record under key 0, which  *)
(* MDParser never makes: the records survive every other end of the process.*)
RestartKeepsTable ==
  [][phase = "down" /\ phase' = "resetting" => broken \/ valid[0]]_vars

(* dump() writes every record there is, each with the list as it was when   *)
(* forEach() took the mutex.                                                *)
ForEachSeesAll ==
  [][pc = "each" /\ pc' = "idle" /\ phase' = "up" /\ ~torn
       => visited = Recorded]_vars

(* shmStorage.h:67: the constructor checks whether ctrl_ and index_ agree   *)
(* and zeroes everything only if they do not.                               *)
CtrlMatchesIndex ==
  \A i \in Slots : IF i < size THEN valid[index[i]] ELSE index[i] = 0
ResetOnlyOnMismatch ==
  [][phase = "down" /\ phase' = "resetting" => ~CtrlMatchesIndex]_vars

-----------------------------------------------------------------------------
(* The inductive invariant behind them. *)

(* Who is where: only a process that is up has a thread in an operation,    *)
(* and only a memset leaves cells to wipe, the size being zero already.     *)
Control ==
  /\ phase # "up" => mutex = NoThread
  /\ mutex = NoThread <=> pc = "idle"
  /\ unwiped # {} => Wiping
  /\ Wiping => size = 0
  /\ pc \in {"list", "count", "mark", "copy"} => key \in Keys /\ arg \in Items

(* How far the list and the records may disagree at each step of set(), and *)
(* what a memset has done so far.                                           *)
ListSteps ==
  /\ ListedOnce
  /\ phase = "up" /\ pc \in {"idle", "each", "list", "copy"} => ListedValid /\ FreeZero
  /\ pc \in {"list", "count"} => ~valid[key]
  /\ pc = "copy" => valid[key]
  /\ pc = "count" => /\ ListedValid
                     /\ index[size] = key
                     /\ \A i \in size + 1 .. TableSize - 1 : index[i] = 0
  /\ pc = "mark" => /\ \A i \in 0 .. size - 1 : valid[index[i]] \/ index[i] = key
                    /\ valid[key] \/ key \in Listed
                    /\ FreeZero
  /\ Wiping => /\ \A i \in Slots : <<"index", i>> \in unwiped \/ index[i] = 0
               /\ \A h \in Slots : <<"valid", h>> \in unwiped \/ ~valid[h]

Listing == ~torn /\ ~Wiping => Recorded \subseteq Listed

Filled ==
  \A h \in Slots :
    valid[h] /\ item[h] = Blank => h \in halved \/ CopyDue(h) \/ (Wiping /\ HalfWiped(h))

Visiting == pc = "each" => key <= size /\ visited = {index[i] : i \in 0 .. key - 1}

(* What every reachable state satisfies and every step keeps. *)
IInv == TypeOK /\ Control /\ ListSteps /\ Listing /\ Filled /\ Visiting

(* What was not torn is sound when the next process opens it. *)
Undamaged == phase = "down" /\ ~broken => ListedValid /\ FreeZero
=============================================================================

------------------------------ MODULE MDParser ------------------------------
(***************************************************************************)
(* The business thread takes the body of a message apart (Bodies) and      *)
(* MDParser::parse (XSHEMdParser.cpp) saves the quotes in the ShmStorage   *)
(* table, one field after another, while the main thread dumps and clears  *)
(* the table at the user's command.  The process may die at any moment;    *)
(* the next one finds the table in shared memory.                          *)
(*                                                                         *)
(* set() and clear() hold the mutex from beginning to end and are one step *)
(* here, unless the process dies in them: then they leave what ShmStorage  *)
(* shows that they may leave, down to the fields of a record, of which one *)
(* is copied or wiped at a time.  The write through the address that       *)
(* getPtr() returned does not hold the mutex.  updateTime, which goes with *)
(* origTime, and stockName, which nobody writes, are left out.             *)
(***************************************************************************)
EXTENDS Bodies

CONSTANTS
  CodeLimit,   \* 1000000: stock codes are less
  Messages,    \* what the gateway has to say
  MaxQuotes,   \* bound: how many quotes are parsed
  MaxCrashes   \* bound: how often the process dies

ASSUME CodeLimitAssumption == CodeLimit \in Nat \ {0}
ASSUME MessagesAssumption ==
  \A m \in Messages :
    m.type \in {"quote", "hkQuote", "hkStatus", "channelStat"} /\ m.md \in Contents(m.type)
ASSUME BoundsAssumption == MaxQuotes \in Nat /\ MaxCrashes \in Nat

VARIABLES
  valid,     \* keys that have a record
  listed,    \* keys that forEach() goes through
  item,      \* MyMDItem of a key
  holder,    \* who holds the storage's mutex
  pc,        \* where the current saveMktStkCode, saveOrigTime or savePx is
  key,       \* the key of the quote in work
  saves,     \* the saves of it that parse() has still to make
  toVisit,   \* keys that a running forEach has still to visit
  printed,   \* lines of a running dump: the item shown for a key
  crashes,
  (* history *)
  received,  \* the quotes begun that parse() does not refuse
  cleared,   \* of each key, how many of them had been dealt with at its last wipe
  cut,       \* the numbers of those that clear() or the process's end interrupted
  died,      \* the numbers of the latter
  halfWiped, \* how many quotes there were when the process's end interrupted a clear(),
             \* or -1: none did, or one came to its end since
  atDump     \* the table, and the save in work, when that dump began

table == <<valid, listed, item>>
business == <<pc, key, saves, received>>
dumper == <<toVisit, printed, atDump>>
clearing == <<cleared, cut, halfWiped>>
ending == <<crashes, died>>
vars == <<table, holder, business, dumper, clearing, ending>>

-----------------------------------------------------------------------------
(* What parse() looks at in a message; the entries are in their order. *)

MakeKey(market, code) == market * CodeLimit + code
KeyOf(q) == MakeKey(q.market, q.code)

EntryTypes == 0 .. Radix - 1  \* the indices of MyMDItem.price

(* A body arrives whole, or a gateway of an older or a newer version left   *)
(* out the last field of the message or added another one.                  *)
Forms(body) ==
  {body, SubSeq(body, 1, Len(body) - Int32), body \o Zeros(Int32)}
Arrivals ==
  UNION {{[type |-> m.type, md |-> m.md, body |-> b] : b \in Forms(Body(m.type, m.md))} :
           m \in Messages}

(* Definitions named ...Slip are mistakes a maintainer could make in the one *)
(* that follows; no specification uses them, the properties notice each.     *)

(* MDEntryPx is an int64_t; savePx takes an int. *)
ToIntSlip(px) == px
ToInt(px) == SignedValue(Stored(px, Int32))

QuoteOf(type, md) ==
  [market |-> IF type = "quote" THEN 2 ELSE 9,
   code |-> fixedCharToInt(md.head.SecurityID),
   entries |-> [i \in DOMAIN md.entries |->
                  [type |-> IF IsDigit(md.entries[i].MDEntryType[1])
                            THEN md.entries[i].MDEntryType[1] - ZeroChar ELSE -1,
                   level |-> Value(md.entries[i].MDPriceLevel),
                   px |-> SignedValue(md.entries[i].MDEntryPx),
                   value |-> ToInt(SignedValue(md.entries[i].MDEntryPx))]]]

(* The quotes that reach the table.  A message with a code of seven digits  *)
(* or more changes nothing: parse() returns 1 at once.  Nor does a body     *)
(* that is refused, or one of a type that is no quote.                      *)
Accepted ==
  LET quotes == {a \in Arrivals : /\ a.type \in {"quote", "hkQuote"}
                                  /\ deserializeBody(a.type, a.body).result = 0}
  IN  {q \in {QuoteOf(a.type, deserializeBody(a.type, a.body).md) : a \in quotes} :
         q.code < CodeLimit}
Keys == {KeyOf(q) : q \in Accepted}

-----------------------------------------------------------------------------
(* A quote is saved field by field. *)

Zeroed == [market |-> 0, code |-> 0, origTime |-> 0, price |-> [e \in EntryTypes |-> 0]]

MakeElementSlip(q) == Zeroed
MakeElement(q) == [Zeroed EXCEPT !.market = q.market, !.code = q.code]

Eligible(entry) == entry.type # -1 /\ entry.level <= 1

(* The saves of a quote by their numbers, in whose order they are made: the *)
(* codes, OrigTime, and then number i + 1 is the price of entry i.          *)
SavesOf(q) ==
  {0, 1} \cup
    {i \in 2 .. MaxEntries + 1 : i - 1 \in DOMAIN q.entries /\ Eligible(q.entries[i - 1])}

(* Save i of message n; the number n stands for its OrigTime. *)
Put(element, n, i) ==
  LET q == received[n]
  IN  CASE i = 0 -> [element EXCEPT !.market = q.market, !.code = q.code]
        [] i = 1 -> [element EXCEPT !.origTime = n]
        [] i > 1 -> [element EXCEPT !.price[q.entries[i - 1].type] = q.entries[i - 1].value]

Latest == Len(received)
InWork == IF pc = "idle" THEN {} ELSE {Latest}
Finished == IF pc = "idle" THEN Latest ELSE Latest - 1

NoDump == [shown |-> {}, item |-> <<>>, late |-> <<>>]
EndDump == holder' = "nobody" /\ toVisit' = {} /\ printed' = <<>> /\ atDump' = NoDump

Init ==
  /\ valid = {} /\ listed = {} /\ item = [k \in Keys |-> Zeroed] /\ holder = "nobody"
  /\ pc = "idle" /\ key = -1 /\ saves = {} /\ received = <<>>
  /\ toVisit = {} /\ printed = <<>> /\ atDump = NoDump
  /\ cleared = [k \in Keys |-> 0] /\ cut = {} /\ halfWiped = -1
  /\ crashes = 0 /\ died = {}

-----------------------------------------------------------------------------
(* The business thread: parse(). *)

Parse(q) ==
  /\ pc = "idle" /\ Latest < MaxQuotes
  /\ received' = Append(received, q)
  /\ key' = KeyOf(q)
  /\ saves' = SavesOf(q)
  /\ pc' = "lookup"
  /\ UNCHANGED <<table, holder, dumper, clearing, ending>>

(* getPtr(), set() and clear() wait for forEach(). *)
UnlockedSlip == TRUE
Unlocked == holder = "nobody"

(* getElement() *)
Lookup ==
  /\ pc = "lookup"
  /\ Unlocked
  /\ pc' = IF key \in valid THEN "write" ELSE "create"
  /\ UNCHANGED <<table, holder, key, saves, received, dumper, clearing, ending>>

NextSave == Min(saves)
SaveNext ==
  /\ saves' = saves \ {NextSave}
  /\ pc' = IF saves' = {} THEN "idle" ELSE "lookup"
  /\ UNCHANGED <<holder, key, received, dumper, clearing, ending>>

Created == Put(MakeElement(received[Latest]), Latest, NextSave)
WrittenSlip == item
Written == [item EXCEPT ![key] = Put(@, Latest, NextSave)]

(* No record was there: set() one with nothing but this field. *)
Create ==
  /\ pc = "create"
  /\ Unlocked
  /\ valid' = valid \cup {key}
  /\ listed' = IF key \in valid THEN listed ELSE listed \cup {key}
  /\ item' = [item EXCEPT ![key] = Created]
  /\ SaveNext

(* A record was there: write the field through its address. *)
Write ==
  /\ pc = "write"
  /\ item' = Written
  /\ UNCHANGED <<valid, listed>>
  /\ SaveNext

-----------------------------------------------------------------------------
(* The main thread: dump(), which prints under the mutex, and clear(). *)

Dump ==
  /\ Unlocked
  /\ holder' = "dump"
  /\ toVisit' = listed /\ printed' = <<>>
  /\ atDump' = [shown |-> IF halfWiped # -1 THEN listed ELSE valid, item |-> item,
                late |-> IF pc = "write" THEN Written ELSE item]
  /\ UNCHANGED <<table, business, clearing, ending>>

DumpRecord(k) ==
  /\ k \in toVisit
  /\ toVisit' = toVisit \ {k}
  /\ printed' = [j \in DOMAIN printed \cup {k} |-> IF j = k THEN item[k] ELSE printed[j]]
  /\ UNCHANGED <<table, holder, business, clearing, ending, atDump>>

DumpDone ==
  /\ holder = "dump" /\ toVisit = {}
  /\ EndDump
  /\ UNCHANGED <<table, business, clearing, ending>>

(* A memset of the whole table, in clear() or in the constructor. *)
Wipe ==
  /\ listed' = {} /\ valid' = {}
  /\ item' = [k \in Keys |-> Zeroed]
  /\ cleared' = [k \in Keys |-> Finished]
  /\ halfWiped' = -1

Clear ==
  /\ Unlocked
  /\ Wipe
  /\ cut' = cut \cup InWork
  /\ UNCHANGED <<holder, business, dumper, ending>>

-----------------------------------------------------------------------------
(* The process dies and another one opens the table.  An orderly end, with  *)
(* no message in work, changes nothing of what is kept here.                *)

Restart ==
  /\ crashes < MaxCrashes /\ crashes' = crashes + 1
  /\ pc' = "idle" /\ saves' = {}
  /\ EndDump
  /\ cut' = cut \cup InWork /\ died' = died \cup InWork
  /\ UNCHANGED <<key, received>>

(* Between two stores to the table, or in a copy of a body that is longer   *)
(* than its structure (Overrun).                                            *)
Crash ==
  /\ Restart
  /\ UNCHANGED <<table, cleared, halfWiped>>

(* What a record may be when some fields of another have come in its place. *)
Between(old, new) ==
  {[market |-> m, code |-> c, origTime |-> t, price |-> p] :
     m \in {old.market, new.market}, c \in {old.code, new.code},
     t \in {old.origTime, new.origTime},
     p \in {[e \in EntryTypes |-> IF e \in done THEN new.price[e] ELSE old.price[e]] :
               done \in SUBSET EntryTypes}}

(* Within set() of a new record: while it is being listed, when the         *)
(* constructor finds the list wrong and wipes everything; or while its item *)
(* is being copied, when some of the fields are there.                      *)
CrashInSet ==
  /\ pc = "create" /\ key \notin valid /\ Unlocked
  /\ Restart
  /\ \/ Wipe
     \/ /\ valid' = valid \cup {key} /\ listed' = listed \cup {key}
        /\ \E part \in Between(item[key], Created) : item' = [item EXCEPT ![key] = part]
        /\ UNCHANGED <<cleared, halfWiped>>

(* Within clear(), or the memset of a constructor: while the list is being  *)
(* wiped, when the next constructor finds it wrong and wipes everything; or *)
(* when some of the records have been, and of one perhaps some fields, its  *)
(* valid among them or not.                                                 *)
CrashInClear ==
  /\ Unlocked
  /\ Restart
  /\ \/ Wipe
     \/ /\ listed' = {}
        /\ \E wiped \in SUBSET Keys : \E k \in Keys : \E part \in Between(item[k], Zeroed) :
             /\ valid' = valid \ wiped
             /\ item' = [j \in Keys |-> IF j = k THEN part
                                       ELSE IF j \in wiped THEN Zeroed ELSE item[j]]
        /\ halfWiped' = Latest
        /\ UNCHANGED cleared

Next ==
  \/ \E q \in Accepted : Parse(q)
  \/ Lookup \/ Create \/ Write
  \/ Dump \/ DumpDone \/ Clear
  \/ \E k \in Keys : DumpRecord(k)
  \/ Crash \/ CrashInSet \/ CrashInClear

Spec == Init /\ [][Next]_vars

-----------------------------------------------------------------------------
(* Type invariant. *)
Element ==
  [market : {0, 2, 9}, code : 0 .. CodeLimit - 1, origTime : 0 .. MaxQuotes,
   price : [EntryTypes -> -Weight(Int32) \div 2 .. Weight(Int32) \div 2 - 1]]
TypeOK ==
  /\ listed \subseteq valid /\ valid \subseteq Keys /\ item \in [Keys -> Element]
  /\ holder \in {"nobody", "dump"}
  /\ pc \in {"idle", "lookup", "create", "write"}
  /\ key \in Keys \cup {-1} /\ (InWork = {} <=> saves = {})
  /\ toVisit \subseteq listed /\ halfWiped \in -1 .. Latest
  /\ received \in Seq(Accepted) /\ cleared \in [Keys -> 0 .. Latest]
  /\ died \subseteq cut /\ cut \subseteq 1 .. Latest

(* A body is taken exactly if it is one that this client is made for, and   *)
(* then every field of the structure says what the gateway meant: no other  *)
(* length is ever read with its entries out of place, no number is left in  *)
(* network order, and none is turned round twice.  So what parse() gets is  *)
(* some quote as the gateway meant it.  Of several cooling-off periods, up  *)
(* to what the room for all entries holds, the first one's times are kept;  *)
(* with more, the body is neither refused nor read (Overrun).               *)
ReadsRight ==
  \A a \in Arrivals :
    LET read == deserializeBody(a.type, a.body)
    IN  /\ read.result = 0 <=> a.body = Body(a.type, a.md) /\ Supported(a.type, a.md)
        /\ read.result = 0 => read.md = Kept(a.md)
MeantQuotes ==
  {QuoteOf(m.type, m.md) : m \in {m \in Messages : m.type \in {"quote", "hkQuote"}}}
ReadsWhatWasMeant == ReadsRight /\ \A n \in DOMAIN received : received[n] \in MeantQuotes

(* Whichever save creates a record and however often clear() takes it away *)
(* between two saves of one message, a record names the stock whose key it *)
(* is stored under: dump() prints makeKey() of these codes as its key.  If *)
(* the process died while it created the record, or within a clear(), which *)
(* may leave the record valid and its codes zero, the next quote mends it.  *)
Named(k) == item[k].code < CodeLimit /\ MakeKey(item[k].market, item[k].code) = k
NotMended(k, n) ==
  \A m \in n + 1 .. Latest : KeyOf(received[m]) = k => m \in died \cup InWork
LeftUnnamed(k) ==
  \/ \E n \in died : KeyOf(received[n]) = k /\ NotMended(k, n)
  \/ halfWiped # -1 /\ NotMended(k, halfWiped)
NamesItsKey == \A k \in valid : Named(k) \/ LeftUnnamed(k)

(* The fields that quotes differ in: OrigTime, as -1, and the prices. What  *)
(* the table shows of one, and what a save says of it.                      *)
Fields == {-1} \cup EntryTypes
Shown(k, f) == IF f = -1 THEN item[k].origTime ELSE item[k].price[f]
FieldOf(n, i) == IF i = 1 THEN -1 ELSE received[n].entries[i - 1].type
ValueOf(n, i) == IF i = 1 THEN n ELSE received[n].entries[i - 1].value

(* The saves of field f that message n has for the record at k, and the     *)
(* messages since the last wipe of k that have one: those that parse() is   *)
(* through with, and those of which clear(), a crash or this moment cuts    *)
(* some off.                                                                *)
SavesFor(n, k, f) ==
  {i \in SavesOf(received[n]) \ {0} : KeyOf(received[n]) = k /\ FieldOf(n, i) = f}
Since(k, f) == {n \in cleared[k] + 1 .. Latest : SavesFor(n, k, f) # {}}
Settled(k, f) == Since(k, f) \ (cut \cup InWork)
Open(k, f) ==
  {n \in Since(k, f) \cap (cut \cup InWork) : \A m \in Settled(k, f) : m < n}

Said(k, f) ==
  IF Settled(k, f) = {} THEN 0
  ELSE LET n == Max(Settled(k, f)) IN ValueOf(n, Max(SavesFor(n, k, f)))

(* A record shows, field by field, what the latest message since it was    *)
(* last wiped said, in whichever process that was; only the message in     *)
(* work, and one that clear() or the end of the process interrupted, may   *)
(* have left their value or not; and where a clear() was interrupted, what *)
(* was said before may be gone, the record or the field alone.             *)
MayBeGone(k, f) == \A n \in Settled(k, f) : n <= halfWiped
IsCurrent(k, f) ==
  \/ Shown(k, f) = Said(k, f)
  \/ \E n \in Open(k, f) : \E i \in SavesFor(n, k, f) : Shown(k, f) = ValueOf(n, i)
  \/ Shown(k, f) = 0 /\ MayBeGone(k, f)
BookIsCurrent ==
  \A k \in Keys :
    /\ k \in valid \/ MayBeGone(k, -1)
    /\ k \in valid => \A f \in Fields : IsCurrent(k, f)

(* A dump shows the table as it was when the dump took the mutex, every    *)
(* record once, but for one field of one record: parse() gets no further   *)
(* than the write whose address it already had.  Records that a clear()    *)
(* left which the process's end interrupted are updated but never shown.   *)
DumpIsSnapshot ==
  holder = "dump" =>
    /\ DOMAIN printed \cup toVisit = atDump.shown
    /\ \A k \in DOMAIN printed : printed[k] \in {atDump.item[k], atDump.late[k]}
    /\ atDump.shown \subseteq valid

(* What makes the last three inductive: a field holds zero or what a quote  *)
(* says, ...                                                                *)
Values ==
  0 .. MaxQuotes \cup
    UNION {{q.market, q.code} \cup {q.entries[i].value : i \in DOMAIN q.entries} :
             q \in Accepted}
Record == [market : Values, code : Values, origTime : Values,
price : [EntryTypes -> Values]]
Shape ==
  /\ received \in Seq(Accepted) /\ Latest <= MaxQuotes
  /\ valid \subseteq Keys /\ listed \subseteq valid /\ item \in [Keys -> Record]
  /\ holder \in {"nobody", "dump"} /\ halfWiped \in -1 .. Latest
  /\ pc \in {"idle", "lookup", "create", "write"}
  /\ cleared \in [Keys -> Nat] /\ \A k \in Keys : cleared[k] <= Finished
  /\ died \subseteq cut /\ cut \subseteq 1 .. Latest

(* ... parse() makes the saves of the latest quote in their order, finds    *)
(* the record where it has put one, unless clear() came in between, and has *)
(* in it what it has saved so far, ...                                      *)
Working ==
  /\ pc = "idle" <=> saves = {}
  /\ pc # "idle" =>
       /\ Latest # 0 /\ key = KeyOf(received[Latest])
       /\ saves \subseteq SavesOf(received[Latest])
       /\ \A i \in saves : \A j \in SavesOf(received[Latest]) : i <= j => j \in saves
       /\ pc = "create" => key \notin valid
       /\ key \in valid \/ Latest \in cut \/ (0 \in saves /\ pc # "write")
       /\ 0 \in saves \/ key \notin valid \/ Named(key)
       /\ \A f \in Fields :
            LET made == SavesFor(Latest, key, f) \ saves
            IN  made = {} \/ Latest \in cut \/ Shown(key, f) = ValueOf(Latest, Max(made))

(* ... nothing is shown as current that has no record, ...                  *)
AllCurrent ==
  \A k \in Keys : /\ k \in valid \/ MayBeGone(k, -1)
                  /\ \A f \in Fields : IsCurrent(k, f)

(* ... and while a dump runs nothing changes but by the write that had its  *)
(* address when the dump began.                                             *)
Dumping ==
  /\ halfWiped # -1 \/ listed = valid
  /\ holder = "nobody" => toVisit = {}
  /\ holder = "dump" =>
       /\ toVisit \subseteq Keys /\ item \in {atDump.item, atDump.late}
       /\ pc = "write" => item = atDump.item /\ Written = atDump.late

IInv == Shape /\ Working /\ NamesItsKey /\ AllCurrent /\ Dumping /\ DumpIsSnapshot

(* A price is a 64-bit number in the message (MDEntryPx, XSHETypes.h:73);   *)
(* a price that the table shows was once sent for this stock.              *)
PricesWereSent ==
  \A k \in valid : \A e \in EntryTypes :
    item[k].price[e] \in {0} \cup
      UNION {{q.entries[i].px : i \in {j \in DOMAIN q.entries : q.entries[j].type = e}} :
               q \in {received[n] : n \in {n \in DOMAIN received : KeyOf(received[n]) = k}}}
=============================================================================

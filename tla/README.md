# TLA+ models of MDRS

`src/MDRS` is a client of the Shenzhen exchange's market data gateway (MDGW): it logs on over TCP,
receives quotes of Shenzhen and Hong Kong stocks, and keeps the last price of every stock in a table in
POSIX shared memory that survives the process. This directory holds TLA+ modules of its parts, the TLC
configurations that check them on small instances, and proofs that `tlapm` checks for every value of the
constants.

    tlasany M.tla                                   parse a module
    tlc -workers 2 -config MCX.cfg MCX.tla          model-check a configuration
    tlapm FIFOQueueNLProofs.tla                     check proofs

`PROJECT.json` maps every definition to the source lines it stands for, and lists the runs, the mutants that
show that each property can fail, the findings, the hazards and the theorems.

## The system

Three threads in one process (`main.cpp`), a gateway at the other end of a TCP connection, and a shared
memory object that outlives the process.

    gateway --TCP--> I/O thread --MyFifoQueueNL--> business thread --MDParser--> ShmStorage (shared memory)
                         |                               |                             |
                       fsIo, mtxIo               fsBusiness, mtxBusiness         mutex_ of ShmStorage
                         +------ show ------- main thread: q, s, d, c --- dump, clear ---+

| Part | Code | State | Operations | What is hard |
|---|---|---|---|---|
| Lock-free queue | `myPub/myFIFOQueueNL.h` | ring of slots, two atomic indices | push, pop, try_pop | stale indices, wrap-around, publication order |
| Shared-memory table | `myPub/shmStorage.h` | size, list of keys, records; a mutex | constructor, set, get, getPtr, forEach, clear, destructor | crash between any two stores, restart, pointers used without the mutex |
| I/O thread, session, sockets | `XSHEThreadFuncs.cpp`, `session.cpp`, `myPub/utility.*` | clientSocket, needReconnect, descriptors, connection | connect, logon, receive, logout, close | every kind of failure at every step, quit at any moment |
| Wire format | `session.cpp`, `myPub/utility.*` | receive buffer, bytes under way | byte order, checksum, myRecv, RecvLogon, RecvMsg, SendLogon, SendLogout | partial reads, damage, sign extension, strings that fill their field |
| Message dispatch | `XSHEBusiness.*`, `session.cpp` | handlers, statistics, HK session id | RecvMsg's dispatch, popAndParse, route, handlers | full queue, ill-formed bodies, unknown ids, two mutexes |
| Message bodies | `XSHETypes.h`, `XSHEBusiness.cpp` | - | four deserializeBody | counts and lengths that come with the message, each field turned round by hand |
| Quote table | `XSHEMdParser.*` | nothing of its own besides the table | parse, dump, clear | a message is saved field by field while the user dumps and clears, and the process may die in between |
| Main thread | `main.cpp`, `appManager.*` | exitFlag | q, s, d, c, joins | races with both threads, joins |
| Mutex queue | `myPub/myFIFOQueue.*`, `ut/queueSingleProduceConsumerTest.cpp` | deque, mutex, condition variable | push, pop, five try_pops | lost and spurious wakeups, timeouts |
| INI reader | `myPub/myInih.*`, the beginning of `main.cpp` | section, line number, first error, values | parse config.ini, fill the settings | lines longer than the buffer, unfinished and overlong headers, values given twice |
| Logger | `myPub/loggerSingleton.*` | - | spdlog wrapper | nothing reads what it writes; not modelled |
| Gateway | not here; `3rd_doc` has its interface specification | sessions | accept, refuse, send, close | external, modelled from that specification and from what the client expects |

How they interact: the I/O thread is the queue's only producer and the business thread its only consumer.
The business thread alone writes the table, except for `clear`, which the main thread calls; the main thread
reads it in `dump`. `show` locks the two statistics maps one after the other. `exitFlag` is written by the
main thread and polled by the others. The main thread's dump files share the descriptor table with the I/O
thread's sockets. Everything but the shared memory is gone when the process dies.

What makes each part correct:

* queue: first in, first out, each message once and whole, no data race on a slot, a push refused only when
  the ring is full, an empty pop only when it is drained;
* table: list and records agree whenever the mutex is free, after any crash; no record without content is
  served, but for one that a crash left half done; a restart keeps the table; a dump shows all of it;
* I/O thread: uses its own socket only, leaks no more than its failed sessions, ends
  after q, recovers from every loss, keeps the rules of the interface specification;
* wire: what is handed on is what was sent, damage is noticed, nothing else is rejected;
* settings: what a file says under a section's header is what the gateway finds in the logon;
* bodies: a body is read as the gateway meant it or refused, and refused only for a reason;
* dispatch: counts of the two threads add up, handlers see each message once in order, no deadlock;
* quote table: a record belongs to its key and shows, field by field, the latest message, in whichever process
  that came; a dump is a snapshot;
* mutex queue: in order, once, nobody sleeps over an item, the test's loops end with the queue empty.

## Modules

| Module | Models | Correspondence |
|---|---|---|
| `BoundedFifo` | what a queue promises (abstract) | `Put` is a push that returns true, `Take` a pop that returns true |
| `FIFOQueueNL` | `MyFifoQueueNL` | one action per access to shared memory. An atomic index is the sequence of all values stored in it; the other thread reads at a position that lags behind and moves forward (`SeeWrite`, `SeeRead`), which is what release and acquire allow |
| `FIFOQueueNLProofs` | proofs | |
| `ShmStorage` | `ShmStorage` | one action per store that a crash may separate from the next; `memset` clears cells in any order, a record's item and its `valid` in a step each; `Crash` forgets all but the memory |
| `ShmStorageProofs` | proofs | |
| `IoThread` | `szIoThreadFunc`, session functions, sockets, gateway | one action per call that can fail in its own way; descriptors are numbers of which the lowest free one is taken, as POSIX does |
| `IoThreadProofs` | proofs | |
| `Bytes` | memory, byte order, `fixedCharToInt` | a field is a sequence of bytes, little-endian in memory; base, width and digits are constants |
| `IniReader` | `myInih.cpp` | one action per line of the file, which is one or more pieces as `fgets` returns them; the kinds of a piece are the cases of `ini_parse_stream`. The name of a section is what its 49 characters have room for, and a rest, which `ini_strncpy0` leaves out |
| `Channel` | what a session's connection promises (abstract) | `Deliver` is a receive function that returns 0, `Fail` one that gives the session up |
| `Wire` | the beginning of `main`, the bytes of a logon, checksum, framing | `strcpy` into packed fields, terminator and all; `recv` returns any part of the stream. The gateway's messages are bytes on the wire as they should be, or with one of them changed (`OnWire`); their types and lengths fit in a `uint32_t` |
| `WireProofs` | proofs | |
| `MessagePath` | RecvMsg's dispatch, popAndParse, show, quit | the queue is the bounded FIFO of `BoundedFifo`, with refusals and empty pops at any time, since the real queue's views may be old. Messages are numbered as they are received; queue, handlers and counts keep the numbers |
| `MessagePathProofs` | proofs | |
| `Bodies` | the packed structures, `deserializeBody` | a structure is a sequence of named fields with their sizes; the gateway's encoding is the inverse, from the interface specification. A body that is copied past the end of its structure has a result of its own (`Overrun`) |
| `MDParser` | `Bodies`, then `MDParser` over the table | one action per `saveX` lookup and write; the saves that a quote has still to make are a set of numbers, of which the least is next; `set` and `clear`, which hold the mutex, are one step each unless the process dies in them: then a record is left with any of its fields copied, or wiped |
| `MDParserProofs` | proofs | |
| `FIFOQueue` | `MyFifoQueue` in its test program | one action per critical section; `wait_for` may time out or wake up at any time |
| `FIFOQueueProofs` | proofs | |
| `BytesProofs` | lemmas for the proofs | induction over sets of numbers, functions defined by recursion, parts of sequences, numbers and their bytes |
| `MC...` | values for TLC | |

Which module relies on which:

* `FIFOQueueNL` implements `BoundedFifo` (a refinement, checked and, but for its fairness, proved);
  `MessagePath` uses that FIFO in the ring's place.
* `Wire` extends `IniReader`, whose values fill its settings, and implements `Channel` (a refinement with
  fairness, checked and, but for its fairness, proved): messages whole, in order, undamaged, or the session is
  given up for a cause. That is what
  `IoThread`, which receives a message whole or not at all, takes for granted.
* `MDParser` extends `Bodies`, which extends `Bytes`: the quotes that are parsed are those that
  `deserializeBody` returns for the bytes of the messages. What it assumes of the table is what `ShmStorage`
  and its proofs show: `set` and `clear` as wholes, and, when the process dies in one of them, a list that the
  next constructor wipes, a valid record with part of its item, or a wiped list with part of the records left,
  one of them perhaps in part.
  A second crash within the constructor's own wipe is `ShmStorage`'s, not repeated here.
* Whether a body is well-formed is an attribute of a message in `MessagePath`; `Bodies` decides it.

Definitions whose names end in `Slip` are deliberate mistakes: one for each property, in the definition that
follows them, to show that the property notices. No specification uses them.

## Runs

Seven runs check the modules, five show findings. Each of the seven takes between two seconds and about two minutes.

| Run | Configuration | Shows |
|---|---|---|
| queue | `MCFIFOQueueNL.cfg` | FIFO delivery, no data race, honest "full" and "empty", and the refinement of `BoundedFifo` with its fairness: accepted items arrive. Capacity 3, two items, five pushes: both indices go round, and the ring is full and empty at every position |
| table | `MCShmStorage.cfg` | the table's invariants, complete dumps, and that the constructor resets only after a crash that really tore something, or for key 0. Two threads, two crashes, three keys with key 0 among them |
| io | `MCIoThread.cfg` | own socket only, bounded leak, the end after q, recovery. Descriptors 0 to 4, two messages under way: sockets can leak until none is left, and dump files and sockets get each other's numbers |
| wire | `MCWire.cfg` | files of up to four lines of eleven kinds (two sections, one header without its bracket and one whose name is cut to that of a section, comments, a line that is an error, one that the buffer splits, passwords in two spellings, an empty one, a number); a default password that fills its field and, as in the program, leaves no room for its terminator; then bytes of two bits (half of them "negative"), words of two bytes, logon and two more messages, one byte damaged, any partition of the stream |
| path | `MCMessagePath.cfg` | counts, order, status, no race, no deadlock: three messages of six kinds, a queue for two, so that pushes are refused; rejected bodies, an unknown id, show and q at any moment |
| quotes | `MCMDParser.cfg` | bodies of eleven messages, as they should be, one field shorter and one longer; an entry too many, revealed orders, a cooling-off period, two that fit and two that do not. Three quotes for three keys in two markets, a refused code, repeated, ineligible, negative and too large prices; clear, dump and one end of the process between any two saves or within one |
| mutex_queue | `MCFIFOQueue.cfg` | all six ways to pop (`try_pop` and `try_pop_p` are one), two consumers, four items |
| queue_slot | `MCFIFOQueueNLSlot.cfg` | finding 1 |
| table_key_zero | `MCShmStorageKeyZero.cfg` | finding 2 |
| io_wait | `MCIoThreadWait.cfg` | finding 3 |
| wire_request | `MCWireRequest.cfg` | finding 4 |
| quotes_price | `MCMDParserPrice.cfg` | finding 5 |

Why the bounds are enough: the ring's behaviour depends on positions modulo its capacity and on at most
capacity - 1 items, which five pushes through three slots exhaust, and the proofs hold for every value. Two
crashes of the table include a crash within the recovery from another. The damage and the partial reads of
`Wire` concern one message at a time; a third one shows that the buffer starts afresh. Four lines are what a
section left and entered again with a setting given twice takes. Words of four bytes of two bits are large
enough for a number whose bytes all differ, which tells a field that was turned round from one that was not;
the layouts are the program's, with two entries where it has room for thirty. In `MDParser` three messages
allow one that is complete, one that `clear` or a crash interrupts and one in work, which are the cases that
its properties tell apart; after the one crash the table of the next process is like that of the first. The
mutex queue needs two consumers for one to steal the item for which the other was woken. The counters that a bound cuts off (messages, pushes, crashes) are never compared with anything in the
code.

`CHECK_DEADLOCK FALSE` stands where the program ends: the I/O thread after q or when killed by SIGPIPE,
`main` after its joins, the test after its loops, a connection given up (`Wire`), and a model that has
received its last message. The ring and the table are checked for deadlock.

### Fairness

* `FIFOQueueNL`: the consumer goes on (its loop has no exit but q), a store becomes visible some day (C++
  [intro.progress]: "should become visible in a finite period of time"). The producer needs no fairness but to
  finish a push that it has begun.
* `IoThread`: the I/O thread runs; the dump of the main thread ends; the gateway answers a logon or closes,
  sends heartbeats to a client that it has accepted and hangs up on one that it has refused. Without
  heartbeats `recv` would wait for ever after q: the socket has no timeout. `Recovers` is stated under the
  further condition that the gateway is there to be connected to again and again (strong fairness of
  `Connected`); nobody promises that it is.
* `Wire`: the client receives what is there, which is what `Channel` asks: that a message which has arrived is
  delivered or given up. The gateway need not send anything.
* `MessagePath`: the threads run; a mutex that the other thread holds for a short time, again and again, is
  obtained in the end (strong fairness of the three lock actions: critical sections are a map access against
  a `recv`); one of repeated `try_pop` calls sees what is in the queue (strong fairness of `Pop`, justified by
  the fairness of `BoundedFifo`, which `ImplementsFifo` includes).
* `FIFOQueue`: threads run; the deadline of a `wait_for` is a point in time and comes (strong fairness of
  `Timeout`, since spurious wakeups may interrupt the wait).

## What is proved

`FIFOQueueNLProofs`, for every capacity above one, any items and any number of pushes:

* `Invariance`: `IInv` is inductive. Beside the types it says that the i-th value stored in an index is i - 1
  modulo the capacity (`Positions`), that the views bracket what is in the ring (`Room`), and that an item
  stays in its slot until the consumer has taken it (`Contents`). `FifoDelivery` alone is not inductive: that
  the next item delivered is right follows from the slot's content, and that the producer has not overwritten
  it from `Room`, although it may see an old `read_index_`. A few lemmas on remainders (`ModUnique`,
  `ModDistinct`, `ModLap`) carry the argument from positions to slots.
* from it `TypeCorrect`, `DeliveryInOrder`, `RaceFree`, `RefusalMeansFull`, `EmptinessMeansDrained`, and
  `RingIsFifo`: every step of the ring is a step or a stutter of `BoundedFifo` with capacity - 1 places.

`ShmStorageProofs`, for every table size, any keys, threads and number of crashes:

* `Invariance`: `IInv` says how far list and records may disagree at each step of `set` and of a memset
  (`ListSteps`), what a memset cut short leaves behind (`Listing`), which records may be blank (`Filled`: one
  that is to be copied or was just wiped, and those that crashes left at that point, `halved`) and
  what a running `forEach` has seen (`Visiting`). `TypeCorrect` needs it all: that `set` never writes past the
  end of the list, although it does not look, follows from distinct listed keys by counting
  (`RoomForOneMore`).
* from it `ListAlwaysSound`, `RecordsListed`, `BlankNeverServed`, `ForEachComplete`, and, with a second
  invariant (`Undamaged`: what no crash tore is sound while no process runs), `RestartSafe`.

`FIFOQueueProofs`, for any number of consumers and items and all six ways to pop:

* `Invariance`: `IInv` adds `Control` to the properties: a consumer looks whether the queue is empty after it has
  seen `doneFlag`, and nothing is pushed from then on. `NoLostWakeup` is inductive with it, in spite of
  wakeups that no one sent and of consumers that time out.
* from it `TypeCorrect`, `ItemsInOrder`, `WakeupNotLost`, and `NothingLeft`: the test's threads end with the
  queue empty and every item consumed.

`IoThreadProofs`, for any number of descriptors, messages and failures:

* `Invariance`: `IInv` says which of the thread's steps come with a session and which without (`Control`), that a
  file is open only while the main thread dumps, and where `clientSocket` is a socket (`Descriptors`). The leak
  is counted (`Leaks`): once a session is given up, its socket is one of the failures, before the next is opened.
* from it `TypeCorrect`, `OwnSocketOnly`, `LeaksBounded`.

`MessagePathProofs`, for any number of messages and any capacity of the queue:

* `Invariance`: `IInv` says who holds which mutex (`Mutexes`), that the messages keep their order from the socket
  through the queue to the handlers (`Line`), and that no count exceeds the number of messages (`Bounded`).
  `CountsAddUp` follows by counting the messages of a type that wait and that were refused, for which
  they have numbers.
* from it `TypeCorrect`, `NoConcurrentShow`, `NothingMiscounted`, `StatusIsTheLast`, `EachHandledOnce`.

`MDParserProofs`, for any messages, codes, number of quotes and crashes:

* `Invariance`: `IInv` (stated in `MDParser`, next to the properties) adds to them what a quote in work has done
  so far: its saves are made in order, a record that it has put a field in is found again unless `clear` came in
  between, and shows what was saved (`Working`); that nothing counts as current under a key without a record
  (`AllCurrent`); and that while a dump runs nothing changes but by the write that had its address when the
  dump began (`Dumping`).
* from it `RecordsNameTheirKeys`, `TableIsCurrent`, `DumpsAreSnapshots`. The first two say what an end of the
  process within `clear` may leave: a record that is valid without its codes until a quote of its stock mends it
  (`LeftUnnamed`), and zeros where something was said before that moment (`MayBeGone`); what is said later counts
  again. Such a record is accepted by the constructor, since its scan looks at listed records only.
* `QuotesAreMeant`: what `deserializeBody` makes of a message is what the message says, or nothing. The fields of
  a structure lie one behind the other (`Laid`, by induction along its layout), so each is read where it was
  written, wherever in the body the structure begins (`StructIs`), and so are a count and the entries behind it
  (`CountIn`, `GroupIs`). What the gateway writes in another form than the code expects (a field appended, orders
  revealed) differs in its length from what the counts ask for, and is refused for that (`HkQuoteIs`,
  `StatusIs`). Of the cooling-off periods of a quote the first is kept (`Kept`); with more than there is room for,
  the body is not counted as taken.
* `TypeCorrect`: a number with a sign is read in the range of an `int` (`SignedRange`), a code within the limit
  of the codes; what a dump has written are records of the list as it was when the dump began (`Typed`).

The messages are those whose contents have the declared lengths and whose entries can be counted in a
`NumInGroup` (`Contents`): any number of entries and of cooling-off periods.

`WireProofs`, for bytes of any number of values, words of any number of bytes, any messages whose types and
lengths fit in a word, any logon, and every way in which `recv` cuts up the stream:

* what the client reads: a number that is stored is read again (`ValueStored` in `BytesProofs`) and bytes that
  are read are those that the number is stored in (`StoredValue`), so that reversing the bytes of a word is
  `htnu32`; the sum of sign-extended bytes in a `uint32_t` is, modulo the byte's base, the sum of the bytes
  (`SumIsTotal`); turning a head round does not change the sum (`Turned`), which is why `RecvMsg` may check the
  message after it has turned the head, and changing a byte does (`Harmed`).
* `Invariance`: there is a function `T` such that `T[j]` is what follows the j-th message of the stream, each
  message in between in one of the forms in which the gateway put it on the wire; what the client has received
  of the current message (the head turned back), with what is under way, is the first of these (`Streams`). A
  head in the buffer is then that of the current message, a whole message the whole of it (`SameStart`,
  `WholeMessage`), and `wanted` is its length (`HeadKnown`).
* from it `Undamaged`, `NeverWithoutCause` and `SessionIsChannel`: every step of the session is one of `Channel`
  or leaves it as it is.
* what `config.ini` becomes, for any lines: `FileInvariance` says, of a file without a line that the buffer splits,
  that the line number is that of the file and the error the first wrong line, and, if moreover no header lacks its
  bracket or is cut short, that the reader's section is that of the last header and that every key has what the
  lines wrote for it (`FileRead`). It is an invariant of its own: `Configure` takes the reader's values and drops the file. From it
  `SettingsAsWritten` and `ErrorIsTheFirst`.
* the logon, for any sizes of its fields and any settings: what is copied into a field stays in it as far as the
  field goes, since later copies begin behind it (`FilledHolds`); so a string is read again where it was put,
  together with what follows if the field has no room for its zero (`StringRead`, `LogonBodyIs`), and the copy
  into the body is right for the same reason. The checksum is written behind the message (`TailBehind`), so that
  every byte of head and body is known (`Serialized`). With `Asked` as invariant (before it is sent, `cfg` is what
  `parstToStruct` makes of the settings that are meant) follows `RequestIsMeant`.

`BytesProofs` has what these proofs say about data. A library theorem on well-founded relations gives induction over
a set of numbers (`SetInduction`), and with it that a recursive function exists, takes its steps and stays where
they lead (`Recursion`, `RecursiveStep`, `Along`, `Stays`). `Value`, `Stored`, `Weight`, `Sum`, `Total`,
`Number`, `After`, `TextOf`, `Ends`, `Filled` and `Bound` are such functions for that reason. With them it shows
what numbers and bytes are to each other, for any sizes of bytes and words: without a sign, and with one if the
values of a byte can be halved (`SignAssumption`); and where the parts of a flattened sequence lie
(`FlattenParts`).

The only assumptions are those on the constants, named in the modules, which TLC evaluates in the runs of those modules.

Every safety invariant that a passing run checks is one of these theorems, for every value of the constants.

Only model-checked:

* all liveness (`QuitEnds`, `Recovers`, `QuitReturns`, `QueueDrains`, `TestEnds`) and the fairness parts of the two
  refinements: `tlapm` has no rule for fairness with ENABLED. That a step of the ring is one of `BoundedFifo`, and
  one of the session one of `Channel`, is proved (`RingIsFifo`, `SessionIsChannel`).

## Findings

1. `myFIFOQueueNL.h:20` says that an extra slot is allocated to tell full from empty; none is, and a queue
   asked for n items holds n - 1 (run queue_slot).
2. A record under key 0, as `ut/shmStorageTest.cpp:14` sets, makes the constructor discard a table whose
   control block and list agree (`shmStorage.h:80`; run table_key_zero). The application's keys are never 0.
3. After the loss of a session the client connects again at once; the interface specification (section 2.2.1,
   item 5) asks for a wait (run io_wait).
4. `SendLogon` and `SendLogout` call `appendTail` with the wrong address; the checksum that is sent is 0
   (section 4.2.2; run wire_request).
5. Prices are cut to 32 bits (run quotes_price).

Besides, seen while modelling, without a run of their own:

* a connection that is given up is not closed before the next is opened, although section 2.1.3 of the
  specification allows one connection on a port; `LeakPerFailure` bounds how many are left open;
* `deserializeBody` refuses a body with a field appended, although section 4.1, item 4 of the specification
  announces that later versions may append some, and one with revealed orders, which the second level of the
  market data has (`Supported`, `ReadsRight`);
* an overlong line of config.ini is no error, as the comment at `myInih.cpp:183` has it, but several lines; and
  an integer with a leading 0 is read as octal, which the comment at `myInih.h:68` does not mention;
* `main` ignores the number of the line with an error (`main.cpp:30`); the settings of a file with one are those
  that `ReadsAsWritten` gives, except below a header without its bracket;
* the name of a section is cut to 49 characters (`myInih.cpp:86`) and that is no error: values under a longer one
  are filed under a name that the file does not have, or under that of another section;
* the number of cooling-off periods of a Hong Kong quote is bounded by nothing but the length of the message
  (`XSHEBusiness.cpp:125`): of several the first is read again and again, and with enough of them, `memcpy` goes
  past the structure, which the check announced at line 119 is meant to prevent. The specification has 0 or 1;
* an end of the process within the `memset` of `clear` can leave a record valid with some or all of its fields
  zero, which the next constructor accepts and no list has;
* when a write of a dump fails, `dump` closes its file and goes on to the next record (`XSHEMdParser.cpp:184`).

## Not modelled, and why

* The compiler's freedom in `ShmStorage`: stores are taken in program order. A crash of the process loses none
  that was made; only the order that the optimizer chose could differ.
* A record is read and written as a whole, or field by field in `MDParser`; a torn read of one `MyMDItem`
  during `dump` is covered as far as fields go: while `dump` holds the mutex the business thread finishes one
  write at most (`DumpIsSnapshot`).
* What a copy past the end of a structure overwrites, when a Hong Kong quote has too many cooling-off periods
  (`Overrun`): the process may end there, as it may anywhere (`Crash`); what else may come of it is the
  compiler's, and no property speaks of it.
* An `int` of a record of which some bytes are stored or wiped and some not, and more than one record half done
  at a time: `memset` and the assignment of a `MyMDItem` are taken to move on field by field.
* A message longer than the receive buffer: the gateway of the models sends none. `RecvMsg` compares the length
  only after it has received the message; what it overwrites then is the compiler's.
* A setting that is longer than its field. `strcpy` writes through to the fields behind, as the models have it
  for a terminator; the model stops at settings that fit (`SettingsFit`).
* Writes of a dump that fail, and what closing a socket does to another thread's `recv`.
* Which characters make a line of config.ini a section, a pair or neither: a piece has a kind.
* The settings that are no part of a logon, each of which is copied to a field of its own.
* Functions that nobody calls: `RecvLogout`, `loadPx`, `MDParser::show`, the other getters of `INIReader`, the
  `LogMdData` functions, the queue's `clear`, `front` and `size`, the second queue
  of `appManager` and the global `gMDParser`.
* The destructor's `munmap` of `table_`, which is not the address of the mapping and fails; the mapping ends
  with the process.
* Heartbeats of the client: it sends none, although section 2.2.2 asks for them; the gateway of `IoThread` may
  close a session at any time.
* Time itself, the costs in the statistics, `updateTime`, names, log texts and the layout of the dump file.
* The logger.

## Plan

Done: `FIFOQueueNL` with `BoundedFifo` and proofs, `ShmStorage` with proofs, `IoThread`, `IniReader`, `Wire`
with `Channel`, `Bodies`, `MDParser` with crashes, `MessagePath`, `FIFOQueue`.

Next, model:

1. Failing writes of a dump in `IoThread`, with the descriptor that is closed twice.
2. The loops of `ut/queueNLTest.cpp` over `FIFOQueueNL`, as `FIFOQueue` has those of the other test.
3. `MessagePath` over the ring's actions instead of the abstract FIFO.

Next, prove: the invariants of the models above as they come; for the composition of `MessagePath` with the ring,
that it implements `MessagePath` over the abstract queue, which `RingIsFifo` prepares.

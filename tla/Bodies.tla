------------------------------- MODULE Bodies -------------------------------
(***************************************************************************)
(* The bodies of the four messages that have a handler: their structures   *)
(* (XSHETypes.h), which are laid over the received bytes, and the four     *)
(* functions deserializeBody (XSHEBusiness.cpp).  A field is a sequence of *)
(* bytes; the structures are packed, so that a layout is a sequence of     *)
(* fields with their sizes.  Texts that no handler reads take one byte.    *)
(***************************************************************************)
EXTENDS Bytes, FiniteSets

CONSTANTS
  CodeChars,  \* 8: SecurityIDType
  MaxEntries  \* 30: MAX_MD_ENTRY_NO

ASSUME SizesAssumption ==
  WordBytes % 2 = 0 /\ CodeChars \in Nat \ {0} /\ MaxEntries \in Nat \ {0}

Int16 == WordBytes \div 2
Int32 == WordBytes
Int64 == 2 * WordBytes

Numeric(name, bytes) == [name |-> name, bytes |-> bytes, number |-> TRUE]
Text(name, bytes) == [name |-> name, bytes |-> bytes, number |-> FALSE]

(* RawSzMDData and RawSzHkMDData up to the number of entries. *)
MDHead == <<
  Numeric("OrigTime", Int64), Numeric("ChannelNo", Int16), Text("MDStreamID", 1),
  Text("SecurityID", CodeChars), Text("SecurityIDSource", 1), Text("TradingPhaseCode", 1),
  Numeric("PrevClosePx", Int64), Numeric("NumTrades", Int64),
  Numeric("TotalVolumeTrade", Int64), Numeric("TotalValueTrade", Int64)>>
HkMDEntry == <<
  Text("MDEntryType", 2), Numeric("MDEntryPx", Int64), Numeric("MDEntrySize", Int64),
  Numeric("MDPriceLevel", Int16)>>
MDEntry == HkMDEntry \o <<Numeric("NumberOfOrders", Int64), Numeric("NoOrders", Int32)>>
ComplexEvent ==
  <<Numeric("ComplexEventStartTime", Int64), Numeric("ComplexEventEndTime", Int64)>>
MarketStatus == <<
  Numeric("OrigTime", Int64), Numeric("ChannelNo", Int16), Text("MarketId", 1),
  Text("MarketSegmentID", 1), Text("TradingSessionID", 1), Text("TradingSessionSubID", 1),
  Numeric("TradSesStatus", Int16), Numeric("TradSesStartTime", Int64),
  Numeric("TradSesEndTime", Int64), Numeric("ThresholdAmount", Int64),
  Numeric("PosAmt", Int64), Text("AmountStatus", 1)>>
StatHead == <<Numeric("OrigTime", Int64), Numeric("ChannelNo", Int16)>>
ChannelStatEntry ==
  <<Text("MDStreamID", 1), Numeric("StockNum", Int32), Text("TradingPhaseCode", 1)>>

HeadOf(type) ==
  CASE type \in {"quote", "hkQuote"} -> MDHead
    [] type = "hkStatus" -> MarketStatus
    [] type = "channelStat" -> StatHead
EntryOf(type) ==
  CASE type = "quote" -> MDEntry
    [] type = "hkQuote" -> HkMDEntry
    [] type = "channelStat" -> ChannelStatEntry

(* Where field i ends. *)
Bound(layout, i) ==
  LET end[j \in 0 .. Len(layout)] == IF j = 0 THEN 0 ELSE end[j - 1] + layout[j].bytes
  IN  end[i]
Size(layout) == Bound(layout, Len(layout))
Names(layout) == {layout[i].name : i \in DOMAIN layout}
Place(layout, name) == CHOOSE i \in DOMAIN layout : layout[i].name = name

(* What a structure may hold, and what messages of a type may say: their     *)
(* groups have a number of entries that fits in NumInGroup.                 *)
Fillings(layout) ==
  {fields \in [Names(layout) -> Seq(Byte)] :
     \A i \in DOMAIN layout : Len(fields[layout[i].name]) = layout[i].bytes}
Groups(layout) == {s \in Seq(Fillings(layout)) : Len(s) < Weight(Int32)}
Contents(type) ==
  [head : Fillings(HeadOf(type)),
   entries : IF type = "hkStatus" THEN {<<>>} ELSE Groups(EntryOf(type)),
   times : IF type = "hkQuote" THEN Groups(ComplexEvent) ELSE {<<>>}]

-----------------------------------------------------------------------------
(* What the gateway sends for a message: numbers in network order, each     *)
(* group of entries behind its number.  An entry that reveals orders        *)
(* (NoOrders) has their quantities behind it.                               *)

Encode(layout, fields) ==
  FlattenSeq([i \in DOMAIN layout |->
                IF layout[i].number THEN Reverse(fields[layout[i].name])
                                    ELSE fields[layout[i].name]])
Revealed(fields) == IF "NoOrders" \in DOMAIN fields THEN Value(fields.NoOrders) ELSE 0
Group(layout, entries) ==
  Reverse(Memory(Len(entries)))
    \o FlattenSeq([i \in DOMAIN entries |->
                     Encode(layout, entries[i]) \o Zeros(Int64 * Revealed(entries[i]))])

Body(type, m) ==
  Encode(HeadOf(type), m.head)
    \o (IF type = "hkStatus" THEN <<>> ELSE Group(EntryOf(type), m.entries))
    \o (IF type = "hkQuote" THEN Group(ComplexEvent, m.times) ELSE <<>>)

-----------------------------------------------------------------------------
(* What the client makes of it. *)

(* The bytes at a place of queueData, which RecvMsg zeroes before it copies *)
(* a message there: behind a short body there are zeros.                    *)
Read(body, from, bytes) ==
  [i \in 1 .. bytes |-> IF from + i \in DOMAIN body THEN body[from + i] ELSE 0]
(* htnu32() of a number there *)
Count(body, from) == Value(Reverse(Read(body, from, Int32)))

(* A structure at a place of the body, with the named fields turned round   *)
(* by htnu16, htnu32 or htn64.                                              *)
Struct(layout, body, from, numbers) ==
  [name \in Names(layout) |->
     LET at == Place(layout, name)
         field == Read(body, from + Bound(layout, at - 1), layout[at].bytes)
     IN  IF name \in numbers THEN Reverse(field) ELSE field]
Structs(layout, body, from, count, numbers) ==
  [i \in 1 .. count |-> Struct(layout, body, from + (i - 1) * Size(layout), numbers)]

Refused(result) == [result |-> result]
Message(head, entries, times) ==
  [result |-> 0, md |-> [head |-> head, entries |-> entries, times |-> times]]

MDNumbers ==
  {"OrigTime", "ChannelNo", "PrevClosePx", "NumTrades", "TotalVolumeTrade", "TotalValueTrade"}
(* Definitions named ...Slip are mistakes a maintainer could make in the one *)
(* that follows; no specification uses them, the properties notice each.     *)
HkMDEntryNumbersSlip == {"MDEntryPx", "MDEntrySize"}
HkMDEntryNumbers == {"MDEntryPx", "MDEntrySize", "MDPriceLevel"}
MDEntryNumbers == HkMDEntryNumbers \cup {"NumberOfOrders", "NoOrders"}
ComplexEventNumbers == {"ComplexEventStartTime", "ComplexEventEndTime"}
MarketStatusNumbers ==
  {"OrigTime", "ChannelNo", "TradSesStatus", "TradSesStartTime", "TradSesEndTime",
   "ThresholdAmount", "PosAmt"}

(* deserializeBody() of a head and one group of entries. *)
Grouped(body, head, headNumbers, entry, entryNumbers) ==
  LET group == Size(head)
      n == Count(body, group)
  IN  CASE n > MaxEntries -> Refused(-1)
        [] n <= MaxEntries /\ Len(body) # group + Int32 + n * Size(entry) -> Refused(-2)
        [] OTHER -> Message(Struct(head, body, 0, headNumbers),
                            Structs(entry, body, group + Int32, n, entryNumbers), <<>>)

deserializeQuote(body) == Grouped(body, MDHead, MDNumbers, MDEntry, MDEntryNumbers)
deserializeChannelStat(body) ==
  Grouped(body, StatHead, {"OrigTime", "ChannelNo"}, ChannelStatEntry, {"StockNum"})

(* sizeof(RawSzHkMDData) *)
HkRoom ==
  Size(MDHead) + Int32 + MaxEntries * Size(HkMDEntry) + Int32 + Size(ComplexEvent)

(* No result of the code: it copies past the end of the structure, and      *)
(* nothing can be said of what comes then.                                  *)
Overrun == [result |-> 1]

(* The number of cooling-off periods is read from behind the entries before *)
(* the length is compared, and nothing but the length bounds it.  The       *)
(* structure has room for that number and the times of one period, which    *)
(* are the first's: here they stand for the times of all.                   *)
deserializeHkQuote(body) ==
  LET group == Size(MDHead)
      n == Count(body, group)
      hkVcm == group + Int32 + n * Size(HkMDEntry)
      periods == Count(body, hkVcm)
  IN  CASE n > MaxEntries -> Refused(-1)
        [] n <= MaxEntries /\ Len(body) # hkVcm + Int32 + periods * Size(ComplexEvent) ->
             Refused(-2)
        [] n <= MaxEntries /\ Len(body) = hkVcm + Int32 + periods * Size(ComplexEvent)
             /\ Len(body) > HkRoom -> Overrun
        [] OTHER -> Message(Struct(MDHead, body, 0, MDNumbers),
                            Structs(HkMDEntry, body, group + Int32, n, HkMDEntryNumbers),
                            [i \in 1 .. periods |->
                               Struct(ComplexEvent, body, hkVcm + Int32, ComplexEventNumbers)])

deserializeHkStatus(body) ==
  IF Len(body) # Size(MarketStatus) THEN Refused(-1)
  ELSE Message(Struct(MarketStatus, body, 0, MarketStatusNumbers), <<>>, <<>>)

deserializeBody(type, body) ==
  CASE type = "quote" -> deserializeQuote(body)
    [] type = "hkQuote" -> deserializeHkQuote(body)
    [] type = "hkStatus" -> deserializeHkStatus(body)
    [] type = "channelStat" -> deserializeChannelStat(body)

-----------------------------------------------------------------------------
(* What the client is made for: no more entries and periods than it has room *)
(* for, and no revealed orders, which the second level of the market data    *)
(* has only.  The fields of a message that its structure keeps.              *)
Supported(type, m) ==
  /\ Len(m.entries) <= MaxEntries
  /\ \A i \in DOMAIN m.entries : Revealed(m.entries[i]) = 0
  /\ type = "hkQuote" => Len(Body(type, m)) <= HkRoom
Kept(m) == [m EXCEPT !.times = [i \in DOMAIN @ |-> @[1]]]
=============================================================================

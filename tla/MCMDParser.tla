----------------------------- MODULE MCMDParser -----------------------------
(* MDParser with two stocks of the same code, one per market, codes that    *)
(* are too large, prices of which one does not fit an int, an entry too     *)
(* many, revealed orders and one cooling-off period, two that fit and two   *)
(* that do not, for TLC.  Bytes have two bits; the digits are 1 and 2, and  *)
(* 3 is any other character.                                                *)
EXTENDS MDParser

Fill(layout, byte) ==
  [n \in Names(layout) |-> [i \in 1 .. layout[Place(layout, n)].bytes |-> (byte + i) % 4]]
Entry(layout, type, level, px) ==
  [n \in Names(layout) |->
     CASE n = "MDEntryType" -> <<type, 3>>
       [] n = "MDPriceLevel" -> Stored(level, Int16)
       [] n = "MDEntryPx" -> Stored(px, Int64)
       [] n = "NoOrders" -> Memory(0)
       [] OTHER -> Fill(layout, 1)[n]]
Quote(type, code, entries, times) ==
  [type |-> type,
   md |-> [head |-> [Fill(MDHead, 2) EXCEPT !.SecurityID = code],
           entries |-> [i \in DOMAIN entries |->
                          Entry(EntryOf(type), entries[i][1], entries[i][2], entries[i][3])],
           times |-> times]]
Other(type, entries) ==
  [type |-> type, md |-> [head |-> Fill(HeadOf(type), 3), entries |-> entries, times |-> <<>>]]

MCMessages == {
  Quote("quote", <<2, 3>>, <<<<1, 1, 1>>, <<2, 2, 3>>>>, <<>>),
  Quote("quote", <<2, 3>>, <<<<1, 0, 130>>, <<3, 0, 1>>>>, <<>>),
  Quote("quote", <<2, 1>>, <<<<1, 1, 1>>>>, <<>>),
  Quote("quote", <<2, 3>>, <<<<1, 1, 1>>, <<1, 1, 1>>, <<1, 1, 1>>>>, <<>>),
  [Quote("quote", <<2, 3>>, <<<<1, 1, 1>>>>, <<>>) EXCEPT !.md.entries[1].NoOrders = Memory(1)],
  Quote("hkQuote", <<1, 2>>, <<<<2, 1, 2>>, <<2, 1, -3>>>>, <<Fill(ComplexEvent, 1)>>),
  Quote("hkQuote", <<1, 3>>, <<<<1, 1, 2>>>>, <<>>),
  Quote("hkQuote", <<1, 3>>, <<<<1, 1, 2>>>>, <<Fill(ComplexEvent, 1), Fill(ComplexEvent, 2)>>),
  Quote("hkQuote", <<1, 3>>, <<<<1, 1, 2>>, <<1, 1, 1>>>>,
        <<Fill(ComplexEvent, 1), Fill(ComplexEvent, 2)>>),
  Other("hkStatus", <<>>),
  Other("channelStat", <<Fill(ChannelStatEntry, 2)>>)}
=============================================================================

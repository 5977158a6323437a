------------------------------- MODULE Bytes --------------------------------
(***************************************************************************)
(* Numbers and characters in memory: the byte order functions and          *)
(* fixedCharToInt (myPub/utility.h and .cpp).  Memory is little-endian,    *)
(* messages are in network order, that is, the other way round.            *)
(***************************************************************************)
EXTENDS Integers, Sequences, SequencesExt

CONSTANTS
  ByteBase,   \* 256
  WordBytes,  \* 4: bytes of an int or a uint32_t
  ZeroChar,   \* 48: '0', which the other digits follow
  Radix       \* 10

Byte == 0 .. ByteBase - 1
Char == Byte \ {0}

ASSUME BytesAssumption == ByteBase \in Nat \ {0, 1} /\ WordBytes \in Nat \ {0}
ASSUME SignAssumption == ByteBase % 2 = 0  \* half of the bytes have the sign's bit
ASSUME DigitsAssumption ==
  Radix \in Nat \ {0, 1} /\ ZeroChar \in Char /\ ZeroChar + Radix - 1 \in Char

(* ByteBase^n. *)
Weight(n) ==
  LET power[i \in 0 .. n] == IF i = 0 THEN 1 ELSE power[i - 1] * ByteBase
  IN  power[n]

(* A number of so many bytes in memory, and the number that bytes are. *)
Stored(n, bytes) ==
  LET rest[i \in 0 .. bytes] == IF i = 0 THEN n ELSE rest[i - 1] \div ByteBase
  IN  [i \in 1 .. bytes |-> rest[i - 1] % ByteBase]
Value(bytes) ==
  LET high[i \in 0 .. Len(bytes)] ==
        IF i = 0 THEN 0 ELSE high[i - 1] * ByteBase + bytes[Len(bytes) - i + 1]
  IN  high[Len(bytes)]
SignedValue(bytes) ==
  IF bytes # <<>> /\ Last(bytes) >= ByteBase \div 2 THEN Value(bytes) - Weight(Len(bytes))
                                                    ELSE Value(bytes)

Memory(n) == Stored(n, WordBytes)
htnu32(n) == Value(Reverse(Memory(n)))

Zeros(n) == [i \in 1 .. n |-> 0]
(* new in place of what bytes has behind the first from. *)
Overwrite(bytes, from, new) ==
  [i \in DOMAIN bytes |-> IF i - from \in DOMAIN new THEN new[i - from] ELSE bytes[i]]

IsDigit(c) == c \in ZeroChar .. ZeroChar + Radix - 1

Number(digits) ==
  LET upTo[i \in 0 .. Len(digits)] ==
        IF i = 0 THEN 0 ELSE upTo[i - 1] * Radix + digits[i] - ZeroChar
  IN  upTo[Len(digits)]

(* The first character that is no digit ends the number. *)
Leading(str) ==
  LET end == SelectInSeq(str, LAMBDA c : ~IsDigit(c))
  IN  IF end = 0 THEN str ELSE SubSeq(str, 1, end - 1)
fixedCharToInt(str) == Number(Leading(str))
=============================================================================

----------------------------- MODULE WireProofs -----------------------------
(* Proofs about Wire, for any number of bytes in a word and of values of a  *)
(* byte, any messages, and any way in which recv() cuts up the stream.      *)
EXTENDS Wire, BytesProofs

-----------------------------------------------------------------------------
(* Division with remainder. *)

(* Two numbers have the same remainder if their difference is a multiple... *)
LEMMA SameRest ==
  ASSUME NEW m \in Nat \ {0}, NEW a \in Int, NEW b \in Int, NEW q \in Int, a = b + m * q
  PROVE  a % m = b % m
<1>1. b = m * (b \div m) + (b % m) /\ b \div m \in Int /\ b % m \in 0 .. m - 1
  BY DivMod
<1> DEFINE p == (b \div m) + q
<1>2. p \in Int /\ a = m * p + (b % m)
  BY <1>1, Z3
<1>3. QED
  <2> HIDE DEF p
  <2>1. QED
    BY <1>1, <1>2, DivModUnique

(* ... and only then. *)
LEMMA RestDiffers ==
  ASSUME NEW m \in Nat \ {0}, NEW a \in Int, NEW b \in Int, a # b, a - b < m, b - a < m
  PROVE  a % m # b % m
<1>1. SUFFICES ASSUME a % m = b % m PROVE FALSE
  OBVIOUS
<1>2. /\ a = m * (a \div m) + (a % m) /\ a \div m \in Int
      /\ b = m * (b \div m) + (b % m) /\ b \div m \in Int /\ b % m \in Int
  BY DivMod
<1>3. m * ((a \div m) - (b \div m)) = a - b
  BY <1>1, <1>2, Z3
<1>4. (a \div m) - (b \div m) = 0
  BY <1>2, <1>3, SmallMultiple
<1>5. QED
  BY <1>1, <1>2, <1>4

-----------------------------------------------------------------------------
(* What the functions that are defined by recursion are. *)

(* A total is summed from the front, ... *)
LEMMA TotalIs ==
  ASSUME NEW s \in Seq(Int)
  PROVE  \E f \in [0 .. Len(s) -> Int] :
           /\ f[0] = 0 /\ Total(s) = f[Len(s)]
           /\ \A i \in 1 .. Len(s) : f[i] = f[i - 1] + s[i]
<1> DEFINE Solves(f) == f = [i \in 0 .. Len(s) |-> IF i = 0 THEN 0 ELSE f[i - 1] + s[i]]
           F == CHOOSE f : Solves(f)
           g == [i \in 1 .. Len(s) |-> [x \in Int |-> x + s[i]]]
<1>1. g \in [1 .. Len(s) -> [Int -> Int]]
  OBVIOUS
<1>2. \A i \in 1 .. Len(s) : \A x \in Int : g[i][x] = x + s[i]
  OBVIOUS
<1>3. Len(s) \in Nat /\ 0 \in Int
  OBVIOUS
<1> HIDE DEF g
<1>4. PICK f : Recursive(f, Len(s), Int, 0, g)
  BY <1>1, <1>3, Recursion
<1>5. Solves(f)
  <2>1. /\ f \in [0 .. Len(s) -> Int] /\ f[0] = 0
        /\ \A i \in 1 .. Len(s) : f[i - 1] \in Int /\ f[i] = g[i][f[i - 1]]
    BY <1>3, <1>4, RecursiveStep
  <2>2. \A i \in 1 .. Len(s) : f[i] = f[i - 1] + s[i]
    BY <1>2, <2>1
  <2>3. QED
    BY <2>1, <2>2
<1>6. Solves(F)
  <2> HIDE DEF Solves
  <2>1. QED
    BY <1>5
<1>7. Total(s) = F[Len(s)]
  BY DEF Total
<1> HIDE DEF F
<1>8. F = [i \in 0 .. Len(s) |-> F[i]] /\ F[0] = 0
  BY <1>3, <1>6
<1>9. ASSUME NEW i \in 1 .. Len(s) PROVE F[i] = F[i - 1] + s[i]
  <2>1. i \in 0 .. Len(s) /\ i # 0
    BY <1>3
  <2>2. QED
    BY <1>6, <2>1
<1>10. \A i \in 1 .. Len(s) : F[i - 1] \in Int => F[i] = g[i][F[i - 1]]
  BY <1>2, <1>9
<1>11. F \in [0 .. Len(s) -> Int]
  <2>1. Recursive(F, Len(s), Int, 0, g)
    BY <1>1, <1>3, <1>8, <1>10, Stays
  <2>2. QED
    BY <1>3, <2>1, RecursiveStep
<1>12. QED
  BY <1>7, <1>8, <1>9, <1>11

(* The values of a uint32_t are as many as those of its lowest byte, times *)
(* another number.                                                         *)
LEMMA WordWeight ==
  /\ Weight(WordBytes) \in Nat \ {0}
  /\ \E c \in Nat \ {0} : Weight(WordBytes) = ByteBase * c
<1>1. PICK f \in [0 .. WordBytes -> Nat] :
        /\ f[0] = 1 /\ Weight(WordBytes) = f[WordBytes]
        /\ \A i \in 1 .. WordBytes : f[i] = f[i - 1] * ByteBase
  BY Constants, WeightIs
<1> DEFINE T == {i \in 0 .. WordBytes : f[i] # 0}
<1>2. 0 .. WordBytes \subseteq T
  <2>1. 0 \in T
    BY <1>1, Constants
  <2>2. ASSUME NEW i \in 1 .. WordBytes, i - 1 \in T PROVE i \in T
    <3>1. f[i] = f[i - 1] * ByteBase /\ f[i - 1] \in Nat \ {0}
      BY <1>1, <2>2, Constants
    <3>2. f[i] # 0
      BY <3>1, Constants, Z3
    <3>3. QED
      BY <3>2
  <2> HIDE DEF T
  <2>3. QED
    BY <2>1, <2>2, Along, Constants
<1>3. WordBytes - 1 \in 0 .. WordBytes /\ WordBytes \in 1 .. WordBytes
  BY Constants
<1>4. f[WordBytes - 1] \in Nat \ {0} /\ Weight(WordBytes) = ByteBase * f[WordBytes - 1]
  BY <1>1, <1>2, <1>3, Constants
<1>5. Weight(WordBytes) \in Nat \ {0}
  BY <1>1, <1>2, <1>3, Constants
<1>6. QED
  BY <1>4, <1>5

(* What is left of a sum in a uint32_t is a number. *)
LEMMA RestOfWord ==
  ASSUME NEW y \in Nat
  PROVE  y % Weight(WordBytes) \in Nat
<1>1. PICK w \in Nat \ {0} : w = Weight(WordBytes)
  BY WordWeight
<1>2. y % w \in 0 .. w - 1
  BY DivMod
<1>3. QED
  BY <1>1, <1>2

(* Sign extension adds a multiple of ByteBase. *)
LEMMA ExtendedIs ==
  ASSUME NEW b \in Byte
  PROVE  Extended(b) \in Nat /\ \E q \in Int : Extended(b) = b + ByteBase * q
<1>1. PICK c \in Nat \ {0} : Weight(WordBytes) = ByteBase * c
  BY WordWeight
<1>2. CASE b < ByteBase \div 2
  <2>1. Extended(b) = b /\ b \in Nat /\ ByteBase * 0 = 0
    BY <1>2, Constants DEF Extended, Byte
  <2>2. Extended(b) = b + ByteBase * 0
    BY <2>1
  <2>3. QED
    BY <2>1, <2>2
<1>3. CASE ~ (b < ByteBase \div 2)
  <2>1. Extended(b) = ByteBase * c - ByteBase + b /\ b \in Nat
    BY <1>1, <1>3, Constants DEF Extended, Byte
  <2>2. ByteBase * c - ByteBase = ByteBase * (c - 1) /\ ByteBase * (c - 1) \in Nat
    BY Constants, Z3
  <2>3. Extended(b) = b + ByteBase * (c - 1) /\ Extended(b) \in Nat
    BY <2>1, <2>2, Constants
  <2>4. QED
    BY <2>3
<1>4. QED
  BY <1>2, <1>3

(* The sum of signed bytes that the client forms in a uint32_t. *)
LEMMA SumIs ==
  ASSUME NEW s \in Seq(Byte)
  PROVE  \E f \in [0 .. Len(s) -> Nat] :
           /\ f[0] = 0 /\ Sum(s) = f[Len(s)]
           /\ \A i \in 1 .. Len(s) : f[i] = (f[i - 1] + Extended(s[i])) % Weight(WordBytes)
<1> DEFINE Solves(f) ==
             f = [i \in 0 .. Len(s) |->
                    IF i = 0 THEN 0 ELSE (f[i - 1] + Extended(s[i])) % Weight(WordBytes)]
           F == CHOOSE f : Solves(f)
           g == [i \in 1 .. Len(s) |->
                   [x \in Nat |-> (x + Extended(s[i])) % Weight(WordBytes)]]
<1>1. g \in [1 .. Len(s) -> [Nat -> Nat]]
  <2>1. \A i \in 1 .. Len(s) : Extended(s[i]) \in Nat
    BY ExtendedIs
  <2>2. ASSUME NEW i \in 1 .. Len(s), NEW x \in Nat
        PROVE  (x + Extended(s[i])) % Weight(WordBytes) \in Nat
    <3>1. x + Extended(s[i]) \in Nat
      BY <2>1
    <3>2. QED
      BY <3>1, RestOfWord
  <2>4. \A i \in 1 .. Len(s) : \A x \in Nat :
          (x + Extended(s[i])) % Weight(WordBytes) \in Nat
    BY <2>2
  <2>5. QED
    BY <2>4
<1>2. \A i \in 1 .. Len(s) : \A x \in Nat :
        g[i][x] = (x + Extended(s[i])) % Weight(WordBytes)
  OBVIOUS
<1>3. Len(s) \in Nat /\ 0 \in Nat
  OBVIOUS
<1> HIDE DEF g
<1>4. PICK f : Recursive(f, Len(s), Nat, 0, g)
  BY <1>1, <1>3, Recursion
<1>5. Solves(f)
  <2>1. /\ f \in [0 .. Len(s) -> Nat] /\ f[0] = 0
        /\ \A i \in 1 .. Len(s) : f[i - 1] \in Nat /\ f[i] = g[i][f[i - 1]]
    BY <1>3, <1>4, RecursiveStep
  <2>2. \A i \in 1 .. Len(s) : f[i] = (f[i - 1] + Extended(s[i])) % Weight(WordBytes)
    BY <1>2, <2>1
  <2>3. QED
    BY <2>1, <2>2
<1>6. Solves(F)
  <2> HIDE DEF Solves
  <2>1. QED
    BY <1>5
<1>7. Sum(s) = F[Len(s)]
  BY DEF Sum
<1> HIDE DEF F
<1>8. F = [i \in 0 .. Len(s) |-> F[i]] /\ F[0] = 0
  BY <1>3, <1>6
<1>9. ASSUME NEW i \in 1 .. Len(s)
      PROVE  F[i] = (F[i - 1] + Extended(s[i])) % Weight(WordBytes)
  <2>1. i \in 0 .. Len(s) /\ i # 0
    BY <1>3
  <2>2. QED
    BY <1>6, <2>1
<1>10. \A i \in 1 .. Len(s) : F[i - 1] \in Nat => F[i] = g[i][F[i - 1]]
  BY <1>2, <1>9
<1>11. F \in [0 .. Len(s) -> Nat]
  <2>1. Recursive(F, Len(s), Nat, 0, g)
    BY <1>1, <1>3, <1>8, <1>10, Stays
  <2>2. QED
    BY <1>3, <2>1, RecursiveStep
<1>12. QED
  BY <1>7, <1>8, <1>9, <1>11

-----------------------------------------------------------------------------
(* Totals of numbers. *)

(* A total of integers is an integer. *)
LEMMA TotalInt ==
  ASSUME NEW s \in Seq(Int)
  PROVE  Total(s) \in Int /\ (s = <<>> => Total(s) = 0)
<1>1. PICK f \in [0 .. Len(s) -> Int] : f[0] = 0 /\ Total(s) = f[Len(s)]
  BY TotalIs
<1>2. QED
  BY <1>1

(* A total is summed from the back as well. *)
LEMMA TotalAppend ==
  ASSUME NEW s \in Seq(Int), NEW x \in Int
  PROVE  Total(Append(s, x)) = Total(s) + x
<1> DEFINE n == Len(s)
           u == Append(s, x)
<1>1. n \in Nat /\ u \in Seq(Int) /\ Len(u) = n + 1 /\ u[n + 1] = x
      /\ \A i \in 1 .. n : u[i] = s[i]
  OBVIOUS
<1>2. PICK f \in [0 .. n -> Int] : /\ f[0] = 0 /\ Total(s) = f[n]
                                   /\ \A i \in 1 .. n : f[i] = f[i - 1] + s[i]
  BY TotalIs
<1> HIDE DEF n, u
<1>3. PICK h \in [0 .. Len(u) -> Int] : /\ h[0] = 0 /\ Total(u) = h[Len(u)]
                                         /\ \A i \in 1 .. Len(u) : h[i] = h[i - 1] + u[i]
  BY <1>1, TotalIs
<1> DEFINE T == {i \in 0 .. n : h[i] = f[i]}
<1>4. 0 \in T
  BY <1>1, <1>2, <1>3
<1>5. ASSUME NEW i \in 1 .. n, i - 1 \in T PROVE i \in T
  BY <1>1, <1>2, <1>3, <1>5
<1>6. 0 .. n \subseteq T
  <2> HIDE DEF T
  <2>1. QED
    BY <1>1, <1>4, <1>5, Along
<1>7. h[n] = f[n]
  BY <1>1, <1>6
<1>8. h[n + 1] = h[n] + x
  BY <1>1, <1>3
<1>9. QED
  BY <1>1, <1>2, <1>3, <1>7, <1>8 DEF u

(* A sequence that is not empty ends with its last element. *)
LEMMA LastOne ==
  ASSUME NEW S, NEW s \in Seq(S), s # <<>>
  PROVE  /\ Front(s) \in Seq(S) /\ Len(Front(s)) = Len(s) - 1 /\ Last(s) \in S
         /\ s = Append(Front(s), Last(s))
<1> DEFINE k == Len(s) - 1
           c == [i \in 1 .. k |-> s[i]]
<1>1. k \in Nat /\ Len(s) = k + 1
  OBVIOUS
<1>2. s[k + 1] \in S /\ \A i \in 1 .. k : s[i] \in S
  OBVIOUS
<1>3. Front(s) = c /\ Last(s) = s[k + 1]
  BY <1>1 DEF Front, Last
<1>4. c \in Seq(S) /\ Len(c) = k
  BY <1>1, <1>2
<1>5. s = Append(c, s[k + 1])
  <2>1. Append(c, s[k + 1]) \in Seq(S) /\ Len(Append(c, s[k + 1])) = k + 1
    BY <1>2, <1>4
  <2>2. \A i \in 1 .. k + 1 : Append(c, s[k + 1])[i] = s[i]
    BY <1>2, <1>4
  <2>3. QED
    BY <1>1, <2>1, <2>2, SeqEqual
<1>6. QED
  BY <1>2, <1>3, <1>4, <1>5

(* The total of two sequences is that of both. *)
LEMMA TotalConcat ==
  ASSUME NEW a \in Seq(Int), NEW b \in Seq(Int)
  PROVE  Total(a \o b) = Total(a) + Total(b)
<1> DEFINE T == {k \in Nat : \A c \in Seq(Int) :
                   Len(c) = k => Total(a \o c) = Total(a) + Total(c)}
<1>1. 0 \in T
  <2>1. ASSUME NEW c \in Seq(Int), Len(c) = 0 PROVE Total(a \o c) = Total(a) + Total(c)
    <3>1. c = <<>> /\ a \o c = a
      BY <2>1
    <3>2. Total(c) = 0 /\ Total(a) \in Int
      BY <3>1, TotalInt
    <3>3. QED
      BY <3>1, <3>2
  <2>2. QED
    BY <2>1
<1>2. ASSUME NEW k \in Nat, k \in T PROVE k + 1 \in T
  <2>1. SUFFICES ASSUME NEW d \in Seq(Int), Len(d) = k + 1
                 PROVE  Total(a \o d) = Total(a) + Total(d)
    OBVIOUS
  <2> DEFINE c == Front(d)
             x == Last(d)
  <2>4. c \in Seq(Int) /\ x \in Int /\ Len(c) = k /\ d = Append(c, x)
    <3>1. d # <<>>
      BY <2>1
    <3>2. /\ Front(d) \in Seq(Int) /\ Len(Front(d)) = Len(d) - 1 /\ Last(d) \in Int
          /\ d = Append(Front(d), Last(d))
      BY <3>1, LastOne
    <3>3. QED
      BY <2>1, <3>2
  <2> HIDE DEF c, x
  <2>5. a \o d = Append(a \o c, x) /\ a \o c \in Seq(Int)
    BY <2>4
  <2>6. Total(a \o c) = Total(a) + Total(c)
    BY <1>2, <2>4
  <2>7. Total(a \o d) = Total(a \o c) + x /\ Total(d) = Total(c) + x
    BY <2>4, <2>5, TotalAppend
  <2>8. Total(a) \in Int /\ Total(c) \in Int
    BY <2>4, TotalInt
  <2>9. QED
    BY <2>4, <2>6, <2>7, <2>8
<1>3. Nat \subseteq T
  <2> HIDE DEF T
  <2>1. QED
    BY <1>1, <1>2, SetInduction
<1>4. QED
  BY <1>3

(* A sum does not depend on the order of what is summed. *)
LEMMA TotalReverse ==
  ASSUME NEW s \in Seq(Int)
  PROVE  Total(Reverse(s)) = Total(s)
<1> DEFINE T == {k \in Nat : \A c \in Seq(Int) : Len(c) = k => Total(Reverse(c)) = Total(c)}
<1>1. 0 \in T
  <2>1. \A c \in Seq(Int) : Len(c) = 0 => c = <<>> /\ Reverse(c) = <<>>
    <3>1. \A c \in Seq(Int) : Len(c) = 0 => Reverse(c) \in Seq(Int) /\ Len(Reverse(c)) = 0
      BY ReverseIs
    <3>2. \A r \in Seq(Int) : Len(r) = 0 => r = <<>>
      OBVIOUS
    <3>3. QED
      BY <3>1, <3>2
  <2>2. QED
    BY <2>1
<1>2. ASSUME NEW k \in Nat, k \in T PROVE k + 1 \in T
  <2>1. SUFFICES ASSUME NEW d \in Seq(Int), Len(d) = k + 1
                 PROVE  Total(Reverse(d)) = Total(d)
    OBVIOUS
  <2> DEFINE c == Front(d)
             x == Last(d)
  <2>4. c \in Seq(Int) /\ x \in Int /\ Len(c) = k /\ d = Append(c, x)
    <3>1. d # <<>>
      BY <2>1
    <3>2. /\ Front(d) \in Seq(Int) /\ Len(Front(d)) = Len(d) - 1 /\ Last(d) \in Int
          /\ d = Append(Front(d), Last(d))
      BY <3>1, LastOne
    <3>3. QED
      BY <2>1, <3>2
  <2> HIDE DEF c, x
  <2> DEFINE r == Reverse(c)
  <2>5. r \in Seq(Int) /\ Len(r) = k /\ \A i \in 1 .. k : r[i] = c[k - i + 1]
    BY <2>4, ReverseIs
  <2> HIDE DEF r
  <2>6. Reverse(d) = <<x>> \o r
    <3>1. /\ Reverse(d) \in Seq(Int) /\ Len(Reverse(d)) = k + 1
          /\ \A i \in 1 .. k + 1 : Reverse(d)[i] = d[k + 1 - i + 1]
      <4>1. /\ Reverse(d) \in Seq(Int) /\ Len(Reverse(d)) = Len(d)
            /\ \A i \in 1 .. Len(d) : Reverse(d)[i] = d[Len(d) - i + 1]
        BY ReverseIs
      <4>2. Len(Reverse(d)) = k + 1
        BY <2>1, <4>1
      <4>3. ASSUME NEW i \in 1 .. k + 1 PROVE Reverse(d)[i] = d[k + 1 - i + 1]
        <5>1. i \in 1 .. Len(d)
          BY <2>1
        <5>2. Reverse(d)[i] = d[Len(d) - i + 1]
          BY <4>1, <5>1
        <5>3. Len(d) - i + 1 = k + 1 - i + 1
          BY <2>1
        <5>4. QED
          BY <5>2, <5>3, Zenon
      <4>4. QED
        BY <4>1, <4>2, <4>3
    <3>2. /\ <<x>> \o r \in Seq(Int) /\ Len(<<x>> \o r) = k + 1 /\ (<<x>> \o r)[1] = x
          /\ \A i \in 2 .. k + 1 : (<<x>> \o r)[i] = r[i - 1]
      BY <2>4, <2>5
    <3>3. ASSUME NEW i \in 1 .. k + 1 PROVE Reverse(d)[i] = (<<x>> \o r)[i]
      <4>1. CASE i = 1
        BY <2>4, <3>1, <3>2, <4>1
      <4>2. CASE i # 1
        <5>1. i \in 2 .. k + 1 /\ i - 1 \in 1 .. k /\ k - (i - 1) + 1 = k + 1 - i + 1
              /\ k + 1 - i + 1 \in 1 .. k
          BY <4>2
        <5>2. (<<x>> \o r)[i] = c[k + 1 - i + 1]
          BY <2>5, <3>2, <5>1
        <5>3. d[k + 1 - i + 1] = c[k + 1 - i + 1]
          BY <2>4, <5>1
        <5>4. QED
          BY <3>1, <5>2, <5>3
      <4>3. QED
        BY <4>1, <4>2
    <3>4. QED
      BY <3>1, <3>2, <3>3, SeqEqual
  <2>7. Total(<<x>>) = x
    <3>1. <<>> \in Seq(Int) /\ <<x>> = Append(<<>>, x)
      BY <2>4
    <3>2. Total(Append(<<>>, x)) = Total(<<>>) + x
      BY <2>4, <3>1, TotalAppend
    <3>3. Total(<<>>) = 0
      BY <3>1, TotalInt
    <3>4. QED
      BY <2>4, <3>1, <3>2, <3>3
  <2>8. Total(Reverse(d)) = x + Total(r)
    <3>1. <<x>> \in Seq(Int)
      BY <2>4
    <3>2. QED
      BY <2>5, <2>6, <2>7, <3>1, TotalConcat
  <2>9. Total(d) = Total(c) + x
    BY <2>4, TotalAppend
  <2>10. Total(r) = Total(c) /\ Total(c) \in Int
    BY <1>2, <2>4, TotalInt DEF r
  <2>11. QED
    BY <2>4, <2>8, <2>9, <2>10
<1>3. Nat \subseteq T
  <2> HIDE DEF T
  <2>1. QED
    BY <1>1, <1>2, SetInduction
<1>4. QED
  BY <1>3

(* A number that is replaced changes the total by the difference. *)
LEMMA TotalChanged ==
  ASSUME NEW s \in Seq(Int), NEW k \in 1 .. Len(s), NEW b \in Int
  PROVE  Total([s EXCEPT ![k] = b]) = Total(s) - s[k] + b
<1> DEFINE n == Len(s)
           u == [s EXCEPT ![k] = b]
<1>1. /\ n \in Nat /\ u \in Seq(Int) /\ Len(u) = n /\ u[k] = b /\ s[k] \in Int
      /\ \A i \in 1 .. n : i # k => u[i] = s[i]
  OBVIOUS
<1>2. PICK f \in [0 .. n -> Int] : /\ f[0] = 0 /\ Total(s) = f[n]
                                   /\ \A i \in 1 .. n : f[i] = f[i - 1] + s[i]
  BY TotalIs
<1> HIDE DEF n, u
<1>3. PICK h \in [0 .. n -> Int] : /\ h[0] = 0 /\ Total(u) = h[n]
                                   /\ \A i \in 1 .. n : h[i] = h[i - 1] + u[i]
  BY <1>1, TotalIs
<1> DEFINE T == {i \in 0 .. n : h[i] = IF i < k THEN f[i] ELSE f[i] - s[k] + b}
<1>4. k \in 1 .. n
  BY DEF n
<1>5. 0 \in T
  BY <1>1, <1>2, <1>3, <1>4
<1>6. ASSUME NEW i \in 1 .. n, i - 1 \in T PROVE i \in T
  <2>1. i - 1 \in 0 .. n /\ i \in 0 .. n /\ k \in Int /\ i \in Int
    BY <1>1, <1>4
  <2>2. h[i] = h[i - 1] + u[i] /\ f[i] = f[i - 1] + s[i]
    BY <1>2, <1>3
  <2>3. f[i - 1] \in Int /\ s[i] \in Int /\ s[k] \in Int
    <3>1. f[i - 1] \in Int
      BY <1>2, <2>1
    <3>2. s[i] \in Int /\ s[k] \in Int
      BY DEF n
    <3>3. QED
      BY <3>1, <3>2
  <2>4. CASE i < k
    <3>1. h[i - 1] = f[i - 1] /\ u[i] = s[i]
      BY <1>1, <1>6, <2>1, <2>4
    <3>2. h[i] = f[i]
      BY <2>2, <3>1
    <3>3. QED
      BY <2>1, <2>4, <3>2
  <2>5. CASE i = k
    <3>1. h[i - 1] = f[i - 1] /\ u[i] = b
      BY <1>1, <1>6, <2>1, <2>5
    <3>2. h[i] = f[i] - s[k] + b
      BY <2>2, <2>3, <2>5, <3>1
    <3>3. QED
      BY <2>1, <2>5, <3>2
  <2>6. CASE i > k
    <3>1. h[i - 1] = f[i - 1] - s[k] + b /\ u[i] = s[i]
      BY <1>1, <1>6, <2>1, <2>6
    <3>2. h[i] = f[i] - s[k] + b
      BY <2>2, <2>3, <3>1
    <3>3. QED
      BY <2>1, <2>6, <3>2
  <2>7. QED
    BY <2>1, <2>4, <2>5, <2>6
<1>7. 0 .. n \subseteq T
  <2> HIDE DEF T
  <2>1. QED
    BY <1>1, <1>5, <1>6, Along
<1>8. h[n] = f[n] - s[k] + b
  BY <1>1, <1>4, <1>7
<1>9. QED
  BY <1>2, <1>3, <1>8 DEF u

-----------------------------------------------------------------------------
(* The checksum of the client is that of the gateway. *)

(* Sign extension and the overflow of the uint32_t make no difference to the checksum. *)
LEMMA SumIsTotal ==
  ASSUME NEW s \in Seq(Byte)
  PROVE  GenerateCheckSum(s) = Total(s) % ByteBase
<1> DEFINE n == Len(s)
<1>1. n \in Nat /\ s \in Seq(Int) /\ \A i \in 1 .. n : s[i] \in Byte
  BY Constants DEF Byte
<1>2. PICK f \in [0 .. n -> Nat] :
        /\ f[0] = 0 /\ Sum(s) = f[n]
        /\ \A i \in 1 .. n : f[i] = (f[i - 1] + Extended(s[i])) % Weight(WordBytes)
  BY SumIs
<1>3. PICK h \in [0 .. n -> Int] : /\ h[0] = 0 /\ Total(s) = h[n]
                                   /\ \A i \in 1 .. n : h[i] = h[i - 1] + s[i]
  BY <1>1, TotalIs
<1> HIDE DEF n
<1> DEFINE T == {i \in 0 .. n : f[i] % ByteBase = h[i] % ByteBase}
<1>4. 0 \in T
  BY <1>1, <1>2, <1>3
<1>5. ASSUME NEW i \in 1 .. n, i - 1 \in T PROVE i \in T
  <2>1. i - 1 \in 0 .. n /\ i \in 0 .. n
    BY <1>1
  <2> DEFINE b == s[i]
             e == Extended(b)
             before == f[i - 1]
             w == Weight(WordBytes)
             t == h[i - 1]
  <2>2. b \in Byte /\ b \in Int
    BY <1>1, Constants DEF Byte
  <2>3. e \in Nat /\ \E q \in Int : e = b + ByteBase * q
    BY <2>2, ExtendedIs
  <2>4. w \in Nat \ {0} /\ \E c \in Nat \ {0} : w = ByteBase * c
    BY WordWeight
  <2>5. f[i] = (before + e) % w /\ before \in Nat /\ h[i] = t + b /\ t \in Int
    BY <1>2, <1>3, <2>1
  <2>6. before % ByteBase = t % ByteBase
    BY <1>5
  <2> HIDE DEF b, e, before, w, t
  <2>7. PICK q \in Int : e = b + ByteBase * q
    BY <2>3
  <2>8. PICK c \in Nat \ {0} : w = ByteBase * c
    BY <2>4
  <2>9. (before + e) % ByteBase = (t + b) % ByteBase
    <3> DEFINE d1 == before \div ByteBase
               d2 == t \div ByteBase
               r == before % ByteBase
               y1 == before + e
               y2 == t + b
               p == d1 - d2 + q
    <3>1. before \in Int /\ e \in Int /\ t \in Int /\ b \in Int /\ ByteBase \in Nat \ {0}
      BY <2>2, <2>3, <2>5, Constants
    <3>2. before = ByteBase * d1 + r /\ d1 \in Int /\ r \in Int
      BY <3>1, DivMod
    <3>3. t = ByteBase * d2 + r /\ d2 \in Int
      BY <2>6, <3>1, DivMod
    <3> HIDE DEF d1, d2, r
    <3>4. y1 = y2 + ByteBase * p /\ p \in Int /\ y1 \in Int /\ y2 \in Int
      BY <2>7, <3>1, <3>2, <3>3, Z3
    <3> HIDE DEF y1, y2, p
    <3>5. \A j \in Int : y1 = y2 + ByteBase * j => y1 % ByteBase = y2 % ByteBase
      BY <3>1, <3>4, SameRest
    <3>6. y1 % ByteBase = y2 % ByteBase
      BY <3>4, <3>5
    <3>7. QED
      BY <3>6 DEF y1, y2
  <2>10. ((before + e) % w) % ByteBase = (before + e) % ByteBase
    <3> DEFINE y == before + e
               d == y \div w
               z == y % w
    <3>1. y \in Int
      BY <2>3, <2>5
    <3> HIDE DEF y
    <3>2. y = w * d + z /\ d \in Int /\ z \in 0 .. w - 1
      BY <2>4, <3>1, DivMod
    <3> HIDE DEF d, z
    <3>3. z \in Int
      BY <2>4, <3>2
    <3> DEFINE q1 == -(c * d)
    <3>4. q1 \in Int /\ z = y + ByteBase * q1
      BY <2>8, <3>1, <3>2, <3>3, Constants, Z3
    <3> HIDE DEF q1
    <3>5. z % ByteBase = y % ByteBase
      BY <3>1, <3>3, <3>4, Constants, SameRest
    <3>6. QED
      BY <3>5 DEF y, z
  <2>11. f[i] % ByteBase = h[i] % ByteBase
    BY <2>5, <2>9, <2>10
  <2>12. QED
    BY <2>1, <2>11
<1>6. 0 .. n \subseteq T
  <2> HIDE DEF T
  <2>1. QED
    BY <1>1, <1>4, <1>5, Along
<1>7. f[n] % ByteBase = h[n] % ByteBase
  BY <1>1, <1>6
<1>8. QED
  BY <1>2, <1>3, <1>7 DEF GenerateCheckSum

-----------------------------------------------------------------------------
(* The parts of a message, and the message with its head turned round.     *)

TypeWord(g) == SubSeq(g, 1, WordBytes)
LengthWord(g) == SubSeq(g, WordBytes + 1, HeadLength)
Behind(g) == SubSeq(g, HeadLength + 1, Len(g))
Turn(g) == Reverse(TypeWord(g)) \o Reverse(LengthWord(g)) \o Behind(g)

(* Head and tail of a message. *)
LEMMA Lengths ==
  /\ HeadLength \in Nat /\ TailLength \in Nat /\ HeadLength = WordBytes + WordBytes
  /\ TailLength = WordBytes /\ WordBytes <= HeadLength /\ WordBytes >= 1
  /\ 1 + WordBytes - 1 = WordBytes /\ WordBytes + 1 + WordBytes - 1 = HeadLength
  BY Constants DEF HeadLength, TailLength

(* A message is the words of its head, and what is behind them. *)
LEMMA Words ==
  ASSUME NEW g \in Seq(Byte), HeadLength <= Len(g)
  PROVE  /\ TypeWord(g) \in Seq(Byte) /\ Len(TypeWord(g)) = WordBytes
         /\ LengthWord(g) \in Seq(Byte) /\ Len(LengthWord(g)) = WordBytes
         /\ Behind(g) \in Seq(Byte) /\ Len(Behind(g)) = Len(g) - HeadLength
         /\ g = TypeWord(g) \o LengthWord(g) \o Behind(g)
<1> DEFINE t == TypeWord(g)
           l == LengthWord(g)
           b == Behind(g)
<1>1. Len(g) \in Nat /\ WordBytes \in Nat /\ 0 \in Nat /\ 0 + 1 = 1
      /\ WordBytes - 0 = WordBytes
      /\ HeadLength - WordBytes = WordBytes
  BY Lengths
<1>2. t \in Seq(Byte) /\ Len(t) = WordBytes
  <2>1. 0 <= WordBytes /\ WordBytes <= Len(g)
    BY <1>1, Lengths
  <2>2. SubSeq(g, 0 + 1, WordBytes) \in Seq(Byte)
        /\ Len(SubSeq(g, 0 + 1, WordBytes)) = WordBytes - 0
    BY <1>1, <2>1, SubSeqIs
  <2>3. QED
    BY <1>1, <2>2 DEF TypeWord
<1>3. l \in Seq(Byte) /\ Len(l) = WordBytes
  <2>1. Len(SubSeq(g, WordBytes + 1, HeadLength)) = HeadLength - WordBytes
        /\ SubSeq(g, WordBytes + 1, HeadLength) \in Seq(Byte)
    BY <1>1, Lengths, SubSeqIs
  <2>2. QED
    BY <1>1, <2>1 DEF LengthWord
<1>4. b \in Seq(Byte) /\ Len(b) = Len(g) - HeadLength
  BY <1>1, Lengths, SubSeqIs DEF Behind
<1>5. g = SubSeq(g, 1, HeadLength) \o b
  BY Lengths, Cut DEF Behind
<1>6. SubSeq(g, 1, HeadLength) = t \o l
  <2> DEFINE h == SubSeq(g, 1, HeadLength)
  <2>1. h \in Seq(Byte) /\ Len(h) = HeadLength /\ \A i \in 1 .. HeadLength : h[i] = g[i]
    <3>1. 0 <= HeadLength /\ HeadLength - 0 = HeadLength
          /\ \A i \in 1 .. HeadLength : 0 + i = i
      BY Lengths
    <3>2. /\ SubSeq(g, 0 + 1, HeadLength) \in Seq(Byte)
          /\ Len(SubSeq(g, 0 + 1, HeadLength)) = HeadLength - 0
          /\ \A i \in 1 .. HeadLength - 0 : SubSeq(g, 0 + 1, HeadLength)[i] = g[0 + i]
      BY <1>1, <3>1, Lengths, SubSeqIs
    <3>3. QED
      BY <1>1, <3>1, <3>2
  <2>2. \A i \in 1 .. WordBytes : t[i] = g[i]
    <3>1. 0 <= WordBytes /\ WordBytes <= Len(g) /\ \A i \in 1 .. WordBytes : 0 + i = i
      BY <1>1, Lengths
    <3>2. \A i \in 1 .. WordBytes - 0 : SubSeq(g, 0 + 1, WordBytes)[i] = g[0 + i]
      BY <1>1, <3>1, SubSeqIs
    <3>3. QED
      BY <1>1, <3>1, <3>2 DEF TypeWord
  <2>3. \A i \in 1 .. WordBytes : l[i] = g[WordBytes + i]
    <3>1. \A i \in 1 .. HeadLength - WordBytes :
            SubSeq(g, WordBytes + 1, HeadLength)[i] = g[WordBytes + i]
      BY <1>1, Lengths, SubSeqIs
    <3>2. QED
      BY <1>1, <3>1 DEF LengthWord
  <2> HIDE DEF h, t, l
  <2>4. t \o l \in Seq(Byte) /\ Len(t \o l) = HeadLength
    BY <1>2, <1>3, Lengths
  <2>5. ASSUME NEW i \in 1 .. HeadLength PROVE (t \o l)[i] = h[i]
    <3>1. CASE i <= WordBytes
      BY <1>1, <1>2, <1>3, <2>1, <2>2, <3>1, Lengths
    <3>2. CASE i > WordBytes
      <4>1. i - WordBytes \in 1 .. WordBytes /\ WordBytes + (i - WordBytes) = i
        BY <1>1, <3>2, Lengths
      <4>2. (t \o l)[i] = l[i - WordBytes]
        BY <1>2, <1>3, <3>2, <4>1
      <4>3. QED
        BY <2>1, <2>3, <4>1, <4>2
    <3>3. i <= WordBytes \/ i > WordBytes
      BY <1>1
    <3>4. QED
      BY <3>1, <3>2, <3>3
  <2>6. QED
    BY <2>1, <2>4, <2>5, SeqEqual DEF h
<1>7. QED
  BY <1>2, <1>3, <1>4, <1>5, <1>6

(* Turning the head reverses both of its words; turning it twice gives the message. *)
LEMMA TurnIs ==
  ASSUME NEW g \in Seq(Byte), HeadLength <= Len(g)
  PROVE  /\ Turn(g) \in Seq(Byte) /\ Len(Turn(g)) = Len(g)
         /\ TypeWord(Turn(g)) = Reverse(TypeWord(g))
         /\ LengthWord(Turn(g)) = Reverse(LengthWord(g))
         /\ Behind(Turn(g)) = Behind(g)
         /\ Turn(Turn(g)) = g
<1> DEFINE t == Reverse(TypeWord(g))
           l == Reverse(LengthWord(g))
           b == Behind(g)
           h == Turn(g)
<1>1. /\ t \in Seq(Byte) /\ Len(t) = WordBytes /\ Reverse(t) = TypeWord(g)
      /\ l \in Seq(Byte) /\ Len(l) = WordBytes /\ Reverse(l) = LengthWord(g)
      /\ b \in Seq(Byte) /\ Len(b) = Len(g) - HeadLength
      /\ g = TypeWord(g) \o LengthWord(g) \o b
  <2>1. /\ TypeWord(g) \in Seq(Byte) /\ Len(TypeWord(g)) = WordBytes
        /\ LengthWord(g) \in Seq(Byte) /\ Len(LengthWord(g)) = WordBytes
        /\ Behind(g) \in Seq(Byte) /\ Len(Behind(g)) = Len(g) - HeadLength
        /\ g = TypeWord(g) \o LengthWord(g) \o Behind(g)
    BY Words
  <2>2. QED
    BY <2>1, ReverseIs
<1>2. h = t \o l \o b
  BY DEF Turn
<1> HIDE DEF t, l, b, h
<1>3. /\ h \in Seq(Byte) /\ Len(h) = Len(t) + Len(l) + Len(b)
      /\ SubSeq(h, 1, Len(t)) = t
      /\ SubSeq(h, Len(t) + 1, Len(t) + Len(l)) = l
      /\ SubSeq(h, Len(t) + Len(l) + 1, Len(t) + Len(l) + Len(b)) = b
  <2>1. t \in Seq(Byte) /\ l \in Seq(Byte) /\ b \in Seq(Byte)
    BY <1>1
  <2>2. /\ t \o l \o b \in Seq(Byte) /\ Len(t \o l \o b) = Len(t) + Len(l) + Len(b)
        /\ SubSeq(t \o l \o b, 1, Len(t)) = t
        /\ SubSeq(t \o l \o b, Len(t) + 1, Len(t) + Len(l)) = l
        /\ SubSeq(t \o l \o b, Len(t) + Len(l) + 1, Len(t) + Len(l) + Len(b)) = b
    BY <2>1, Joined3
  <2>3. QED
    BY <1>2, <2>2, Zenon
<1>4. /\ Len(t) + Len(l) = HeadLength /\ Len(t) + Len(l) + Len(b) = Len(g)
  BY <1>1, Lengths
<1>5. TypeWord(h) = t /\ LengthWord(h) = l /\ Behind(h) = b /\ Len(h) = Len(g)
  BY <1>1, <1>3, <1>4 DEF TypeWord, LengthWord, Behind
<1>6. Turn(h) = g
  <2>1. Turn(h) = Reverse(TypeWord(h)) \o Reverse(LengthWord(h)) \o Behind(h)
    BY DEF Turn
  <2>2. QED
    BY <1>1, <1>5, <2>1
<1>7. QED
  BY <1>3, <1>5, <1>6 DEF t, l, b, h

(* What comes behind the head does not turn it. *)
LEMMA TurnMore ==
  ASSUME NEW g \in Seq(Byte), HeadLength <= Len(g), NEW x \in Seq(Byte)
  PROVE  /\ Turn(g \o x) = Turn(g) \o x
         /\ TypeWord(g \o x) = TypeWord(g) /\ LengthWord(g \o x) = LengthWord(g)
<1> DEFINE t == TypeWord(g)
           l == LengthWord(g)
           b == Behind(g)
           c == b \o x
           h == g \o x
<1>1. /\ t \in Seq(Byte) /\ Len(t) = WordBytes
      /\ l \in Seq(Byte) /\ Len(l) = WordBytes
      /\ b \in Seq(Byte) /\ Len(b) = Len(g) - HeadLength
      /\ g = t \o l \o b
  BY Words
<1> HIDE DEF t, l, b
<1>2. c \in Seq(Byte) /\ Len(c) = Len(g) + Len(x) - HeadLength
      /\ h \in Seq(Byte) /\ Len(h) = Len(g) + Len(x) /\ Len(x) \in Nat /\ Len(g) \in Nat
  <2>1. Len(c) = Len(b) + Len(x) /\ c \in Seq(Byte) /\ Len(x) \in Nat
    <3>1. b \in Seq(Byte)
      BY <1>1
    <3>2. QED
      BY <3>1
  <2>2. Len(h) = Len(g) + Len(x) /\ h \in Seq(Byte) /\ Len(g) \in Nat
    OBVIOUS
  <2>3. Len(b) = Len(g) - HeadLength
    BY <1>1
  <2> HIDE DEF c, h
  <2>4. QED
    BY <2>1, <2>2, <2>3, Lengths
<1>3. h = t \o l \o c
  <2> DEFINE u == t \o l
  <2>1. u \in Seq(Byte) /\ h = (u \o b) \o x
    BY <1>1
  <2> HIDE DEF u
  <2>2. h = u \o c
    <3>1. b \in Seq(Byte) /\ u \in Seq(Byte)
      BY <1>1, <2>1
    <3>2. (u \o b) \o x = u \o (b \o x)
      BY <3>1, ConcatAssociative
    <3>3. QED
      BY <2>1, <3>2, Zenon
  <2>3. QED
    BY <2>2 DEF u
<1> HIDE DEF c, h
<1>4. /\ SubSeq(h, 1, Len(t)) = t
      /\ SubSeq(h, Len(t) + 1, Len(t) + Len(l)) = l
      /\ SubSeq(h, Len(t) + Len(l) + 1, Len(t) + Len(l) + Len(c)) = c
  <2>1. t \in Seq(Byte) /\ l \in Seq(Byte) /\ c \in Seq(Byte)
    BY <1>1, <1>2
  <2>2. /\ SubSeq(t \o l \o c, 1, Len(t)) = t
        /\ SubSeq(t \o l \o c, Len(t) + 1, Len(t) + Len(l)) = l
        /\ SubSeq(t \o l \o c, Len(t) + Len(l) + 1, Len(t) + Len(l) + Len(c)) = c
    BY <2>1, Joined3
  <2>3. QED
    BY <1>3, <2>2, Zenon
<1>5. Len(t) + Len(l) = HeadLength /\ Len(t) + Len(l) + Len(c) = Len(h)
  BY <1>1, <1>2, Lengths
<1>6. TypeWord(h) = t /\ LengthWord(h) = l /\ Behind(h) = c
  BY <1>1, <1>4, <1>5 DEF TypeWord, LengthWord, Behind
<1>7. Turn(h) = Turn(g) \o x
  <2> DEFINE u == Reverse(t) \o Reverse(l)
  <2>1. u \in Seq(Byte)
    BY <1>1, ReverseIs
  <2>2. Turn(h) = u \o c /\ Turn(g) = u \o b
    BY <1>6 DEF Turn, t, l, b
  <2> HIDE DEF u
  <2>3. u \o c = (u \o b) \o x
    <3>1. b \in Seq(Byte)
      BY <1>1
    <3>2. (u \o b) \o x = u \o (b \o x)
      BY <2>1, <3>1, ConcatAssociative
    <3>3. QED
      BY <3>2, Zenon DEF c
  <2>4. QED
    BY <2>2, <2>3
<1>8. QED
  BY <1>6, <1>7 DEF h, t, l

(* The checksum: what it covers, and where it is. *)
Covered(g) == SubSeq(g, 1, Len(g) - TailLength)
Check(g) == SubSeq(g, Len(g) - TailLength + 1, Len(g))

(* What the client reads from a head. *)
LEMMA HeadIs ==
  ASSUME NEW g \in Seq(Byte), HeadLength <= Len(g)
  PROVE  /\ Word(g, 1) = Value(TypeWord(g))
         /\ MsgType(g) = Value(Reverse(TypeWord(g)))
         /\ BodyLength(g) = Value(Reverse(LengthWord(g)))
         /\ Memory(MsgType(g)) = Reverse(TypeWord(g))
         /\ Memory(BodyLength(g)) = Reverse(LengthWord(g))
<1> DEFINE t == TypeWord(g)
           l == LengthWord(g)
<1>1. Word(g, 1) = Value(t) /\ Word(g, WordBytes + 1) = Value(l)
  BY Lengths DEF Word, TypeWord, LengthWord
<1>2. t \in Seq(Byte) /\ Len(t) = WordBytes /\ l \in Seq(Byte) /\ Len(l) = WordBytes
  BY Words
<1>3. MsgType(g) = htnu32(Value(t)) /\ BodyLength(g) = htnu32(Value(l))
  BY <1>1 DEF MsgType, BodyLength
<1> HIDE DEF t, l
<1>4. /\ Reverse(t) \in Seq(Byte) /\ Len(Reverse(t)) = WordBytes
      /\ Reverse(l) \in Seq(Byte) /\ Len(Reverse(l)) = WordBytes
  BY <1>2, ReverseIs
<1>5. htnu32(Value(t)) = Value(Reverse(t)) /\ Memory(Value(Reverse(t))) = Reverse(t)
  BY <1>2, <1>4, WordIs
<1>6. htnu32(Value(l)) = Value(Reverse(l)) /\ Memory(Value(Reverse(l))) = Reverse(l)
  BY <1>2, <1>4, WordIs
<1>7. QED
  BY <1>1, <1>3, <1>5, <1>6 DEF t, l

(* A message is what the checksum covers, and the checksum. *)
LEMMA CoveredAndCheck ==
  ASSUME NEW g \in Seq(Byte), HeadLength + TailLength <= Len(g)
  PROVE  /\ Covered(g) \in Seq(Byte) /\ Len(Covered(g)) = Len(g) - TailLength
         /\ \A i \in 1 .. Len(g) - TailLength : Covered(g)[i] = g[i]
         /\ Check(g) \in Seq(Byte) /\ Len(Check(g)) = WordBytes
         /\ \A i \in 1 .. WordBytes : Check(g)[i] = g[Len(g) - TailLength + i]
         /\ g = Covered(g) \o Check(g)
<1> DEFINE k == Len(g) - TailLength
<1>1. /\ k \in Nat /\ k <= Len(g) /\ 0 <= k /\ k - 0 = k /\ Len(g) - k = WordBytes
         /\ Len(g) \in Nat
      /\ \A i \in 1 .. k : 0 + i = i
  BY Lengths
<1> HIDE DEF k
<1>2. /\ SubSeq(g, 0 + 1, k) \in Seq(Byte) /\ Len(SubSeq(g, 0 + 1, k)) = k - 0
      /\ \A i \in 1 .. k - 0 : SubSeq(g, 0 + 1, k)[i] = g[0 + i]
  BY <1>1, SubSeqIs
<1>3. /\ SubSeq(g, 1, k) \in Seq(Byte) /\ Len(SubSeq(g, 1, k)) = k
      /\ \A i \in 1 .. k : SubSeq(g, 1, k)[i] = g[i]
  BY <1>1, <1>2
<1>4. /\ SubSeq(g, k + 1, Len(g)) \in Seq(Byte)
         /\ Len(SubSeq(g, k + 1, Len(g))) = Len(g) - k
      /\ \A i \in 1 .. Len(g) - k : SubSeq(g, k + 1, Len(g))[i] = g[k + i]
  BY <1>1, SubSeqIs
<1>5. g = SubSeq(g, 1, k) \o SubSeq(g, k + 1, Len(g))
  BY <1>1, Cut
<1>6. QED
  BY <1>1, <1>3, <1>4, <1>5 DEF k, Covered, Check

(* The client's check of a message, as a total of its bytes. *)
LEMMA VerifiesIs ==
  ASSUME NEW g \in Seq(Byte), HeadLength + TailLength <= Len(g)
  PROVE  Verifies(g) <=> Total(Covered(g)) % ByteBase = Value(Reverse(Check(g)))
<1> DEFINE c == Check(g)
<1>1. Covered(g) \in Seq(Byte) /\ c \in Seq(Byte) /\ Len(c) = WordBytes
  BY CoveredAndCheck
<1>2. Word(g, Len(g) - TailLength + 1) = Value(c)
  <2>1. Len(g) - TailLength + 1 + WordBytes - 1 = Len(g)
    BY Lengths
  <2>2. QED
    BY <2>1 DEF Word, Check
<1>3. GenerateCheckSum(Covered(g)) = Total(Covered(g)) % ByteBase
  BY <1>1, SumIsTotal
<1>4. htnu32(Value(c)) = Value(Reverse(c))
  <2> HIDE DEF c
  <2>1. QED
    BY <1>1, WordIs
<1>5. QED
  BY <1>2, <1>3, <1>4 DEF Verifies, Covered

(* Bytes are numbers. *)
LEMMA ByteInt ==
  ASSUME NEW s \in Seq(Byte)
  PROVE  s \in Seq(Int) /\ Total(s) \in Int
<1>1. \A i \in 1 .. Len(s) : s[i] \in Int
  <2>1. \A i \in 1 .. Len(s) : s[i] \in Byte
    OBVIOUS
  <2>2. QED
    BY <2>1, Constants DEF Byte
<1>2. s \in Seq(Int)
  <2>1. s = [i \in 1 .. Len(s) |-> s[i]] /\ Len(s) \in Nat
    OBVIOUS
  <2>2. QED
    BY <1>1, <2>1
<1>3. QED
  BY <1>2, TotalInt

(* Turning the head does not change the total. *)
LEMMA TotalTurn ==
  ASSUME NEW g \in Seq(Byte), HeadLength <= Len(g)
  PROVE  Total(Turn(g)) = Total(g)
<1> DEFINE t == TypeWord(g)
           l == LengthWord(g)
           b == Behind(g)
<1>1. t \in Seq(Byte) /\ l \in Seq(Byte) /\ b \in Seq(Byte) /\ g = t \o l \o b
  BY Words
<1>2. Turn(g) = Reverse(t) \o Reverse(l) \o b
  BY DEF Turn
<1> HIDE DEF t, l, b
<1>3. Reverse(t) \in Seq(Byte) /\ Reverse(l) \in Seq(Byte)
  BY <1>1, ReverseIs
<1>4. ASSUME NEW x \in Seq(Byte), NEW y \in Seq(Byte)
      PROVE  Total(x \o y \o b) = Total(x) + Total(y) + Total(b)
  <2>1. x \in Seq(Int) /\ y \in Seq(Int) /\ b \in Seq(Int)
    BY <1>1, ByteInt
  <2>2. Total(x \o y) = Total(x) + Total(y)
    BY <2>1, TotalConcat
  <2> DEFINE u == x \o y
  <2>3. u \in Seq(Int)
    BY <2>1
  <2> HIDE DEF u
  <2>4. Total(u \o b) = Total(u) + Total(b)
    BY <2>1, <2>3, TotalConcat
  <2>5. QED
    BY <2>2, <2>4 DEF u
<1>5. Total(Reverse(t)) = Total(t) /\ Total(Reverse(l)) = Total(l)
  <2>1. t \in Seq(Int) /\ l \in Seq(Int)
    BY <1>1, ByteInt
  <2>2. QED
    BY <2>1, TotalReverse
<1>6. Total(t \o l \o b) = Total(t) + Total(l) + Total(b)
  BY <1>1, <1>4
<1>7. Total(Reverse(t) \o Reverse(l) \o b) = Total(t) + Total(l) + Total(b)
  <2>1. Total(Reverse(t) \o Reverse(l) \o b)
          = Total(Reverse(t)) + Total(Reverse(l)) + Total(b)
    BY <1>3, <1>4
  <2>2. QED
    BY <1>5, <2>1
<1>8. Total(g) = Total(t \o l \o b)
  BY <1>1, Zenon
<1>9. Total(Turn(g)) = Total(Reverse(t) \o Reverse(l) \o b)
  BY <1>2, Zenon
<1>10. QED
  BY <1>6, <1>7, <1>8, <1>9, Zenon

(* The body is what the checksum covers, behind the head. *)
LEMMA BodyIs ==
  ASSUME NEW x \in Seq(Byte), HeadLength + TailLength <= Len(x)
  PROVE  BodyOf(x) = Behind(Covered(x))
<1> DEFINE n == Len(x) - TailLength
           y == Covered(x)
<1>1. y \in Seq(Byte) /\ Len(y) = n /\ \A i \in 1 .. n : y[i] = x[i]
  BY CoveredAndCheck
<1>2. HeadLength <= n /\ n <= Len(x) /\ n \in Nat /\ HeadLength \in Nat
  BY Lengths
<1> HIDE DEF n, y
<1>3. /\ SubSeq(x, HeadLength + 1, n) \in Seq(Byte)
         /\ Len(SubSeq(x, HeadLength + 1, n)) = n - HeadLength
      /\ \A i \in 1 .. n - HeadLength : SubSeq(x, HeadLength + 1, n)[i] = x[HeadLength + i]
  BY <1>2, SubSeqIs
<1>4. /\ SubSeq(y, HeadLength + 1, n) \in Seq(Byte)
         /\ Len(SubSeq(y, HeadLength + 1, n)) = n - HeadLength
      /\ \A i \in 1 .. n - HeadLength : SubSeq(y, HeadLength + 1, n)[i] = y[HeadLength + i]
  BY <1>1, <1>2, SubSeqIs
<1>5. \A i \in 1 .. n - HeadLength : HeadLength + i \in 1 .. n
  BY <1>2
<1>6. SubSeq(x, HeadLength + 1, n) = SubSeq(y, HeadLength + 1, n)
  <2> DEFINE p == SubSeq(x, HeadLength + 1, n)
             q == SubSeq(y, HeadLength + 1, n)
  <2>1. \A i \in 1 .. n - HeadLength : p[i] = q[i]
    BY <1>1, <1>3, <1>4, <1>5
  <2>2. p \in Seq(Byte) /\ q \in Seq(Byte) /\ Len(p) = n - HeadLength
        /\ Len(q) = n - HeadLength
    BY <1>3, <1>4
  <2> HIDE DEF p, q
  <2>3. p = q
    BY <2>1, <2>2, SeqEqual
  <2>4. QED
    BY <2>3 DEF p, q
<1>7. QED
  BY <1>1, <1>6 DEF n, y, BodyOf, Behind

(* The client's check does not depend on which way round the head is. *)
LEMMA Turned ==
  ASSUME NEW g \in Seq(Byte), HeadLength + TailLength <= Len(g)
  PROVE  /\ Turn(g) \in Seq(Byte) /\ Len(Turn(g)) = Len(g)
         /\ Verifies(Turn(g)) <=> Verifies(g)
         /\ BodyOf(Turn(g)) = BodyOf(g)
         /\ Word(Turn(g), 1) = MsgType(g)
<1> DEFINE c == Covered(g)
           k == Check(g)
           h == Turn(g)
<1>1. c \in Seq(Byte) /\ Len(c) = Len(g) - TailLength /\ k \in Seq(Byte)
      /\ Len(k) = TailLength
      /\ g = c \o k
  BY CoveredAndCheck, Lengths
<1>2. HeadLength <= Len(g) /\ HeadLength <= Len(c) /\ Len(g) \in Nat /\ Len(c) \in Nat
  BY <1>1, Lengths
<1>3. h \in Seq(Byte) /\ Len(h) = Len(g) /\ TypeWord(h) = Reverse(TypeWord(g))
  BY <1>2, TurnIs
<1> HIDE DEF c, k
<1>4. h = Turn(c) \o k
  <2>1. Turn(c \o k) = Turn(c) \o k
    BY <1>1, <1>2, TurnMore
  <2>2. QED
    BY <1>1, <2>1, Zenon
<1>5. Turn(c) \in Seq(Byte) /\ Len(Turn(c)) = Len(c) /\ Behind(Turn(c)) = Behind(c)
  BY <1>1, <1>2, TurnIs
<1> HIDE DEF h
<1>6. Covered(h) = Turn(c) /\ Check(h) = k
  <2> DEFINE d == Turn(c)
  <2>1. d \in Seq(Byte) /\ Len(d) = Len(h) - TailLength /\ Len(d) + Len(k) = Len(h)
        /\ h = d \o k
    BY <1>1, <1>2, <1>3, <1>4, <1>5, Lengths
  <2> HIDE DEF d
  <2>2. SubSeq(d \o k, 1, Len(d)) = d /\ SubSeq(d \o k, Len(d) + 1, Len(d) + Len(k)) = k
    <3>1. d \in Seq(Byte) /\ k \in Seq(Byte)
      BY <1>1, <2>1
    <3>2. QED
      BY <3>1, Joined
  <2>3. SubSeq(h, 1, Len(d)) = d /\ SubSeq(h, Len(d) + 1, Len(d) + Len(k)) = k
    BY <2>1, <2>2, Zenon
  <2>4. QED
    BY <2>1, <2>3 DEF d, Covered, Check
<1>7. Verifies(h) <=> Verifies(g)
  <2>1. HeadLength + TailLength <= Len(h)
    BY <1>3
  <2>2. Verifies(h) <=> Total(Turn(c)) % ByteBase = Value(Reverse(k))
    BY <1>3, <1>6, <2>1, VerifiesIs
  <2>3. Verifies(g) <=> Total(c) % ByteBase = Value(Reverse(k))
    BY VerifiesIs DEF c, k
  <2>4. Total(Turn(c)) = Total(c)
    BY <1>1, <1>2, TotalTurn
  <2>5. QED
    BY <2>2, <2>3, <2>4
<1>8. BodyOf(h) = BodyOf(g)
  <2>1. BodyOf(h) = Behind(Turn(c)) /\ BodyOf(g) = Behind(c)
    BY <1>3, <1>6, BodyIs DEF c
  <2>2. QED
    BY <1>5, <2>1
<1>9. Word(h, 1) = MsgType(g)
  <2>1. Word(h, 1) = Value(TypeWord(h))
    BY <1>2, <1>3, HeadIs
  <2>2. MsgType(g) = Value(Reverse(TypeWord(g)))
    BY <1>2, HeadIs
  <2>3. QED
    BY <1>3, <2>1, <2>2
<1>10. QED
  BY <1>3, <1>7, <1>8, <1>9 DEF h

-----------------------------------------------------------------------------
(* What the gateway sends for a message. *)

(* A byte fits in a word. *)
LEMMA ByteFits ==
  ASSUME NEW n \in Byte
  PROVE  n \in Nat /\ Fits(n)
<1>1. Weight(WordBytes) \in Nat \ {0}
      /\ \E c \in Nat \ {0} : Weight(WordBytes) = ByteBase * c
  BY WordWeight
<1>2. PICK c \in Nat \ {0} : Weight(WordBytes) = ByteBase * c
  BY <1>1
<1> DEFINE w == Weight(WordBytes)
<1>3. n \in 0 .. ByteBase - 1 /\ w = ByteBase * c /\ ByteBase \in Nat
  BY <1>2, Constants DEF Byte
<1> HIDE DEF w
<1>4. n < w
  BY <1>3, Z3
<1>5. QED
  BY <1>3, <1>4 DEF w, Fits

(* A number in a word, the other way round. *)
LEMMA Put ==
  ASSUME NEW n \in Nat, Fits(n)
  PROVE  /\ Reverse(Memory(n)) \in Seq(Byte) /\ Len(Reverse(Memory(n))) = WordBytes
         /\ Value(Reverse(Reverse(Memory(n)))) = n
<1>1. /\ Memory(n) \in Seq(Byte) /\ Len(Memory(n)) = WordBytes /\ Value(Memory(n)) = n
  BY ValueStored, Constants DEF Fits, Memory
<1>2. Reverse(Memory(n)) \in Seq(Byte) /\ Len(Reverse(Memory(n))) = WordBytes
      /\ Reverse(Reverse(Memory(n))) = Memory(n)
  BY <1>1, ReverseIs
<1>3. QED
  BY <1>1, <1>2

Sendable(m) == m \in Message /\ Fits(m.type) /\ Fits(Len(m.body))
FrameLength(m) == HeadLength + Len(m.body) + TailLength

(* The frame of a message is read as that message, and its checksum is right ... *)
LEMMA Framed ==
  ASSUME NEW m, Sendable(m)
  PROVE  /\ Frame(m) \in Seq(Byte) /\ Len(Frame(m)) = FrameLength(m)
         /\ MsgType(Frame(m)) = m.type /\ BodyLength(Frame(m)) = Len(m.body)
         /\ BodyOf(Frame(m)) = m.body
         /\ Verifies(Frame(m))
<1> DEFINE t == Reverse(Memory(m.type))
           l == Reverse(Memory(Len(m.body)))
           b == m.body
           c == t \o l \o b
           check == Total(c) % ByteBase
           k == Reverse(Memory(check))
           g == Frame(m)
<1>1. g = c \o k
  BY DEF Frame
<1>2. m.type \in Nat /\ b \in Seq(Byte) /\ Len(b) \in Nat /\ Fits(m.type) /\ Fits(Len(b))
  BY DEF Sendable, Message
<1>3. /\ t \in Seq(Byte) /\ Len(t) = WordBytes /\ Value(Reverse(t)) = m.type
      /\ l \in Seq(Byte) /\ Len(l) = WordBytes /\ Value(Reverse(l)) = Len(b)
  BY <1>2, Put
<1> HIDE DEF g, t, l, b
<1>4. /\ c \in Seq(Byte) /\ Len(c) = WordBytes + WordBytes + Len(b)
      /\ TypeWord(c) = t /\ LengthWord(c) = l /\ Behind(c) = b
  <2>1. /\ c \in Seq(Byte) /\ Len(c) = Len(t) + Len(l) + Len(b)
        /\ SubSeq(c, 1, Len(t)) = t /\ SubSeq(c, Len(t) + 1, Len(t) + Len(l)) = l
        /\ SubSeq(c, Len(t) + Len(l) + 1, Len(t) + Len(l) + Len(b)) = b
    <3>1. t \in Seq(Byte) /\ l \in Seq(Byte) /\ b \in Seq(Byte)
      BY <1>2, <1>3
    <3>2. QED
      BY <3>1, Joined3
  <2> HIDE DEF c
  <2>2. QED
    BY <1>2, <1>3, <2>1, Lengths DEF TypeWord, LengthWord, Behind
<1> HIDE DEF c
<1>5. check \in Byte /\ k \in Seq(Byte) /\ Len(k) = WordBytes /\ Value(Reverse(k)) = check
  <2>1. Total(c) \in Int
    BY <1>4, ByteInt
  <2>2. check \in Byte
    BY <2>1, DivMod, Constants DEF Byte
  <2> HIDE DEF check
  <2>3. check \in Nat /\ Fits(check)
    BY <2>2, ByteFits
  <2>4. QED
    BY <2>2, <2>3, Put
<1> HIDE DEF k
<1>6. g \in Seq(Byte) /\ Len(g) = Len(c) + Len(k)
      /\ SubSeq(g, 1, Len(c)) = c /\ SubSeq(g, Len(c) + 1, Len(c) + Len(k)) = k
  <2>1. c \in Seq(Byte) /\ k \in Seq(Byte)
    BY <1>4, <1>5
  <2>2. c \o k \in Seq(Byte) /\ Len(c \o k) = Len(c) + Len(k)
        /\ SubSeq(c \o k, 1, Len(c)) = c /\ SubSeq(c \o k, Len(c) + 1, Len(c) + Len(k)) = k
    BY <2>1, Joined
  <2>3. QED
    BY <1>1, <2>2, Zenon
<1>7. Len(g) = FrameLength(m) /\ HeadLength + TailLength <= Len(g) /\ HeadLength <= Len(c)
      /\ HeadLength <= Len(g) /\ Len(g) - TailLength = Len(c)
  <2>1. Len(g) = WordBytes + WordBytes + Len(b) + WordBytes
        /\ Len(c) = WordBytes + WordBytes + Len(b)
        /\ Len(b) \in Nat
    BY <1>2, <1>4, <1>5, <1>6, Lengths
  <2>2. FrameLength(m) = HeadLength + Len(b) + TailLength
    BY DEF FrameLength, b
  <2>3. QED
    BY <2>1, <2>2, Lengths
<1>8. Covered(g) = c /\ Check(g) = k
  BY <1>6, <1>7, <1>4, <1>5 DEF Covered, Check
<1>9. TypeWord(g) = t /\ LengthWord(g) = l
  <2>1. c \in Seq(Byte) /\ k \in Seq(Byte)
    BY <1>4, <1>5
  <2>2. TypeWord(c \o k) = TypeWord(c) /\ LengthWord(c \o k) = LengthWord(c)
    BY <1>7, <2>1, TurnMore
  <2>3. QED
    BY <1>1, <1>4, <2>2, Zenon
<1>10. MsgType(g) = m.type /\ BodyLength(g) = Len(b)
  <2>1. MsgType(g) = Value(Reverse(TypeWord(g)))
        /\ BodyLength(g) = Value(Reverse(LengthWord(g)))
    BY <1>6, <1>7, HeadIs
  <2>2. QED
    BY <1>3, <1>9, <2>1
<1>11. BodyOf(g) = b
  BY <1>4, <1>6, <1>7, <1>8, BodyIs
<1>12. Verifies(g)
  <2>1. Verifies(g) <=> Total(Covered(g)) % ByteBase = Value(Reverse(Check(g)))
    BY <1>6, <1>7, VerifiesIs
  <2>2. QED
    BY <1>5, <1>8, <2>1
<1>13. QED
  BY <1>6, <1>7, <1>10, <1>11, <1>12 DEF g, b

(* ... until a byte that the checksum covers, the type or the checksum is changed. *)
LEMMA Harmed ==
  ASSUME NEW g \in Seq(Byte), HeadLength + TailLength <= Len(g), Verifies(g),
         NEW x \in Damaged(g)
  PROVE  /\ x \in Seq(Byte) /\ Len(x) = Len(g)
         /\ LengthWord(x) = LengthWord(g)
         /\ ~Verifies(x)
<1>1. PICK k \in DOMAIN g \ (WordBytes + 1 .. HeadLength), b \in Byte :
        b # g[k] /\ x = Overwrite(g, k - 1, <<b>>)
  BY DEF Damaged
<1>2. k \in 1 .. Len(g) /\ k \notin WordBytes + 1 .. HeadLength /\ Len(g) \in Nat
  OBVIOUS
<1>3. x = [i \in 1 .. Len(g) |-> IF i = k THEN b ELSE g[i]]
  <2>1. x = [i \in DOMAIN g |->
               IF i - (k - 1) \in DOMAIN <<b>> THEN <<b>>[i - (k - 1)] ELSE g[i]]
    BY <1>1 DEF Overwrite
  <2>2. ASSUME NEW i \in 1 .. Len(g)
        PROVE  (IF i - (k - 1) \in DOMAIN <<b>> THEN <<b>>[i - (k - 1)] ELSE g[i])
                 = (IF i = k THEN b ELSE g[i])
    <3>1. DOMAIN <<b>> = {1} /\ <<b>>[1] = b
      OBVIOUS
    <3>2. i - (k - 1) = 1 <=> i = k
      BY <1>2
    <3>3. QED
      BY <3>1, <3>2
  <2>3. DOMAIN g = 1 .. Len(g)
    OBVIOUS
  <2>4. QED
    BY <2>1, <2>2, <2>3
<1>4. x \in Seq(Byte) /\ Len(x) = Len(g)
  <2>1. \A i \in 1 .. Len(g) : (IF i = k THEN b ELSE g[i]) \in Byte
    OBVIOUS
  <2>2. QED
    BY <1>2, <1>3, <2>1
<1>5. \A i \in 1 .. Len(g) : x[i] = IF i = k THEN b ELSE g[i]
  BY <1>3
<1>6. g[k] # b
  BY <1>1
<1>7. LengthWord(x) = LengthWord(g)
  <2>1. /\ SubSeq(g, WordBytes + 1, HeadLength) \in Seq(Byte)
        /\ Len(SubSeq(g, WordBytes + 1, HeadLength)) = HeadLength - WordBytes
        /\ \A i \in 1 .. HeadLength - WordBytes :
             SubSeq(g, WordBytes + 1, HeadLength)[i] = g[WordBytes + i]
    BY Lengths, SubSeqIs
  <2>2. /\ SubSeq(x, WordBytes + 1, HeadLength) \in Seq(Byte)
        /\ Len(SubSeq(x, WordBytes + 1, HeadLength)) = HeadLength - WordBytes
        /\ \A i \in 1 .. HeadLength - WordBytes :
             SubSeq(x, WordBytes + 1, HeadLength)[i] = x[WordBytes + i]
    BY <1>4, Lengths, SubSeqIs
  <2>3. \A i \in 1 .. HeadLength - WordBytes : WordBytes + i \in 1 .. Len(g)
        /\ WordBytes + i # k
    BY <1>2, Lengths
  <2>4. \A i \in 1 .. HeadLength - WordBytes : LengthWord(x)[i] = LengthWord(g)[i]
    BY <1>5, <2>1, <2>2, <2>3 DEF LengthWord
  <2>5. QED
    BY <2>1, <2>2, <2>4, SeqEqual DEF LengthWord
<1>8. /\ Covered(g) \in Seq(Byte) /\ Len(Covered(g)) = Len(g) - TailLength
      /\ \A i \in 1 .. Len(g) - TailLength : Covered(g)[i] = g[i]
      /\ Check(g) \in Seq(Byte) /\ Len(Check(g)) = WordBytes
      /\ g = Covered(g) \o Check(g)
  BY CoveredAndCheck
<1>9. /\ Covered(x) \in Seq(Byte) /\ Len(Covered(x)) = Len(g) - TailLength
      /\ \A i \in 1 .. Len(g) - TailLength : Covered(x)[i] = x[i]
      /\ Check(x) \in Seq(Byte) /\ Len(Check(x)) = WordBytes
      /\ x = Covered(x) \o Check(x)
  BY <1>4, CoveredAndCheck
<1>10. Verifies(g) <=> Total(Covered(g)) % ByteBase = Value(Reverse(Check(g)))
  BY VerifiesIs
<1>11. Verifies(x) <=> Total(Covered(x)) % ByteBase = Value(Reverse(Check(x)))
  BY <1>4, VerifiesIs
<1>12. CASE k <= Len(g) - TailLength
  <2> DEFINE c == Covered(g)
             d == Covered(x)
             n == Len(g) - TailLength
  <2>1. n \in Nat /\ k \in 1 .. n
    BY <1>2, <1>12, Lengths
  <2>2. c \in Seq(Int) /\ Len(c) = n /\ Total(c) \in Int /\ c[k] = g[k]
    BY <1>8, <2>1, ByteInt
  <2>3. d = [c EXCEPT ![k] = b]
    <3> DEFINE e == [c EXCEPT ![k] = b]
    <3>1. e \in Seq(Byte) /\ Len(e) = n
          /\ \A i \in 1 .. n : e[i] = IF i = k THEN b ELSE c[i]
      BY <1>8, <2>1
    <3>2. \A i \in 1 .. n : i \in 1 .. Len(g)
      BY <1>2, Lengths
    <3>3. \A i \in 1 .. n : d[i] = e[i]
      BY <1>5, <1>8, <1>9, <3>1, <3>2
    <3> HIDE DEF e
    <3>4. QED
      BY <1>9, <3>1, <3>3, SeqEqual DEF e
  <2>4. Total(d) = Total(c) - g[k] + b
    <3>1. b \in Int /\ k \in 1 .. Len(c)
      BY <2>1, <2>2, Constants DEF Byte
    <3> HIDE DEF c, d
    <3>2. Total([c EXCEPT ![k] = b]) = Total(c) - c[k] + b
      BY <2>2, <3>1, TotalChanged
    <3>3. QED
      BY <2>2, <2>3, <3>2
  <2>5. Total(d) % ByteBase # Total(c) % ByteBase
    <3> DEFINE p == Total(d)
               q == Total(c)
               o == g[k]
    <3>1. o \in 0 .. ByteBase - 1 /\ b \in 0 .. ByteBase - 1 /\ o # b
          /\ ByteBase \in Nat \ {0}
      BY <1>2, <1>6, Constants DEF Byte
    <3>2. q \in Int /\ p = q - o + b
      BY <2>2, <2>4
    <3> HIDE DEF p, q, o
    <3>3. p \in Int /\ p # q /\ p - q < ByteBase /\ q - p < ByteBase
      BY <3>1, <3>2
    <3>4. p % ByteBase # q % ByteBase
      BY <3>1, <3>2, <3>3, RestDiffers
    <3>5. QED
      BY <3>4 DEF p, q
  <2>6. Check(x) = Check(g)
    <3>1. /\ \A i \in 1 .. WordBytes : Check(g)[i] = g[Len(g) - TailLength + i]
          /\ \A i \in 1 .. WordBytes : Check(x)[i] = x[Len(g) - TailLength + i]
      BY <1>4, CoveredAndCheck
    <3>2. \A i \in 1 .. WordBytes : Len(g) - TailLength + i \in 1 .. Len(g)
          /\ Len(g) - TailLength + i # k
      BY <1>2, <1>12, Lengths
    <3>3. \A i \in 1 .. WordBytes : Check(x)[i] = Check(g)[i]
      BY <1>5, <3>1, <3>2
    <3>4. QED
      BY <1>8, <1>9, <3>3, SeqEqual
  <2>7. QED
    BY <1>4, <1>7, <1>10, <1>11, <2>5, <2>6
<1>13. CASE k > Len(g) - TailLength
  <2>1. Covered(x) = Covered(g)
    <3>1. \A i \in 1 .. Len(g) - TailLength : i \in 1 .. Len(g) /\ i # k
      BY <1>2, <1>13, Lengths
    <3>2. \A i \in 1 .. Len(g) - TailLength : Covered(x)[i] = Covered(g)[i]
      BY <1>5, <1>8, <1>9, <3>1
    <3>3. QED
      BY <1>8, <1>9, <3>2, SeqEqual
  <2>2. SUFFICES ASSUME Value(Reverse(Check(x))) = Value(Reverse(Check(g))) PROVE FALSE
    BY <1>4, <1>7, <1>10, <1>11, <2>1
  <2> DEFINE p == Check(x)
             q == Check(g)
  <2>3. p \in Seq(Byte) /\ Len(p) = WordBytes /\ q \in Seq(Byte) /\ Len(q) = WordBytes
    BY <1>8, <1>9
  <2> HIDE DEF p, q
  <2>4. /\ Reverse(p) \in Seq(Byte) /\ Len(Reverse(p)) = WordBytes
           /\ Reverse(Reverse(p)) = p
        /\ Reverse(q) \in Seq(Byte) /\ Len(Reverse(q)) = WordBytes
           /\ Reverse(Reverse(q)) = q
    BY <2>3, ReverseIs
  <2>5. Memory(Value(Reverse(p))) = Reverse(p) /\ Memory(Value(Reverse(q))) = Reverse(q)
    BY <2>4, WordIs
  <2>6. p = q
    BY <2>2, <2>4, <2>5 DEF p, q
  <2>7. x = g
    BY <1>8, <1>9, <2>1, <2>6 DEF p, q
  <2>8. QED
    BY <1>2, <1>5, <1>6, <2>7
<1>14. k <= Len(g) - TailLength \/ k > Len(g) - TailLength
  BY <1>2, Lengths
<1>15. QED
  BY <1>12, <1>13, <1>14

(* What is on the wire for a message, and is received. *)
LEMMA Received ==
  ASSUME NEW one, Sendable(one.message), one.damaged \in BOOLEAN, NEW g \in OnWire(one)
  PROVE  /\ g \in Seq(Byte) /\ Len(g) = FrameLength(one.message)
         /\ HeadLength + TailLength <= Len(g)
         /\ BodyLength(g) = Len(one.message.body)
         /\ Verifies(g) <=> ~one.damaged
         /\ ~one.damaged => MsgType(g) = one.message.type /\ BodyOf(g) = one.message.body
<1> DEFINE m == one.message
           f == Frame(m)
<1>1. /\ f \in Seq(Byte) /\ Len(f) = FrameLength(m)
      /\ MsgType(f) = m.type /\ BodyLength(f) = Len(m.body) /\ BodyOf(f) = m.body
         /\ Verifies(f)
  BY Framed
<1>2. HeadLength + TailLength <= Len(f) /\ HeadLength <= Len(f)
  <2>1. Len(m.body) \in Nat
    BY DEF Sendable, Message
  <2>2. Len(f) = HeadLength + Len(m.body) + TailLength
    BY <1>1 DEF FrameLength
  <2> DEFINE n == Len(m.body)
             k == Len(f)
  <2>3. n \in Nat /\ k = HeadLength + n + TailLength
    BY <2>1, <2>2
  <2> HIDE DEF n, k
  <2>4. HeadLength + TailLength <= k /\ HeadLength <= k
    BY <2>3, Lengths
  <2>5. QED
    BY <2>4 DEF k
<1>3. CASE ~one.damaged
  <2>1. g = f
    BY <1>3 DEF OnWire
  <2>2. QED
    BY <1>1, <1>2, <1>3, <2>1
<1>4. CASE one.damaged
  <2>1. g \in Damaged(f)
    BY <1>4 DEF OnWire
  <2> HIDE DEF f
  <2>2. g \in Seq(Byte) /\ Len(g) = Len(f) /\ LengthWord(g) = LengthWord(f) /\ ~Verifies(g)
    BY <1>1, <1>2, <2>1, Harmed
  <2>3. BodyLength(g) = BodyLength(f)
    <3>1. BodyLength(f) = Value(Reverse(LengthWord(f)))
      BY <1>1, <1>2, HeadIs
    <3>2. BodyLength(g) = Value(Reverse(LengthWord(g)))
      BY <1>2, <2>2, HeadIs
    <3>3. QED
      BY <2>2, <3>1, <3>2
  <2>4. QED
    BY <1>1, <1>2, <1>4, <2>2, <2>3
<1>5. QED
  BY <1>3, <1>4

-----------------------------------------------------------------------------
(* The inductive invariant.  In a session the client has received a part of *)
(* the current message (the head turned round, if RecvMsgHead has done so); *)
(* with what is under way it is what is left of the stream: T[j] is what    *)
(* follows the j-th of the messages that the gateway sent.                  *)

Raw == IF phase = "on" /\ wanted > HeadLength THEN Turn(buffer) ELSE buffer
Current == sent[Len(delivered) + 1]

Follows(T, j) == \E g \in OnWire(sent[j]) : T[j - 1] = g \o T[j]
Streams(T) ==
  /\ T \in [Len(delivered) .. Len(sent) -> Seq(Byte)]
  /\ T[Len(delivered)] = Raw \o wire
  /\ T[Len(sent)] = <<>>
  /\ \A j \in Len(delivered) + 1 .. Len(sent) : Follows(T, j)

Types ==
  /\ phase \in {"config", "start", "logon", "on", "off", "failed", "ended"}
  /\ sent \in Seq([message : Message, damaged : BOOLEAN])
  /\ delivered \in Seq(Message)
  /\ wire \in Seq(Byte) /\ buffer \in Seq(Byte) /\ wanted \in Nat
Sending ==
  /\ \A j \in DOMAIN sent : Sendable(sent[j].message)
  /\ sent # <<>> => sent[1].message \in Answers
Failing == phase = "failed" => Len(delivered) < Len(sent)
Idle ==
  phase \in {"config", "start", "ended"} =>
    /\ sent = <<>> /\ delivered = <<>> /\ wire = <<>> /\ buffer = <<>>
    /\ wanted = HeadLength
LoggedOn == /\ phase = "logon" => delivered = <<>>
            /\ phase = "on" => delivered # <<>>
HeadKnown ==
  /\ Len(delivered) < Len(sent)
  /\ HeadLength <= Len(buffer) /\ Len(buffer) <= wanted
  /\ wanted = FrameLength(Current.message)
  /\ phase = "logon" => MsgType(buffer) = LogonType
Receiving ==
  phase \in {"logon", "on"} =>
    /\ \E T : Streams(T)
    /\ \/ wanted = HeadLength /\ Len(buffer) <= HeadLength
       \/ HeadKnown

IInv ==
  /\ Types /\ Sending /\ DeliversWhatWasSent /\ FailsForCause /\ Failing
  /\ Idle /\ LoggedOn /\ Receiving

(* Streams with the same bytes have the same first head, and the same first *)
(* message if it is as long.                                                *)
LEMMA SameStart ==
  ASSUME NEW a \in Seq(Byte), NEW b \in Seq(Byte), NEW c \in Seq(Byte), NEW e \in Seq(Byte),
         a \o b = c \o e, HeadLength <= Len(a), HeadLength <= Len(c)
  PROVE  /\ MsgType(a) = MsgType(c) /\ BodyLength(a) = BodyLength(c)
         /\ Len(a) = Len(c) => a = c /\ b = e
<1>1. /\ MsgType(a) = Value(Reverse(TypeWord(a)))
         /\ BodyLength(a) = Value(Reverse(LengthWord(a)))
      /\ MsgType(c) = Value(Reverse(TypeWord(c)))
         /\ BodyLength(c) = Value(Reverse(LengthWord(c)))
  BY HeadIs
<1>2. /\ TypeWord(a \o b) = TypeWord(a) /\ LengthWord(a \o b) = LengthWord(a)
      /\ TypeWord(c \o e) = TypeWord(c) /\ LengthWord(c \o e) = LengthWord(c)
  BY TurnMore
<1>3. MsgType(a) = MsgType(c) /\ BodyLength(a) = BodyLength(c)
  <2>1. TypeWord(a) = TypeWord(c) /\ LengthWord(a) = LengthWord(c)
    BY <1>2, Zenon
  <2>2. QED
    BY <1>1, <2>1, Zenon
<1>4. ASSUME Len(a) = Len(c) PROVE a = c /\ b = e
  <2>1. SubSeq(a \o b, 1, Len(a)) = a /\ SubSeq(a \o b, Len(a) + 1, Len(a) + Len(b)) = b
        /\ Len(a \o b) = Len(a) + Len(b)
    <3>1. \A x, y : x \in Seq(Byte) /\ y \in Seq(Byte) =>
            /\ SubSeq(x \o y, 1, Len(x)) = x
               /\ SubSeq(x \o y, Len(x) + 1, Len(x) + Len(y)) = y
            /\ Len(x \o y) = Len(x) + Len(y)
      <4> TAKE x, y
      <4> SUFFICES ASSUME x \in Seq(Byte), y \in Seq(Byte)
                   PROVE  /\ SubSeq(x \o y, 1, Len(x)) = x
                          /\ SubSeq(x \o y, Len(x) + 1, Len(x) + Len(y)) = y
                          /\ Len(x \o y) = Len(x) + Len(y)
        OBVIOUS
      <4> QED
        BY Joined
    <3>2. QED
      BY <3>1, Zenon
  <2>2. SubSeq(c \o e, 1, Len(c)) = c /\ SubSeq(c \o e, Len(c) + 1, Len(c) + Len(e)) = e
        /\ Len(c \o e) = Len(c) + Len(e)
    BY Joined
  <2>3. Len(a) \in Nat /\ Len(b) \in Nat /\ Len(e) \in Nat
    OBVIOUS
  <2>4. Len(a) + Len(b) = Len(c) + Len(e)
    BY <2>1, <2>2, Zenon
  <2>5. QED
    BY <1>4, <2>1, <2>2, <2>4, Zenon
<1>5. QED
  BY <1>3, <1>4

(* The bytes as they were received: RecvMsg's checks see the head turned *)
(* round, RecvLogon's do not.                                            *)
LEMMA RawIs ==
  ASSUME Types, wanted > HeadLength => HeadLength <= Len(buffer)
  PROVE  /\ Raw \in Seq(Byte) /\ Len(Raw) = Len(buffer)
         /\ phase = "on" /\ wanted > HeadLength => Turn(Raw) = buffer
         /\ phase = "logon" \/ wanted = HeadLength => Raw = buffer
<1>1. buffer \in Seq(Byte)
  BY DEF Types
<1>2. CASE Raw = buffer
  <2>1. CASE phase = "on" /\ wanted > HeadLength
    <3>1. Turn(buffer) = buffer
      BY <1>2, <2>1 DEF Raw
    <3>2. QED
      BY <1>1, <1>2, <3>1
  <2>2. QED
    BY <1>1, <1>2, <2>1
<1>3. CASE ~(phase = "on" /\ wanted > HeadLength)
  BY <1>2, <1>3 DEF Raw
<1>4. CASE phase = "on" /\ wanted > HeadLength
  <2>1. Raw = Turn(buffer) /\ wanted # HeadLength /\ phase # "logon"
    BY <1>4, Lengths DEF Raw
  <2>2. HeadLength <= Len(buffer)
    BY <1>4, <2>1
  <2>3. Turn(buffer) \in Seq(Byte) /\ Len(Turn(buffer)) = Len(buffer)
        /\ Turn(Turn(buffer)) = buffer
    BY <1>1, <2>2, TurnIs
  <2>4. QED
    BY <2>1, <2>3
<1>5. QED
  BY <1>3, <1>4

(* When a head has been received, it is that of the current message, ... *)
LEMMA NextOne ==
  ASSUME Types, Sending, Len(delivered) <= Len(sent), NEW T, Streams(T),
         HeadLength <= Len(Raw), Raw \in Seq(Byte)
  PROVE  /\ Len(delivered) < Len(sent)
         /\ Sendable(Current.message) /\ Current.damaged \in BOOLEAN
         /\ BodyLength(Raw) = Len(Current.message.body)
         /\ ~Current.damaged => MsgType(Raw) = Current.message.type
         /\ Len(Raw) = FrameLength(Current.message) =>
              /\ wire = T[Len(delivered) + 1]
              /\ Verifies(Raw) <=> ~Current.damaged
              /\ ~Current.damaged => BodyOf(Raw) = Current.message.body
<1> DEFINE d == Len(delivered)
           k == Len(sent)
<1>1. d \in Nat /\ k \in Nat /\ d <= k
  BY DEF Types
<1>2. /\ T \in [d .. k -> Seq(Byte)] /\ T[d] = Raw \o wire /\ T[k] = <<>>
      /\ \A j \in d + 1 .. k : Follows(T, j)
  BY DEF Streams
<1>3. wire \in Seq(Byte) /\ sent \in Seq([message : Message, damaged : BOOLEAN])
      /\ \A j \in 1 .. k : Sendable(sent[j].message)
  BY DEF Types, Sending
<1>4. d < k
  <2>1. SUFFICES ASSUME d = k PROVE FALSE
    BY <1>1
  <2>2. Raw \o wire = <<>>
    BY <1>2, <2>1
  <2>3. Len(Raw \o wire) = Len(Raw) + Len(wire)
    BY <1>3
  <2>4. Len(Raw) \in Nat /\ Len(wire) \in Nat /\ Len(Raw) + Len(wire) = 0
    BY <1>3, <2>2, <2>3
  <2>5. QED
    BY <2>4, Lengths
<1> DEFINE one == sent[d + 1]
<1>5. one = Current /\ d + 1 \in 1 .. k
  BY <1>1, <1>4 DEF Current
<1>6. Sendable(one.message) /\ one.damaged \in BOOLEAN
  <2>1. one \in [message : Message, damaged : BOOLEAN]
    <3>1. sent \in Seq([message : Message, damaged : BOOLEAN]) /\ d + 1 \in 1 .. Len(sent)
      BY <1>3, <1>5
    <3>2. \A i \in 1 .. Len(sent) : sent[i] \in [message : Message, damaged : BOOLEAN]
      BY <3>1, ElementOfSeq
    <3>3. QED
      BY <3>1, <3>2
  <2>2. Sendable(one.message)
    BY <1>3, <1>5
  <2> HIDE DEF one
  <2>3. QED
    BY <2>1, <2>2
<1>7. PICK g \in OnWire(one) : T[d] = g \o T[d + 1]
  <2>1. d + 1 \in d + 1 .. k /\ d + 1 - 1 = d
    BY <1>1, <1>4
  <2>2. Follows(T, d + 1)
    BY <1>2, <2>1
  <2>3. QED
    BY <2>1, <2>2 DEF Follows
<1>8. T[d + 1] \in Seq(Byte)
  BY <1>1, <1>2, <1>4
<1> HIDE DEF one
<1>9. /\ g \in Seq(Byte) /\ Len(g) = FrameLength(one.message)
      /\ HeadLength + TailLength <= Len(g)
      /\ BodyLength(g) = Len(one.message.body)
      /\ Verifies(g) <=> ~one.damaged
      /\ ~one.damaged => MsgType(g) = one.message.type /\ BodyOf(g) = one.message.body
  BY <1>6, Received
<1>10. /\ MsgType(Raw) = MsgType(g) /\ BodyLength(Raw) = BodyLength(g)
       /\ Len(Raw) = Len(g) => Raw = g /\ wire = T[d + 1]
  <2>1. HeadLength <= Len(g)
    <3>1. Len(g) \in Nat
      BY <1>9
    <3>2. QED
      BY <1>9, <3>1, Lengths
  <2>2. Raw \o wire = g \o T[d + 1]
    BY <1>2, <1>7, Zenon
  <2> DEFINE e == T[d + 1]
             r == Raw
             w == wire
  <2>3. r \in Seq(Byte) /\ w \in Seq(Byte) /\ g \in Seq(Byte) /\ e \in Seq(Byte)
        /\ HeadLength <= Len(r)
        /\ r \o w = g \o e /\ HeadLength <= Len(g)
    BY <1>3, <1>8, <1>9, <2>1, <2>2
  <2> HIDE DEF e, r, w
  <2>4. MsgType(r) = MsgType(g) /\ BodyLength(r) = BodyLength(g)
        /\ (Len(r) = Len(g) => r = g /\ w = e)
    BY <2>3, SameStart
  <2>5. QED
    BY <2>4 DEF e, r, w
<1>11. QED
  <2>1. BodyLength(Raw) = Len(one.message.body)
        /\ (~one.damaged => MsgType(Raw) = one.message.type)
    BY <1>9, <1>10
  <2>2. ASSUME Len(Raw) = FrameLength(one.message)
        PROVE  /\ wire = T[d + 1] /\ (Verifies(Raw) <=> ~one.damaged)
               /\ ~one.damaged => BodyOf(Raw) = one.message.body
    <3>1. Raw = g /\ wire = T[d + 1]
      BY <1>9, <1>10, <2>2
    <3>2. QED
      BY <1>9, <3>1
  <2>3. QED
    BY <1>4, <1>5, <1>6, <2>1, <2>2

(* ... and when a whole message has been received, it is the current one. *)
LEMMA WholeMessage ==
  ASSUME IInv, phase \in {"logon", "on"}, MessageRead
  PROVE  /\ HeadKnown
         /\ Sendable(Current.message) /\ Current.damaged \in BOOLEAN
         /\ Verifies(buffer) <=> ~Current.damaged
         /\ ~Current.damaged =>
              /\ BodyOf(buffer) = Current.message.body
              /\ phase = "logon" => MsgType(buffer) = Current.message.type
              /\ phase = "on" => Word(buffer, 1) = Current.message.type
         /\ \A T : Streams(T) => wire = T[Len(delivered) + 1]
<1>1. Types /\ Sending /\ Len(delivered) <= Len(sent)
  BY DEF IInv, DeliversWhatWasSent
<1>2. HeadKnown /\ wanted > HeadLength /\ Len(buffer) = wanted /\ wanted \in Nat
  BY <1>1, Lengths DEF IInv, Receiving, MessageRead, Types
<1>3. Raw \in Seq(Byte) /\ Len(Raw) = Len(buffer) /\ HeadLength <= Len(Raw)
      /\ Len(Raw) = FrameLength(Current.message)
  <2>1. Raw \in Seq(Byte) /\ Len(Raw) = Len(buffer)
    BY <1>1, <1>2, RawIs DEF HeadKnown
  <2>2. QED
    BY <1>2, <2>1, Lengths DEF HeadKnown
<1>4. ASSUME NEW T, Streams(T)
      PROVE  /\ Sendable(Current.message) /\ Current.damaged \in BOOLEAN
             /\ ~Current.damaged => MsgType(Raw) = Current.message.type
             /\ wire = T[Len(delivered) + 1]
             /\ Verifies(Raw) <=> ~Current.damaged
             /\ ~Current.damaged => BodyOf(Raw) = Current.message.body
  BY <1>1, <1>3, <1>4, NextOne
<1>5. PICK T : Streams(T)
  BY DEF IInv, Receiving
<1>6. CASE phase = "logon"
  <2>1. Raw = buffer
    BY <1>1, <1>2, <1>6, RawIs DEF HeadKnown
  <2>2. QED
    BY <1>2, <1>4, <1>5, <1>6, <2>1
<1>7. CASE phase = "on"
  <2>1. Turn(Raw) = buffer
    BY <1>1, <1>2, <1>7, RawIs DEF HeadKnown
  <2>2. HeadLength + TailLength <= Len(Raw)
    <3>1. Len(Current.message.body) \in Nat
      BY <1>4, <1>5 DEF Sendable, Message
    <3> DEFINE n == Len(Current.message.body)
    <3>2. FrameLength(Current.message) = HeadLength + n + TailLength /\ n \in Nat
      BY <3>1 DEF FrameLength
    <3> HIDE DEF n
    <3>3. QED
      BY <1>3, <3>2, Lengths
  <2>3. /\ Verifies(Turn(Raw)) <=> Verifies(Raw)
        /\ BodyOf(Turn(Raw)) = BodyOf(Raw) /\ Word(Turn(Raw), 1) = MsgType(Raw)
    BY <1>3, <2>2, Turned
  <2>4. QED
    BY <1>2, <1>4, <1>5, <1>7, <2>1, <2>3
<1>8. QED
  BY <1>6, <1>7

-----------------------------------------------------------------------------
(* The steps. *)

(* The session begins well. *)
LEMMA InitIInv == Init => IInv
<1>1. SUFFICES ASSUME Init PROVE IInv
  OBVIOUS
<1>2. Types /\ Sending /\ Failing /\ Idle /\ LoggedOn /\ Receiving
  BY <1>1, Lengths DEF Init, Types, Sending, Failing, Idle, LoggedOn, Receiving
<1>3. DeliversWhatWasSent /\ FailsForCause
  BY <1>1 DEF Init, DeliversWhatWasSent, FailsForCause
<1>4. QED
  BY <1>2, <1>3 DEF IInv

(* All that the gateway sends can be read. *)
LEMMA AllSendable == \A m \in Answers \cup Messages : Sendable(m)
<1>1. LogonType \in Byte /\ LogoutType \in Byte /\ 1 \in Byte
  BY Constants DEF LogonType, LogoutType, Byte
<1>2. <<1>> \in Seq(Byte) /\ Len(<<1>>) = 1
  BY <1>1
<1>3. Fits(LogonType) /\ Fits(LogoutType) /\ Fits(1) /\ LogonType \in Nat
      /\ LogoutType \in Nat
  BY <1>1, ByteFits
<1>4. Sendable([type |-> LogonType, body |-> LogonBody])
  <2> DEFINE m == [type |-> LogonType, body |-> LogonBody]
  <2>1. m.type = LogonType /\ m.body = LogonBody /\ m \in Message
    BY <1>3, MessagesAssumption DEF Message
  <2>2. QED
    BY <1>3, <2>1, MessagesAssumption DEF Sendable
<1>5. Sendable([type |-> LogoutType, body |-> <<1>>])
  <2> DEFINE m == [type |-> LogoutType, body |-> <<1>>]
  <2>1. m.type = LogoutType /\ m.body = <<1>> /\ m \in Message
    BY <1>2, <1>3 DEF Message
  <2>2. QED
    BY <1>2, <1>3, <2>1 DEF Sendable
<1>6. \A m \in Messages : Sendable(m)
  BY MessagesAssumption DEF Sendable
<1>7. QED
  BY <1>4, <1>5, <1>6 DEF Answers

(* recv() takes bytes from what is under way. *)
LEMMA RecvStep ==
  ASSUME IInv, NEW n \in 1 .. Len(wire), Recv(n)
  PROVE  IInv'
<1> DEFINE x == SubSeq(wire, 1, n)
<1>1. Types /\ Receiving /\ phase \in {"logon", "on"}
  BY DEF IInv, Recv
<1>2. wire \in Seq(Byte) /\ buffer \in Seq(Byte) /\ wanted \in Nat /\ n \in Nat
      /\ Len(wire) \in Nat
  BY <1>1 DEF Types
<1>3. x \in Seq(Byte) /\ Len(x) = n /\ wire' \in Seq(Byte) /\ wire = x \o wire'
  <2>1. SubSeq(wire, 0 + 1, n) \in Seq(Byte) /\ Len(SubSeq(wire, 0 + 1, n)) = n - 0
    <3>1. 0 \in Nat /\ 0 <= n /\ n <= Len(wire)
      BY <1>2
    <3>2. QED
      BY <1>2, <3>1, SubSeqIs
  <2>2. 0 + 1 = 1 /\ n - 0 = n
    BY <1>2
  <2>3. x \in Seq(Byte) /\ Len(x) = n
    BY <2>1, <2>2
  <2>4. wire' = SubSeq(wire, n + 1, Len(wire))
    BY DEF Recv
  <2>5. wire' \in Seq(Byte)
    BY <1>2, <2>4, SubSeqIs
  <2>6. wire = SubSeq(wire, 1, n) \o SubSeq(wire, n + 1, Len(wire))
    BY <1>2, Cut
  <2>7. QED
    BY <2>3, <2>4, <2>5, <2>6
<1> HIDE DEF x
<1>4. buffer' = buffer \o x /\ UNCHANGED <<phase, wanted, sent, delivered>>
  BY DEF Recv, starting, asking, x
<1>5. buffer' \in Seq(Byte) /\ Len(buffer') = Len(buffer) + n /\ Len(buffer) + n <= wanted
      /\ Len(buffer) \in Nat
  <2>1. buffer \o x \in Seq(Byte) /\ Len(buffer \o x) = Len(buffer) + Len(x)
    BY <1>2, <1>3
  <2>2. n <= wanted - Len(buffer) /\ Len(buffer) \in Nat
    BY <1>2 DEF Recv
  <2>3. QED
    BY <1>2, <1>3, <1>4, <2>1, <2>2
<1>6. (wanted = HeadLength /\ Len(buffer) <= HeadLength) \/ HeadKnown
  BY <1>1 DEF Receiving
<1>7. wanted > HeadLength => HeadKnown /\ HeadLength <= Len(buffer)
  BY <1>2, <1>6, Lengths DEF HeadKnown
<1>8. Raw' = Raw \o x /\ Raw \in Seq(Byte)
  <2>1. Raw \in Seq(Byte)
    BY <1>1, <1>7, RawIs
  <2>2. CASE phase = "on" /\ wanted > HeadLength
    <3>1. Raw = Turn(buffer) /\ Raw' = Turn(buffer')
      BY <1>4, <2>2 DEF Raw
    <3>2. Turn(buffer \o x) = Turn(buffer) \o x
      BY <1>2, <1>3, <1>7, <2>2, TurnMore
    <3>3. QED
      BY <1>4, <2>1, <3>1, <3>2
  <2>3. CASE ~(phase = "on" /\ wanted > HeadLength)
    BY <1>4, <2>1, <2>3 DEF Raw
  <2>4. QED
    BY <2>2, <2>3
<1>9. Raw' \o wire' = Raw \o wire
  <2>1. (Raw \o x) \o wire' = Raw \o (x \o wire')
    <3> DEFINE r == Raw
               w == wire'
    <3>1. r \in Seq(Byte) /\ x \in Seq(Byte) /\ w \in Seq(Byte)
      BY <1>3, <1>8
    <3> HIDE DEF r, w
    <3>2. (r \o x) \o w = r \o (x \o w)
      BY <3>1, ConcatAssociative
    <3>3. QED
      BY <3>2 DEF r, w
  <2>2. QED
    BY <1>3, <1>8, <2>1, Zenon
<1>10. PICK T : Streams(T)
  BY <1>1 DEF Receiving
<1>11. Streams(T)'
  BY <1>4, <1>9, <1>10 DEF Streams, Follows
<1>12. Types'
  BY <1>1, <1>3, <1>4, <1>5 DEF Types
<1>13. (wanted = HeadLength /\ Len(buffer) <= HeadLength)' \/ HeadKnown'
  <2>1. CASE wanted = HeadLength /\ Len(buffer) <= HeadLength
    BY <1>4, <1>5, <2>1
  <2>2. CASE HeadKnown
    <3>1. MsgType(buffer') = MsgType(buffer)
      <4>1. HeadLength <= Len(buffer) /\ HeadLength <= Len(buffer \o x)
        BY <1>2, <1>4, <1>5, <2>2, Lengths DEF HeadKnown
      <4>2. TypeWord(buffer \o x) = TypeWord(buffer)
        BY <1>2, <1>3, <4>1, TurnMore
      <4>3. MsgType(buffer) = Value(Reverse(TypeWord(buffer)))
        BY <1>2, <4>1, HeadIs
      <4>4. buffer \o x \in Seq(Byte)
        BY <1>2, <1>3
      <4>5. MsgType(buffer \o x) = Value(Reverse(TypeWord(buffer \o x)))
        BY <4>1, <4>4, HeadIs
      <4>6. QED
        BY <1>4, <4>2, <4>3, <4>5, Zenon
    <3>2. HeadLength <= Len(buffer') /\ Len(buffer') <= wanted
      BY <1>2, <1>5, <2>2, Lengths DEF HeadKnown
    <3>3. QED
      BY <1>4, <2>2, <3>1, <3>2 DEF HeadKnown, Current
  <2>3. QED
    BY <1>6, <2>1, <2>2
<1>14. Receiving'
  BY <1>11, <1>13 DEF Receiving
<1>15. Sending' /\ DeliversWhatWasSent' /\ FailsForCause' /\ Failing' /\ Idle' /\ LoggedOn'
  BY <1>1, <1>4
     DEF IInv, Sending, DeliversWhatWasSent, FailsForCause, Failing, Idle, LoggedOn
<1>16. QED
  BY <1>12, <1>14, <1>15 DEF IInv
(* The gateway sends another message, damaged or not. *)
LEMMA SendsStep ==
  ASSUME IInv, NEW m \in Answers \cup Messages, GatewaySends(m)
  PROVE  IInv'
<1>1. PICK damaged \in BOOLEAN :
        /\ sent' = Append(sent, [message |-> m, damaged |-> damaged])
        /\ \E bytes \in OnWire([message |-> m, damaged |-> damaged]) : wire' = wire \o bytes
  BY DEF GatewaySends
<1> DEFINE one == [message |-> m, damaged |-> damaged]
           d == Len(delivered)
           k == Len(sent)
<1>2. phase \in {"logon", "on", "off", "failed"} /\ m \in Due
      /\ UNCHANGED <<phase, buffer, wanted, delivered>>
  BY DEF GatewaySends, reading
<1>3. Types /\ Sending /\ d <= k /\ wire \in Seq(Byte) /\ buffer \in Seq(Byte)
      /\ sent \in Seq([message : Message, damaged : BOOLEAN]) /\ d \in Nat /\ k \in Nat
  BY DEF IInv, DeliversWhatWasSent, Types
<1>4. one.message = m /\ one.damaged = damaged /\ Sendable(m)
      /\ one \in [message : Message, damaged : BOOLEAN]
  <2>1. Sendable(m)
    BY AllSendable
  <2>2. QED
    BY <2>1 DEF Sendable
<1> HIDE DEF one
<1>5. PICK g \in OnWire(one) : wire' = wire \o g
  BY <1>1 DEF one
<1>6. sent' = Append(sent, one) /\ g \in Seq(Byte)
  <2>1. g \in Seq(Byte)
    BY <1>4, Received
  <2>2. QED
    BY <1>1, <2>1 DEF one
<1>7. /\ sent' \in Seq([message : Message, damaged : BOOLEAN]) /\ Len(sent') = k + 1
      /\ sent'[k + 1] = one
      /\ \A j \in 1 .. k : sent'[j] = sent[j]
  BY <1>3, <1>4, <1>6
<1>8. wire' \in Seq(Byte)
  BY <1>3, <1>5, <1>6
<1>9. Types'
  BY <1>2, <1>3, <1>7, <1>8 DEF Types
<1>10. Sending'
  <2>1. \A j \in DOMAIN sent' : Sendable(sent'[j].message)
    <3>1. \A j \in 1 .. k : Sendable(sent'[j].message)
      BY <1>3, <1>7 DEF Sending
    <3>2. Sendable(sent'[k + 1].message)
      BY <1>4, <1>7
    <3>3. DOMAIN sent' = 1 .. k + 1
      BY <1>7
    <3>4. QED
      BY <1>3, <3>1, <3>2, <3>3
  <2>2. sent'[1].message \in Answers
    <3>1. CASE sent = <<>>
      BY <1>2, <1>4, <1>7, <3>1 DEF Due
    <3>2. CASE sent # <<>>
      <4>1. 1 \in 1 .. k
        BY <1>3, <3>2
      <4>2. QED
        BY <1>3, <1>7, <3>2, <4>1 DEF Sending
    <3>3. QED
      BY <3>1, <3>2
  <2>3. QED
    BY <2>1, <2>2 DEF Sending
<1>11. DeliversWhatWasSent'
  <2>1. \A i \in DOMAIN delivered : i \in 1 .. k
    BY <1>3 DEF Types
  <2>2. \A i \in DOMAIN delivered : delivered[i] = sent[i].message /\ ~sent[i].damaged
    BY DEF IInv, DeliversWhatWasSent
  <2>3. QED
    BY <1>2, <1>3, <1>7, <2>1, <2>2 DEF DeliversWhatWasSent
<1>12. FailsForCause' /\ Failing'
  <2>1. SUFFICES ASSUME phase = "failed" PROVE FailsForCause' /\ Failing'
    BY <1>2 DEF FailsForCause, Failing
  <2>2. d + 1 \in 1 .. k
    BY <1>3, <2>1 DEF IInv, Failing
  <2>3. sent'[d + 1] = sent[d + 1]
    BY <1>7, <2>2
  <2>4. QED
    BY <1>2, <1>3, <1>7, <2>1, <2>2, <2>3 DEF IInv, FailsForCause, Failing
<1>13. Idle' /\ LoggedOn'
  BY <1>2 DEF IInv, Idle, LoggedOn
<1>14. Receiving'
  <2>1. SUFFICES ASSUME phase \in {"logon", "on"}
                 PROVE  /\ (\E T : Streams(T))'
                        /\ \/ (wanted = HeadLength /\ Len(buffer) <= HeadLength)'
                           \/ HeadKnown'
    BY <1>2 DEF Receiving
  <2>2. PICK T : Streams(T)
    BY <2>1 DEF IInv, Receiving
  <2>3. (wanted = HeadLength /\ Len(buffer) <= HeadLength) \/ HeadKnown
    BY <2>1 DEF IInv, Receiving
  <2>4. (wanted = HeadLength /\ Len(buffer) <= HeadLength)' \/ HeadKnown'
    <3>1. CASE HeadKnown
      <4>1. d + 1 \in 1 .. k
        BY <1>3, <3>1 DEF HeadKnown
      <4>2. Current' = Current
        BY <1>2, <1>7, <4>1 DEF Current
      <4>3. QED
        BY <1>2, <1>3, <1>7, <3>1, <4>2 DEF HeadKnown
    <3>2. QED
      BY <1>2, <2>3, <3>1
  <2>5. /\ T \in [d .. k -> Seq(Byte)] /\ T[d] = Raw \o wire /\ T[k] = <<>>
        /\ \A j \in d + 1 .. k : Follows(T, j)
    BY <2>2 DEF Streams
  <2>6. PICK U : /\ U \in [d .. k + 1 -> Seq(Byte)] /\ U[k + 1] = <<>>
                 /\ \A j \in d .. k : U[j] = T[j] \o g
    <3> DEFINE W == [j \in d .. k + 1 |-> IF j = k + 1 THEN <<>> ELSE T[j] \o g]
    <3>1. \A j \in d .. k : T[j] \o g \in Seq(Byte)
      BY <1>6, <2>5
    <3>2. k + 1 \in d .. k + 1 /\ \A j \in d .. k + 1 : j = k + 1 \/ j \in d .. k
      BY <1>3
    <3>3. \A j \in d .. k + 1 : (IF j = k + 1 THEN <<>> ELSE T[j] \o g) \in Seq(Byte)
      BY <3>1, <3>2
    <3>4. \A j \in d .. k : j \in d .. k + 1 /\ j # k + 1
      BY <1>3
    <3>5. W \in [d .. k + 1 -> Seq(Byte)] /\ W[k + 1] = <<>>
          /\ \A j \in d .. k : W[j] = T[j] \o g
      BY <3>2, <3>3, <3>4
    <3>6. QED
      BY <3>5
  <2>7. U[d] = Raw' \o wire'
    <3>1. Raw' = Raw
      BY <1>2 DEF Raw
    <3>2. Raw \in Seq(Byte)
      <4>1. wanted > HeadLength => HeadLength <= Len(buffer)
        BY <1>3, <2>3, Lengths DEF HeadKnown, Types
      <4>2. QED
        BY <1>3, <4>1, RawIs
    <3>3. U[d] = (Raw \o wire) \o g
      <4>1. d \in d .. k
        BY <1>3
      <4>2. U[d] = T[d] \o g
        BY <2>6, <4>1
      <4>3. QED
        BY <2>5, <4>2, Zenon
    <3> DEFINE r == Raw
    <3>4. r \in Seq(Byte) /\ wire \in Seq(Byte) /\ g \in Seq(Byte)
      BY <1>3, <1>6, <3>2
    <3> HIDE DEF r
    <3>5. (r \o wire) \o g = r \o (wire \o g)
      BY <3>4, ConcatAssociative
    <3>6. QED
      BY <1>5, <3>1, <3>3, <3>5, Zenon DEF r
  <2>8. ASSUME NEW j \in d + 1 .. k + 1
        PROVE  \E h \in OnWire(sent'[j]) : U[j - 1] = h \o U[j]
    <3>1. CASE j = k + 1
      <4>1. U[j - 1] = T[k] \o g /\ T[k] = <<>> /\ U[j] = <<>>
        <5>1. j - 1 = k /\ k \in d .. k
          BY <1>3, <3>1
        <5>2. U[k] = T[k] \o g
          BY <2>6, <5>1
        <5>3. QED
          BY <2>5, <2>6, <3>1, <5>1, <5>2, Zenon
      <4>2. <<>> \o g = g /\ g \o <<>> = g
        BY <1>6
      <4>3. U[j - 1] = g \o U[j]
        BY <4>1, <4>2
      <4>4. g \in OnWire(sent'[j])
        BY <1>4, <1>7, <3>1
      <4>5. QED
        BY <4>3, <4>4
    <3>2. CASE j # k + 1
      <4>1. j \in d + 1 .. k /\ j - 1 \in d .. k /\ j \in d .. k /\ j \in 1 .. k
        BY <1>3, <3>2
      <4>2. PICK h \in OnWire(sent[j]) : T[j - 1] = h \o T[j]
        BY <2>5, <4>1 DEF Follows
      <4>3. sent'[j] = sent[j] /\ h \in OnWire(sent'[j])
        BY <1>7, <4>1
      <4>4. h \in Seq(Byte)
        <5> DEFINE o == sent[j]
        <5>1. Sendable(o.message) /\ o.damaged \in BOOLEAN /\ h \in OnWire(o)
          <6>1. o \in [message : Message, damaged : BOOLEAN]
            BY <1>3, <4>1, ElementOfSeq
          <6>2. Sendable(o.message)
            BY <1>3, <4>1 DEF Sending
          <6>3. QED
            BY <6>1, <6>2
        <5> HIDE DEF o
        <5>2. QED
          BY <5>1, Received
      <4>5. T[j] \in Seq(Byte)
        BY <2>5, <4>1
      <4>6. (h \o T[j]) \o g = h \o (T[j] \o g)
        <5> DEFINE t == T[j]
        <5>1. t \in Seq(Byte)
          BY <4>5
        <5> HIDE DEF t
        <5>2. (h \o t) \o g = h \o (t \o g)
          BY <1>6, <4>4, <5>1, ConcatAssociative
        <5>3. QED
          BY <5>2 DEF t
      <4>7. U[j - 1] = T[j - 1] \o g /\ U[j] = T[j] \o g
        BY <2>6, <4>1
      <4>8. U[j - 1] = h \o U[j]
        BY <4>2, <4>6, <4>7, Zenon
      <4>9. QED
        BY <4>3, <4>8
    <3>3. QED
      BY <3>1, <3>2
  <2>9. Streams(U)'
    <3>1. Len(delivered') = d /\ Len(sent') = k + 1
      BY <1>2, <1>7
    <3>2. ASSUME NEW j \in d + 1 .. k + 1 PROVE Follows(U, j)'
      BY <2>8 DEF Follows
    <3>3. \A j \in Len(delivered') + 1 .. Len(sent') : Follows(U, j)'
      BY <3>1, <3>2
    <3>4. U \in [Len(delivered') .. Len(sent') -> Seq(Byte)] /\ U[Len(sent')] = <<>>
      BY <2>6, <3>1
    <3>5. U[Len(delivered')] = (Raw \o wire)'
      BY <2>7, <3>1
    <3>6. QED
      BY <3>3, <3>4, <3>5 DEF Streams
  <2>10. QED
    BY <2>4, <2>9
<1>15. QED
  BY <1>9, <1>10, <1>11, <1>12, <1>13, <1>14 DEF IInv


(* Bytes that go from what is under way to the buffer leave the stream as it is. *)
LEMMA SameStream ==
  ASSUME Raw' \o wire' = Raw \o wire, UNCHANGED <<sent, delivered>>, NEW T, Streams(T)
  PROVE  Streams(T)'
  BY DEF Streams, Follows

(* The head of an answer has been received. *)
LEMMA HeadReceived ==
  ASSUME IInv, phase \in {"logon", "on"}, HeadRead
  PROVE  /\ Raw = buffer /\ buffer \in Seq(Byte) /\ Len(buffer) = HeadLength
         /\ Len(delivered) < Len(sent)
         /\ Sendable(Current.message) /\ Current.damaged \in BOOLEAN
         /\ BodyLength(buffer) = Len(Current.message.body)
         /\ ~Current.damaged => MsgType(buffer) = Current.message.type
<1>1. Types /\ Sending /\ Len(delivered) <= Len(sent) /\ Len(buffer) = HeadLength
      /\ wanted = HeadLength
  BY DEF IInv, DeliversWhatWasSent, HeadRead
<1>2. Raw = buffer /\ buffer \in Seq(Byte)
  BY <1>1, RawIs, Lengths DEF Types
<1>3. PICK T : Streams(T)
  BY DEF IInv, Receiving
<1>4. Raw \in Seq(Byte) /\ HeadLength <= Len(Raw)
  BY <1>1, <1>2, Lengths
<1>5. /\ Len(delivered) < Len(sent)
      /\ Sendable(Current.message) /\ Current.damaged \in BOOLEAN
      /\ BodyLength(Raw) = Len(Current.message.body)
      /\ ~Current.damaged => MsgType(Raw) = Current.message.type
  BY <1>1, <1>3, <1>4, NextOne
<1>6. QED
  BY <1>1, <1>2, <1>5

(* A message is longer than its head. *)
LEMMA LongerThanHead ==
  ASSUME NEW m, Sendable(m)
  PROVE  FrameLength(m) \in Nat /\ FrameLength(m) > HeadLength
<1> DEFINE n == Len(m.body)
<1>1. n \in Nat
  BY DEF Sendable, Message
<1>2. FrameLength(m) = HeadLength + n + TailLength
  BY DEF FrameLength
<1> HIDE DEF n
<1>3. QED
  BY <1>1, <1>2, Lengths

(* RecvLogon has received the head of the answer, ... *)
LEMMA LogonHeadStep ==
  ASSUME IInv, RecvLogonHead
  PROVE  IInv'
<1>1. phase = "logon" /\ HeadRead /\ UNCHANGED <<wire, sent>>
  BY DEF RecvLogonHead
<1>2. /\ Raw = buffer /\ buffer \in Seq(Byte) /\ Len(buffer) = HeadLength
      /\ Len(delivered) < Len(sent)
      /\ Sendable(Current.message) /\ Current.damaged \in BOOLEAN
      /\ BodyLength(buffer) = Len(Current.message.body)
      /\ ~Current.damaged => MsgType(buffer) = Current.message.type
  BY <1>1, HeadReceived
<1>3. Types /\ Sending /\ DeliversWhatWasSent /\ LoggedOn /\ delivered = <<>> /\ sent # <<>>
      /\ Len(delivered) \in Nat /\ Len(sent) \in Nat
  BY <1>1, <1>2 DEF IInv, LoggedOn, Types
<1>4. PICK T : Streams(T)
  BY <1>1 DEF IInv, Receiving
<1>5. CASE MsgType(buffer) = LogonType /\ BodyLength(buffer) = Len(LogonBody)
  <2>1. wanted' = HeadLength + BodyLength(buffer) + TailLength
        /\ UNCHANGED <<phase, buffer, delivered>>
    BY <1>5 DEF RecvLogonHead
  <2>2. wanted' = FrameLength(Current.message) /\ wanted' \in Nat /\ wanted' > HeadLength
    BY <1>2, <2>1, LongerThanHead DEF FrameLength
  <2>3. Streams(T)'
    <3>1. Raw' = Raw
      BY <1>1, <2>1 DEF Raw
    <3>2. QED
      BY <1>1, <1>4, <2>1, <3>1, SameStream
  <2>4. HeadKnown'
    <3>1. Current' = Current
      BY <1>1, <2>1 DEF Current
    <3>2. QED
      BY <1>1, <1>2, <1>5, <2>1, <2>2, <3>1, Lengths DEF HeadKnown
  <2>5. Receiving'
    BY <2>3, <2>4 DEF Receiving
  <2>6. Types'
    BY <1>1, <1>3, <2>1, <2>2 DEF Types
  <2>7. QED
    BY <1>1, <2>1, <2>5, <2>6
       DEF IInv, Sending, DeliversWhatWasSent, FailsForCause, Failing, Idle, LoggedOn
<1>6. CASE ~(MsgType(buffer) = LogonType /\ BodyLength(buffer) = Len(LogonBody))
  <2>1. phase' = "failed" /\ UNCHANGED <<buffer, wanted, delivered>>
    BY <1>6 DEF RecvLogonHead, Fail, reading
  <2>2. Current.damaged \/ ~Accepts(Current.message)
    <3>1. SUFFICES ASSUME ~Current.damaged, Accepts(Current.message) PROVE FALSE
      OBVIOUS
    <3>2. Current.message \in Answers
      BY <1>3 DEF Current, Sending
    <3>3. Current.message.type = LogonType
      BY <3>1 DEF Accepts
    <3>4. Current.message = [type |-> LogonType, body |-> LogonBody]
      BY <3>2, <3>3 DEF Answers, LogonType, LogoutType
    <3>5. QED
      BY <1>2, <1>6, <3>1, <3>3, <3>4
  <2>3. FailsForCause' /\ Failing'
    BY <1>1, <1>2, <1>3, <2>1, <2>2 DEF FailsForCause, Failing, Current
  <2>4. Types' /\ Receiving' /\ Idle' /\ LoggedOn'
    BY <1>1, <1>3, <2>1 DEF Types, Receiving, Idle, LoggedOn
  <2>5. Sending' /\ DeliversWhatWasSent'
    BY <1>1, <1>3, <2>1 DEF Sending, DeliversWhatWasSent
  <2>6. QED
    BY <2>3, <2>4, <2>5 DEF IInv
<1>7. QED
  BY <1>5, <1>6

(* ... or RecvMsgHead that of a later message, which it turns round. *)
LEMMA MsgHeadStep ==
  ASSUME IInv, RecvMsgHead
  PROVE  IInv'
<1>1. phase = "on" /\ HeadRead /\ UNCHANGED <<phase, wire, sent, delivered>>
  BY DEF RecvMsgHead
<1>2. /\ Raw = buffer /\ buffer \in Seq(Byte) /\ Len(buffer) = HeadLength
      /\ Len(delivered) < Len(sent)
      /\ Sendable(Current.message)
      /\ BodyLength(buffer) = Len(Current.message.body)
  BY <1>1, HeadReceived
<1>3. PICK T : Streams(T)
  BY <1>1 DEF IInv, Receiving
<1>4. buffer' = Turn(buffer)
  <2>1. buffer' = Memory(MsgType(buffer)) \o Memory(BodyLength(buffer))
    BY DEF RecvMsgHead
  <2>2. HeadLength <= Len(buffer)
    BY <1>2, Lengths
  <2>3. /\ Memory(MsgType(buffer)) = Reverse(TypeWord(buffer))
        /\ Memory(BodyLength(buffer)) = Reverse(LengthWord(buffer))
    BY <1>2, <2>2, HeadIs
  <2> DEFINE h == Reverse(TypeWord(buffer)) \o Reverse(LengthWord(buffer))
  <2>4. h \in Seq(Byte)
    <3>1. TypeWord(buffer) \in Seq(Byte) /\ LengthWord(buffer) \in Seq(Byte)
      BY <1>2, <2>2, Words
    <3>2. Reverse(TypeWord(buffer)) \in Seq(Byte)
          /\ Reverse(LengthWord(buffer)) \in Seq(Byte)
      BY <3>1, ReverseIs
    <3>3. QED
      BY <3>2
  <2>5. Behind(buffer) = <<>>
    <3>1. Behind(buffer) \in Seq(Byte) /\ Len(Behind(buffer)) = 0
      BY <1>2, <2>2, Words, Lengths
    <3>2. QED
      BY <3>1
  <2>6. Turn(buffer) = h \o Behind(buffer)
    BY DEF Turn
  <2> HIDE DEF h
  <2>7. h \o <<>> = h
    BY <2>4
  <2>8. buffer' = h
    BY <2>1, <2>3 DEF h
  <2>9. QED
    BY <2>5, <2>6, <2>7, <2>8
<1>5. wanted' = FrameLength(Current.message) /\ wanted' \in Nat /\ wanted' > HeadLength
  BY <1>2, LongerThanHead DEF RecvMsgHead, FrameLength
<1>6. /\ buffer' \in Seq(Byte) /\ Len(buffer') = HeadLength /\ Turn(buffer') = buffer
  BY <1>2, <1>4, TurnIs, Lengths
<1>7. Raw' = Raw
  BY <1>1, <1>2, <1>5, <1>6 DEF Raw
<1>8. Receiving'
  <2>1. Streams(T)'
    BY <1>1, <1>3, <1>7, SameStream
  <2>2. HeadKnown'
    <3>1. Current' = Current
      BY <1>1 DEF Current
    <3>2. QED
      BY <1>1, <1>2, <1>5, <1>6, <3>1, Lengths DEF HeadKnown
  <2>3. QED
    BY <2>1, <2>2 DEF Receiving
<1>9. Types'
  BY <1>1, <1>5, <1>6 DEF IInv, Types
<1>10. QED
  BY <1>1, <1>8, <1>9
     DEF IInv, Sending, DeliversWhatWasSent, FailsForCause, Failing, Idle, LoggedOn

(* The current message is delivered, ... *)
LEMMA Delivers ==
  ASSUME IInv, phase \in {"logon", "on"}, MessageRead, UNCHANGED <<wire, sent>>,
         ~Current.damaged, Deliver(Current.message)
  PROVE  IInv'
<1> DEFINE d == Len(delivered)
           k == Len(sent)
           m == Current.message
<1>1. /\ delivered' = Append(delivered, m) /\ buffer' = <<>> /\ wanted' = HeadLength
      /\ phase' = "on"
  BY DEF Deliver
<1>2. HeadKnown /\ Sendable(m) /\ \A T : Streams(T) => wire = T[d + 1]
  BY WholeMessage
<1>3. Types /\ d \in Nat /\ k \in Nat /\ d < k /\ wire \in Seq(Byte)
      /\ delivered \in Seq(Message)
      /\ m \in Message
  BY <1>2 DEF IInv, Types, HeadKnown, Sendable
<1> HIDE DEF m
<1>4. /\ delivered' \in Seq(Message) /\ Len(delivered') = d + 1
      /\ delivered'[d + 1] = m /\ \A i \in 1 .. d : delivered'[i] = delivered[i]
  BY <1>1, <1>3
<1>5. PICK T : Streams(T)
  BY DEF IInv, Receiving
<1>6. /\ T \in [d .. k -> Seq(Byte)] /\ T[k] = <<>>
      /\ \A j \in d + 1 .. k : Follows(T, j)
  BY <1>5 DEF Streams
<1>7. PICK U : U \in [d + 1 .. k -> Seq(Byte)] /\ \A j \in d + 1 .. k : U[j] = T[j]
  <2> DEFINE W == [j \in d + 1 .. k |-> T[j]]
  <2>1. \A j \in d + 1 .. k : j \in d .. k
    BY <1>3
  <2>2. W \in [d + 1 .. k -> Seq(Byte)] /\ \A j \in d + 1 .. k : W[j] = T[j]
    BY <1>6, <2>1
  <2>3. QED
    BY <2>2
<1>8. Streams(U)'
  <2>1. Raw' = <<>> /\ Raw' \o wire' = wire
    BY <1>1, <1>3, Lengths DEF Raw
  <2>2. d + 1 \in d + 1 .. k /\ k \in d + 1 .. k
    BY <1>3
  <2>3. U[d + 1] = (Raw \o wire)' /\ U[k] = <<>>
    BY <1>2, <1>5, <1>6, <1>7, <2>1, <2>2
  <2>4. ASSUME NEW j \in d + 2 .. k PROVE Follows(U, j)'
    <3>1. j \in d + 1 .. k /\ j - 1 \in d + 1 .. k
      BY <1>3
    <3>2. Follows(T, j) /\ U[j] = T[j] /\ U[j - 1] = T[j - 1]
      BY <1>6, <1>7, <3>1
    <3>3. QED
      BY <3>2 DEF Follows
  <2>5. \A j \in Len(delivered') + 1 .. Len(sent') : Follows(U, j)'
    <3>1. Len(delivered') + 1 = d + 2 /\ Len(sent') = k
      BY <1>3, <1>4
    <3>2. QED
      BY <2>4, <3>1
  <2>6. U \in [Len(delivered') .. Len(sent') -> Seq(Byte)] /\ U[Len(sent')] = <<>>
        /\ U[Len(delivered')] = (Raw \o wire)'
    BY <1>4, <1>7, <2>3
  <2>7. QED
    BY <2>5, <2>6 DEF Streams
<1>9. Receiving'
  BY <1>1, <1>8, Lengths DEF Receiving
<1>10. Types'
  BY <1>1, <1>3, <1>4, Lengths DEF Types
<1>11. DeliversWhatWasSent'
  <2>1. ASSUME NEW i \in 1 .. d + 1
        PROVE  delivered'[i] = sent[i].message /\ ~sent[i].damaged
    <3>1. CASE i = d + 1
      BY <1>4, <3>1 DEF Current, m
    <3>2. CASE i # d + 1
      <4>1. i \in 1 .. d
        BY <1>3, <3>2
      <4>2. QED
        BY <1>4, <4>1 DEF IInv, DeliversWhatWasSent
    <3>3. QED
      BY <3>1, <3>2
  <2>2. DOMAIN delivered' = 1 .. d + 1
    BY <1>4
  <2>3. QED
    BY <1>3, <1>4, <2>1, <2>2 DEF DeliversWhatWasSent
<1>12. LoggedOn' /\ Idle' /\ Failing' /\ FailsForCause' /\ Sending'
  <2>1. delivered' # <<>>
    BY <1>3, <1>4
  <2>2. QED
    BY <1>1, <2>1 DEF LoggedOn, Idle, Failing, FailsForCause, Sending, IInv
<1>13. QED
  BY <1>9, <1>10, <1>11, <1>12 DEF IInv

(* ... or the session fails. *)
LEMMA Fails ==
  ASSUME IInv, HeadKnown, UNCHANGED <<wire, sent>>, Current.damaged, Fail
  PROVE  IInv'
<1>1. phase' = "failed" /\ UNCHANGED <<buffer, wanted, delivered>>
  BY DEF Fail, reading
<1>2. FailsForCause' /\ Failing'
  BY <1>1 DEF FailsForCause, Failing, Current, HeadKnown
<1>3. Types' /\ Receiving' /\ Idle' /\ LoggedOn' /\ Sending' /\ DeliversWhatWasSent'
  BY <1>1 DEF IInv, Types, Receiving, Idle, LoggedOn, Sending, DeliversWhatWasSent
<1>4. QED
  BY <1>2, <1>3 DEF IInv

-----------------------------------------------------------------------------
(* What is handed on is the current message. *)
LEMMA LogonRest ==
  ASSUME IInv, RecvLogonRest
  PROVE  /\ phase = "logon" /\ MessageRead /\ HeadKnown /\ UNCHANGED <<wire, sent>>
         /\ Current.damaged \in BOOLEAN
         /\ ~Current.damaged => Deliver(Current.message) /\ Current.message.type = LogonType
         /\ Current.damaged => Fail
<1>1. phase = "logon" /\ MessageRead /\ UNCHANGED <<wire, sent>>
  BY DEF RecvLogonRest
<1>2. /\ HeadKnown /\ Sendable(Current.message) /\ Current.damaged \in BOOLEAN
      /\ Verifies(buffer) <=> ~Current.damaged
      /\ ~Current.damaged =>
           BodyOf(buffer) = Current.message.body /\ MsgType(buffer) = Current.message.type
  BY <1>1, WholeMessage
<1>3. ASSUME ~Current.damaged
      PROVE  Deliver(Current.message) /\ Current.message.type = LogonType
  <2>1. Deliver([type |-> MsgType(buffer), body |-> BodyOf(buffer)])
    BY <1>2, <1>3 DEF RecvLogonRest
  <2>2. Current.message = [type |-> MsgType(buffer), body |-> BodyOf(buffer)]
    BY <1>2, <1>3 DEF Sendable, Message
  <2>3. Current.message.type = LogonType
    BY <1>1, <1>2, <1>3 DEF HeadKnown
  <2>4. QED
    BY <2>1, <2>2, <2>3
<1>4. ASSUME Current.damaged PROVE Fail
  BY <1>2, <1>4 DEF RecvLogonRest
<1>5. QED
  BY <1>1, <1>2, <1>3, <1>4

(* The same of a later message, whose head has been turned round. *)
LEMMA MsgRest ==
  ASSUME IInv, RecvMsgRest
  PROVE  /\ phase = "on" /\ MessageRead /\ HeadKnown /\ UNCHANGED <<wire, sent>>
         /\ Current.damaged \in BOOLEAN
         /\ ~Current.damaged => Deliver(Current.message)
         /\ Current.damaged => Fail
<1>1. phase = "on" /\ MessageRead /\ UNCHANGED <<wire, sent>>
  BY DEF RecvMsgRest
<1>2. /\ HeadKnown /\ Sendable(Current.message) /\ Current.damaged \in BOOLEAN
      /\ Verifies(buffer) <=> ~Current.damaged
      /\ ~Current.damaged =>
           BodyOf(buffer) = Current.message.body /\ Word(buffer, 1) = Current.message.type
  BY <1>1, WholeMessage
<1>3. ASSUME ~Current.damaged PROVE Deliver(Current.message)
  <2>1. Deliver([type |-> Word(buffer, 1), body |-> BodyOf(buffer)])
    BY <1>2, <1>3 DEF RecvMsgRest
  <2>2. Current.message = [type |-> Word(buffer, 1), body |-> BodyOf(buffer)]
    BY <1>2, <1>3 DEF Sendable, Message
  <2>3. QED
    BY <2>1, <2>2
<1>4. ASSUME Current.damaged PROVE Fail
  BY <1>2, <1>4 DEF RecvMsgRest
<1>5. QED
  BY <1>1, <1>2, <1>3, <1>4

(* A session is opened or ends. *)
LEMMA StartStep ==
  ASSUME IInv,
         \/ \E line \in Lines : ReadConfig(line)
         \/ NoConfig \/ Configure \/ SendLogon \/ SendLogout
  PROVE  IInv'
<1>1. CASE phase = "config" /\ phase' \in {"config", "start", "ended"}
           /\ UNCHANGED <<wire, buffer, wanted, sent, delivered>>
  BY <1>1
     DEF IInv, Types, Sending, DeliversWhatWasSent, FailsForCause, Failing, Idle, LoggedOn,
     Receiving
<1>2. ASSUME NEW line \in Lines, ReadConfig(line)
      PROVE  phase = "config" /\ phase' = phase
             /\ UNCHANGED <<wire, buffer, wanted, sent, delivered>>
  BY <1>2 DEF ReadConfig, reading
<1>3. ASSUME NoConfig
      PROVE  phase = "config" /\ phase' = "ended"
             /\ UNCHANGED <<wire, buffer, wanted, sent, delivered>>
  BY <1>3 DEF NoConfig, reading
<1>4. ASSUME Configure
      PROVE  phase = "config" /\ phase' = "start"
             /\ UNCHANGED <<wire, buffer, wanted, sent, delivered>>
  BY <1>4 DEF Configure, reading
<1>5. CASE SendLogon
  <2>1. phase = "start" /\ phase' = "logon"
        /\ UNCHANGED <<wire, buffer, wanted, sent, delivered>>
    BY <1>5 DEF SendLogon, reading
  <2>2. /\ sent = <<>> /\ delivered = <<>> /\ wire = <<>> /\ buffer = <<>>
        /\ wanted = HeadLength
    BY <2>1 DEF IInv, Idle
  <2>3. Types' /\ Sending' /\ DeliversWhatWasSent' /\ FailsForCause' /\ Failing' /\ Idle'
        /\ LoggedOn'
    BY <2>1, <2>2
       DEF IInv, Types, Sending, DeliversWhatWasSent, FailsForCause, Failing, Idle, LoggedOn
  <2>4. Streams([j \in 0 .. 0 |-> <<>>])'
    <3> DEFINE T == [j \in 0 .. 0 |-> <<>>]
    <3>1. T \in [0 .. 0 -> Seq(Byte)] /\ T[0] = <<>>
      OBVIOUS
    <3>2. Raw' = <<>> /\ wire' = <<>> /\ Len(sent') = 0 /\ Len(delivered') = 0
      BY <2>1, <2>2 DEF Raw
    <3>3. <<>> \o <<>> = <<>>
      OBVIOUS
    <3>4. T[0] = (Raw \o wire)'
      BY <3>1, <3>2, <3>3
    <3> HIDE DEF T
    <3>5. Streams(T)'
      BY <3>1, <3>2, <3>4 DEF Streams
    <3>6. QED
      BY <3>5 DEF T
  <2>5. Receiving'
    BY <2>1, <2>2, <2>4, Lengths DEF Receiving
  <2>6. QED
    BY <2>3, <2>5 DEF IInv
<1>6. CASE SendLogout
  <2>1. phase = "on" /\ phase' = "off"
        /\ UNCHANGED <<wire, buffer, wanted, sent, delivered>>
    BY <1>6 DEF SendLogout, reading
  <2>2. QED
    BY <2>1
       DEF IInv, Types, Sending, DeliversWhatWasSent, FailsForCause, Failing, Idle,
       LoggedOn, Receiving
<1>7. QED
  BY <1>1, <1>2, <1>3, <1>4, <1>5, <1>6

(* A step that changes nothing. *)
LEMMA StutterIInv ==
  ASSUME IInv, UNCHANGED vars
  PROVE  IInv'
<1>1. UNCHANGED <<phase, wire, buffer, wanted, sent, delivered>>
  BY DEF vars, reading
<1>2. Receiving'
  <2>1. SUFFICES ASSUME phase \in {"logon", "on"} PROVE Receiving'
    BY <1>1 DEF Receiving
  <2>2. PICK T : Streams(T)
    BY <2>1 DEF IInv, Receiving
  <2>3. Raw' = Raw
    BY <1>1 DEF Raw
  <2>4. Streams(T)'
    BY <1>1, <2>2, <2>3, SameStream
  <2>5. QED
    BY <1>1, <2>1, <2>4 DEF IInv, Receiving, HeadKnown, Current
<1>3. QED
  BY <1>1, <1>2
     DEF IInv, Types, Sending, DeliversWhatWasSent, FailsForCause, Failing, Idle, LoggedOn

(* Every step keeps the invariant. *)
LEMMA NextIInv ==
  ASSUME IInv, Next
  PROVE  IInv'
<1>1. CASE \/ \E line \in Lines : ReadConfig(line)
           \/ NoConfig \/ Configure \/ SendLogon \/ SendLogout
  BY <1>1, StartStep
<1>2. CASE \E n \in 1 .. Len(wire) : Recv(n)
  BY <1>2, RecvStep
<1>3. CASE RecvLogonHead
  BY <1>3, LogonHeadStep
<1>4. CASE RecvLogonRest
  <2>1. /\ phase = "logon" /\ MessageRead /\ HeadKnown /\ UNCHANGED <<wire, sent>>
        /\ Current.damaged \in BOOLEAN
        /\ ~Current.damaged => Deliver(Current.message)
        /\ Current.damaged => Fail
    BY <1>4, LogonRest
  <2>2. QED
    BY <2>1, Delivers, Fails
<1>5. CASE RecvMsgHead
  BY <1>5, MsgHeadStep
<1>6. CASE RecvMsgRest
  <2>1. /\ phase = "on" /\ MessageRead /\ HeadKnown /\ UNCHANGED <<wire, sent>>
        /\ Current.damaged \in BOOLEAN
        /\ ~Current.damaged => Deliver(Current.message)
        /\ Current.damaged => Fail
    BY <1>6, MsgRest
  <2>2. QED
    BY <2>1, Delivers, Fails
<1>7. CASE \E m \in Answers \cup Messages : GatewaySends(m)
  BY <1>7, SendsStep
<1>8. QED
  BY <1>1, <1>2, <1>3, <1>4, <1>5, <1>6, <1>7 DEF Next, ClientStep

(* The inductive invariant holds of every behaviour of the session. *)
THEOREM Invariance == Spec => []IInv
<1>1. Init => IInv
  BY InitIInv
<1>2. IInv /\ [Next]_vars => IInv'
  BY StutterIInv, NextIInv
<1>3. QED
  BY <1>1, <1>2, PTL DEF Spec

(* However recv() cuts up the stream, RecvLogon and RecvMsg hand on what the *)
(* gateway sent, in order, and never a message with a changed byte.          *)
THEOREM Undamaged == Spec => []DeliversWhatWasSent
<1>1. IInv => DeliversWhatWasSent
  BY DEF IInv
<1>2. QED
  BY <1>1, Invariance, PTL

(* RecvLogon and RecvMsg give up a session only because of a message that is *)
(* damaged or refuses the logon: the turned head and the signed bytes in the *)
(* checksum of a good message do no harm.                                    *)
THEOREM NeverWithoutCause == Spec => []FailsForCause
<1>1. IInv => FailsForCause
  BY DEF IInv
<1>2. QED
  BY <1>1, Invariance, PTL

-----------------------------------------------------------------------------
(* The session is a Channel. *)

(* Handing on the current message is a step of the channel, ... *)
LEMMA DeliversRefines ==
  ASSUME IInv, HeadKnown, UNCHANGED sent, ~Current.damaged, Deliver(Current.message),
         phase \in {"logon", "on"},
         phase = "logon" => Current.message.type = LogonType
  PROVE  TheChannel!Deliver
<1>1. /\ delivered' = Append(delivered, Current.message) /\ phase' = "on"
  BY DEF Deliver
<1>2. Status = "open" /\ Status' = "open" /\ Len(delivered) < Len(sent)
  BY <1>1 DEF Status, HeadKnown
<1>3. delivered = <<>> => Accepts(Current.message)
  BY DEF IInv, LoggedOn, Accepts
<1>4. QED
  BY <1>1, <1>2, <1>3
     DEF TheChannel!Deliver, TheChannel!Waiting, TheChannel!Cause, TheChannel!First, Current

(* ... and so is giving up, ... *)
LEMMA FailsRefines ==
  ASSUME Len(delivered) < Len(sent), UNCHANGED sent, Fail, phase \in {"logon", "on"},
         Current.damaged \/ (delivered = <<>> /\ ~Accepts(Current.message))
  PROVE  TheChannel!Fail
<1>1. phase' = "failed" /\ delivered' = delivered
  BY DEF Fail
<1>2. Status = "open" /\ Status' = "failed"
  BY <1>1 DEF Status
<1>3. QED
  BY <1>1, <1>2
     DEF TheChannel!Fail, TheChannel!Waiting, TheChannel!Cause, TheChannel!First, Current

(* ... and every other step of the session is one, or leaves the channel as it is. *)
LEMMA StepRefines ==
  ASSUME IInv, IInv', [Next]_vars
  PROVE  [TheChannel!Next]_(TheChannel!vars)
<1>1. CASE UNCHANGED <<Status, sent, delivered>>
  BY <1>1 DEF TheChannel!vars
<1>2. ASSUME UNCHANGED phase, UNCHANGED <<sent, delivered>>
      PROVE  UNCHANGED <<Status, sent, delivered>>
  BY <1>2 DEF Status
<1>3. CASE UNCHANGED vars
  BY <1>1, <1>2, <1>3 DEF vars
<1>4. CASE \E line \in Lines : ReadConfig(line)
  BY <1>1, <1>2, <1>4 DEF ReadConfig
<1>5. CASE NoConfig \/ Configure \/ SendLogon
  <2>1. UNCHANGED <<sent, delivered>> /\ Status = "open" /\ Status' = "open"
    BY <1>5 DEF NoConfig, Configure, SendLogon, Status
  <2>2. QED
    BY <1>1, <2>1
<1>6. CASE \E n \in 1 .. Len(wire) : Recv(n)
  BY <1>1, <1>2, <1>6 DEF Recv
<1>7. CASE SendLogout
  <2>1. Status = "open" /\ Status' = "left" /\ UNCHANGED <<sent, delivered>>
        /\ delivered # <<>>
    BY <1>7 DEF SendLogout, Status, IInv, LoggedOn
  <2>2. TheChannel!Leave
    BY <2>1 DEF TheChannel!Leave
  <2>3. QED
    BY <2>2 DEF TheChannel!Next
<1>8. ASSUME NEW m \in Answers \cup Messages, GatewaySends(m) PROVE TheChannel!Next
  <2>1. PICK damaged \in BOOLEAN :
          sent' = Append(sent, [message |-> m, damaged |-> damaged])
    BY <1>8 DEF GatewaySends
  <2>2. UNCHANGED <<phase, delivered>>
    BY <1>8 DEF GatewaySends
  <2>3. Status' = Status
    BY <2>2 DEF Status
  <2>4. TheChannel!Send(m, damaged)
    BY <2>1, <2>2, <2>3 DEF TheChannel!Send
  <2>5. QED
    BY <2>4 DEF TheChannel!Next
<1>9. CASE RecvLogonHead
  <2>1. phase = "logon" /\ HeadRead /\ UNCHANGED sent
    BY <1>9 DEF RecvLogonHead
  <2>2. CASE MsgType(buffer) = LogonType /\ BodyLength(buffer) = Len(LogonBody)
    <3>1. UNCHANGED phase /\ UNCHANGED <<sent, delivered>>
      BY <1>9, <2>2 DEF RecvLogonHead
    <3>2. QED
      BY <1>1, <1>2, <3>1
  <2>3. CASE ~(MsgType(buffer) = LogonType /\ BodyLength(buffer) = Len(LogonBody))
    <3>1. Fail
      BY <1>9, <2>3 DEF RecvLogonHead
    <3>2. Len(delivered) < Len(sent)
      BY <2>1, HeadReceived
    <3>3. Current.damaged \/ (delivered = <<>> /\ ~Accepts(Current.message))
      <4>1. phase' = "failed" /\ delivered' = delivered
        BY <3>1 DEF Fail
      <4>2. FailsForCause'
        BY DEF IInv
      <4>3. QED
        BY <2>1, <4>1, <4>2 DEF FailsForCause, Current
    <3>4. TheChannel!Fail
      BY <2>1, <3>1, <3>2, <3>3, FailsRefines
    <3>5. QED
      BY <3>4 DEF TheChannel!Next
  <2>4. QED
    BY <2>2, <2>3
<1>10. CASE RecvMsgHead
  BY <1>1, <1>2, <1>10 DEF RecvMsgHead
<1>11. CASE RecvLogonRest \/ RecvMsgRest
  <2>1. /\ phase \in {"logon", "on"} /\ HeadKnown /\ UNCHANGED sent
           /\ Current.damaged \in BOOLEAN
        /\ ~Current.damaged => /\ Deliver(Current.message)
                               /\ phase = "logon" => Current.message.type = LogonType
        /\ Current.damaged => Fail
    BY <1>11, LogonRest, MsgRest
  <2>2. CASE Current.damaged
    <3>1. TheChannel!Fail
      BY <2>1, <2>2, FailsRefines DEF HeadKnown
    <3>2. QED
      BY <3>1 DEF TheChannel!Next
  <2>3. CASE ~Current.damaged
    <3>1. TheChannel!Deliver
      BY <2>1, <2>3, DeliversRefines
    <3>2. QED
      BY <3>1 DEF TheChannel!Next
  <2>4. QED
    BY <2>2, <2>3
<1>12. QED
  BY <1>3, <1>4, <1>5, <1>6, <1>7, <1>8, <1>9, <1>10, <1>11 DEF Next, ClientStep

(* The safety part of ImplementsChannel, which TLC checks with its progress:     *)
(* bytes, words, checksums and the parts in which they arrive make no difference *)
(* to what the rest of the client sees of a session.                             *)
THEOREM SessionIsChannel == Spec => TheChannel!SafeSpec
<1>1. Init => TheChannel!Init
  BY DEF Init, TheChannel!Init, Status
<1>2. IInv /\ IInv' /\ [Next]_vars => [TheChannel!Next]_(TheChannel!vars)
  BY StepRefines
<1>3. QED
  BY <1>1, <1>2, Invariance, PTL DEF Spec, TheChannel!SafeSpec

-----------------------------------------------------------------------------
(* config.ini. *)

(* The inductive invariant of the reader. *)
Section == SectionName \cup {NoReader.section}
Key == {MakeKey(section, name) : section \in Section, name \in Name}
Table == UNION {[K -> Seq(Char)] : K \in SUBSET Key}
Reader == [section : Section, lineno : Nat, error : Nat, values : Table]
AllWhole(lines) == \A i \in DOMAIN lines : Whole(lines[i])
AllSound(lines) == \A i \in DOMAIN lines : Understood(lines[i])
Wrong(lines) == {i \in DOMAIN lines : Broken(lines[i]) \/ lines[i][1].kind = "text"}
FirstWrong(error, bad) ==
  /\ error \in bad \cup {0}
  /\ (error = 0) <=> (bad = {})
  /\ \A i \in bad : error <= i
FileRead ==
  /\ file \in Seq(Lines) /\ reader \in Reader
  /\ AllWhole(file) => reader.lineno = Len(file) /\ FirstWrong(reader.error, Wrong(file))
  /\ AllSound(file) =>
       /\ reader.section = SectionOf(file, Len(file))
       /\ \A key : GetString(reader.values, key, <<>>) = TextOf(file, key)

(* No values. *)
LEMMA EmptyTable == <<>> \in Table
<1>1. <<>> \in [{} -> Seq(Char)]
  OBVIOUS
<1>2. QED
  BY <1>1 DEF Table

(* A value that is handed over goes below what its key has. *)
LEMMA HandlerIs ==
  ASSUME NEW v \in Table, NEW key \in Key, NEW val \in Seq(Char)
  PROVE  /\ ValueHandler(v, key, val) \in Table
         /\ \A k : GetString(ValueHandler(v, key, val), k, <<>>) =
              IF k = key /\ val # <<>> THEN Below(GetString(v, k, <<>>), val)
                                      ELSE GetString(v, k, <<>>)
<1>1. PICK K \in SUBSET Key : v \in [K -> Seq(Char)]
  BY DEF Table
<1> DEFINE before == IF key \in DOMAIN v THEN v[key] ELSE <<>>
           new == IF before # <<>> /\ val # <<>> THEN before \o <<NewLine>> \o val
                                                 ELSE before \o val
           w == [k \in K \cup {key} |-> IF k = key THEN new ELSE v[k]]
<1>2. DOMAIN v = K /\ \A k \in K : v[k] \in Seq(Char)
  BY <1>1
<1>3. before \in Seq(Char) /\ NewLine \in Char
  BY <1>2, LinesAssumption
<1>4. new \in Seq(Char) /\ <<NewLine>> \in Seq(Char)
  BY <1>3
<1>5. new = IF val # <<>> THEN Below(before, val) ELSE before
  <2>1. before = <<>> => before \o val = val
    BY <1>3
  <2>2. val = <<>> => before \o val = before
    BY <1>3
  <2>3. QED
    BY <2>1, <2>2 DEF Below
<1>6. before = GetString(v, key, <<>>)
  BY DEF GetString
<1>7. ValueHandler(v, key, val) = w
  BY <1>2 DEF ValueHandler, Store
<1> HIDE DEF before, new
<1>8. w \in [K \cup {key} -> Seq(Char)]
  BY <1>2, <1>4
<1>9. DOMAIN w = K \cup {key} /\ w[key] = new /\ \A k \in K \ {key} : w[k] = v[k]
  OBVIOUS
<1> HIDE DEF w
<1>10. w \in Table
  BY <1>8 DEF Table
<1>11. ASSUME NEW k
       PROVE  GetString(w, k, <<>>) =
                IF k = key /\ val # <<>> THEN Below(GetString(v, k, <<>>), val)
                                        ELSE GetString(v, k, <<>>)
  <2>1. CASE k = key
    <3>1. GetString(w, k, <<>>) = new
      BY <2>1, <1>9 DEF GetString
    <3>2. QED
      BY <2>1, <3>1, <1>5, <1>6
  <2>2. CASE k # key
    BY <2>2, <1>2, <1>9 DEF GetString
  <2>3. QED
    BY <2>1, <2>2
<1>12. QED
  BY <1>7, <1>10, <1>11

(* One turn of the parser's loop. *)
LEMMA TakeIs ==
  ASSUME NEW r \in Reader, NEW p \in Piece
  PROVE  /\ Take(r, p) \in Reader /\ Take(r, p).lineno = r.lineno + 1
         /\ Take(r, p).error =
              IF (p.kind = "text" \/ (p.kind = "section" /\ ~p.closed)) /\ r.error = 0
              THEN r.lineno + 1 ELSE r.error
         /\ Take(r, p).section =
              IF p.kind = "section" /\ p.closed THEN Shortened(p.name) ELSE r.section
         /\ p.kind = "pair" =>
              Take(r, p).values = ValueHandler(r.values, MakeKey(r.section, p.name),
              p.value)
         /\ p.kind # "pair" => Take(r, p).values = r.values
<1> DEFINE q == [r EXCEPT !.lineno = @ + 1]
<1>1. /\ q \in Reader /\ q.section = r.section /\ q.lineno = r.lineno + 1
      /\ q.error = r.error /\ q.values = r.values
  BY DEF Reader
<1>2. /\ Bad(q) \in Reader /\ Bad(q).section = r.section /\ Bad(q).lineno = r.lineno + 1
      /\ Bad(q).error = (IF r.error = 0 THEN r.lineno + 1 ELSE r.error)
      /\ Bad(q).values = r.values
  BY <1>1 DEF Bad, Reader
<1>3. /\ p.kind \in {"comment", "text", "section", "pair"}
      /\ p.kind = "section" => p.name \in SectionName /\ p.closed \in BOOLEAN
      /\ p.kind = "pair" => p.name \in Name /\ p.value \in Seq(Char)
  BY DEF Piece
<1>4. Take(r, p) = CASE p.kind = "comment" -> q
        [] p.kind = "section" -> IF p.closed THEN [q EXCEPT !.section = Shortened(p.name)]
                                                  ELSE Bad(q)
        [] p.kind = "pair" ->
             [q EXCEPT !.values = ValueHandler(@, MakeKey(q.section, p.name), p.value)]
        [] p.kind = "text" -> Bad(q)
  BY DEF Take
<1> HIDE DEF q
<1>5. CASE p.kind = "comment"
  BY <1>1, <1>4, <1>5
<1>6. CASE p.kind = "text"
  BY <1>2, <1>4, <1>6
<1>7. CASE p.kind = "section" /\ ~p.closed
  BY <1>2, <1>4, <1>7
<1>8. CASE p.kind = "section" /\ p.closed
  <2>1. Take(r, p) = [q EXCEPT !.section = Shortened(p.name)]
    BY <1>4, <1>8
  <2>2. Shortened(p.name) \in Section
    <3>1. p.name \in SectionName
      BY <1>3, <1>8
    <3>2. <<>> \in Seq(Char)
      OBVIOUS
    <3>3. Shortened(p.name) \in SectionName
      BY <3>1, <3>2 DEF Shortened, SectionName
    <3>4. QED
      BY <3>3 DEF Section
  <2> HIDE DEF Shortened
  <2>3. QED
    BY <1>1, <1>8, <2>1, <2>2 DEF Reader
<1>9. CASE p.kind = "pair"
  <2> DEFINE new == ValueHandler(r.values, MakeKey(r.section, p.name), p.value)
  <2>1. Take(r, p) = [q EXCEPT !.values = new]
    BY <1>1, <1>4, <1>9 DEF Reader
  <2>2. r.values \in Table /\ r.section \in Section
    BY DEF Reader
  <2>3. MakeKey(r.section, p.name) \in Key /\ p.value \in Seq(Char)
    BY <1>3, <1>9, <2>2 DEF Key
  <2>4. new \in Table
    <3> HIDE DEF new
    <3>1. QED
      BY <2>2, <2>3, HandlerIs DEF new
  <2> HIDE DEF new
  <2>5. /\ Take(r, p) \in Reader /\ Take(r, p).section = r.section
        /\ Take(r, p).lineno = r.lineno + 1 /\ Take(r, p).error = r.error
        /\ Take(r, p).values = new
    BY <1>1, <2>1, <2>4 DEF Reader
  <2>6. QED
    BY <1>9, <2>5 DEF new
<1>10. QED
  BY <1>3, <1>5, <1>6, <1>7, <1>8, <1>9

(* The pieces of a line are taken one after the other; a line that is not split is one. *)
LEMMA AfterIs ==
  ASSUME NEW r \in Reader, NEW line \in Seq(Piece)
  PROVE  /\ After(line, r) \in Reader
         /\ Len(line) = 1 => After(line, r) = Take(r, line[1])
<1> DEFINE n == Len(line)
           Solves(f) == f = [i \in 0 .. n |-> IF i = 0 THEN r ELSE Take(f[i - 1], line[i])]
           F == CHOOSE f : Solves(f)
           g == [i \in 1 .. n |-> [x \in Reader |-> Take(x, line[i])]]
<1>1. \A i \in 1 .. n : \A x \in Reader : Take(x, line[i]) \in Reader
  <2>1. \A i \in 1 .. n : line[i] \in Piece
    OBVIOUS
  <2>2. QED
    BY <2>1, TakeIs
<1>2. n \in Nat
  OBVIOUS
<1>3. After(line, r) = F[n]
  BY DEF After
<1> HIDE DEF n
<1>4. g \in [1 .. n -> [Reader -> Reader]]
  BY <1>1
<1>5. \A i \in 1 .. n : \A x \in Reader : g[i][x] = Take(x, line[i])
  OBVIOUS
<1> HIDE DEF g
<1>6. PICK f : Recursive(f, n, Reader, r, g)
  BY <1>2, <1>4, Recursion
<1>7. Solves(f)
  <2>1. /\ f \in [0 .. n -> Reader] /\ f[0] = r
        /\ \A i \in 1 .. n : f[i - 1] \in Reader /\ f[i] = g[i][f[i - 1]]
    BY <1>2, <1>6, RecursiveStep
  <2>2. \A i \in 1 .. n : f[i] = Take(f[i - 1], line[i])
    BY <1>5, <2>1
  <2>3. QED
    BY <2>1, <2>2
<1>8. Solves(F)
  <2> HIDE DEF Solves
  <2>1. QED
    BY <1>7
<1> HIDE DEF F
<1>9. F = [i \in 0 .. n |-> F[i]] /\ F[0] = r
  BY <1>2, <1>8
<1>10. ASSUME NEW i \in 1 .. n PROVE F[i] = Take(F[i - 1], line[i])
  <2>1. i \in 0 .. n /\ i # 0
    BY <1>2
  <2>2. QED
    BY <1>8, <2>1
<1>11. \A i \in 1 .. n : F[i - 1] \in Reader => F[i] = g[i][F[i - 1]]
  BY <1>5, <1>10
<1>12. F[n] \in Reader
  <2>1. Recursive(F, n, Reader, r, g)
    BY <1>2, <1>4, <1>9, <1>11, Stays
  <2>2. F \in [0 .. n -> Reader]
    BY <1>2, <2>1, RecursiveStep
  <2>3. QED
    BY <1>2, <2>2
<1>13. n = 1 => F[n] = Take(r, line[1])
  BY <1>9, <1>10
<1>14. QED
  BY <1>3, <1>12, <1>13 DEF n

(* Every line begins with a piece. *)
LEMMA PieceIs ==
  ASSUME NEW lines \in Seq(Lines), NEW i \in 1 .. Len(lines)
  PROVE  /\ lines[i] \in Lines /\ lines[i] \in Seq(Piece) /\ lines[i][1] \in Piece
         /\ lines[i][1].kind = "section" => lines[i][1].closed \in BOOLEAN
         /\ lines[i][1].kind = "pair" => /\ lines[i][1].name \in Name
                                         /\ lines[i][1].value \in Seq(Char)
<1>1. lines[i] \in Lines
  OBVIOUS
<1>2. lines[i] \in Seq(Piece) /\ lines[i] # <<>>
  BY <1>1, LinesAssumption
<1>3. lines[i][1] \in Piece
  BY <1>2
<1>4. QED
  BY <1>1, <1>2, <1>3 DEF Piece

(* There is one header at most that a line stands under. *)
LEMMA HeaderWhere ==
  ASSUME NEW lines, NEW i \in Nat, NEW h \in 0 .. i, h # 0 => lines[h][1].kind = "section",
         \A j \in h + 1 .. i : lines[j][1].kind # "section"
  PROVE  Header(lines, i) = h
<1> DEFINE Is(k) == /\ k # 0 => lines[k][1].kind = "section"
                    /\ \A j \in k + 1 .. i : lines[j][1].kind # "section"
<1>1. ASSUME NEW k \in 0 .. i, Is(k) PROVE k = h
  <2>1. ~(k < h)
    BY <1>1
  <2>2. ~(h < k)
    BY <1>1
  <2>3. QED
    BY <2>1, <2>2
<1>2. Is(h)
  OBVIOUS
<1>3. Header(lines, i) = CHOOSE k \in 0 .. i : Is(k)
  BY DEF Header
<1> HIDE DEF Is
<1>4. QED
  BY <1>1, <1>2, <1>3

(* There is one. *)
LEMMA HeaderIs ==
  ASSUME NEW lines, NEW i \in Nat
  PROVE  LET h == Header(lines, i)
         IN  /\ h \in 0 .. i
             /\ h # 0 => lines[h][1].kind = "section"
             /\ \A j \in h + 1 .. i : lines[j][1].kind # "section"
<1> DEFINE T == {h \in 0 .. i : h # 0 => lines[h][1].kind = "section"}
<1>1. PICK h \in T : \A j \in T : j <= h
  <2>1. 0 \in T /\ T \in SUBSET (0 .. i)
    OBVIOUS
  <2> HIDE DEF T
  <2>2. QED
    BY <2>1, GreatestNat
<1>2. \A j \in h + 1 .. i : lines[j][1].kind # "section"
  BY <1>1
<1>3. Header(lines, i) = h
  BY <1>1, <1>2, HeaderWhere
<1>4. QED
  BY <1>1, <1>2, <1>3

(* Another line changes the section of no line above. *)
LEMMA SectionMore ==
  ASSUME NEW lines \in Seq(Lines), NEW line \in Lines
  PROVE  LET longer == Append(lines, line)
             n == Len(lines)
         IN  /\ \A i \in 0 .. n : SectionOf(longer, i) = SectionOf(lines, i)
             /\ SectionOf(longer, n + 1) = IF line[1].kind = "section" THEN line[1].name
                                                                      ELSE SectionOf(lines,
                                                                      n)
<1> DEFINE longer == Append(lines, line)
           n == Len(lines)
<1>1. /\ n \in Nat /\ Len(longer) = n + 1 /\ longer[n + 1] = line
      /\ \A i \in 1 .. n : longer[i] = lines[i]
  OBVIOUS
<1> HIDE DEF longer, n
<1>2. ASSUME NEW i \in 0 .. n PROVE SectionOf(longer, i) = SectionOf(lines, i)
  <2>1. PICK h \in 0 .. i : /\ h = Header(lines, i)
                            /\ h # 0 => lines[h][1].kind = "section"
                            /\ \A j \in h + 1 .. i : lines[j][1].kind # "section"
    BY <1>1, HeaderIs
  <2>2. h # 0 => longer[h] = lines[h]
    BY <1>1
  <2>3. \A j \in h + 1 .. i : longer[j][1].kind # "section"
    BY <1>1, <2>1
  <2>4. Header(longer, i) = h
    <3>1. h # 0 => longer[h][1].kind = "section"
      BY <2>1, <2>2
    <3>2. QED
      BY <1>1, <2>3, <3>1, HeaderWhere
  <2>5. /\ SectionOf(longer, i) = IF h = 0 THEN NoReader.section ELSE longer[h][1].name
        /\ SectionOf(lines, i) = IF h = 0 THEN NoReader.section ELSE lines[h][1].name
    BY <2>1, <2>4, Zenon DEF SectionOf
  <2>6. QED
    BY <2>2, <2>5
<1>3. SectionOf(longer, n + 1) = IF line[1].kind = "section" THEN line[1].name
                                                            ELSE SectionOf(lines, n)
  <2>1. CASE line[1].kind = "section"
    <3>1. Header(longer, n + 1) = n + 1
      BY <1>1, <2>1, HeaderWhere
    <3>2. QED
      BY <1>1, <2>1, <3>1 DEF SectionOf
  <2>2. CASE line[1].kind # "section"
    <3>1. PICK h \in 0 .. n : /\ h = Header(lines, n)
                              /\ h # 0 => lines[h][1].kind = "section"
                              /\ \A j \in h + 1 .. n : lines[j][1].kind # "section"
      BY <1>1, HeaderIs
    <3>2. h # 0 => longer[h] = lines[h]
      BY <1>1
    <3>3. \A j \in h + 1 .. n + 1 : longer[j][1].kind # "section"
      BY <1>1, <2>2, <3>1
    <3>4. Header(longer, n + 1) = h
      <4>1. h # 0 => longer[h][1].kind = "section"
        BY <3>1, <3>2
      <4>2. h \in 0 .. n + 1 /\ n + 1 \in Nat
        BY <1>1
      <4>3. QED
        BY <3>3, <4>1, <4>2, HeaderWhere
    <3>5. /\ SectionOf(longer,
             n + 1) = IF h = 0 THEN NoReader.section ELSE longer[h][1].name
          /\ SectionOf(lines, n) = IF h = 0 THEN NoReader.section ELSE lines[h][1].name
      BY <3>1, <3>4, Zenon DEF SectionOf
    <3>6. QED
      BY <2>2, <3>2, <3>5
  <2>3. QED
    BY <2>1, <2>2
<1>4. QED
  BY <1>2, <1>3 DEF longer, n

(* The text of a key, line by line. *)
LEMMA TextIs ==
  ASSUME NEW lines \in Seq(Lines), NEW key
  PROVE  \E f \in [0 .. Len(lines) -> Seq(Char)] :
           /\ f[0] = <<>> /\ TextOf(lines, key) = f[Len(lines)]
           /\ \A i \in 1 .. Len(lines) :
                f[i] = IF Writes(lines, i, key) THEN Below(f[i - 1], lines[i][1].value)
                                                ELSE f[i - 1]
<1> DEFINE n == Len(lines)
           Step(i, x) == IF Writes(lines, i, key) THEN Below(x, lines[i][1].value) ELSE x
           Solves(f) == f = [i \in 0 .. n |-> IF i = 0 THEN <<>> ELSE Step(i, f[i - 1])]
           F == CHOOSE f : Solves(f)
           g == [i \in 1 .. n |-> [x \in Seq(Char) |-> Step(i, x)]]
<1>1. ASSUME NEW i \in 1 .. n, NEW x \in Seq(Char) PROVE Step(i, x) \in Seq(Char)
  <2>1. Writes(lines, i, key) => lines[i][1].value \in Seq(Char)
    BY PieceIs DEF Writes, Pairs
  <2>2. <<NewLine>> \in Seq(Char)
    BY LinesAssumption
  <2>3. QED
    BY <2>1, <2>2 DEF Below
<1>2. n \in Nat /\ <<>> \in Seq(Char)
  OBVIOUS
<1>3. TextOf(lines, key) = F[n]
  BY DEF TextOf
<1> HIDE DEF n, Step
<1>4. g \in [1 .. n -> [Seq(Char) -> Seq(Char)]]
  BY <1>1
<1>5. \A i \in 1 .. n : \A x \in Seq(Char) : g[i][x] = Step(i, x)
  OBVIOUS
<1> HIDE DEF g
<1>6. PICK f : Recursive(f, n, Seq(Char), <<>>, g)
  BY <1>2, <1>4, Recursion
<1>7. Solves(f)
  <2>1. /\ f \in [0 .. n -> Seq(Char)] /\ f[0] = <<>>
        /\ \A i \in 1 .. n : f[i - 1] \in Seq(Char) /\ f[i] = g[i][f[i - 1]]
    BY <1>2, <1>6, RecursiveStep
  <2>2. \A i \in 1 .. n : f[i] = Step(i, f[i - 1])
    BY <1>5, <2>1
  <2>3. QED
    BY <2>1, <2>2
<1>8. Solves(F)
  <2> HIDE DEF Solves
  <2>1. QED
    BY <1>7
<1> HIDE DEF F
<1>9. F = [i \in 0 .. n |-> F[i]] /\ F[0] = <<>>
  BY <1>2, <1>8
<1>10. ASSUME NEW i \in 1 .. n PROVE F[i] = Step(i, F[i - 1])
  <2>1. i \in 0 .. n /\ i # 0
    BY <1>2
  <2>2. QED
    BY <1>8, <2>1
<1>11. \A i \in 1 .. n : F[i - 1] \in Seq(Char) => F[i] = g[i][F[i - 1]]
  BY <1>5, <1>10
<1>12. F \in [0 .. n -> Seq(Char)]
  <2>1. Recursive(F, n, Seq(Char), <<>>, g)
    BY <1>2, <1>4, <1>9, <1>11, Stays
  <2>2. QED
    BY <1>2, <2>1, RecursiveStep
<1>13. QED
  BY <1>3, <1>9, <1>10, <1>12 DEF n, Step

(* Another line adds its value to the text of its key. *)
LEMMA TextMore ==
  ASSUME NEW lines \in Seq(Lines), NEW line \in Lines, NEW key
  PROVE  LET longer == Append(lines, line)
         IN  TextOf(longer, key) =
               IF Writes(longer, Len(lines) + 1, key) THEN Below(TextOf(lines, key),
               line[1].value)
                                                      ELSE TextOf(lines, key)
<1> DEFINE longer == Append(lines, line)
           n == Len(lines)
<1>1. /\ n \in Nat /\ Len(longer) = n + 1 /\ longer \in Seq(Lines) /\ longer[n + 1] = line
      /\ \A i \in 1 .. n : longer[i] = lines[i]
  OBVIOUS
<1>2. \A i \in 1 .. n : Writes(longer, i, key) <=> Writes(lines, i, key)
  <2>1. \A i \in 1 .. n : SectionOf(longer, i) = SectionOf(lines, i)
    BY <1>1, SectionMore
  <2>2. DOMAIN longer = 1 .. n + 1 /\ DOMAIN lines = 1 .. n
    BY <1>1
  <2> HIDE DEF longer, n
  <2>3. QED
    BY <1>1, <2>1, <2>2 DEF Writes, Pairs, KeyAt
<1>3. PICK f \in [0 .. n -> Seq(Char)] :
        /\ f[0] = <<>> /\ TextOf(lines, key) = f[n]
        /\ \A i \in 1 .. n :
             f[i] = IF Writes(lines, i, key) THEN Below(f[i - 1], lines[i][1].value)
                                             ELSE f[i - 1]
  BY TextIs
<1> HIDE DEF longer
<1>4. PICK g \in [0 .. n + 1 -> Seq(Char)] :
        /\ g[0] = <<>> /\ TextOf(longer, key) = g[n + 1]
        /\ \A i \in 1 .. n + 1 :
             g[i] = IF Writes(longer, i, key) THEN Below(g[i - 1], longer[i][1].value)
                                              ELSE g[i - 1]
  BY <1>1, TextIs
<1> HIDE DEF n
<1>5. 0 .. n \subseteq {i \in 0 .. n : g[i] = f[i]}
  <2> DEFINE T == {i \in 0 .. n : g[i] = f[i]}
  <2>1. 0 \in T
    BY <1>1, <1>3, <1>4
  <2>2. ASSUME NEW i \in 1 .. n, i - 1 \in T PROVE i \in T
    <3>1. g[i - 1] = f[i - 1] /\ i \in 1 .. n + 1 /\ i \in 0 .. n
      BY <1>1, <2>2
    <3>2. QED
      BY <1>1, <1>2, <1>3, <1>4, <3>1
  <2> HIDE DEF T
  <2>3. QED
    BY <1>1, <2>1, <2>2, Along DEF T
<1>6. g[n] = f[n] /\ n + 1 - 1 = n /\ n + 1 \in 1 .. n + 1
  BY <1>1, <1>5
<1>7. TextOf(longer, key) =
        IF Writes(longer, n + 1, key) THEN Below(TextOf(lines, key), line[1].value)
                                      ELSE TextOf(lines, key)
  <2>1. longer[n + 1][1].value = line[1].value
    BY <1>1
  <2> DEFINE m == n + 1
  <2>4. m \in 1 .. n + 1 /\ m - 1 = n
    BY <1>1
  <2>5. g[m] = IF Writes(longer, m, key) THEN Below(g[m - 1], longer[m][1].value)
                                         ELSE g[m - 1]
    <3> HIDE DEF m
    <3>1. QED
      BY <1>4, <2>4
  <2>2. g[n + 1] = IF Writes(longer, n + 1, key) THEN Below(g[n], longer[n + 1][1].value)
                                                 ELSE g[n]
    BY <2>4, <2>5
  <2>3. QED
    BY <1>3, <1>4, <1>6, <2>1, <2>2
<1>8. QED
  BY <1>7 DEF longer, n

(* A file without lines. *)
LEMMA TextOfNothing ==
  ASSUME NEW key
  PROVE  TextOf(<<>>, key) = <<>> /\ SectionOf(<<>>, 0) = NoReader.section
<1>1. <<>> \in Seq(Lines) /\ Len(<<>>) = 0
  OBVIOUS
<1>2. TextOf(<<>>, key) = <<>>
  BY <1>1, TextIs
<1>3. Header(<<>>, 0) = 0
  BY 0 \in 0 .. 0, \A j \in 1 .. 0 : FALSE, HeaderWhere
<1>4. QED
  BY <1>2, <1>3 DEF SectionOf

(* The reader begins well. *)
LEMMA IniInitReads == file = <<>> /\ reader = NoReader => FileRead
<1>1. SUFFICES ASSUME file = <<>>, reader = NoReader PROVE FileRead
  OBVIOUS
<1>2. /\ NoReader.lineno = 0 /\ NoReader.error = 0 /\ NoReader.values = <<>>
      /\ NoReader \in Reader
  <2>1. NoReader.section \in Section
    BY DEF Section
  <2>2. NoReader.values \in Table
    BY EmptyTable DEF NoReader
  <2>3. NoReader.lineno \in Nat /\ NoReader.error \in Nat
    BY DEF NoReader
  <2>4. NoReader = [section |-> NoReader.section, lineno |-> NoReader.lineno,
                    error |-> NoReader.error, values |-> NoReader.values]
    BY DEF NoReader
  <2>5. NoReader \in Reader
    <3> HIDE DEF NoReader
    <3>1. QED
      BY <2>1, <2>2, <2>3, <2>4 DEF Reader
  <2>6. QED
    BY <2>5 DEF NoReader
<1>3. Wrong(<<>>) = {} /\ Len(<<>>) = 0 /\ <<>> \in Seq(Lines)
  BY DEF Wrong
<1>4. \A key : GetString(<<>>, key, <<>>) = <<>> /\ TextOf(<<>>, key) = <<>>
  BY TextOfNothing DEF GetString
<1>5. FirstWrong(reader.error, Wrong(file))
  BY <1>1, <1>2, <1>3 DEF FirstWrong
<1>6. reader.section = SectionOf(file, Len(file))
  BY <1>1, <1>3, TextOfNothing
<1>7. QED
  BY <1>1, <1>2, <1>3, <1>4, <1>5, <1>6 DEF FileRead

(* Every line keeps its invariant. *)
LEMMA ReadLineReads ==
  ASSUME FileRead, NEW line \in Lines, ReadLine(line)
  PROVE  FileRead'
<1> DEFINE n == Len(file)
           p == line[1]
<1>1. /\ file \in Seq(Lines) /\ file' = Append(file, line)
      /\ reader' = After(line, reader) /\ reader \in Reader
  BY DEF FileRead, ReadLine
<1>2. /\ n \in Nat /\ Len(file') = n + 1 /\ file' \in Seq(Lines) /\ file'[n + 1] = line
      /\ \A i \in 1 .. n : file'[i] = file[i]
      /\ DOMAIN file' = 1 .. n + 1 /\ DOMAIN file = 1 .. n
  BY <1>1
<1>3. line \in Seq(Piece) /\ p \in Piece
  BY LinesAssumption
<1>3a. reader' \in Reader
  BY <1>1, <1>3, AfterIs
<1>4. ASSUME AllWhole(file')
      PROVE  AllWhole(file) /\ reader.lineno = n
             /\ FirstWrong(reader.error, Wrong(file)) /\ reader' = Take(reader, p)
  <2>1. AllWhole(file) /\ Whole(line)
    <3>1. \A i \in 1 .. n + 1 : Whole(file'[i])
      BY <1>2, <1>4 DEF AllWhole
    <3>2. n + 1 \in 1 .. n + 1 /\ \A i \in 1 .. n : i \in 1 .. n + 1
      BY <1>2
    <3>3. QED
      BY <1>2, <3>1, <3>2 DEF AllWhole
  <2>3. reader' = Take(reader, p)
    <3>1. Len(line) = 1
      BY <2>1 DEF Whole
    <3>2. QED
      BY <1>1, <1>3, <3>1, AfterIs
  <2>4. QED
    BY <2>1, <2>3 DEF FileRead
<1>5. ASSUME AllWhole(file')
      PROVE  reader'.lineno = n + 1 /\ FirstWrong(reader'.error, Wrong(file'))
  <2> DEFINE wrong == p.kind = "text" \/ (p.kind = "section" /\ ~p.closed)
  <2>1. /\ reader'.lineno = n + 1
        /\ reader'.error = IF wrong /\ reader.error = 0 THEN n + 1 ELSE reader.error
    BY <1>1, <1>3, <1>4, <1>5, TakeIs
  <2>2. Wrong(file') = Wrong(file) \cup (IF wrong THEN {n + 1} ELSE {})
    <3>1. \A i \in 1 .. n : i \in Wrong(file') <=> i \in Wrong(file)
      BY <1>2 DEF Wrong, Broken
    <3>2. n + 1 \in Wrong(file') <=> wrong
      BY <1>2 DEF Wrong, Broken
    <3>3. Wrong(file') \subseteq 1 .. n + 1 /\ Wrong(file) \subseteq 1 .. n
      BY <1>2 DEF Wrong
    <3> HIDE DEF wrong
    <3>4. 1 .. n + 1 = (1 .. n) \cup {n + 1} /\ n + 1 \notin 1 .. n
      BY <1>2
    <3>5. QED
      BY <3>1, <3>2, <3>3, <3>4
  <2>3. FirstWrong(reader.error, Wrong(file)) /\ reader.error \in Nat
        /\ Wrong(file) \subseteq 1 .. n
    BY <1>1, <1>2, <1>4, <1>5 DEF Reader, Wrong
  <2> HIDE DEF wrong
  <2>4. reader.error <= n
    BY <1>2, <2>3 DEF FirstWrong
  <2>5. FirstWrong(reader'.error, Wrong(file'))
    <3>1. CASE wrong /\ reader.error = 0
      BY <1>2, <2>1, <2>2, <2>3, <3>1 DEF FirstWrong
    <3>2. CASE wrong /\ reader.error # 0
      BY <1>2, <2>1, <2>2, <2>3, <2>4, <3>2 DEF FirstWrong
    <3>3. CASE ~wrong
      BY <2>1, <2>2, <2>3, <3>3 DEF FirstWrong
    <3>4. QED
      BY <3>1, <3>2, <3>3
  <2>6. QED
    BY <2>1, <2>5
<1>6. ASSUME AllSound(file')
      PROVE  reader'.section = SectionOf(file', n + 1)
             /\ \A key : GetString(reader'.values, key, <<>>) = TextOf(file', key)
  <2>1. AllWhole(file') /\ AllSound(file) /\ Understood(line)
    <3>1. \A i \in 1 .. n + 1 : Understood(file'[i])
      BY <1>2, <1>6 DEF AllSound
    <3>2. n + 1 \in 1 .. n + 1 /\ \A i \in 1 .. n : i \in 1 .. n + 1
      BY <1>2
    <3>3. QED
      BY <1>2, <3>1, <3>2 DEF AllSound, AllWhole, Understood
  <2>2. /\ reader.section = SectionOf(file, n) /\ reader \in Reader
        /\ \A key : GetString(reader.values, key, <<>>) = TextOf(file, key)
        /\ reader' = Take(reader, p)
    BY <2>1, <1>1, <1>4 DEF FileRead
  <2>3. /\ SectionOf(file', n + 1) = IF p.kind = "section" THEN p.name ELSE SectionOf(file,
           n)
        /\ \A key : TextOf(file', key) =
             IF Writes(file', n + 1, key) THEN Below(TextOf(file, key), p.value)
                                          ELSE TextOf(file, key)
    BY <1>1, SectionMore, TextMore
  <2>4. p.kind = "section" => p.closed /\ Shortened(p.name) = p.name
    <3>1. ASSUME p.kind = "section"
          PROVE  p.closed /\ p.name \in SectionName /\ p.name.rest = <<>>
      BY <2>1, <1>3, <3>1 DEF Understood, Broken, TooLong, Piece
    <3>2. QED
      BY <3>1 DEF Shortened, SectionName
  <2>5. reader'.section = SectionOf(file', n + 1)
    BY <1>3, <2>2, <2>3, <2>4, TakeIs
  <2>6. ASSUME NEW key PROVE GetString(reader'.values, key, <<>>) = TextOf(file', key)
    <3>1. Writes(file', n + 1, key) <=>
            p.kind = "pair" /\ key = MakeKey(reader.section, p.name) /\ p.value # <<>>
      <4>1. p.kind = "pair" => SectionOf(file', n + 1) = reader.section
        BY <2>2, <2>3
      <4>2. n + 1 \in DOMAIN file' /\ file'[n + 1][1] = p
        BY <1>2
      <4> HIDE DEF p, n
      <4>3. QED
        BY <4>1, <4>2 DEF Writes, Pairs, KeyAt
    <3>2. CASE p.kind = "pair"
      <4>1. reader'.values = ValueHandler(reader.values, MakeKey(reader.section, p.name),
            p.value)
        BY <1>3, <2>2, <3>2, TakeIs
      <4>2. /\ reader.values \in Table /\ p.value \in Seq(Char)
            /\ MakeKey(reader.section, p.name) \in Key
        <5>1. reader.section \in Section /\ reader.values \in Table
          BY <2>2 DEF Reader
        <5>2. p.name \in Name /\ p.value \in Seq(Char)
          BY <1>3, <3>2 DEF Piece
        <5>3. QED
          BY <5>1, <5>2 DEF Key
      <4> DEFINE there == MakeKey(reader.section, p.name)
      <4>3. GetString(reader'.values, key, <<>>) =
              IF key = there
              /\ p.value # <<>> THEN Below(GetString(reader.values, key, <<>>), p.value)
                                              ELSE GetString(reader.values, key, <<>>)
        BY <4>1, <4>2, HandlerIs
      <4> HIDE DEF there
      <4>4. Writes(file', n + 1, key) <=> key = there /\ p.value # <<>>
        BY <3>1, <3>2 DEF there
      <4>5. QED
        BY <2>2, <2>3, <4>3, <4>4
    <3>3. CASE p.kind # "pair"
      <4>1. reader'.values = reader.values
        BY <1>3, <2>2, <3>3, TakeIs
      <4>2. QED
        BY <2>2, <2>3, <3>1, <3>3, <4>1
    <3>4. QED
      BY <3>2, <3>3
  <2>7. QED
    BY <2>5, <2>6
<1>7. QED
  <2> HIDE DEF n, p
  <2>1. AllWhole(file') =>
          reader'.lineno = Len(file') /\ FirstWrong(reader'.error, Wrong(file'))
    BY <1>2, <1>5
  <2>2. AllSound(file') => /\ reader'.section = SectionOf(file', Len(file'))
                           /\ \A key : GetString(reader'.values, key, <<>>) = TextOf(file',
                              key)
    BY <1>2, <1>6
  <2>3. QED
    BY <1>2, <1>3a, <2>1, <2>2 DEF FileRead


(* Only main() reads the file; its reader is gone when the settings have been copied. *)
LEMMA FileStep == FileRead /\ [Next]_vars => FileRead'
<1>1. SUFFICES ASSUME FileRead, [Next]_vars PROVE FileRead'
  OBVIOUS
<1>2. CASE UNCHANGED <<file, reader>>
  BY <1>1, <1>2 DEF FileRead
<1>3. CASE file' = <<>> /\ reader' = NoReader
  <2>1. (file = <<>> /\ reader = NoReader)' => FileRead'
    BY IniInitReads, PTL
  <2>2. (file = <<>> /\ reader = NoReader)'
    BY <1>3
  <2>3. QED
    BY <2>1, <2>2
<1>4. CASE \E line \in Lines : ReadConfig(line)
  <2>1. PICK line \in Lines : ReadLine(line)
    BY <1>4 DEF ReadConfig
  <2>2. QED
    BY <1>1, <2>1, ReadLineReads
<1>5. QED
  BY <1>1, <1>2, <1>3, <1>4
     DEF Next, vars, starting, ClientStep, NoConfig, Configure, SendLogon, SendLogout,
     GatewaySends,
         Recv, RecvLogonHead, RecvLogonRest, RecvMsgHead, RecvMsgRest, Deliver, Fail

(* The invariant of the reader holds in every state. *)
LEMMA FileInvariance == Spec => []FileRead
<1>1. Init => FileRead
  BY IniInitReads DEF Init, IniInit
<1>2. QED
  BY <1>1, FileStep, PTL DEF Spec

(* A setting is what the lines under its section's header say, one below    *)
(* the other, however often a section is left and entered again, and        *)
(* whatever errors stand in between, while every header has its bracket and *)
(* no name or line is longer than there is room for (INIReader::ValueHandler). *)
THEOREM SettingsAsWritten == Spec => []ReadsAsWritten
<1>1. FileRead => ReadsAsWritten
  <2>1. SUFFICES ASSUME FileRead, \A i \in DOMAIN file : Understood(file[i]),
                        NEW key
                 PROVE  GetString(reader.values, key, <<>>) = TextOf(file, key)
    BY DEF ReadsAsWritten
  <2>2. AllSound(file)
    BY <2>1 DEF AllSound
  <2>3. QED
    BY <2>1, <2>2 DEF FileRead
<1>2. QED
  BY <1>1, FileInvariance, PTL

(* ParseError() is the number of the first line with an error, or 0 if      *)
(* there is none, as long as no line is split (ini_parse_stream).           *)
THEOREM ErrorIsTheFirst == Spec => []FirstErrorFound
<1>1. FileRead => FirstErrorFound
  <2>1. SUFFICES ASSUME FileRead,
                        \A i \in DOMAIN file : Whole(file[i]) PROVE FirstErrorFound
    BY DEF FirstErrorFound
  <2>2. FirstWrong(reader.error, Wrong(file))
    BY <2>1 DEF FileRead, AllWhole
  <2>3. QED
    BY <2>2 DEF FirstWrong, Wrong, FirstErrorFound
<1>2. QED
  BY <1>1, FileInvariance, PTL

-----------------------------------------------------------------------------
(* The logon. *)

(* The five fields. *)
LEMMA LayoutIs ==
  /\ Len(Layout) = 5 /\ Len(Order) = 5 /\ DOMAIN Layout = 1 .. 5
  /\ \A i \in 1 .. 5 : Layout[i] \in Range(Layout) /\ Order[i] = Layout[i]
  /\ \A i, j \in 1 .. 5 : Layout[i] = Layout[j] => i = j
  /\ \A word \in Range(Layout) : \E i \in 1 .. 5 : word = Layout[i]
  /\ Layout[3] = "heart_beat_int" /\ Layout[5] = "version"
  BY DEF Layout, Order, Range

(* A field ends where the next one begins. *)
LEMMA EndsAre ==
  /\ Ends \in [0 .. 5 -> Nat] /\ Ends[0] = 0 /\ Ends[5] = BodySize
  /\ \A i \in 1 .. 5 : /\ FieldBytes[Layout[i]] \in Nat \ {0}
                       /\ Ends[i] = Ends[i - 1] + FieldBytes[Layout[i]]
                       /\ At(Layout[i]) = Ends[i - 1]
<1> DEFINE Solves(f) == f = [i \in 0 .. Len(Layout) |->
                              IF i = 0 THEN 0 ELSE f[i - 1] + FieldBytes[Layout[i]]]
           F == CHOOSE f : Solves(f)
           b(i) == FieldBytes[Layout[i]]
           f5 == [i \in 0 .. 5 |-> CASE i = 0 -> 0
                                     [] i = 1 -> b(1)
                                     [] i = 2 -> b(1) + b(2)
                                     [] i = 3 -> b(1) + b(2) + b(3)
                                     [] i = 4 -> b(1) + b(2) + b(3) + b(4)
                                     [] i = 5 -> b(1) + b(2) + b(3) + b(4) + b(5)]
<1>1. \A i \in 1 .. 5 : b(i) \in Nat \ {0}
  BY LayoutIs, SettingsAssumption
<1>2. Ends = F /\ BodySize = Ends[5]
  BY LayoutIs DEF Ends, BodySize
<1> HIDE DEF b
<1>3. \E f : Solves(f)
  <2>1. /\ f5[0] = 0 /\ f5[1] = f5[0] + b(1) /\ f5[2] = f5[1] + b(2) /\ f5[3] = f5[2] + b(3)
        /\ f5[4] = f5[3] + b(4) /\ f5[5] = f5[4] + b(5)
    BY <1>1
  <2>2. f5 = [i \in 0 .. 5 |-> f5[i]]
    OBVIOUS
  <2> HIDE DEF f5
  <2>3. \A i \in 0 .. 5 : f5[i] = IF i = 0 THEN 0 ELSE f5[i - 1] + b(i)
    <3>1. SUFFICES ASSUME NEW i \in 0 .. 5
                   PROVE  f5[i] = IF i = 0 THEN 0 ELSE f5[i - 1] + b(i)
      OBVIOUS
    <3>2. i = 0 \/ i = 1 \/ i = 2 \/ i = 3 \/ i = 4 \/ i = 5
      OBVIOUS
    <3>3. QED
      BY <2>1, <3>2
  <2>4. f5 = [i \in 0 .. 5 |-> IF i = 0 THEN 0 ELSE f5[i - 1] + b(i)]
    BY <2>2, <2>3
  <2>5. Solves(f5)
    BY <2>4, LayoutIs DEF b
  <2>6. QED
    BY <2>5
<1>4. Solves(F)
  <2> HIDE DEF Solves
  <2>1. QED
    BY <1>3
<1> HIDE DEF F
<1>5. F[0] = 0 /\ \A i \in 1 .. 5 : F[i] = F[i - 1] + b(i)
  <2>1. \A i \in 0 .. 5 : F[i] = IF i = 0 THEN 0 ELSE F[i - 1] + b(i)
    BY <1>4, LayoutIs DEF b
  <2>2. QED
    BY <2>1
<1>6. F \in [0 .. 5 -> Nat]
  <2>1. F[0] \in Nat /\ F[1] \in Nat
    BY <1>1, <1>5
  <2>2. F[2] \in Nat
    BY <1>1, <1>5, <2>1
  <2>3. F[3] \in Nat
    BY <1>1, <1>5, <2>2
  <2>4. F[4] \in Nat
    BY <1>1, <1>5, <2>3
  <2>5. F[5] \in Nat
    BY <1>1, <1>5, <2>4
  <2>6. \A i \in 0 .. 5 : i = 0 \/ i = 1 \/ i = 2 \/ i = 3 \/ i = 4 \/ i = 5
    OBVIOUS
  <2>7. F = [i \in 0 .. 5 |-> F[i]]
    BY <1>4, LayoutIs
  <2>8. \A i \in 0 .. 5 : F[i] \in Nat
    BY <2>1, <2>2, <2>3, <2>4, <2>5, <2>6
  <2>9. QED
    BY <2>7, <2>8
<1>7. ASSUME NEW i \in 1 .. 5 PROVE At(Layout[i]) = Ends[i - 1]
  <2> DEFINE j == CHOOSE j \in DOMAIN Layout : Layout[j] = Layout[i]
  <2>1. j = i
    BY LayoutIs
  <2>2. At(Layout[i]) = Ends[j - 1]
    BY DEF At
  <2>3. QED
    BY <2>1, <2>2
<1>8. QED
  BY <1>1, <1>2, <1>5, <1>6, <1>7 DEF b

(* Fields do not overlap. *)
LEMMA FieldsApart ==
  /\ \A i, j \in 0 .. 5 : i <= j => Ends[i] <= Ends[j]
  /\ \A word \in Range(Layout) :
       /\ At(word) \in Nat /\ FieldBytes[word] \in Nat \ {0}
       /\ At(word) + FieldBytes[word] <= BodySize
  /\ BodySize \in Nat
<1>1. /\ Ends[0] <= Ends[1] /\ Ends[1] <= Ends[2] /\ Ends[2] <= Ends[3]
      /\ Ends[3] <= Ends[4] /\ Ends[4] <= Ends[5]
      /\ Ends[0] \in Nat /\ Ends[1] \in Nat /\ Ends[2] \in Nat /\ Ends[3] \in Nat
      /\ Ends[4] \in Nat /\ Ends[5] \in Nat
  <2>1. ASSUME NEW i \in 1 .. 5 PROVE Ends[i - 1] <= Ends[i] /\ Ends[i - 1] \in Nat
    <3>1. i - 1 \in 0 .. 5
      OBVIOUS
    <3>2. QED
      BY <3>1, EndsAre
  <2>2. Ends[5] \in Nat
    BY EndsAre
  <2>3. QED
    BY <2>1, <2>2
<1>2. ASSUME NEW i \in 0 .. 5, NEW j \in 0 .. 5, i <= j PROVE Ends[i] <= Ends[j]
  <2>1. (i = 0 \/ i = 1 \/ i = 2 \/ i = 3 \/ i = 4 \/ i = 5)
        /\ (j = 0 \/ j = 1 \/ j = 2 \/ j = 3 \/ j = 4 \/ j = 5)
    OBVIOUS
  <2>2. QED
    BY <1>1, <1>2, <2>1
<1>3. ASSUME NEW word \in Range(Layout)
      PROVE  /\ At(word) \in Nat /\ FieldBytes[word] \in Nat \ {0}
             /\ At(word) + FieldBytes[word] <= BodySize
  <2>1. PICK i \in 1 .. 5 : word = Layout[i]
    BY LayoutIs
  <2>2. /\ i - 1 \in 0 .. 5 /\ i \in 0 .. 5 /\ 5 \in 0 .. 5
    OBVIOUS
  <2>3. Ends[i] <= Ends[5] /\ Ends[i] \in Nat /\ Ends[i - 1] \in Nat
    BY <1>2, <2>2, EndsAre
  <2>4. QED
    BY <2>1, <2>3, EndsAre
<1>4. QED
  BY <1>1, <1>2, <1>3, EndsAre

(* The fields that are filled one after the other: what is copied into a    *)
(* field stays in it, as far as the field goes, whatever is copied further. *)
Holds(memory, word, content) ==
  \A k \in 1 .. FieldBytes[word] : k <= Len(content) => memory[At(word) + k] = content[k]

LEMMA FilledIs ==
  ASSUME NEW content, \A word \in Range(Layout) : content[word] \in Seq(Byte)
  PROVE  \E f \in [0 .. 5 -> [1 .. BodySize -> Byte]] :
           /\ f[0] = Zeros(BodySize) /\ Filled(content) = f[5]
           /\ \A i \in 1 .. 5 : f[i] = Overwrite(f[i - 1], At(Layout[i]),
              content[Layout[i]])
<1> DEFINE M == [1 .. BodySize -> Byte]
           G(i, m) == Overwrite(m, At(Layout[i]), content[Layout[i]])
           Solves(f) == f = [i \in 0 .. Len(Order) |->
                              IF i = 0 THEN Zeros(BodySize)
                              ELSE Overwrite(f[i - 1], At(Order[i]), content[Order[i]])]
           F == CHOOSE f : Solves(f)
           g == [i \in 1 .. 5 |-> [m \in M |-> G(i, m)]]
<1>1. \A i \in 1 .. 5 : \A m \in M : G(i, m) \in M
  <2>1. ASSUME NEW i \in 1 .. 5, NEW m \in M PROVE G(i, m) \in M
    <3>1. /\ BodySize \in Nat /\ At(Layout[i]) \in Nat /\ content[Layout[i]] \in Seq(Byte)
      BY LayoutIs, FieldsApart
    <3>2. QED
      BY <3>1, OverwriteIs
  <2>2. QED
    BY <2>1
<1> HIDE DEF G
<1>2. g \in [1 .. 5 -> [M -> M]] /\ \A i \in 1 .. 5 : \A m \in M : g[i][m] = G(i, m)
  BY <1>1
<1>3. 5 \in Nat /\ Zeros(BodySize) \in M
  BY Constants, FieldsApart DEF Zeros
<1> HIDE DEF g, M
<1>4. PICK f : Recursive(f, 5, M, Zeros(BodySize), g)
  BY <1>2, <1>3, Recursion
<1>5. Solves(f)
  <2>1. /\ f \in [0 .. 5 -> M] /\ f[0] = Zeros(BodySize)
        /\ \A i \in 1 .. 5 : f[i - 1] \in M /\ f[i] = g[i][f[i - 1]]
    <3>1. \A i \in 1 .. 5 : i - 1 \in 0 .. 5
      OBVIOUS
    <3>2. QED
      BY <1>4, <3>1 DEF Recursive
  <2>2. \A i \in 1 .. 5 : f[i] = G(i, f[i - 1])
    BY <1>2, <2>1
  <2>3. ASSUME NEW i \in 0 .. 5
        PROVE  f[i] = IF i = 0 THEN Zeros(BodySize)
                      ELSE Overwrite(f[i - 1], At(Order[i]), content[Order[i]])
    <3>1. i = 0 \/ i \in 1 .. 5
      OBVIOUS
    <3>2. QED
      BY <2>1, <2>2, <3>1, LayoutIs DEF G
  <2>4. QED
    BY <2>1, <2>3, LayoutIs
<1>6. Solves(F)
  <2> HIDE DEF Solves
  <2>1. QED
    BY <1>5
<1>7. Filled(content) = F[5]
  BY LayoutIs DEF Filled
<1> HIDE DEF F
<1>8. F = [i \in 0 .. 5 |-> F[i]] /\ F[0] = Zeros(BodySize)
  BY <1>6, LayoutIs
<1>9. ASSUME NEW i \in 1 .. 5 PROVE F[i] = G(i, F[i - 1])
  <2>1. i \in 0 .. 5 /\ i # 0
    OBVIOUS
  <2>2. QED
    BY <1>6, <2>1, LayoutIs DEF G
<1>10. \A i \in 1 .. 5 : F[i - 1] \in M => F[i] = g[i][F[i - 1]]
  BY <1>2, <1>9
<1>11. F \in [0 .. 5 -> M]
  <2>1. Recursive(F, 5, M, Zeros(BodySize), g)
    BY <1>2, <1>3, <1>8, <1>10, Stays
  <2>2. QED
    BY <1>3, <2>1, RecursiveStep
<1>12. QED
  BY <1>7, <1>8, <1>9, <1>11 DEF G, M

LEMMA FilledHolds ==
  ASSUME NEW content, \A word \in Range(Layout) : content[word] \in Seq(Byte)
  PROVE  /\ Filled(content) \in [1 .. BodySize -> Byte]
         /\ \A word \in Range(Layout) : Holds(Filled(content), word, content[word])
<1>1. PICK f \in [0 .. 5 -> [1 .. BodySize -> Byte]] :
           /\ f[0] = Zeros(BodySize) /\ Filled(content) = f[5]
           /\ \A i \in 1 .. 5 : f[i] = Overwrite(f[i - 1], At(Layout[i]),
              content[Layout[i]])
  BY FilledIs
<1>2. ASSUME NEW i \in 1 .. 5
      PROVE  \A j \in 1 .. i : (i - 1 >= j => Holds(f[i - 1], Layout[j],
             content[Layout[j]]))
                                => Holds(f[i], Layout[j], content[Layout[j]])
  <2> DEFINE c == content[Layout[i]]
             a == At(Layout[i])
             m == f[i - 1]
  <2>1. /\ m \in [1 .. BodySize -> Byte] /\ c \in Seq(Byte) /\ a \in Nat /\ BodySize \in Nat
        /\ a = Ends[i - 1] /\ f[i] = Overwrite(m, a, c)
    <3>1. i - 1 \in 0 .. 5 /\ Layout[i] \in Range(Layout)
      BY LayoutIs
    <3>2. m \in [1 .. BodySize -> Byte] /\ f[i] = Overwrite(m, a, c)
      BY <1>1, <3>1
    <3>3. c \in Seq(Byte) /\ a \in Nat /\ BodySize \in Nat /\ a = Ends[i - 1]
      BY <3>1, FieldsApart, EndsAre
    <3>4. QED
      BY <3>2, <3>3
  <2> HIDE DEF c, a, m
  <2>2. \A p \in 1 .. BodySize :
          f[i][p] = IF a < p /\ p <= a + Len(c) THEN c[p - a] ELSE m[p]
    <3> DEFINE n == BodySize
    <3>1. n \in Nat /\ m \in [1 .. n -> Byte]
      BY <2>1
    <3> HIDE DEF n
    <3>2. \A p \in 1 .. n : Overwrite(m, a, c)[p] =
            IF a < p /\ p <= a + Len(c) THEN c[p - a] ELSE m[p]
      <4>1. c \in Seq(Byte) /\ a \in Nat
        BY <2>1
      <4>2. QED
        BY <3>1, <4>1, OverwriteIs
    <3>3. QED
      BY <2>1, <3>2 DEF n
  <2>3. SUFFICES ASSUME NEW j \in 1 .. i,
                        i - 1 >= j => Holds(m, Layout[j], content[Layout[j]]),
                        NEW k \in 1 .. FieldBytes[Layout[j]], k <= Len(content[Layout[j]])
                 PROVE  f[i][At(Layout[j]) + k] = content[Layout[j]][k]
    BY DEF Holds, m
  <2>4. j \in 1 .. 5 /\ Layout[j] \in Range(Layout)
    BY LayoutIs
  <2>5. /\ At(Layout[j]) \in Nat /\ FieldBytes[Layout[j]] \in Nat
        /\ At(Layout[j]) + FieldBytes[Layout[j]] <= BodySize
        /\ At(Layout[j]) = Ends[j - 1] /\ Ends[j] = Ends[j - 1] + FieldBytes[Layout[j]]
    BY <2>4, FieldsApart, EndsAre
  <2> DEFINE p == At(Layout[j]) + k
  <2>6. p \in 1 .. BodySize /\ p <= Ends[j]
    <3> DEFINE at == At(Layout[j])
               size == FieldBytes[Layout[j]]
               end == Ends[j]
               all == BodySize
    <3>1. k \in 1 .. size
      OBVIOUS
    <3>2. at \in Nat /\ size \in Nat /\ all \in Nat /\ at + size <= all /\ end = at + size
      BY <2>1, <2>5
    <3> HIDE DEF at, size, end, all
    <3>3. at + k \in 1 .. all /\ at + k <= end
      BY <3>1, <3>2
    <3>4. QED
      BY <3>3 DEF at, end, all
  <2>7. CASE i = j
    <3>1. p - a = k /\ a < p /\ p <= a + Len(c) /\ c[k] = content[Layout[j]][k]
      BY <2>1, <2>3, <2>5, <2>7 DEF c, a
    <3> HIDE DEF p
    <3>2. QED
      BY <2>2, <2>6, <3>1 DEF p
  <2>8. CASE i # j
    <3>1. j <= i - 1 /\ j \in 0 .. 5 /\ i - 1 \in 0 .. 5
      BY <2>8
    <3>2. p <= a /\ a \in Nat
      <4>1. Ends[j] <= Ends[i - 1] /\ Ends[j] \in Nat /\ Ends[i - 1] \in Nat
        BY <3>1, FieldsApart, EndsAre
      <4>2. QED
        BY <2>1, <2>6, <4>1
    <3>3. m[p] = content[Layout[j]][k]
      BY <2>3, <3>1 DEF Holds
    <3> HIDE DEF p
    <3>4. f[i][p] = m[p]
      BY <2>2, <2>6, <3>2
    <3>5. QED
      BY <3>3, <3>4 DEF p
  <2>9. QED
    BY <2>7, <2>8
<1> DEFINE T == {i \in 0 .. 5 : \A j \in 1 .. i : Holds(f[i], Layout[j],
           content[Layout[j]])}
<1>3. 0 \in T
  OBVIOUS
<1>4. ASSUME NEW i \in 1 .. 5, i - 1 \in T PROVE i \in T
  <2>1. ASSUME NEW j \in 1 .. i PROVE Holds(f[i], Layout[j], content[Layout[j]])
    <3>1. i - 1 >= j => j \in 1 .. i - 1
      OBVIOUS
    <3>2. i - 1 >= j => Holds(f[i - 1], Layout[j], content[Layout[j]])
      BY <1>4, <3>1
    <3>3. QED
      BY <1>2, <3>2
  <2>2. QED
    BY <2>1
<1>5. 5 \in T
  <2> HIDE DEF T
  <2>1. 5 \in Nat /\ 5 \in 0 .. 5
    OBVIOUS
  <2>2. 0 .. 5 \subseteq T
    BY <1>3, <1>4, <2>1, Along
  <2>3. QED
    BY <2>1, <2>2
<1>6. \A word \in Range(Layout) : Holds(Filled(content), word, content[word])
  BY <1>1, <1>5, LayoutIs
<1>7. QED
  BY <1>1, <1>6

-----------------------------------------------------------------------------
(* The settings in the memory of ReqLogonCfg and in the body of the logon. *)

(* What parstToStruct copies. *)
Typed(settings) ==
  \A word \in Range(Layout) :
    settings[word] \in IF IsNumber(word) THEN Nat ELSE Seq(Char)
Content(settings) ==
  [word \in Range(Layout) |->
     IF IsNumber(word) THEN Memory(settings[word]) ELSE Append(settings[word], 0)]

LEMMA ContentIs ==
  ASSUME NEW settings, Typed(settings), SettingsFit(settings)
  PROVE  /\ \A word \in Range(Layout) : Content(settings)[word] \in Seq(Byte)
         /\ parstToStruct(settings) = Filled(Content(settings))
<1>1. ASSUME NEW word \in Range(Layout) PROVE Content(settings)[word] \in Seq(Byte)
  <2>1. CASE IsNumber(word)
    <3>1. settings[word] \in Nat /\ Fits(settings[word])
      BY <2>1 DEF Typed, SettingsFit
    <3>2. Memory(settings[word]) \in Seq(Byte)
      BY <3>1, ValueStored, Constants DEF Fits, Memory
    <3>3. QED
      BY <2>1, <3>2 DEF Content
  <2>2. CASE ~IsNumber(word)
    <3> DEFINE s == settings[word]
    <3>1. s \in Seq(Char)
      BY <2>2 DEF Typed
    <3> HIDE DEF s
    <3>2. Append(s, 0) \in Seq(Byte)
      <4>1. s \in Seq(Byte)
        BY <3>1 DEF Char
      <4>2. QED
        BY <4>1, Constants
    <3>3. QED
      BY <2>2, <3>2 DEF Content, s
  <2>3. QED
    BY <2>1, <2>2
<1>2. parstToStruct(settings) = Filled(Content(settings))
  BY DEF parstToStruct, Content
<1>3. QED
  BY <1>1, <1>2

(* The first zero behind a place. *)
ZeroAt(m, a, z) ==
  /\ m[z] = 0 /\ \A p \in a + 1 .. z - 1 : m[p] # 0
  /\ StringAt(m, a) = SubSeq(m, a + 1, z)

LEMMA FirstZero ==
  ASSUME NEW n \in Nat, NEW m \in [1 .. n -> Byte], NEW a \in Nat, NEW e \in 1 .. n,
         a < e, m[e] = 0
  PROVE  \E z \in a + 1 .. e : ZeroAt(m, a, z)
<1> DEFINE I == {i \in a + 1 .. Len(m) : m[i] = 0}
           z == SelectInSubSeq(m, a + 1, Len(m), LAMBDA c : c = 0)
<1>1. Len(m) = n
  OBVIOUS
<1>2. e \in I /\ I \subseteq Nat
  BY <1>1
<1>3. PICK y \in I : \A x \in I : y <= x
  BY <1>2, LeastNat
<1>4. z = Min(I)
  BY <1>2 DEF SelectInSubSeq
<1> HIDE DEF z
<1>5. Min(I) \in I /\ \A x \in I : Min(I) <= x
  <2> HIDE DEF I
  <2>1. QED
    BY <1>3 DEF Min
<1>6. z \in a + 1 .. e /\ m[z] = 0
  BY <1>1, <1>2, <1>4, <1>5
<1>7. ASSUME NEW p \in a + 1 .. z - 1 PROVE m[p] # 0
  BY <1>1, <1>4, <1>5, <1>6
<1>8. StringAt(m, a) = SubSeq(m, a + 1, z)
  BY DEF StringAt, z
<1>9. QED
  BY <1>6, <1>7, <1>8 DEF ZeroAt

(* A string is read again where it was put: its characters, and a zero if   *)
(* the field has room for it.                                               *)
LEMMA StringRead ==
  ASSUME NEW n \in Nat, NEW m \in [1 .. n -> Byte], NEW a \in Nat, NEW size \in Nat,
         a + size <= n, NEW s \in Seq(Char), Len(s) <= size,
         \A k \in 1 .. size : k <= Len(s) + 1 => m[a + k] = Append(s, 0)[k],
         NEW e \in 1 .. n, a < e, m[e] = 0
  PROVE  /\ StringAt(m, a) \in Seq(Byte)
         /\ \A k \in 1 .. size :
              k <= Len(s) + 1 => k <= Len(StringAt(m, a))
              /\ StringAt(m, a)[k] = Append(s, 0)[k]
<1>0. PICK z \in a + 1 .. e : ZeroAt(m, a, z)
  BY FirstZero
<1>1. /\ m[z] = 0 /\ \A p \in a + 1 .. z - 1 : m[p] # 0
      /\ StringAt(m, a) = SubSeq(m, a + 1, z)
  BY <1>0 DEF ZeroAt
<1>2. Len(s) \in Nat /\ \A k \in 1 .. Len(s) : s[k] # 0 /\ Append(s, 0)[k] = s[k]
  BY DEF Char
<1>3. Len(s) + 1 <= z - a
  <2>1. SUFFICES ASSUME z - a <= Len(s) PROVE FALSE
    BY <1>1, <1>2
  <2>2. z - a \in 1 .. Len(s) /\ z - a \in 1 .. size /\ a + (z - a) = z
    BY <1>1, <1>2, <2>1
  <2>3. m[z] = s[z - a]
    BY <1>2, <2>2
  <2>4. QED
    BY <1>1, <1>2, <2>2, <2>3
<1>4. /\ m \in Seq(Byte) /\ Len(m) = n /\ z \in Nat /\ a <= z /\ z <= n
  BY <1>1
<1>5. /\ StringAt(m, a) \in Seq(Byte) /\ Len(StringAt(m, a)) = z - a
      /\ \A i \in 1 .. z - a : StringAt(m, a)[i] = m[a + i]
  <2>1. /\ SubSeq(m, a + 1, z) \in Seq(Byte) /\ Len(SubSeq(m, a + 1, z)) = z - a
        /\ \A i \in 1 .. z - a : SubSeq(m, a + 1, z)[i] = m[a + i]
    BY <1>4, SubSeqIs
  <2>2. QED
    BY <1>1, <2>1
<1>6. ASSUME NEW k \in 1 .. size, k <= Len(s) + 1
      PROVE  k <= Len(StringAt(m, a)) /\ StringAt(m, a)[k] = Append(s, 0)[k]
  <2>1. k \in 1 .. z - a
    BY <1>1, <1>2, <1>3, <1>6
  <2>2. QED
    BY <1>5, <1>6, <2>1
<1>7. QED
  BY <1>5, <1>6

(* SendLogon copies what parstToStruct has copied. *)
LEMMA LogonBodyIs ==
  ASSUME NEW settings, Typed(settings), SettingsFit(settings)
  PROVE  LET body == LogonBodyOf(parstToStruct(settings))
         IN  /\ body \in [1 .. BodySize -> Byte]
             /\ \A word \in Range(Layout) : Holds(body, word, Content(settings)[word])
<1> DEFINE m == parstToStruct(settings)
           c == [word \in Range(Layout) |->
                  IF IsNumber(word) THEN SubSeq(m, At(word) + 1, At(word) + WordBytes)
                                    ELSE StringAt(m, At(word))]
<1>1. /\ m \in [1 .. BodySize -> Byte]
      /\ \A word \in Range(Layout) : Holds(m, word, Content(settings)[word])
  BY ContentIs, FilledHolds
<1>2. LogonBodyOf(m) = Filled(c)
  BY DEF LogonBodyOf
<1> HIDE DEF m
<1>3. PICK e \in 1 .. BodySize :
        m[e] = 0 /\ \A word \in Range(Layout) : At(word) < e
  <2> DEFINE w == "version"
             s == settings[w]
             e == At(w) + Len(s) + 1
  <2>1. w \in Range(Layout) /\ ~IsNumber(w) /\ w = Layout[5]
    BY LayoutIs DEF IsNumber
  <2> HIDE DEF w
  <2>2. s \in Seq(Char) /\ Len(s) < FieldBytes[w]
    BY <2>1 DEF Typed, SettingsFit, w
  <2> HIDE DEF s
  <2>3. Len(s) \in Nat /\ At(w) \in Nat /\ FieldBytes[w] \in Nat /\ BodySize \in Nat
        /\ At(w) + FieldBytes[w] <= BodySize
    BY <2>1, <2>2, FieldsApart
  <2>4. e \in 1 .. BodySize
    BY <2>2, <2>3
  <2>5. m[e] = 0
    <3> DEFINE t == Append(s, 0)
               k == Len(s) + 1
    <3>1. Content(settings)[w] = t
      BY <2>1 DEF Content, s
    <3>2. k \in 1 .. FieldBytes[w] /\ k <= Len(t) /\ t[k] = 0 /\ At(w) + k = e
      BY <2>2, <2>3
    <3> HIDE DEF t, k, e
    <3>3. QED
      BY <1>1, <2>1, <3>1, <3>2 DEF Holds
  <2>6. ASSUME NEW word \in Range(Layout) PROVE At(word) < e
    <3>1. PICK i \in 1 .. 5 : word = Layout[i]
      BY LayoutIs
    <3>2. i - 1 \in 0 .. 5 /\ 5 - 1 \in 0 .. 5 /\ i - 1 <= 5 - 1 /\ 5 \in 1 .. 5
      OBVIOUS
    <3>3. Ends[i - 1] <= Ends[5 - 1] /\ Ends[i - 1] \in Nat /\ Ends[5 - 1] \in Nat
      BY <3>2, FieldsApart, EndsAre
    <3>4. At(word) = Ends[i - 1] /\ At(w) = Ends[5 - 1]
      BY <2>1, <3>1, <3>2, EndsAre
    <3>5. QED
      BY <2>3, <3>3, <3>4
  <2> HIDE DEF e
  <2>7. QED
    BY <2>4, <2>5, <2>6
<1>4. ASSUME NEW word \in Range(Layout)
      PROVE  /\ c[word] \in Seq(Byte)
             /\ \A k \in 1 .. FieldBytes[word] :
                  k <= Len(Content(settings)[word]) =>
                    k <= Len(c[word]) /\ c[word][k] = Content(settings)[word][k]
  <2> DEFINE a == At(word)
             size == FieldBytes[word]
  <2>1. /\ a \in Nat /\ size \in Nat /\ a + size <= BodySize /\ BodySize \in Nat
        /\ a < e
    BY <1>3, FieldsApart
  <2>2. Holds(m, word, Content(settings)[word])
    BY <1>1
  <2>3. CASE IsNumber(word)
    <3>1. /\ size = WordBytes /\ WordBytes \in Nat
          /\ c[word] = SubSeq(m, a + 1, a + WordBytes)
      BY <2>3, SettingsAssumption, Constants DEF IsNumber
    <3>2. Content(settings)[word] \in Seq(Byte)
      BY ContentIs
    <3> HIDE DEF a, size, c
    <3>3. /\ c[word] \in Seq(Byte) /\ Len(c[word]) = WordBytes
          /\ \A k \in 1 .. WordBytes : c[word][k] = m[a + k]
      <4> DEFINE b == a + WordBytes
      <4>1. /\ m \in Seq(Byte) /\ Len(m) = BodySize /\ b \in Nat /\ a <= b /\ b <= Len(m)
            /\ b - a = WordBytes
        BY <1>1, <2>1, <3>1
      <4> HIDE DEF b
      <4>2. /\ SubSeq(m, a + 1, b) \in Seq(Byte) /\ Len(SubSeq(m, a + 1, b)) = b - a
            /\ \A i \in 1 .. b - a : SubSeq(m, a + 1, b)[i] = m[a + i]
        BY <2>1, <4>1, SubSeqIs
      <4>3. QED
        BY <3>1, <4>1, <4>2 DEF b
    <3>4. QED
      BY <2>2, <3>1, <3>2, <3>3 DEF Holds, a, size
  <2>4. CASE ~IsNumber(word)
    <3> DEFINE s == settings[word]
               x == StringAt(m, a)
    <3>1. s \in Seq(Char) /\ Len(s) <= size
      BY <2>4 DEF Typed, SettingsFit
    <3>2. c[word] = x /\ Content(settings)[word] = Append(s, 0)
      BY <2>4 DEF Content
    <3> HIDE DEF s
    <3>3. Len(Append(s, 0)) = Len(s) + 1
      BY <3>1
    <3>4. \A k \in 1 .. size : k <= Len(s) + 1 => m[a + k] = Append(s, 0)[k]
      BY <2>2, <3>2, <3>3 DEF Holds
    <3> DEFINE n == BodySize
    <3>5. n \in Nat /\ m \in [1 .. n -> Byte] /\ e \in 1 .. n /\ a + size <= n
      BY <1>1, <2>1
    <3> HIDE DEF a, size, n
    <3>6. /\ StringAt(m, a) \in Seq(Byte)
          /\ \A k \in 1 .. size :
               k <= Len(s) + 1 =>
                 k <= Len(StringAt(m, a)) /\ StringAt(m, a)[k] = Append(s, 0)[k]
      BY <1>3, <2>1, <3>1, <3>4, <3>5, StringRead
    <3> HIDE DEF c
    <3>7. QED
      BY <3>2, <3>3, <3>6 DEF size
  <2>5. QED
    BY <2>3, <2>4
<1> HIDE DEF c
<1>5. /\ Filled(c) \in [1 .. BodySize -> Byte]
      /\ \A word \in Range(Layout) : Holds(Filled(c), word, c[word])
  BY <1>4, FilledHolds
<1>6. ASSUME NEW word \in Range(Layout)
      PROVE  Holds(Filled(c), word, Content(settings)[word])
  <2>1. Holds(Filled(c), word, c[word])
    BY <1>5
  <2>2. QED
    BY <1>4, <2>1 DEF Holds
<1>7. QED
  BY <1>2, <1>5, <1>6 DEF m

-----------------------------------------------------------------------------
(* The request. *)

(* A number that is turned round and stored. *)
LEMMA Swapped ==
  ASSUME NEW n \in Nat, Fits(n)
  PROVE  /\ Memory(n) \in Seq(Byte) /\ Len(Memory(n)) = WordBytes /\ Value(Memory(n)) = n
         /\ Memory(htnu32(n)) = Reverse(Memory(n))
         /\ htnu32(Value(Reverse(Memory(n)))) = n
<1> DEFINE x == Memory(n)
           r == Reverse(x)
<1>1. x \in Seq(Byte) /\ Len(x) = WordBytes /\ Value(x) = n
  BY ValueStored, Constants DEF Fits, Memory
<1>2. htnu32(n) = Value(r)
  BY DEF htnu32
<1> HIDE DEF x
<1>3. r \in Seq(Byte) /\ Len(r) = WordBytes /\ Reverse(r) = x
  BY <1>1, ReverseIs
<1> HIDE DEF r
<1>4. Memory(Value(r)) = r /\ htnu32(Value(r)) = Value(Reverse(r))
  BY <1>3, WordIs
<1>5. QED
  BY <1>1, <1>2, <1>3, <1>4 DEF r, x

(* What appendTail writes lies behind the message. *)
LEMMA TailBehind ==
  ASSUME NEW n \in Nat, NEW array \in Seq(Byte), HeadLength <= n,
         Len(array) = n + n + TailLength + TailLength
  PROVE  LET g == SubSeq(AppendTail(array, n, n), 1, n + TailLength)
         IN  /\ g \in Seq(Byte) /\ Len(g) = n + TailLength
             /\ \A p \in 1 .. n + TailLength : g[p] = array[p]
<1> DEFINE from == n + n
           new == Memory(htnu32(GenerateCheckSum(SubSeq(array, n + 1, n + n))))
           o == Overwrite(array, from, new)
           S == {o[i] : i \in 1 .. Len(array)}
           l == n + TailLength
<1>1. /\ l \in Nat /\ 0 <= l /\ l <= Len(array) /\ l <= from /\ from \in Nat
      /\ Len(array) \in Nat
  BY Lengths
<1>2. DOMAIN new = 1 .. WordBytes
  BY DEF Memory, Stored
<1>3. AppendTail(array, n, n) = o
  BY DEF AppendTail
<1> HIDE DEF new
<1>4. /\ o = [i \in 1 .. Len(array) |-> IF i - from \in DOMAIN new THEN new[i - from]
                                                             ELSE array[i]]
  BY DEF Overwrite
<1>5. \A p \in 1 .. l : o[p] = array[p]
  <2>1. ASSUME NEW p \in 1 .. l PROVE o[p] = array[p]
    <3>1. p \in 1 .. Len(array) /\ p - from \notin DOMAIN new
      BY <1>1, <1>2, Constants
    <3> HIDE DEF o, from
    <3>2. QED
      BY <1>4, <3>1
  <2>2. QED
    BY <2>1
<1> HIDE DEF o
<1>6. o \in Seq(S) /\ Len(o) = Len(array)
  BY <1>1, <1>4
<1> HIDE DEF S, l
<1>7. /\ SubSeq(o, 0 + 1, l) \in Seq(S) /\ Len(SubSeq(o, 0 + 1, l)) = l - 0
      /\ \A i \in 1 .. l - 0 : SubSeq(o, 0 + 1, l)[i] = o[0 + i]
  BY <1>1, <1>6, SubSeqIs
<1> DEFINE g == SubSeq(o, 1, l)
<1>8. 0 + 1 = 1 /\ l - 0 = l /\ \A i \in 1 .. l : 0 + i = i
  BY <1>1
<1>9. g \in Seq(S) /\ Len(g) = l /\ \A i \in 1 .. l : g[i] = array[i]
  BY <1>5, <1>7, <1>8
<1>10. \A i \in 1 .. l : array[i] \in Byte
  BY <1>1
<1>11. g \in Seq(Byte)
  BY <1>9, <1>10
<1>12. QED
  BY <1>3, <1>9, <1>11 DEF l

(* A message that the client sends, byte by byte. *)
LEMMA Serialized ==
  ASSUME NEW type \in Nat, Fits(type), NEW body \in [1 .. BodySize -> Byte], NEW at \in Nat,
         at + WordBytes <= BodySize,
         NEW h \in Nat, Fits(h), \A k \in 1 .. WordBytes : body[at + k] = Memory(h)[k]
  PROVE  LET g == Serialize(type, body, at)
         IN  /\ g \in Seq(Byte) /\ Len(g) = HeadLength + BodySize + TailLength
             /\ MsgType(g) = type /\ BodyLength(g) = BodySize
             /\ \A p \in 1 .. BodySize :
                  g[HeadLength + p] = IF at < p /\ p <= at + WordBytes
                                      THEN Reverse(Memory(h))[p - at] ELSE body[p]
<1> DEFINE n == BodySize
           r == Reverse(Memory(h))
           turned == Overwrite(body, at, Memory(htnu32(Word(body, at + 1))))
           posTail == HeadLength + Len(body)
           t == Reverse(Memory(type))
           l == Reverse(Memory(n))
           z == Zeros(posTail + 2 * TailLength)
           array == SetHead(type, Len(body)) \o turned \o z
           g == Serialize(type, body, at)
<1>1. n \in Nat /\ Fits(n) /\ Len(body) = n /\ body \in Seq(Byte)
  BY FieldsApart, SettingsAssumption
<1>2. Word(body, at + 1) = h
  <2> DEFINE b == at + WordBytes
             x == Memory(h)
  <2>1. b \in Nat /\ at <= b /\ b <= Len(body) /\ b - at = WordBytes
        /\ at + 1 + WordBytes - 1 = b /\ WordBytes \in Nat
    BY <1>1, Constants
  <2>2. Word(body, at + 1) = Value(SubSeq(body, at + 1, b))
    BY <2>1 DEF Word
  <2>3. x \in Seq(Byte) /\ Len(x) = WordBytes /\ Value(x) = h
    BY Swapped
  <2>4. \A k \in 1 .. WordBytes : body[at + k] = x[k]
    OBVIOUS
  <2> HIDE DEF b, x
  <2>5. /\ SubSeq(body, at + 1, b) \in Seq(Byte) /\ Len(SubSeq(body, at + 1, b)) = b - at
        /\ \A i \in 1 .. b - at : SubSeq(body, at + 1, b)[i] = body[at + i]
    BY <1>1, <2>1, SubSeqIs
  <2>6. SubSeq(body, at + 1, b) = x
    <3> DEFINE y == SubSeq(body, at + 1, b)
    <3>1. y \in Seq(Byte) /\ Len(y) = Len(x) /\ \A i \in 1 .. Len(y) : y[i] = x[i]
      BY <2>1, <2>3, <2>4, <2>5
    <3> HIDE DEF y
    <3>2. y = x
      BY <2>3, <3>1, SeqEqual
    <3>3. QED
      BY <3>2 DEF y
  <2>7. QED
    BY <2>2, <2>3, <2>6
<1>3. /\ r \in Seq(Byte) /\ Len(r) = WordBytes /\ Memory(htnu32(h)) = r
  <2>1. Memory(h) \in Seq(Byte) /\ Len(Memory(h)) = WordBytes
        /\ Memory(htnu32(h)) = Reverse(Memory(h))
    BY Swapped
  <2>2. QED
    BY <2>1, ReverseIs
<1>4. turned = Overwrite(body, at, r)
  BY <1>2, <1>3
<1> HIDE DEF turned, r
<1>5. /\ turned \in [1 .. n -> Byte]
      /\ \A p \in 1 .. n : turned[p] =
           IF at < p /\ p <= at + WordBytes THEN r[p - at] ELSE body[p]
  <2> HIDE DEF n
  <2>1. body \in [1 .. n -> Byte]
    BY DEF n
  <2>2. /\ Overwrite(body, at, r) \in [1 .. n -> Byte]
        /\ \A p \in 1 .. n : Overwrite(body, at, r)[p] =
             IF at < p /\ p <= at + Len(r) THEN r[p - at] ELSE body[p]
    <3>1. n \in Nat /\ r \in Seq(Byte) /\ at \in Nat
      BY <1>1, <1>3
    <3>2. Overwrite(body, at, r) \in [1 .. n -> Byte]
      BY <2>1, <3>1, OverwriteIs
    <3>3. \A p \in 1 .. n : Overwrite(body, at, r)[p] =
             IF at < p /\ p <= at + Len(r) THEN r[p - at] ELSE body[p]
      BY <2>1, <3>1, OverwriteIs
    <3>4. QED
      BY <3>2, <3>3
  <2>3. QED
    BY <1>3, <1>4, <2>2
<1>6. /\ t \in Seq(Byte) /\ Len(t) = WordBytes /\ l \in Seq(Byte) /\ Len(l) = WordBytes
      /\ SetHead(type, Len(body)) = t \o l
      /\ Value(Reverse(t)) = type /\ Value(Reverse(l)) = n
  <2>1. /\ Memory(type) \in Seq(Byte) /\ Len(Memory(type)) = WordBytes
        /\ Value(Memory(type)) = type
        /\ Memory(htnu32(type)) = Reverse(Memory(type))
    BY Swapped
  <2> HIDE DEF n
  <2>2. /\ Memory(n) \in Seq(Byte) /\ Len(Memory(n)) = WordBytes /\ Value(Memory(n)) = n
        /\ Memory(htnu32(n)) = Reverse(Memory(n))
    BY <1>1, Swapped
  <2>3. /\ t \in Seq(Byte) /\ Len(t) = WordBytes /\ Reverse(t) = Memory(type)
    BY <2>1, ReverseIs
  <2>4. /\ l \in Seq(Byte) /\ Len(l) = WordBytes /\ Reverse(l) = Memory(n)
    BY <2>2, ReverseIs
  <2>5. SetHead(type, Len(body)) = t \o l
    BY <1>1, <2>1, <2>2 DEF SetHead
  <2>6. QED
    BY <2>1, <2>2, <2>3, <2>4, <2>5
<1>7. z \in Seq(Byte) /\ Len(z) = posTail + TailLength + TailLength /\ posTail \in Nat
      /\ posTail = HeadLength + n /\ HeadLength <= posTail
  BY <1>1, Lengths, Constants DEF Zeros
<1>8. g = SubSeq(AppendTail(array, posTail, posTail), 1, posTail + TailLength)
  BY DEF Serialize, turned
<1> HIDE DEF t, l, z, posTail, g, n
<1>6a. t \o l \in Seq(Byte) /\ Len(t \o l) = HeadLength
  <2>1. t \in Seq(Byte) /\ l \in Seq(Byte) /\ Len(t) = WordBytes /\ Len(l) = WordBytes
    BY <1>6
  <2>2. t \o l \in Seq(Byte) /\ Len(t \o l) = Len(t) + Len(l)
    BY <2>1, ConcatIs
  <2>3. QED
    BY <2>1, <2>2, Lengths
<1>9. /\ array \in Seq(Byte) /\ Len(array) = posTail + posTail + TailLength + TailLength
      /\ \A i \in 1 .. HeadLength : array[i] = (t \o l)[i]
      /\ \A p \in 1 .. n : array[HeadLength + p] = turned[p]
  <2> DEFINE hd == t \o l
             u == hd \o turned
  <2>1. hd \in Seq(Byte) /\ Len(hd) = HeadLength
    BY <1>6a
  <2>2. turned \in Seq(Byte) /\ Len(turned) = n
    BY <1>1, <1>5
  <2> HIDE DEF hd
  <2>3. /\ u \in Seq(Byte) /\ Len(u) = posTail /\ \A i \in 1 .. HeadLength : u[i] = hd[i]
        /\ \A p \in 1 .. n : u[HeadLength + p] = turned[p]
    <3> HIDE DEF u
    <3>0. hd \in Seq(Byte) /\ turned \in Seq(Byte) /\ u = hd \o turned
      BY <2>1, <2>2 DEF u
    <3>1. /\ u \in Seq(Byte) /\ Len(u) = Len(hd) + Len(turned)
          /\ \A i \in 1 .. Len(hd) : u[i] = hd[i]
          /\ \A p \in 1 .. Len(turned) : u[Len(hd) + p] = turned[p]
      BY <3>0, ConcatIs
    <3>2. QED
      BY <1>7, <2>1, <2>2, <3>1
  <2>4. array = u \o z
    BY <1>6 DEF hd
  <2> HIDE DEF u, array
  <2>5. /\ array \in Seq(Byte) /\ Len(array) = Len(u) + Len(z)
        /\ \A i \in 1 .. Len(u) : array[i] = u[i]
    <3>1. u \in Seq(Byte) /\ z \in Seq(Byte)
      BY <1>7, <2>3
    <3>2. QED
      BY <2>4, <3>1, ConcatIs
  <2>6. Len(array) = posTail + posTail + TailLength + TailLength
    BY <1>7, <2>3, <2>5, Lengths
  <2>7. ASSUME NEW i \in 1 .. HeadLength PROVE array[i] = hd[i]
    <3>1. i \in 1 .. Len(u)
      BY <1>1, <1>7, <2>3, Lengths
    <3>2. QED
      BY <2>3, <2>5, <3>1
  <2>8. ASSUME NEW p \in 1 .. n PROVE array[HeadLength + p] = turned[p]
    <3>1. HeadLength + p \in 1 .. Len(u)
      BY <1>1, <1>7, <2>3, Lengths
    <3>2. QED
      BY <2>3, <2>5, <3>1
  <2>9. QED
    BY <2>5, <2>6, <2>7, <2>8 DEF hd
<1> HIDE DEF array
<1>10. /\ g \in Seq(Byte) /\ Len(g) = posTail + TailLength
       /\ \A p \in 1 .. posTail + TailLength : g[p] = array[p]
  BY <1>7, <1>8, <1>9, TailBehind
<1>11. \A p \in 1 .. n : g[HeadLength + p] = turned[p]
  <2>1. ASSUME NEW p \in 1 .. n PROVE g[HeadLength + p] = turned[p]
    <3>1. HeadLength + p \in 1 .. posTail + TailLength
      BY <1>1, <1>7, Lengths
    <3>2. QED
      BY <1>9, <1>10, <3>1
  <2>2. QED
    BY <2>1
<1>12. TypeWord(g) = t /\ LengthWord(g) = l
  <2>1. HeadLength <= Len(g) /\ Len(g) \in Nat
    BY <1>7, <1>10, Lengths
  <2> DEFINE hd == SubSeq(g, 1, HeadLength)
             tl == t \o l
             k == HeadLength
  <2>2. hd \in Seq(Byte) /\ Len(hd) = k /\ \A i \in 1 .. k : hd[i] = g[i]
    <3>1. /\ SubSeq(g, 0 + 1, k) \in Seq(Byte) /\ Len(SubSeq(g, 0 + 1, k)) = k - 0
          /\ \A i \in 1 .. k - 0 : SubSeq(g, 0 + 1, k)[i] = g[0 + i]
      BY <1>10, <2>1, Lengths, SubSeqIs
    <3>2. 0 + 1 = 1 /\ k - 0 = k /\ \A i \in 1 .. k : 0 + i = i
      BY Lengths
    <3>3. QED
      BY <3>1, <3>2
  <2>3. tl \in Seq(Byte) /\ Len(tl) = k
    BY <1>6a
  <2>4. \A i \in 1 .. k : i \in 1 .. posTail + TailLength
    BY <1>1, <1>7, Lengths
  <2> HIDE DEF hd, tl
  <2>5. \A i \in 1 .. k : hd[i] = tl[i]
    BY <1>9, <1>10, <2>2, <2>4 DEF tl
  <2>6. hd = tl
    BY <2>2, <2>3, <2>5, SeqEqual
  <2> DEFINE bh == Behind(g)
  <2>7. bh \in Seq(Byte) /\ g = hd \o bh
    <3>1. g = SubSeq(g, 1, k) \o SubSeq(g, k + 1, Len(g))
      BY <1>10, <2>1, Lengths, Cut
    <3>2. bh \in Seq(Byte)
      BY <1>10, <2>1, Words
    <3>3. QED
      BY <3>1, <3>2 DEF Behind, hd
  <2>8. g = t \o l \o bh
    BY <2>6, <2>7 DEF tl
  <2> HIDE DEF bh
  <2>9. /\ SubSeq(t \o l \o bh, 1, Len(t)) = t
        /\ SubSeq(t \o l \o bh, Len(t) + 1, Len(t) + Len(l)) = l
    <3>1. t \in Seq(Byte) /\ l \in Seq(Byte) /\ bh \in Seq(Byte)
      BY <1>6, <2>7
    <3>2. QED
      BY <3>1, Joined3
  <2>10. QED
    BY <1>6, <2>8, <2>9, Lengths DEF TypeWord, LengthWord
<1>13. MsgType(g) = type /\ BodyLength(g) = n
  <2>1. HeadLength <= Len(g)
    BY <1>7, <1>10, Lengths
  <2>2. MsgType(g) = Value(Reverse(TypeWord(g)))
        /\ BodyLength(g) = Value(Reverse(LengthWord(g)))
    BY <1>10, <2>1, HeadIs
  <2>3. QED
    BY <1>6, <1>12, <2>2
<1>14. QED
  BY <1>5, <1>7, <1>10, <1>11, <1>13 DEF n, g, r

(* The heartbeat interval and the other fields do not overlap.              *)
LEMMA NumberApart ==
  ASSUME NEW word \in Range(Layout)
  PROVE  IF IsNumber(word) THEN At(word) = At("heart_beat_int")
         ELSE \/ At(word) + FieldBytes[word] <= At("heart_beat_int")
              \/ At("heart_beat_int") + WordBytes <= At(word)
<1> DEFINE h == At("heart_beat_int")
<1>1. PICK i \in 1 .. 5 : word = Layout[i]
  BY LayoutIs
<1>2. /\ h = Ends[2] /\ Ends[3] = h + WordBytes /\ h \in Nat
  <2>1. 3 \in 1 .. 5 /\ 3 - 1 = 2 /\ 2 \in 0 .. 5
    OBVIOUS
  <2>2. At(Layout[3]) = Ends[3 - 1] /\ Ends[3] = Ends[3 - 1] + FieldBytes[Layout[3]]
        /\ Ends[2] \in Nat
    BY <2>1, EndsAre
  <2>3. QED
    BY <2>1, <2>2, LayoutIs, SettingsAssumption
<1>3. CASE IsNumber(word)
  BY <1>3 DEF IsNumber
<1>4. CASE ~IsNumber(word)
  <2>1. i # 3
    BY <1>1, <1>4, LayoutIs DEF IsNumber
  <2>2. /\ At(word) = Ends[i - 1] /\ Ends[i] = At(word) + FieldBytes[word]
        /\ i \in 0 .. 5 /\ i - 1 \in 0 .. 5 /\ 2 \in 0 .. 5 /\ 3 \in 0 .. 5
    BY <1>1, EndsAre
  <2>3. i <= 2 => Ends[i] <= Ends[2]
    BY <2>2, FieldsApart
  <2>4. 3 <= i - 1 => Ends[3] <= Ends[i - 1]
    BY <2>2, FieldsApart
  <2>5. i <= 2 \/ 3 <= i - 1
    BY <2>1
  <2>6. QED
    BY <1>2, <1>4, <2>2, <2>3, <2>4, <2>5
<1>5. QED
  BY <1>3, <1>4

(* A string in its field, with a zero behind it if there is room, is read   *)
(* up to that zero or to the end of the field.                              *)
LEMMA FieldIsRead ==
  ASSUME NEW f \in Seq(Byte), NEW s \in Seq(Char), Len(s) <= Len(f),
         \A k \in 1 .. Len(f) : k <= Len(s) + 1 => f[k] = Append(s, 0)[k]
  PROVE  StringAt(Append(f, 0), 0) = Append(s, 0)
<1> DEFINE m == Append(f, 0)
           n == Len(f) + 1
           e == Len(s) + 1
           t == Append(s, 0)
<1>1. /\ Len(s) \in Nat /\ Len(f) \in Nat /\ n \in Nat /\ e \in 1 .. n /\ 0 \in Nat /\ 0 < e
      /\ m \in [1 .. n -> Byte] /\ Len(m) = n /\ m \in Seq(Byte)
      /\ \A k \in 1 .. Len(f) : m[k] = f[k]
      /\ m[n] = 0
  <2>1. Len(s) \in Nat /\ Len(f) \in Nat /\ 0 \in Byte
    BY Constants
  <2>2. /\ n \in Nat /\ e \in 1 .. n /\ 0 \in Nat /\ 0 < e
    BY <2>1
  <2>3. m \in Seq(Byte) /\ Len(m) = n /\ m[n] = 0 /\ \A k \in 1 .. Len(f) : m[k] = f[k]
    BY <2>1
  <2> HIDE DEF m, n
  <2>4. m \in [1 .. n -> Byte]
    BY <2>2, <2>3
  <2>5. QED
    BY <2>1, <2>2, <2>3, <2>4
<1>2. /\ s \in Seq(Byte) /\ t \in Seq(Byte) /\ Len(t) = e /\ t[e] = 0
      /\ \A k \in 1 .. Len(s) : t[k] = s[k] /\ s[k] # 0
  <2>1. s \in Seq(Byte) /\ \A k \in 1 .. Len(s) : s[k] # 0
    BY DEF Char
  <2>2. QED
    BY <2>1, Constants
<1> HIDE DEF m, t
<1>3. \A k \in 1 .. e : m[k] = t[k]
  <2>1. ASSUME NEW k \in 1 .. e PROVE m[k] = t[k]
    <3>1. CASE k \in 1 .. Len(f)
      BY <1>1, <3>1 DEF t
    <3>2. CASE k \notin 1 .. Len(f)
      BY <1>1, <1>2, <3>2
    <3>3. QED
      BY <3>1, <3>2
  <2>2. QED
    BY <2>1
<1>4. m[e] = 0 /\ \A k \in 1 .. Len(s) : m[k] # 0
  BY <1>1, <1>2, <1>3
<1> HIDE DEF n, e
<1>5. PICK z \in 0 + 1 .. e : ZeroAt(m, 0, z)
  BY <1>1, <1>4, FirstZero
<1>6. m[z] = 0 /\ StringAt(m, 0) = SubSeq(m, 0 + 1, z)
  BY <1>5 DEF ZeroAt
<1>7. z = e
  <2>1. z \in 1 .. Len(s) \/ z = e
    BY <1>1 DEF e
  <2>2. QED
    BY <1>4, <1>6, <2>1
<1>8. /\ SubSeq(m, 0 + 1, e) \in Seq(Byte) /\ Len(SubSeq(m, 0 + 1, e)) = e - 0
      /\ \A i \in 1 .. e - 0 : SubSeq(m, 0 + 1, e)[i] = m[0 + i]
  <2>1. e \in Nat /\ 0 <= e /\ e <= Len(m)
    BY <1>1
  <2>2. QED
    BY <1>1, <2>1, SubSeqIs
<1> DEFINE x == StringAt(m, 0)
<1>9. x \in Seq(Byte) /\ Len(x) = Len(t) /\ \A i \in 1 .. Len(x) : x[i] = t[i]
  <2>1. e - 0 = e /\ \A i \in 1 .. e : 0 + i = i
    BY <1>1
  <2>2. QED
    BY <1>2, <1>3, <1>6, <1>7, <1>8, <2>1
<1> HIDE DEF x
<1>10. x = t
  BY <1>2, <1>9, SeqEqual
<1>11. QED
  BY <1>10 DEF x, m, t

(* The gateway reads in the request what is meant.                          *)
Readable(bytes, settings) ==
  /\ MsgType(bytes) = LogonType /\ BodyLength(bytes) = BodySize
  /\ Len(bytes) = HeadLength + BodySize + TailLength
  /\ \A word \in Range(Layout) :
       IF IsNumber(word) THEN Value(Reverse(FieldIn(bytes, word))) = settings[word]
       ELSE StringAt(Append(FieldIn(bytes, word), 0), 0) = Append(settings[word], 0)

LEMMA LogonReads ==
  ASSUME NEW settings, Typed(settings), SettingsFit(settings)
  PROVE  Readable(Serialize(LogonType, LogonBodyOf(parstToStruct(settings)),
                            At("heart_beat_int")), settings)
<1> DEFINE w == "heart_beat_int"
           at == At(w)
           h == settings[w]
           body == LogonBodyOf(parstToStruct(settings))
           g == Serialize(LogonType, body, at)
           r == Reverse(Memory(h))
<1>1. /\ body \in [1 .. BodySize -> Byte]
      /\ \A word \in Range(Layout) : Holds(body, word, Content(settings)[word])
  BY LogonBodyIs
<1>2. w \in Range(Layout) /\ IsNumber(w) /\ FieldBytes[w] = WordBytes
  BY LayoutIs, SettingsAssumption DEF IsNumber
<1> HIDE DEF w
<1>3. h \in Nat /\ Fits(h) /\ Content(settings)[w] = Memory(h)
  BY <1>2 DEF Typed, SettingsFit, Content
<1>4. at \in Nat /\ at + WordBytes <= BodySize /\ BodySize \in Nat /\ WordBytes \in Nat
  BY <1>2, FieldsApart, Constants
<1> HIDE DEF h, body, at
<1>5. /\ Memory(h) \in Seq(Byte) /\ Len(Memory(h)) = WordBytes /\ Value(Memory(h)) = h
  BY <1>3, Swapped
<1>6. r \in Seq(Byte) /\ Len(r) = WordBytes /\ Reverse(r) = Memory(h)
  BY <1>5, ReverseIs
<1>7. \A k \in 1 .. WordBytes : body[at + k] = Memory(h)[k]
  <2> DEFINE x == Memory(h)
  <2>1. Holds(body, w, x) /\ Len(x) = WordBytes
    BY <1>1, <1>2, <1>3, <1>5
  <2> HIDE DEF x
  <2>2. QED
    BY <1>2, <1>4, <2>1 DEF Holds, at, x
<1>8. LogonType \in Nat /\ Fits(LogonType)
  <2>1. 1 \in Byte
    BY Constants DEF Byte
  <2>2. QED
    BY <2>1, ByteFits DEF LogonType
<1>9. /\ g \in Seq(Byte) /\ Len(g) = HeadLength + BodySize + TailLength
      /\ MsgType(g) = LogonType /\ BodyLength(g) = BodySize
      /\ \A p \in 1 .. BodySize :
           g[HeadLength + p] = IF at < p /\ p <= at + WordBytes THEN r[p - at] ELSE body[p]
  <2> HIDE DEF r
  <2>1. QED
    BY <1>1, <1>3, <1>4, <1>7, <1>8, Serialized DEF r
<1> HIDE DEF g, r
<1>10. ASSUME NEW word \in Range(Layout)
       PROVE  /\ FieldIn(g, word) \in Seq(Byte) /\ Len(FieldIn(g, word)) = FieldBytes[word]
              /\ \A k \in 1 .. FieldBytes[word] :
                   FieldIn(g, word)[k] = g[HeadLength + (At(word) + k)]
  <2> DEFINE a == HeadLength + At(word)
             b == a + FieldBytes[word]
             size == FieldBytes[word]
  <2>1. At(word) \in Nat /\ size \in Nat /\ At(word) + size <= BodySize
    BY FieldsApart
  <2>2. a \in Nat /\ b \in Nat /\ a <= b /\ b <= Len(g) /\ b - a = size
        /\ \A k \in 1 .. size : a + k = HeadLength + (At(word) + k)
    <3>1. HeadLength \in Nat /\ TailLength \in Nat /\ BodySize \in Nat
          /\ Len(g) = HeadLength + BodySize + TailLength
      BY <1>4, <1>9, Lengths
    <3> DEFINE c == At(word)
    <3>2. c \in Nat /\ c + size <= BodySize
      BY <2>1
    <3> HIDE DEF c
    <3>3. a = HeadLength + c /\ b = a + size
      BY DEF c
    <3> HIDE DEF a, b, size
    <3>4. size \in Nat /\ c + size <= BodySize
      BY <2>1, <3>2
    <3>5. a \in Nat /\ b \in Nat /\ a <= b /\ b - a = size
      BY <3>1, <3>2, <3>3, <3>4
    <3>6. b <= Len(g)
      BY <3>1, <3>2, <3>3, <3>4
    <3>7. \A k \in 1 .. size : a + k = HeadLength + (c + k)
      BY <3>1, <3>2, <3>3, <3>4
    <3>8. QED
      BY <3>5, <3>6, <3>7 DEF c
  <2>3. FieldIn(g, word) = SubSeq(g, a + 1, b)
    BY DEF FieldIn
  <2> HIDE DEF a, b
  <2>4. /\ SubSeq(g, a + 1, b) \in Seq(Byte) /\ Len(SubSeq(g, a + 1, b)) = b - a
        /\ \A i \in 1 .. b - a : SubSeq(g, a + 1, b)[i] = g[a + i]
    BY <1>9, <2>2, SubSeqIs
  <2>5. QED
    BY <2>2, <2>3, <2>4
<1>11. ASSUME NEW word \in Range(Layout), IsNumber(word)
       PROVE  Value(Reverse(FieldIn(g, word))) = settings[word]
  <2>1. word = w
    BY <1>2, <1>11 DEF IsNumber
  <2> DEFINE f == FieldIn(g, w)
  <2>2. f \in Seq(Byte) /\ Len(f) = WordBytes
        /\ \A k \in 1 .. WordBytes : f[k] = g[HeadLength + (at + k)]
    BY <1>2, <1>10 DEF at
  <2>3. ASSUME NEW k \in 1 .. WordBytes PROVE f[k] = r[k]
    <3> DEFINE p == at + k
    <3>1. p \in 1 .. BodySize /\ at < p /\ p <= at + WordBytes /\ p - at = k
      BY <1>4
    <3> HIDE DEF p, f
    <3>2. g[HeadLength + p] = r[p - at]
      BY <1>9, <3>1
    <3>3. QED
      BY <2>2, <3>1, <3>2 DEF p
  <2> HIDE DEF f
  <2>4. f = r
    BY <1>6, <2>2, <2>3, SeqEqual
  <2>5. QED
    BY <1>5, <1>6, <2>1, <2>4 DEF f, h
<1>12. ASSUME NEW word \in Range(Layout), ~IsNumber(word)
       PROVE  StringAt(Append(FieldIn(g, word), 0), 0) = Append(settings[word], 0)
  <2> DEFINE f == FieldIn(g, word)
             s == settings[word]
             a == At(word)
             size == FieldBytes[word]
             t == Append(s, 0)
  <2>1. s \in Seq(Char) /\ Len(s) <= size /\ Content(settings)[word] = t
    BY <1>12 DEF Typed, SettingsFit, Content
  <2>2. f \in Seq(Byte) /\ Len(f) = size
        /\ \A k \in 1 .. size : f[k] = g[HeadLength + (a + k)]
    BY <1>10
  <2>3. a \in Nat /\ size \in Nat /\ a + size <= BodySize
        /\ (a + size <= at \/ at + WordBytes <= a)
    BY <1>12, FieldsApart, NumberApart DEF at, w
  <2>4. \A k \in 1 .. size : k <= Len(t) => body[a + k] = t[k]
    BY <1>1, <2>1 DEF Holds
  <2>5. Len(t) = Len(s) + 1
    BY <2>1
  <2> HIDE DEF f, s, a, size, t
  <2>6. ASSUME NEW k \in 1 .. size, k <= Len(s) + 1 PROVE f[k] = t[k]
    <3> DEFINE p == a + k
    <3>1. p \in 1 .. BodySize /\ ~(at < p /\ p <= at + WordBytes)
      BY <1>4, <2>3
    <3> HIDE DEF p
    <3>2. g[HeadLength + p] = body[p]
      BY <1>9, <3>1
    <3>3. QED
      BY <2>2, <2>4, <2>5, <2>6, <3>2 DEF p
  <2>7. \A k \in 1 .. Len(f) : k <= Len(s) + 1 => f[k] = Append(s, 0)[k]
    BY <2>2, <2>6 DEF t
  <2>8. Len(s) <= Len(f)
    BY <2>1, <2>2 DEF s
  <2>9. s \in Seq(Char) /\ f \in Seq(Byte)
    BY <2>1, <2>2
  <2>10. StringAt(Append(f, 0), 0) = Append(s, 0)
    BY <2>7, <2>8, <2>9, FieldIsRead
  <2>11. QED
    BY <2>10 DEF f, s
<1>13. Readable(g, settings)
  BY <1>9, <1>11, <1>12 DEF Readable
<1>14. QED
  BY <1>13 DEF g, body, at, w

(* What the reader hands over is of the type of the setting. *)
LEMMA SettingsTyped == FileRead => Typed(Settings)
<1>1. SUFFICES ASSUME FileRead PROVE Typed(Settings)
  OBVIOUS
<1>2. PICK K \in SUBSET Key : reader.values \in [K -> Seq(Char)]
  BY <1>1 DEF FileRead, Reader, Table
<1>3. \A key, default : default \in Seq(Char) =>
        GetString(reader.values, key, default) \in Seq(Char)
  BY <1>2 DEF GetString
<1>4. ASSUME NEW word \in Range(Layout)
      PROVE  Setting(word) \in IF IsNumber(word) THEN Nat ELSE Seq(Char)
  <2>1. Default[word] \in IF IsNumber(word) THEN Nat ELSE Seq(Char)
    BY SettingsAssumption
  <2>2. CASE ~IsNumber(word)
    BY <1>3, <2>1, <2>2 DEF Setting
  <2>3. CASE IsNumber(word)
    <3> DEFINE text == GetString(reader.values, <<"logon", <<>>, word>>, <<>>)
    <3>1. text \in Seq(Char)
      <4>1. <<>> \in Seq(Char)
        OBVIOUS
      <4>2. QED
        BY <1>3, <4>1
    <3>2. Setting(word) = IF Leading(text) # <<>> THEN Number(Leading(text))
                                                  ELSE Default[word]
      BY <2>3 DEF Setting, GetInteger
    <3> HIDE DEF text
    <3>3. Number(Leading(text)) \in Nat
      BY <3>1, LeadingIs
    <3>4. QED
      BY <2>1, <2>3, <3>2, <3>3
  <2>4. QED
    BY <2>2, <2>3
<1>5. QED
  BY <1>4 DEF Typed, Settings

(* The inductive invariant of the request: until it is sent, cfg is what    *)
(* parstToStruct makes of the settings that are meant.                      *)
Asked ==
  /\ phase = "start" => Typed(meant) /\ SettingsFit(meant) /\ cfg = parstToStruct(meant)
  /\ phase = "logon" /\ request # <<>> => Readable(request, meant)

LEMMA AskedStep == FileRead /\ Asked /\ [Next]_vars => Asked'
<1>1. SUFFICES ASSUME FileRead, Asked, [Next]_vars PROVE Asked'
  OBVIOUS
<1>2. CASE Configure
  <2>1. Typed(Settings)
    BY <1>1, SettingsTyped
  <2>2. /\ SettingsFit(Settings) /\ phase' = "start" /\ meant' = Settings
        /\ cfg' = parstToStruct(Settings)
    BY <1>2 DEF Configure
  <2>3. QED
    BY <2>1, <2>2 DEF Asked
<1>3. CASE SendLogon
  <2>1. Typed(meant) /\ SettingsFit(meant) /\ cfg = parstToStruct(meant)
    BY <1>1, <1>3 DEF SendLogon, Asked
  <2>2. Readable(Serialize(LogonType, LogonBodyOf(parstToStruct(meant)),
                           At("heart_beat_int")), meant)
    BY <2>1, LogonReads
  <2>3. /\ request' = Serialize(LogonType, LogonBodyOf(cfg), At("heart_beat_int"))
        /\ phase' = "logon" /\ meant' = meant
    BY <1>3 DEF SendLogon
  <2>4. QED
    BY <2>1, <2>2, <2>3 DEF Asked
<1>4. CASE UNCHANGED <<phase, cfg, request, meant>>
  BY <1>1, <1>4 DEF Asked
<1>5. CASE phase' \notin {"start", "logon"} \/ (phase' = "logon" /\ request' = <<>>)
  BY <1>5 DEF Asked
<1>6. QED
  <2>1. \A n : Recv(n) => UNCHANGED <<phase, cfg, request, meant>>
    BY DEF Recv, asking, starting
  <2>2. ClientStep => UNCHANGED <<phase, cfg, request, meant>>
                      \/ phase' \notin {"start", "logon"}
    BY <2>1 DEF ClientStep, RecvLogonHead, RecvLogonRest, RecvMsgHead, RecvMsgRest,
                Deliver, Fail, asking, starting
  <2>3. \A line : ReadConfig(line) => UNCHANGED <<phase, cfg, request, meant>>
    BY DEF ReadConfig, asking
  <2>4. NoConfig \/ SendLogout => phase' \notin {"start", "logon"}
    BY DEF NoConfig, SendLogout
  <2>5. \A m : GatewaySends(m) => phase' \notin {"start", "logon"}
                                  \/ (phase' = "logon" /\ request' = <<>>)
    BY DEF GatewaySends
  <2>6. UNCHANGED vars => UNCHANGED <<phase, cfg, request, meant>>
    BY DEF vars, starting, asking
  <2>7. QED
    BY <1>1, <1>2, <1>3, <1>4, <1>5, <2>2, <2>3, <2>4, <2>5, <2>6 DEF Next

(* The request that the gateway reads is the one that config.ini means:     *)
(* whatever the sizes of the fields and the lengths of the strings, those   *)
(* that fill their field included, and the number in network order          *)
(* (parstToStruct, SendLogon).                                              *)
THEOREM RequestIsMeant == Spec => []RequestReadable
<1>1. Init => Asked
  BY DEF Init, Asked
<1>2. Asked => RequestReadable
  BY DEF Asked, Readable, RequestReadable
<1>3. QED
  BY <1>1, <1>2, AskedStep, FileInvariance, PTL DEF Spec
=============================================================================

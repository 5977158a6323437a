---------------------------- MODULE BytesProofs -----------------------------
(* Induction over the natural numbers, with a set in the place of a         *)
(* predicate, from the fact that < is well-founded on Nat; and what the     *)
(* operators of Bytes compute, for any sizes of bytes and words.            *)
EXTENDS Bytes, WellFoundedInduction, SequenceTheorems, TLAPS

(* A set of natural numbers has a least element. *)
LEMMA LeastNat ==
  ASSUME NEW T \in SUBSET Nat, T # {}
  PROVE  \E x \in T : \A y \in T : x <= y
<1> DEFINE R == {ss \in Nat \X Nat : ss[1] < ss[2]}
<1>1. IsWellFoundedOn(R, Nat)
  BY NatLessThanWellFounded DEF OpToRel
<1>2. PICK x \in T : \A y \in T : ~ (<<y, x>> \in R)
  <2> HIDE DEF R
  <2>1. QED
    BY <1>1, WFMin
<1>3. ASSUME NEW y \in T PROVE x <= y
  <2>1. <<y, x>> \in Nat \X Nat /\ <<y, x>>[1] = y /\ <<y, x>>[2] = x
    OBVIOUS
  <2>2. ~ (y < x)
    BY <1>2, <2>1
  <2>3. QED
    BY <2>2
<1>4. QED
  BY <1>3

(* A set that has 0, and with every number the next, has them all. *)
LEMMA SetInduction ==
  ASSUME NEW T, 0 \in T, \A n \in Nat : n \in T => n + 1 \in T
  PROVE  Nat \subseteq T
<1>1. SUFFICES ASSUME Nat \ T # {} PROVE FALSE
  OBVIOUS
<1>2. PICK x \in Nat \ T : \A y \in Nat \ T : x <= y
  BY <1>1, LeastNat
<1>3. x - 1 \in Nat /\ x - 1 \in T
  BY <1>2
<1>4. x - 1 + 1 \in T
  BY <1>3
<1>5. QED
  BY <1>2, <1>4

(* A bounded set of natural numbers has a greatest element. *)
LEMMA GreatestNat ==
  ASSUME NEW b \in Nat, NEW T \in SUBSET (0 .. b), T # {}
  PROVE  \E x \in T : \A y \in T : y <= x
<1> DEFINE U == {b - x : x \in T}
<1>1. U \in SUBSET Nat /\ U # {}
  <2>1. \A x \in T : x \in 0 .. b
    OBVIOUS
  <2>2. \A x \in T : b - x \in Nat
    BY <2>1
  <2>3. QED
    BY <2>2
<1>2. PICK u \in U : \A v \in U : u <= v
  <2> HIDE DEF U
  <2>1. QED
    BY <1>1, LeastNat
<1>3. PICK x \in T : u = b - x
  BY <1>2
<1>4. ASSUME NEW y \in T PROVE y <= x
  <2>1. b - x <= b - y
    BY <1>2, <1>3
  <2>2. x \in 0 .. b /\ y \in 0 .. b
    OBVIOUS
  <2>3. QED
    BY <2>1, <2>2
<1>5. QED
  BY <1>4

(* What a function that is defined by recursion on 0 .. n does: it exists,  *)
(* when each step g[i] stays in S.                                          *)
Recursive(f, n, S, a, g) ==
  f \in [0 .. n -> S] /\ f[0] = a /\ \A i \in 1 .. n : f[i] = g[i][f[i - 1]]

LEMMA Recursion ==
  ASSUME NEW n \in Nat, NEW S, NEW a \in S, NEW g \in [1 .. n -> [S -> S]]
  PROVE  \E f : Recursive(f, n, S, a, g)
<1> DEFINE Solved(k, f) == f[0] = a /\ \A i \in 1 .. k : f[i] = g[i][f[i - 1]]
           T == {k \in Nat : k <= n => \E f \in [0 .. k -> S] : Solved(k, f)}
<1>1. 0 \in T
  <2>1. [i \in 0 .. 0 |-> a] \in [0 .. 0 -> S] /\ Solved(0, [i \in 0 .. 0 |-> a])
    OBVIOUS
  <2>2. QED
    BY <2>1
<1>2. ASSUME NEW k \in Nat, k \in T
      PROVE  k + 1 \in T
  <2>1. SUFFICES ASSUME k + 1 <= n
                 PROVE  \E f \in [0 .. k + 1 -> S] : Solved(k + 1, f)
    OBVIOUS
  <2>2. PICK f \in [0 .. k -> S] : Solved(k, f)
    BY <1>2, <2>1
  <2> DEFINE next == [i \in 0 .. k + 1 |-> IF i = k + 1 THEN g[i][f[k]] ELSE f[i]]
  <2>3. f[k] \in S /\ g[k + 1] \in [S -> S]
    BY <2>1
  <2>4. next \in [0 .. k + 1 -> S]
    BY <2>2, <2>3
  <2>5. \A i \in 0 .. k : next[i] = f[i]
    OBVIOUS
  <2>6. Solved(k + 1, next)
    <3>1. next[0] = a
      BY <2>2, <2>5
    <3>2. ASSUME NEW i \in 1 .. k PROVE next[i] = g[i][next[i - 1]]
      BY <2>2, <2>5
    <3>3. next[k + 1] = g[k + 1][next[k + 1 - 1]]
      BY <2>5
    <3>4. ASSUME NEW i \in 1 .. k + 1 PROVE next[i] = g[i][next[i - 1]]
      <4> HIDE DEF next
      <4>1. i = k + 1 \/ i \in 1 .. k
        OBVIOUS
      <4>2. QED
        BY <3>2, <3>3, <4>1
    <3>5. QED
      BY <3>1, <3>4
  <2>7. QED
    BY <2>4, <2>6
<1>3. n \in T
  <2> HIDE DEF T
  <2>1. Nat \subseteq T
    BY <1>1, <1>2, SetInduction
  <2>2. QED
    BY <2>1
<1>4. QED
  BY <1>3 DEF Recursive

LEMMA RecursiveStep ==
  ASSUME NEW n, NEW S, NEW a, NEW g, NEW f, n \in Nat, Recursive(f, n, S, a, g)
  PROVE  /\ f \in [0 .. n -> S] /\ f[0] = a
         /\ \A i \in 1 .. n : f[i - 1] \in S /\ f[i] = g[i][f[i - 1]]
<1>1. \A i \in 1 .. n : i - 1 \in 0 .. n
  OBVIOUS
<1>2. QED
  BY <1>1 DEF Recursive

(* Induction along 0 .. n. *)
LEMMA Along ==
  ASSUME NEW n \in Nat, NEW T, 0 \in T, \A i \in 1 .. n : i - 1 \in T => i \in T
  PROVE  0 .. n \subseteq T
<1> DEFINE U == {i \in Nat : i <= n => i \in T}
<1>1. 0 \in U
  OBVIOUS
<1>2. ASSUME NEW i \in Nat, i \in U PROVE i + 1 \in U
  <2>1. SUFFICES ASSUME i + 1 <= n PROVE i + 1 \in T
    OBVIOUS
  <2>2. i + 1 \in 1 .. n /\ i + 1 - 1 = i /\ i \in T
    BY <1>2, <2>1
  <2>3. QED
    BY <2>2
<1>3. Nat \subseteq U
  <2> HIDE DEF U
  <2>1. QED
    BY <1>1, <1>2, SetInduction
<1>4. QED
  BY <1>3

(* A function that makes these steps as long as it stays in S stays in S.   *)
LEMMA Stays ==
  ASSUME NEW n \in Nat, NEW S, NEW a \in S, NEW g \in [1 .. n -> [S -> S]],
         NEW f, f = [i \in 0 .. n |-> f[i]], f[0] = a,
         \A i \in 1 .. n : f[i - 1] \in S => f[i] = g[i][f[i - 1]]
  PROVE  Recursive(f, n, S, a, g)
<1> DEFINE T == {i \in 0 .. n : f[i] \in S}
<1>1. 0 \in T
  OBVIOUS
<1>2. ASSUME NEW i \in 1 .. n, i - 1 \in T PROVE i \in T
  <2>1. f[i - 1] \in S /\ f[i] = g[i][f[i - 1]] /\ g[i] \in [S -> S]
    BY <1>2
  <2>2. QED
    BY <2>1
<1>3. 0 .. n \subseteq T
  <2> HIDE DEF T
  <2>1. QED
    BY <1>1, <1>2, Along
<1>4. \A i \in 0 .. n : f[i] \in S
  BY <1>3
<1>5. f \in [0 .. n -> S]
  BY <1>4
<1>6. ASSUME NEW i \in 1 .. n PROVE f[i] = g[i][f[i - 1]]
  <2>1. i - 1 \in 0 .. n
    OBVIOUS
  <2>2. QED
    BY <1>4, <2>1
<1>7. QED
  BY <1>5, <1>6 DEF Recursive
-----------------------------------------------------------------------------
(* Division with remainder. *)

LEMMA DivMod ==
  ASSUME NEW m \in Nat \ {0}, NEW n \in Int
  PROVE  /\ n = m * (n \div m) + (n % m)
         /\ n \div m \in Int /\ n % m \in 0 .. m - 1
  BY Z3

LEMMA DivNat ==
  ASSUME NEW m \in Nat \ {0}, NEW n \in Nat
  PROVE  n \div m \in Nat
  BY Z3

(* The only multiple of m closer to zero than m is zero. *)
LEMMA SmallMultiple ==
  ASSUME NEW m \in Nat \ {0}, NEW a \in Int, m * a < m, m * a > -m
  PROVE  a = 0
<1>1. CASE a >= 1
  <2>1. m * a >= m
    BY <1>1, Z3
  <2>2. QED
    BY <2>1
<1>2. CASE a <= -1
  <2>1. m * a <= -m
    BY <1>2, Z3
  <2>2. QED
    BY <2>1
<1>3. QED
  BY <1>1, <1>2

(* Quotient and remainder are unique. *)
LEMMA DivModUnique ==
  ASSUME NEW m \in Nat \ {0}, NEW q \in Int, NEW r \in 0 .. m - 1, NEW n \in Int,
         n = m * q + r
  PROVE  n \div m = q /\ n % m = r
<1> DEFINE p == n \div m
           s == n % m
<1>1. n = m * p + s /\ p \in Int /\ s \in 0 .. m - 1
  BY DivMod
<1>2. m * (p - q) = r - s
  BY <1>1, Z3
<1>3. p - q = 0
  BY <1>1, <1>2, SmallMultiple
<1>4. QED
  BY <1>1, <1>2, <1>3

-----------------------------------------------------------------------------
(* Sequences. *)

(* Reversing a sequence twice gives the sequence. *)
LEMMA ReverseIs ==
  ASSUME NEW S, NEW s \in Seq(S)
  PROVE  /\ Reverse(s) \in Seq(S) /\ Len(Reverse(s)) = Len(s)
         /\ \A i \in 1 .. Len(s) : Reverse(s)[i] = s[Len(s) - i + 1]
         /\ Reverse(Reverse(s)) = s
<1>1. \A i \in 1 .. Len(s) : Len(s) - i + 1 \in 1 .. Len(s)
  OBVIOUS
<1>2. /\ Reverse(s) \in Seq(S) /\ Len(Reverse(s)) = Len(s)
      /\ \A i \in 1 .. Len(s) : Reverse(s)[i] = s[Len(s) - i + 1]
  BY <1>1 DEF Reverse
<1> DEFINE r == Reverse(s)
<1> HIDE DEF r
<1>3. /\ Reverse(r) \in Seq(S) /\ Len(Reverse(r)) = Len(s)
      /\ \A i \in 1 .. Len(s) : Reverse(r)[i] = r[Len(s) - i + 1]
  <2>1. r \in Seq(S) /\ Len(r) = Len(s)
    BY <1>2 DEF r
  <2>2. QED
    BY <1>1, <2>1 DEF Reverse
<1>4. \A i \in 1 .. Len(s) : Reverse(r)[i] = s[i]
  <2>1. ASSUME NEW i \in 1 .. Len(s) PROVE Reverse(r)[i] = s[i]
    <3>1. r[Len(s) - i + 1] = s[Len(s) - (Len(s) - i + 1) + 1]
      BY <1>1, <1>2 DEF r
    <3>2. Len(s) - (Len(s) - i + 1) + 1 = i
      OBVIOUS
    <3>3. QED
      BY <1>3, <3>1, <3>2
  <2>2. QED
    BY <2>1
<1>5. Reverse(r) = s
  BY <1>3, <1>4, SeqEqual
<1>6. QED
  BY <1>2, <1>5 DEF r

(* A part of a sequence. *)
LEMMA SubSeqIs ==
  ASSUME NEW S, NEW g \in Seq(S), NEW a \in Nat, NEW b \in Nat, a <= b, b <= Len(g)
  PROVE  /\ SubSeq(g, a + 1, b) \in Seq(S) /\ Len(SubSeq(g, a + 1, b)) = b - a
         /\ \A i \in 1 .. b - a : SubSeq(g, a + 1, b)[i] = g[a + i]
<1> DEFINE c == [i \in 1 .. b - a |-> g[a + i]]
<1>1. \A i \in 1 .. b - a : a + i \in 1 .. Len(g)
  OBVIOUS
<1>2. \A i \in 1 .. b - a : g[a + i] \in S
  BY <1>1
<1>3. c \in Seq(S) /\ Len(c) = b - a
  BY <1>2
<1>4. SubSeq(g, a + 1, b) = c
  OBVIOUS
<1>5. QED
  BY <1>3, <1>4

(* A sequence is what it begins with and what follows. *)
LEMMA Cut ==
  ASSUME NEW S, NEW g \in Seq(S), NEW a \in Nat, a <= Len(g)
  PROVE  g = SubSeq(g, 1, a) \o SubSeq(g, a + 1, Len(g))
<1> DEFINE x == SubSeq(g, 1, a)
           y == SubSeq(g, a + 1, Len(g))
<1>1. x \in Seq(S) /\ Len(x) = a /\ \A i \in 1 .. a : x[i] = g[i]
  <2>1. SubSeq(g, 0 + 1, a) = x /\ 0 \in Nat /\ 0 <= a /\ a - 0 = a
        /\ \A i \in 1 .. a : 0 + i = i
    OBVIOUS
  <2> HIDE DEF x
  <2>2. QED
    BY <2>1, SubSeqIs
<1>2. y \in Seq(S) /\ Len(y) = Len(g) - a /\ \A i \in 1 .. Len(g) - a : y[i] = g[a + i]
  BY SubSeqIs
<1> HIDE DEF x, y
<1>3. x \o y \in Seq(S) /\ Len(x \o y) = Len(g)
  BY <1>1, <1>2
<1>4. \A i \in 1 .. Len(g) : (x \o y)[i] = g[i]
  <2>1. ASSUME NEW i \in 1 .. Len(g) PROVE (x \o y)[i] = g[i]
    <3>1. CASE i <= a
      BY <1>1, <1>2, <3>1
    <3>2. CASE i > a
      <4>1. (x \o y)[i] = y[i - a] /\ i - a \in 1 .. Len(g) - a /\ a + (i - a) = i
        BY <1>1, <1>2, <3>2
      <4>2. QED
        BY <1>2, <4>1
    <3>3. i <= a \/ i > a
      OBVIOUS
    <3>4. QED
      BY <3>1, <3>2, <3>3
  <2>2. QED
    BY <2>1
<1>5. QED
  BY <1>3, <1>4, SeqEqual DEF x, y

(* What is put together is found again. *)
LEMMA Joined ==
  ASSUME NEW S, NEW x \in Seq(S), NEW y \in Seq(S)
  PROVE  /\ x \o y \in Seq(S) /\ Len(x \o y) = Len(x) + Len(y)
         /\ SubSeq(x \o y, 1, Len(x)) = x
         /\ SubSeq(x \o y, Len(x) + 1, Len(x) + Len(y)) = y
<1> DEFINE g == x \o y
<1>1. /\ g \in Seq(S) /\ Len(g) = Len(x) + Len(y) /\ Len(x) \in Nat /\ Len(y) \in Nat
      /\ \A i \in 1 .. Len(x) : g[i] = x[i]
      /\ \A i \in 1 .. Len(y) : g[Len(x) + i] = y[i]
  OBVIOUS
<1> HIDE DEF g
<1>2. SubSeq(g, 1, Len(x)) = x
  <2>1. SubSeq(g, 0 + 1, Len(x)) = SubSeq(g, 1, Len(x)) /\ 0 \in Nat /\ Len(x) - 0 = Len(x)
        /\ \A i \in 1 .. Len(x) : 0 + i = i
    BY <1>1
  <2>2. SubSeq(g, 0 + 1, Len(x)) \in Seq(S) /\ Len(SubSeq(g, 0 + 1, Len(x))) = Len(x)
        /\ \A i \in 1 .. Len(x) : SubSeq(g, 0 + 1, Len(x))[i] = g[i]
    <3>1. Len(x) <= Len(g) /\ 0 <= Len(x)
      BY <1>1
    <3>2. /\ SubSeq(g, 0 + 1, Len(x)) \in Seq(S)
             /\ Len(SubSeq(g, 0 + 1, Len(x))) = Len(x) - 0
          /\ \A i \in 1 .. Len(x) - 0 : SubSeq(g, 0 + 1, Len(x))[i] = g[0 + i]
      BY <1>1, <2>1, <3>1, SubSeqIs
    <3>3. QED
      BY <2>1, <3>2
  <2>3. QED
    BY <1>1, <2>1, <2>2, SeqEqual
<1>3. SubSeq(g, Len(x) + 1, Len(x) + Len(y)) = y
  <2> DEFINE z == SubSeq(g, Len(x) + 1, Len(x) + Len(y))
  <2>1. /\ z \in Seq(S) /\ Len(z) = Len(x) + Len(y) - Len(x)
        /\ \A i \in 1 .. Len(x) + Len(y) - Len(x) : z[i] = g[Len(x) + i]
    <3>1. Len(x) <= Len(x) + Len(y) /\ Len(x) + Len(y) <= Len(g) /\ Len(x) + Len(y) \in Nat
      BY <1>1
    <3>2. QED
      BY <1>1, <3>1, SubSeqIs
  <2>2. Len(x) + Len(y) - Len(x) = Len(y)
    BY <1>1
  <2> HIDE DEF z
  <2>3. QED
    BY <1>1, <2>1, <2>2, SeqEqual DEF z
<1>4. QED
  BY <1>1, <1>2, <1>3 DEF g

(* The same of three. *)
LEMMA Joined3 ==
  ASSUME NEW S, NEW x \in Seq(S), NEW y \in Seq(S), NEW z \in Seq(S)
  PROVE  /\ x \o y \o z \in Seq(S) /\ Len(x \o y \o z) = Len(x) + Len(y) + Len(z)
         /\ SubSeq(x \o y \o z, 1, Len(x)) = x
         /\ SubSeq(x \o y \o z, Len(x) + 1, Len(x) + Len(y)) = y
         /\ SubSeq(x \o y \o z, Len(x) + Len(y) + 1, Len(x) + Len(y) + Len(z)) = z
<1> DEFINE u == x \o y
           v == y \o z
<1>1. u \in Seq(S) /\ v \in Seq(S) /\ Len(u) = Len(x) + Len(y) /\ Len(v) = Len(y) + Len(z)
      /\ Len(x) \in Nat /\ Len(y) \in Nat /\ Len(z) \in Nat
  OBVIOUS
<1>2. u \o z = x \o v
  BY ConcatAssociative
<1>3. /\ x \o v \in Seq(S) /\ Len(x \o v) = Len(x) + Len(v)
      /\ SubSeq(x \o v, 1, Len(x)) = x
  BY <1>1, Joined
<1>4. SubSeq(u \o z, Len(u) + 1, Len(u) + Len(z)) = z
  BY <1>1, Joined
<1>5. SubSeq(x \o v, Len(x) + 1, Len(x) + Len(y)) = y
  <2> DEFINE h == x \o v
             p == Len(x)
             q == Len(y)
  <2>1. h \in Seq(S) /\ Len(h) = p + (q + Len(z)) /\ p \in Nat /\ q \in Nat
        /\ Len(z) \in Nat
    BY <1>1, <1>3
  <2>2. ASSUME NEW i \in 1 .. q PROVE h[p + i] = y[i]
    <3>1. v[i] = y[i] /\ i \in 1 .. Len(v)
      BY <1>1
    <3>2. h[p + i] = v[i]
      BY <1>1, <3>1
    <3>3. QED
      BY <3>1, <3>2
  <2> HIDE DEF h, p, q
  <2> DEFINE w == SubSeq(h, p + 1, p + q)
  <2>3. p <= p + q /\ p + q <= Len(h) /\ p + q \in Nat /\ p + q - p = q
    BY <2>1
  <2>4. w \in Seq(S) /\ Len(w) = p + q - p /\ \A i \in 1 .. p + q - p : w[i] = h[p + i]
    BY <2>1, <2>3, SubSeqIs
  <2> HIDE DEF w
  <2>5. w \in Seq(S) /\ Len(w) = q /\ \A i \in 1 .. q : w[i] = y[i]
    BY <2>2, <2>3, <2>4
  <2>6. y \in Seq(S) /\ Len(y) = q
    BY DEF q
  <2>7. w = y
    BY <2>5, <2>6, SeqEqual
  <2>8. QED
    BY <2>7 DEF w, h, p, q
<1> DEFINE g == u \o z
<1>6. /\ g \in Seq(S) /\ SubSeq(g, 1, Len(x)) = x
      /\ SubSeq(g, Len(x) + 1, Len(x) + Len(y)) = y
      /\ SubSeq(g, Len(u) + 1, Len(u) + Len(z)) = z
      /\ Len(g) = Len(x) + Len(v)
  BY <1>2, <1>3, <1>4, <1>5, Zenon
<1> HIDE DEF g, u, v
<1>7. Len(u) + 1 = Len(x) + Len(y) + 1 /\ Len(u) + Len(z) = Len(x) + Len(y) + Len(z)
      /\ Len(x) + Len(v) = Len(x) + Len(y) + Len(z)
  BY <1>1
<1>8. QED
  BY <1>6, <1>7, Zenon DEF g, u

(* Two sequences, one behind the other. *)
LEMMA ConcatIs ==
  ASSUME NEW S, NEW x \in Seq(S), NEW y \in Seq(S)
  PROVE  /\ x \o y \in Seq(S) /\ Len(x \o y) = Len(x) + Len(y)
         /\ \A i \in 1 .. Len(x) : (x \o y)[i] = x[i]
         /\ \A i \in 1 .. Len(y) : (x \o y)[Len(x) + i] = y[i]
  OBVIOUS

(* The parts of a sequence of sequences, one behind the other. *)
LEMMA FlattenIs ==
  ASSUME NEW S, NEW s \in Seq(Seq(S))
  PROVE  \E f \in [0 .. Len(s) -> Seq(S)] :
           /\ f[0] = <<>> /\ FlattenSeq(s) = f[Len(s)]
           /\ \A i \in 1 .. Len(s) : f[i] = f[i - 1] \o s[i]
<1> DEFINE n == Len(s)
           g == [i \in 1 .. n |-> [x \in Seq(S) |-> x \o s[i]]]
           F == CHOOSE F : F = [i \in 1 .. n |-> IF i = 1 THEN s[i] ELSE F[i - 1] \o s[i]]
<1>1. n \in Nat /\ \A i \in 1 .. n : s[i] \in Seq(S)
  BY LenProperties
<1>2. <<>> \in Seq(S) /\ \A x \in Seq(S) : <<>> \o x = x
  OBVIOUS
<1>3. g \in [1 .. n -> [Seq(S) -> Seq(S)]]
  BY <1>1
<1>4. PICK r : Recursive(r, n, Seq(S), <<>>, g)
  <2> HIDE DEF n, g
  <2>1. QED
    BY <1>1, <1>2, <1>3, Recursion
<1>5. /\ r \in [0 .. n -> Seq(S)] /\ r[0] = <<>>
      /\ \A i \in 1 .. n : r[i - 1] \in Seq(S) /\ r[i] = g[i][r[i - 1]]
  <2> HIDE DEF n, g
  <2>1. QED
    BY <1>1, <1>4, RecursiveStep
<1>6. \A i \in 1 .. n : r[i] = r[i - 1] \o s[i]
  BY <1>5
<1> DEFINE R == [i \in 1 .. n |-> r[i]]
<1>7. R = [i \in 1 .. n |-> IF i = 1 THEN s[i] ELSE R[i - 1] \o s[i]]
  <2>1. ASSUME NEW i \in 1 .. n PROVE r[i] = IF i = 1 THEN s[i] ELSE R[i - 1] \o s[i]
    <3>1. CASE i = 1
      <4>1. 1 \in 1 .. n /\ 1 - 1 = 0 /\ s[1] \in Seq(S)
        BY <1>1, <3>1
      <4>2. r[1] = <<>> \o s[1]
        BY <1>5, <1>6, <4>1
      <4>3. QED
        BY <1>2, <3>1, <4>1, <4>2
    <3>2. CASE i # 1
      <4>1. i - 1 \in 1 .. n
        BY <1>1, <3>2
      <4>2. R[i - 1] = r[i - 1]
        BY <4>1
      <4>3. QED
        BY <1>6, <3>2, <4>2
    <3>3. QED
      BY <3>1, <3>2
  <2>2. QED
    BY <2>1
<1>8. F = [i \in 1 .. n |-> IF i = 1 THEN s[i] ELSE F[i - 1] \o s[i]]
  <2> HIDE DEF R, n
  <2>1. QED
    BY <1>7
<1>9. \A i \in 1 .. n : F[i] = IF i = 1 THEN s[i] ELSE F[i - 1] \o s[i]
  <2> HIDE DEF F
  <2>1. QED
    BY <1>8
<1> DEFINE f == [i \in 0 .. n |-> IF i = 0 THEN <<>> ELSE F[i]]
<1>10. f[0] = <<>> /\ \A i \in 1 .. n : f[i] = F[i]
  <2> HIDE DEF F, n
  <2>1. QED
    BY <1>1
<1>11. \A i \in 1 .. n : f[i - 1] \in Seq(S) => f[i] = f[i - 1] \o s[i]
  <2> HIDE DEF F, f, n
  <2>1. ASSUME NEW i \in 1 .. n, f[i - 1] \in Seq(S) PROVE f[i] = f[i - 1] \o s[i]
    <3>1. CASE i = 1
      <4>1. 1 \in 1 .. n /\ 1 - 1 = 0 /\ s[1] \in Seq(S)
        BY <1>1, <3>1
      <4>2. f[1] = s[1] /\ f[1 - 1] = <<>>
        BY <1>9, <1>10, <4>1
      <4>3. QED
        BY <1>2, <3>1, <4>1, <4>2
    <3>2. CASE i # 1
      <4>1. i - 1 \in 1 .. n
        BY <1>1, <3>2
      <4>2. QED
        BY <1>9, <1>10, <3>2, <4>1
    <3>3. QED
      BY <3>1, <3>2
  <2>2. QED
    BY <2>1
<1> DEFINE T == {j \in 0 .. n : f[j] \in Seq(S)}
<1>12. 0 .. n \subseteq T
  <2> HIDE DEF f, n
  <2>1. 0 \in T
    <3>1. 0 \in 0 .. n
      BY <1>1
    <3>2. f[0] \in Seq(S)
      BY <1>2, <1>10
    <3>3. QED
      BY <3>1, <3>2
  <2>2. ASSUME NEW i \in 1 .. n, i - 1 \in T PROVE i \in T
    <3>1. f[i] = f[i - 1] \o s[i] /\ f[i - 1] \in Seq(S) /\ s[i] \in Seq(S)
      BY <1>1, <1>11, <2>2
    <3>2. f[i] \in Seq(S)
      BY <3>1
    <3>3. QED
      BY <1>1, <3>2
  <2> HIDE DEF T
  <2>3. QED
    BY <1>1, <2>1, <2>2, Along
<1>13. FlattenSeq(s) = f[n]
  <2>1. CASE n = 0
    <3>1. s = <<>> /\ FlattenSeq(s) = s
      BY <2>1 DEF FlattenSeq
    <3> HIDE DEF f
    <3>2. QED
      BY <1>10, <2>1, <3>1
  <2>2. CASE n # 0
    <3>1. FlattenSeq(s) = F[n]
      BY <2>2 DEF FlattenSeq
    <3> HIDE DEF f, F
    <3>2. QED
      BY <1>1, <1>10, <2>2, <3>1
  <2>3. QED
    BY <2>1, <2>2
<1>14. f \in [0 .. n -> Seq(S)]
  <2> HIDE DEF F
  <2>1. f = [i \in 0 .. n |-> f[i]]
    OBVIOUS
  <2> HIDE DEF f, n
  <2>2. QED
    BY <1>12, <2>1
<1> HIDE DEF f
<1>15. \A i \in 1 .. n : i - 1 \in 0 .. n
  BY <1>1
<1>16. QED
  BY <1>10, <1>11, <1>13, <1>14, <1>15

LEMMA FlattenParts ==
  ASSUME NEW S, NEW s \in Seq(Seq(S))
  PROVE  /\ FlattenSeq(s) \in Seq(S)
         /\ \E e \in [0 .. Len(s) -> Nat] :
              /\ e[0] = 0 /\ Len(FlattenSeq(s)) = e[Len(s)]
              /\ \A i \in 1 .. Len(s) :
                   /\ e[i] = e[i - 1] + Len(s[i]) /\ e[i] <= Len(FlattenSeq(s))
                   /\ \A p \in 1 .. Len(s[i]) : FlattenSeq(s)[e[i - 1] + p] = s[i][p]
<1> DEFINE n == Len(s)
<1>1. n \in Nat /\ \A i \in 1 .. n : s[i] \in Seq(S) /\ Len(s[i]) \in Nat
  BY LenProperties
<1>2. PICK f \in [0 .. n -> Seq(S)] :
        /\ f[0] = <<>> /\ FlattenSeq(s) = f[n]
        /\ \A i \in 1 .. n : f[i] = f[i - 1] \o s[i]
  BY FlattenIs
<1> HIDE DEF n
<1> DEFINE e == [i \in 0 .. n |-> Len(f[i])]
<1>3. e \in [0 .. n -> Nat] /\ \A i \in 0 .. n : e[i] = Len(f[i]) /\ f[i] \in Seq(S)
  BY <1>1, <1>2, LenProperties
<1>4. ASSUME NEW i \in 1 .. n
      PROVE  /\ i - 1 \in 0 .. n /\ e[i - 1] \in Nat /\ e[i] = e[i - 1] + Len(s[i])
             /\ \A p \in 1 .. e[i - 1] : f[i][p] = f[i - 1][p]
             /\ \A p \in 1 .. Len(s[i]) : f[i][e[i - 1] + p] = s[i][p]
  <2>1. i - 1 \in 0 .. n /\ i \in 0 .. n
    BY <1>1
  <2>2. f[i] = f[i - 1] \o s[i] /\ f[i - 1] \in Seq(S) /\ s[i] \in Seq(S)
    BY <1>1, <1>2, <2>1
  <2>3. e[i] = Len(f[i]) /\ e[i - 1] = Len(f[i - 1]) /\ e[i - 1] \in Nat
    BY <1>3, <2>1
  <2> HIDE DEF e
  <2>4. QED
    BY <2>1, <2>2, <2>3, ConcatIs
<1> HIDE DEF e
<1> DEFINE T == {j \in 0 .. n : \A i \in 1 .. j :
                    /\ e[i] <= e[j]
                    /\ \A p \in 1 .. Len(s[i]) : f[j][e[i - 1] + p] = s[i][p]}
<1>5. 0 .. n \subseteq T
  <2>1. 0 \in T
    BY <1>1
  <2>2. ASSUME NEW j \in 1 .. n, j - 1 \in T PROVE j \in T
    <3>1. ASSUME NEW i \in 1 .. j
          PROVE  /\ e[i] <= e[j]
                 /\ \A p \in 1 .. Len(s[i]) : f[j][e[i - 1] + p] = s[i][p]
      <4>1. CASE i = j
        <5>1. e[j] \in Nat /\ j \in 0 .. n
          BY <1>1, <1>3
        <5>2. \A p \in 1 .. Len(s[j]) : f[j][e[j - 1] + p] = s[j][p]
          BY <1>4
        <5>3. QED
          BY <4>1, <5>1, <5>2
      <4>2. CASE i # j
        <5>1. i \in 1 .. (j - 1) /\ i \in 1 .. n /\ j - 1 \in 0 .. n
          BY <1>1, <4>2
        <5>2. /\ e[i] <= e[j - 1] /\ e[j - 1] <= e[j] /\ e[i] = e[i - 1] + Len(s[i])
              /\ e[i] \in Nat /\ e[i - 1] \in Nat /\ e[j - 1] \in Nat /\ e[j] \in Nat
              /\ Len(s[i]) \in Nat
          <6>1. i \in 0 .. n /\ i - 1 \in 0 .. n /\ j \in 0 .. n /\ j - 1 \in 0 .. n
            BY <1>1, <5>1
          <6>2. /\ e[i] \in Nat /\ e[i - 1] \in Nat /\ e[j - 1] \in Nat /\ e[j] \in Nat
                /\ Len(s[i]) \in Nat /\ Len(s[j]) \in Nat
            BY <1>1, <1>3, <5>1, <6>1
          <6>3. e[i] = e[i - 1] + Len(s[i]) /\ e[j] = e[j - 1] + Len(s[j])
            BY <1>4, <5>1
          <6>4. e[i] <= e[j - 1]
            BY <2>2, <5>1
          <6>5. QED
            BY <6>2, <6>3, <6>4
        <5>3. ASSUME NEW p \in 1 .. Len(s[i]) PROVE f[j][e[i - 1] + p] = s[i][p]
          <6>1. e[i - 1] + p \in 1 .. e[j - 1]
            <7>1. p \in Nat /\ 1 <= p /\ p <= Len(s[i])
              BY <5>2
            <7>2. e[i - 1] + p \in Nat /\ 1 <= e[i - 1] + p
              <8>1. \A a, b \in Nat : 1 <= b => a + b \in Nat /\ 1 <= a + b
                OBVIOUS
              <8>2. e[i - 1] \in Nat
                BY <5>2
              <8>3. QED
                BY <7>1, <8>1, <8>2
            <7>3. e[i - 1] + p <= e[j - 1]
              BY <5>2, <7>1
            <7>4. QED
              BY <5>2, <7>2, <7>3
          <6>2. f[j - 1][e[i - 1] + p] = s[i][p]
            BY <2>2, <5>1
          <6>3. QED
            BY <1>4, <6>1, <6>2
        <5>4. QED
          BY <5>2, <5>3
      <4>3. QED
        BY <4>1, <4>2
    <3>2. QED
      BY <1>1, <3>1
  <2> HIDE DEF T
  <2>3. QED
    BY <1>1, <2>1, <2>2, Along
<1>6. n \in T
  BY <1>1, <1>5
<1>7. FlattenSeq(s) = f[n] /\ Len(FlattenSeq(s)) = e[n] /\ FlattenSeq(s) \in Seq(S)
  BY <1>1, <1>2, <1>3
<1>8. e[0] = 0
  BY <1>1, <1>2, <1>3
<1>9. ASSUME NEW i \in 1 .. n
      PROVE  /\ e[i] = e[i - 1] + Len(s[i]) /\ e[i] <= Len(FlattenSeq(s))
             /\ \A p \in 1 .. Len(s[i]) : FlattenSeq(s)[e[i - 1] + p] = s[i][p]
  BY <1>4, <1>6, <1>7
<1>10. QED
  BY <1>3, <1>7, <1>8, <1>9 DEF n

(* The i-th of k rows of z bytes. *)
LEMMA Row ==
  ASSUME NEW z \in Nat, NEW k \in Nat, NEW i \in 1 .. k
  PROVE  (i - 1) * z \in Nat /\ (i - 1) * z + z = i * z /\ i * z <= k * z /\ k * z \in Nat
<1>1. i \in Nat /\ i - 1 \in Nat /\ k - i \in Nat
  OBVIOUS
<1>2. (i - 1) * z \in Nat /\ (k - i) * z \in Nat /\ i * z \in Nat /\ k * z \in Nat
  BY <1>1
<1>3. (i - 1) * z + z = i * z
  OBVIOUS
<1>4. k * z = i * z + (k - i) * z
  OBVIOUS
<1>5. QED
  BY <1>2, <1>3, <1>4

-----------------------------------------------------------------------------
(* Numbers and their bytes. *)

(* What the assumptions say about the constants. *)
LEMMA Constants ==
  ByteBase \in Nat \ {0} /\ ByteBase > 2 /\ WordBytes \in Nat \ {0} /\ 0 \in Byte
  BY BytesAssumption, DigitsAssumption DEF Byte, Char

(* Division by ByteBase leaves a byte. *)
LEMMA DivByte ==
  ASSUME NEW n \in Nat
  PROVE  /\ n = ByteBase * (n \div ByteBase) + (n % ByteBase)
         /\ n \div ByteBase \in Nat /\ n % ByteBase \in Byte
<1>1. n \in Int /\ ByteBase \in Nat \ {0}
  BY Constants
<1>2. n = ByteBase * (n \div ByteBase) + (n % ByteBase)
      /\ n % ByteBase \in 0 .. ByteBase - 1
  BY <1>1, DivMod
<1>3. n \div ByteBase \in Nat
  BY <1>1, DivNat
<1>4. QED
  BY <1>2, <1>3 DEF Byte

(* ByteBase^n is a product of n factors, ... *)
LEMMA WeightIs ==
  ASSUME NEW n \in Nat
  PROVE  \E f \in [0 .. n -> Nat] :
           /\ f[0] = 1 /\ Weight(n) = f[n]
           /\ \A i \in 1 .. n : f[i] = f[i - 1] * ByteBase
<1> DEFINE Solves(f) == f = [i \in 0 .. n |-> IF i = 0 THEN 1 ELSE f[i - 1] * ByteBase]
           F == CHOOSE f : Solves(f)
           g == [i \in 1 .. n |-> [x \in Nat |-> x * ByteBase]]
<1>1. g \in [1 .. n -> [Nat -> Nat]]
  BY Constants
<1>2. \A i \in 1 .. n : \A x \in Nat : g[i][x] = x * ByteBase
  OBVIOUS
<1>3. n \in Nat /\ 1 \in Nat
  OBVIOUS
<1> HIDE DEF g
<1>4. PICK f : Recursive(f, n, Nat, 1, g)
  BY <1>1, <1>3, Recursion
<1>5. Solves(f)
  <2>1. /\ f \in [0 .. n -> Nat] /\ f[0] = 1
        /\ \A i \in 1 .. n : f[i - 1] \in Nat /\ f[i] = g[i][f[i - 1]]
    BY <1>3, <1>4, RecursiveStep
  <2>2. \A i \in 1 .. n : f[i] = f[i - 1] * ByteBase
    BY <1>2, <2>1
  <2>3. QED
    BY <2>1, <2>2
<1>6. Solves(F)
  <2> HIDE DEF Solves
  <2>1. QED
    BY <1>5
<1>7. Weight(n) = F[n]
  BY DEF Weight
<1> HIDE DEF F
<1>8. F = [i \in 0 .. n |-> F[i]] /\ F[0] = 1
  BY <1>3, <1>6
<1>9. ASSUME NEW i \in 1 .. n PROVE F[i] = F[i - 1] * ByteBase
  <2>1. i \in 0 .. n /\ i # 0
    BY <1>3
  <2>2. QED
    BY <1>6, <2>1
<1>10. \A i \in 1 .. n : F[i - 1] \in Nat => F[i] = g[i][F[i - 1]]
  BY <1>2, <1>9
<1>11. F \in [0 .. n -> Nat]
  <2>1. Recursive(F, n, Nat, 1, g)
    BY <1>1, <1>3, <1>8, <1>10, Stays
  <2>2. QED
    BY <1>3, <2>1, RecursiveStep
<1>12. QED
  BY <1>7, <1>8, <1>9, <1>11

(* ... a number is read from its highest byte, ... *)
LEMMA ValueIs ==
  ASSUME NEW s \in Seq(Byte)
  PROVE  \E f \in [0 .. Len(s) -> Nat] :
           /\ f[0] = 0 /\ Value(s) = f[Len(s)]
           /\ \A i \in 1 .. Len(s) : f[i] = f[i - 1] * ByteBase + s[Len(s) - i + 1]
<1> DEFINE Solves(f) ==
             f = [i \in 0 .. Len(s) |->
                    IF i = 0 THEN 0 ELSE f[i - 1] * ByteBase + s[Len(s) - i + 1]]
           F == CHOOSE f : Solves(f)
           g == [i \in 1 .. Len(s) |-> [x \in Nat |-> x * ByteBase + s[Len(s) - i + 1]]]
<1>1. g \in [1 .. Len(s) -> [Nat -> Nat]]
  <2>1. \A i \in 1 .. Len(s) : s[Len(s) - i + 1] \in Byte
    OBVIOUS
  <2>2. \A i \in 1 .. Len(s) : \A x \in Nat : x * ByteBase + s[Len(s) - i + 1] \in Nat
    BY <2>1, Constants DEF Byte
  <2>3. QED
    BY <2>2
<1>2. \A i \in 1 .. Len(s) : \A x \in Nat : g[i][x] = x * ByteBase + s[Len(s) - i + 1]
  OBVIOUS
<1>3. Len(s) \in Nat /\ 0 \in Nat
  OBVIOUS
<1> HIDE DEF g
<1>4. PICK f : Recursive(f, Len(s), Nat, 0, g)
  BY <1>1, <1>3, Recursion
<1>5. Solves(f)
  <2>1. /\ f \in [0 .. Len(s) -> Nat] /\ f[0] = 0
        /\ \A i \in 1 .. Len(s) : f[i - 1] \in Nat /\ f[i] = g[i][f[i - 1]]
    BY <1>3, <1>4, RecursiveStep
  <2>2. \A i \in 1 .. Len(s) : f[i] = f[i - 1] * ByteBase + s[Len(s) - i + 1]
    BY <1>2, <2>1
  <2>3. QED
    BY <2>1, <2>2
<1>6. Solves(F)
  <2> HIDE DEF Solves
  <2>1. QED
    BY <1>5
<1>7. Value(s) = F[Len(s)]
  BY DEF Value
<1> HIDE DEF F
<1>8. F = [i \in 0 .. Len(s) |-> F[i]] /\ F[0] = 0
  BY <1>3, <1>6
<1>9. ASSUME NEW i \in 1 .. Len(s) PROVE F[i] = F[i - 1] * ByteBase + s[Len(s) - i + 1]
  <2>1. i \in 0 .. Len(s) /\ i # 0
    BY <1>3
  <2>2. QED
    BY <1>6, <2>1
<1>10. \A i \in 1 .. Len(s) : F[i - 1] \in Nat => F[i] = g[i][F[i - 1]]
  BY <1>2, <1>9
<1>11. F \in [0 .. Len(s) -> Nat]
  <2>1. Recursive(F, Len(s), Nat, 0, g)
    BY <1>1, <1>3, <1>8, <1>10, Stays
  <2>2. QED
    BY <1>3, <2>1, RecursiveStep
<1>12. QED
  BY <1>7, <1>8, <1>9, <1>11

(* ... and stored from its lowest one. *)
LEMMA StoredIs ==
  ASSUME NEW n \in Nat, NEW k \in Nat
  PROVE  \E f \in [0 .. k -> Nat] :
           /\ f[0] = n /\ Stored(n, k) = [i \in 1 .. k |-> f[i - 1] % ByteBase]
           /\ \A i \in 1 .. k : f[i] = f[i - 1] \div ByteBase
<1> DEFINE Solves(f) == f = [i \in 0 .. k |-> IF i = 0 THEN n ELSE f[i - 1] \div ByteBase]
           F == CHOOSE f : Solves(f)
           g == [i \in 1 .. k |-> [x \in Nat |-> x \div ByteBase]]
<1>1. g \in [1 .. k -> [Nat -> Nat]]
  BY Constants, DivNat
<1>2. \A i \in 1 .. k : \A x \in Nat : g[i][x] = x \div ByteBase
  OBVIOUS
<1>3. k \in Nat /\ n \in Nat
  OBVIOUS
<1> HIDE DEF g
<1>4. PICK f : Recursive(f, k, Nat, n, g)
  BY <1>1, <1>3, Recursion
<1>5. Solves(f)
  <2>1. /\ f \in [0 .. k -> Nat] /\ f[0] = n
        /\ \A i \in 1 .. k : f[i - 1] \in Nat /\ f[i] = g[i][f[i - 1]]
    BY <1>3, <1>4, RecursiveStep
  <2>2. \A i \in 1 .. k : f[i] = f[i - 1] \div ByteBase
    BY <1>2, <2>1
  <2>3. QED
    BY <2>1, <2>2
<1>6. Solves(F)
  <2> HIDE DEF Solves
  <2>1. QED
    BY <1>5
<1>7. Stored(n, k) = [i \in 1 .. k |-> F[i - 1] % ByteBase]
  BY DEF Stored
<1> HIDE DEF F
<1>8. F = [i \in 0 .. k |-> F[i]] /\ F[0] = n
  BY <1>3, <1>6
<1>9. ASSUME NEW i \in 1 .. k PROVE F[i] = F[i - 1] \div ByteBase
  <2>1. i \in 0 .. k /\ i # 0
    BY <1>3
  <2>2. QED
    BY <1>6, <2>1
<1>10. \A i \in 1 .. k : F[i - 1] \in Nat => F[i] = g[i][F[i - 1]]
  BY <1>2, <1>9
<1>11. F \in [0 .. k -> Nat]
  <2>1. Recursive(F, k, Nat, n, g)
    BY <1>1, <1>3, <1>8, <1>10, Stays
  <2>2. QED
    BY <1>3, <2>1, RecursiveStep
<1>12. QED
  BY <1>7, <1>8, <1>9, <1>11

(* Bytes that are read as a number are the bytes in which it is stored ... *)
LEMMA StoredValue ==
  ASSUME NEW x \in Seq(Byte)
  PROVE  Stored(Value(x), Len(x)) = x /\ Value(x) \in Nat
<1> DEFINE n == Len(x)
           B == ByteBase
<1>1. n \in Nat /\ \A i \in 1 .. n : x[i] \in 0 .. ByteBase - 1
  <2>1. \A i \in 1 .. n : x[i] \in Byte
    OBVIOUS
  <2>2. QED
    BY <2>1 DEF Byte
<1>2. PICK v \in [0 .. n -> Nat] :
        /\ v[0] = 0 /\ Value(x) = v[n]
        /\ \A i \in 1 .. n : v[i] = v[i - 1] * ByteBase + x[n - i + 1]
  BY ValueIs
<1> HIDE DEF n
<1>3. v[n] \in Nat
  BY <1>1, <1>2
<1>4. PICK r \in [0 .. n -> Nat] :
        /\ r[0] = v[n] /\ Stored(v[n], n) = [i \in 1 .. n |-> r[i - 1] % ByteBase]
        /\ \A i \in 1 .. n : r[i] = r[i - 1] \div ByteBase
  BY <1>1, <1>3, StoredIs
<1>5. ASSUME NEW i \in 1 .. n, r[i - 1] = v[n - (i - 1)]
      PROVE  r[i] = v[n - i] /\ r[i - 1] % ByteBase = x[i]
  <2>1. n - i + 1 \in 1 .. n /\ n - i \in 0 .. n /\ n - (i - 1) = n - i + 1
        /\ n - (n - i + 1) + 1 = i /\ (n - i + 1) - 1 = n - i
    BY <1>1
  <2>2. v[n - i + 1] = v[n - i] * ByteBase + x[i] /\ v[n - i] \in Nat
        /\ v[n - i + 1] \in Nat
    BY <1>2, <2>1
  <2> DEFINE y == v[n - i + 1]
             z == v[n - i]
             d == x[i]
  <2>3. y = ByteBase * z + d /\ z \in Int /\ y \in Int /\ d \in 0 .. ByteBase - 1
    BY <1>1, <2>2, Constants
  <2> HIDE DEF y, z, d
  <2>4. y \div ByteBase = z /\ y % ByteBase = d
    BY <2>3, Constants, DivModUnique
  <2>5. r[i - 1] = y /\ r[i] = r[i - 1] \div ByteBase
    BY <1>4, <1>5, <2>1 DEF y
  <2>6. QED
    BY <2>4, <2>5 DEF z, d
<1> DEFINE T == {i \in 0 .. n : r[i] = v[n - i]}
<1>6. 0 .. n \subseteq T
  <2>1. 0 \in T
    BY <1>1, <1>4
  <2>2. ASSUME NEW i \in 1 .. n, i - 1 \in T PROVE i \in T
    BY <1>1, <1>5, <2>2
  <2> HIDE DEF T
  <2>3. QED
    BY <1>1, <2>1, <2>2, Along
<1>7. \A i \in 1 .. n : r[i - 1] % ByteBase = x[i]
  <2>1. ASSUME NEW i \in 1 .. n PROVE r[i - 1] = v[n - (i - 1)]
    <3>1. i - 1 \in 0 .. n
      BY <1>1
    <3>2. QED
      BY <1>6, <3>1
  <2>2. QED
    BY <1>5, <2>1
<1>8. Stored(v[n], n) = [i \in 1 .. n |-> x[i]]
  BY <1>4, <1>7
<1>9. x = [i \in 1 .. n |-> x[i]]
  BY DEF n
<1>10. QED
  BY <1>2, <1>3, <1>8, <1>9 DEF n

(* ... and a number is what is read where it was stored, if it fits. *)
LEMMA ValueStored ==
  ASSUME NEW k \in Nat, NEW a \in Nat, a < Weight(k)
  PROVE  /\ Stored(a, k) \in Seq(Byte) /\ Len(Stored(a, k)) = k
         /\ Value(Stored(a, k)) = a
<1> DEFINE x == Stored(a, k)
<1>1. PICK r \in [0 .. k -> Nat] :
        /\ r[0] = a /\ x = [i \in 1 .. k |-> r[i - 1] % ByteBase]
        /\ \A i \in 1 .. k : r[i] = r[i - 1] \div ByteBase
  BY StoredIs
<1>2. \A i \in 1 .. k : /\ r[i - 1] \in Nat /\ r[i] \in Nat /\ r[i - 1] % ByteBase \in Byte
                        /\ r[i - 1] = ByteBase * r[i] + (r[i - 1] % ByteBase)
  <2>1. ASSUME NEW i \in 1 .. k
        PROVE  /\ r[i - 1] \in Nat /\ r[i] \in Nat /\ r[i - 1] % ByteBase \in Byte
               /\ r[i - 1] = ByteBase * r[i] + (r[i - 1] % ByteBase)
    <3>1. r[i - 1] \in Nat /\ r[i] \in Nat /\ r[i] = r[i - 1] \div ByteBase
      BY <1>1
    <3>2. QED
      BY <3>1, DivByte
  <2>2. QED
    BY <2>1
<1>3. x \in Seq(Byte) /\ Len(x) = k /\ \A i \in 1 .. k : x[i] = r[i - 1] % ByteBase
  <2> HIDE DEF x
  <2>1. x = [i \in 1 .. k |-> x[i]] /\ \A i \in 1 .. k : x[i] = r[i - 1] % ByteBase
    BY <1>1
  <2>2. \A i \in 1 .. k : x[i] \in Byte
    BY <1>2, <2>1
  <2>3. QED
    BY <2>1, <2>2
<1> HIDE DEF x
<1>4. PICK w \in [0 .. k -> Nat] : /\ w[0] = 1 /\ Weight(k) = w[k]
                                   /\ \A i \in 1 .. k : w[i] = w[i - 1] * ByteBase
  BY WeightIs
<1> DEFINE T == {i \in 0 .. k : r[i] < w[k - i]}
<1>5. 0 .. k \subseteq T
  <2>1. 0 \in T
    BY <1>1, <1>4
  <2>2. ASSUME NEW i \in 1 .. k, i - 1 \in T PROVE i \in T
    <3>1. k - i + 1 \in 1 .. k /\ k - i \in 0 .. k /\ k - (i - 1) = k - i + 1
          /\ k - i + 1 - 1 = k - i
      OBVIOUS
    <3>2. r[i - 1] < w[k - i + 1] /\ w[k - i + 1] = w[k - i] * ByteBase /\ w[k - i] \in Nat
      BY <1>4, <2>2, <3>1
    <3> DEFINE p == r[i]
               v == w[k - i]
               d == r[i - 1] % ByteBase
    <3>3. ByteBase * p + d < v * ByteBase /\ p \in Nat /\ v \in Nat /\ d \in Nat
      <4>1. p \in Nat /\ d \in Byte /\ r[i - 1] = ByteBase * p + d
        BY <1>2
      <4>2. r[i - 1] < v * ByteBase /\ v \in Nat
        BY <3>1, <3>2
      <4>3. QED
        BY <4>1, <4>2, Constants DEF Byte
    <3> HIDE DEF p, v, d
    <3>4. p < v
      <4>1. SUFFICES ASSUME p >= v PROVE FALSE
        BY <3>3
      <4>2. ByteBase * p >= v * ByteBase
        BY <3>3, <4>1, Constants, Z3
      <4>3. ByteBase * p \in Nat /\ v * ByteBase \in Nat
        BY <3>3, Constants
      <4>4. QED
        BY <3>3, <4>2, <4>3
    <3>5. QED
      BY <3>4 DEF p, v
  <2> HIDE DEF T
  <2>3. QED
    BY <2>1, <2>2, Along
<1>6. r[k] = 0
  BY <1>1, <1>4, <1>5
<1>7. PICK v \in [0 .. Len(x) -> Nat] :
        /\ v[0] = 0 /\ Value(x) = v[Len(x)]
        /\ \A i \in 1 .. Len(x) : v[i] = v[i - 1] * ByteBase + x[Len(x) - i + 1]
  BY <1>3, ValueIs
<1> DEFINE U == {i \in 0 .. k : v[i] = r[k - i]}
<1>8. 0 .. k \subseteq U
  <2>1. 0 \in U
    BY <1>6, <1>7
  <2>2. ASSUME NEW i \in 1 .. k, i - 1 \in U PROVE i \in U
    <3>1. k - i + 1 \in 1 .. k /\ k - (i - 1) = k - i + 1 /\ k - i + 1 - 1 = k - i
      OBVIOUS
    <3>2. v[i] = r[k - i + 1] * ByteBase + x[k - i + 1]
      BY <1>3, <1>7, <2>2, <3>1
    <3>3. x[k - i + 1] = r[k - i] % ByteBase
      BY <1>3, <3>1
    <3>4. /\ r[k - i] = ByteBase * r[k - i + 1] + (r[k - i] % ByteBase)
          /\ r[k - i + 1] \in Nat
      BY <1>2, <3>1
    <3>5. v[i] = r[k - i]
      BY <3>2, <3>3, <3>4, Constants
    <3>6. QED
      BY <3>5
  <2> HIDE DEF U
  <2>3. QED
    BY <2>1, <2>2, Along
<1>9. v[k] = r[0]
  BY <1>8
<1>10. QED
  BY <1>1, <1>3, <1>7, <1>9 DEF x

LEMMA WordIs ==
  ASSUME NEW w \in Seq(Byte), Len(w) = WordBytes
  PROVE  /\ Value(w) \in Nat /\ Memory(Value(w)) = w /\ htnu32(Value(w)) = Value(Reverse(w))
<1>1. Stored(Value(w), Len(w)) = w /\ Value(w) \in Nat
  BY StoredValue
<1>2. QED
  BY <1>1 DEF Memory, htnu32

(* Bytes that are written over others. *)
LEMMA OverwriteIs ==
  ASSUME NEW n \in Nat, NEW m \in [1 .. n -> Byte], NEW from \in Nat, NEW x \in Seq(Byte)
  PROVE  /\ Overwrite(m, from, x) \in [1 .. n -> Byte]
         /\ \A p \in 1 .. n : Overwrite(m, from, x)[p] =
              IF from < p /\ p <= from + Len(x) THEN x[p - from] ELSE m[p]
<1>1. DOMAIN m = 1 .. n /\ DOMAIN x = 1 .. Len(x) /\ Len(x) \in Nat
  OBVIOUS
<1>2. ASSUME NEW p \in 1 .. n
      PROVE  (p - from \in DOMAIN x) <=> (from < p /\ p <= from + Len(x))
  BY <1>1
<1>3. Overwrite(m, from, x) =
        [p \in 1 .. n |-> IF from < p /\ p <= from + Len(x) THEN x[p - from] ELSE m[p]]
  BY <1>1, <1>2 DEF Overwrite
<1>4. \A p \in 1 .. n : p - from \in DOMAIN x => x[p - from] \in Byte
  BY <1>1
<1>5. QED
  BY <1>2, <1>3, <1>4

(* The number at the beginning of a value. *)
LEMMA NumberIs ==
  ASSUME NEW d, NEW n \in Nat, Len(d) = n, \A i \in 1 .. n : d[i] \in Int
         /\ d[i] >= ZeroChar
  PROVE  Number(d) \in Nat
<1> DEFINE Solves(f) == f = [i \in 0 .. Len(d) |->
                              IF i = 0 THEN 0 ELSE f[i - 1] * Radix + d[i] - ZeroChar]
           F == CHOOSE f : Solves(f)
           g == [i \in 1 .. n |-> [x \in Nat |-> x * Radix + d[i] - ZeroChar]]
<1>1. Radix \in Nat /\ ZeroChar \in Nat
  BY DigitsAssumption DEF Char, Byte
<1>2. g \in [1 .. n -> [Nat -> Nat]]
  <2>1. ASSUME NEW i \in 1 .. n, NEW x \in Nat PROVE x * Radix + d[i] - ZeroChar \in Nat
    <3>1. x * Radix \in Nat
      BY <1>1
    <3>2. d[i] \in Int /\ d[i] >= ZeroChar
      OBVIOUS
    <3> DEFINE y == x * Radix
    <3>3. y \in Nat
      BY <3>1
    <3> HIDE DEF y
    <3>4. y + d[i] - ZeroChar \in Nat
      BY <1>1, <3>2, <3>3
    <3>5. QED
      BY <3>4 DEF y
  <2>2. QED
    BY <2>1
<1>3. \A i \in 1 .. n : \A x \in Nat : g[i][x] = x * Radix + d[i] - ZeroChar
  OBVIOUS
<1>4. 0 \in Nat
  OBVIOUS
<1> HIDE DEF g
<1>5. PICK f : Recursive(f, n, Nat, 0, g)
  BY <1>2, <1>4, Recursion
<1>6. Solves(f)
  <2>1. /\ f \in [0 .. n -> Nat] /\ f[0] = 0
        /\ \A i \in 1 .. n : f[i - 1] \in Nat /\ f[i] = g[i][f[i - 1]]
    BY <1>5, RecursiveStep
  <2>2. \A i \in 1 .. n : f[i] = f[i - 1] * Radix + d[i] - ZeroChar
    BY <1>3, <2>1
  <2>3. QED
    BY <2>1, <2>2
<1>7. Solves(F)
  <2> HIDE DEF Solves
  <2>1. QED
    BY <1>6
<1>8. Number(d) = F[n]
  BY DEF Number
<1> HIDE DEF F
<1>9. F = [i \in 0 .. n |-> F[i]] /\ F[0] = 0
  BY <1>7
<1>10. ASSUME NEW i \in 1 .. n PROVE F[i] = F[i - 1] * Radix + d[i] - ZeroChar
  <2>1. i \in 0 .. n /\ i # 0
    OBVIOUS
  <2>2. QED
    BY <1>7, <2>1
<1>11. \A i \in 1 .. n : F[i - 1] \in Nat => F[i] = g[i][F[i - 1]]
  BY <1>3, <1>10
<1>12. Recursive(F, n, Nat, 0, g)
  BY <1>2, <1>4, <1>9, <1>11, Stays
<1>13. QED
  BY <1>8, <1>12 DEF Recursive

LEMMA LeadingIs ==
  ASSUME NEW S, NEW str \in Seq(S)
  PROVE  Number(Leading(str)) \in Nat
<1> DEFINE I == {i \in 1 .. Len(str) : ~IsDigit(str[i])}
           end == SelectInSeq(str, LAMBDA c : ~IsDigit(c))
           d == Leading(str)
<1>1. Len(str) \in Nat /\ ZeroChar \in Nat /\ Radix \in Nat
  BY DigitsAssumption DEF Char, Byte
<1>2. end = IF I # {} THEN Min(I) ELSE 0
  BY DEF SelectInSeq, SelectInSubSeq
<1>3. d = IF end = 0 THEN str ELSE SubSeq(str, 1, end - 1)
  BY DEF Leading
<1> HIDE DEF end, d
<1>4. \A i \in 1 .. Len(str) : IsDigit(str[i]) => str[i] \in Int /\ str[i] >= ZeroChar
  BY <1>1 DEF IsDigit
<1>5. CASE I = {}
  <2>1. \A i \in 1 .. Len(str) : IsDigit(str[i])
    BY <1>5
  <2>2. d = str
    BY <1>2, <1>3, <1>5
  <2>3. QED
    BY <1>1, <1>4, <2>1, <2>2, NumberIs DEF d
<1>6. CASE I # {}
  <2>1. I \subseteq Nat
    BY <1>1
  <2>2. PICK y \in I : \A x \in I : y <= x
    BY <1>6, <2>1, LeastNat
  <2>3. end \in I /\ \A x \in I : end <= x
    <3> HIDE DEF I
    <3>1. QED
      BY <1>2, <1>6, <2>2 DEF Min
  <2>4. end \in 1 .. Len(str) /\ d = SubSeq(str, 1, end - 1)
    BY <1>1, <1>3, <2>3
  <2>5. \A i \in 1 .. end - 1 : i \in 1 .. Len(str) /\ IsDigit(str[i])
    BY <1>1, <2>3, <2>4
  <2>6. /\ end - 1 \in Nat /\ Len(d) = end - 1 /\ \A i \in 1 .. end - 1 : d[i] = str[i]
    BY <2>4
  <2>7. \A i \in 1 .. end - 1 : d[i] \in Int /\ d[i] >= ZeroChar
    BY <1>4, <2>5, <2>6
  <2>8. QED
    BY <2>6, <2>7, NumberIs DEF d
<1>7. QED
  BY <1>5, <1>6

-----------------------------------------------------------------------------
(* Numbers with a sign. *)

(* The bytes of any integer. *)
LEMMA StoredTyped ==
  ASSUME NEW n \in Int, NEW k \in Nat
  PROVE  Stored(n, k) \in Seq(Byte) /\ Len(Stored(n, k)) = k
<1> DEFINE g == [i \in 1 .. k |-> [x \in Int |-> x \div ByteBase]]
           F == CHOOSE F : F = [i \in 0 .. k |-> IF i = 0 THEN n ELSE F[i - 1] \div ByteBase]
<1>1. ByteBase \in Nat \ {0} /\ \A x \in Int : x \div ByteBase \in Int /\ x % ByteBase \in Byte
  <2>1. ByteBase \in Nat \ {0}
    BY Constants
  <2>2. ASSUME NEW x \in Int PROVE x \div ByteBase \in Int /\ x % ByteBase \in 0 .. ByteBase - 1
    BY <2>1, DivMod
  <2>3. QED
    BY <2>1, <2>2 DEF Byte
<1>2. g \in [1 .. k -> [Int -> Int]]
  BY <1>1
<1>3. PICK r : Recursive(r, k, Int, n, g)
  <2> HIDE DEF g
  <2>1. QED
    BY <1>2, Recursion
<1>4. /\ r \in [0 .. k -> Int] /\ r[0] = n
      /\ \A i \in 1 .. k : r[i - 1] \in Int /\ r[i] = g[i][r[i - 1]]
  <2> HIDE DEF g
  <2>1. QED
    BY <1>3, RecursiveStep
<1>5. r = [i \in 0 .. k |-> IF i = 0 THEN n ELSE r[i - 1] \div ByteBase]
  <2>1. \A i \in 1 .. k : r[i] = r[i - 1] \div ByteBase
    BY <1>4
  <2>2. \A i \in 0 .. k : r[i] = IF i = 0 THEN n ELSE r[i - 1] \div ByteBase
    BY <1>4, <2>1
  <2>3. QED
    BY <1>4, <2>2
<1>6. F = [i \in 0 .. k |-> IF i = 0 THEN n ELSE F[i - 1] \div ByteBase]
  BY <1>5
<1>7. Stored(n, k) = [i \in 1 .. k |-> F[i - 1] % ByteBase]
  BY DEF Stored
<1> HIDE DEF F
<1>8. \A i \in 0 .. k : F[i] = IF i = 0 THEN n ELSE F[i - 1] \div ByteBase
  BY <1>6
<1> DEFINE T == {i \in 0 .. k : F[i] \in Int}
<1>9. 0 .. k \subseteq T
  <2>1. 0 \in T
    BY <1>8
  <2>2. ASSUME NEW i \in 1 .. k, i - 1 \in T PROVE i \in T
    <3>1. i \in 0 .. k /\ i # 0 /\ F[i - 1] \in Int
      BY <2>2
    <3>2. F[i] = F[i - 1] \div ByteBase
      BY <1>8, <3>1
    <3>3. QED
      BY <1>1, <3>1, <3>2
  <2> HIDE DEF T
  <2>3. QED
    BY <2>1, <2>2, Along
<1>10. \A i \in 1 .. k : F[i - 1] % ByteBase \in Byte
  <2>1. \A i \in 1 .. k : i - 1 \in 0 .. k
    OBVIOUS
  <2>2. QED
    BY <1>1, <1>9, <2>1
<1>11. Stored(n, k) \in [1 .. k -> Byte]
  BY <1>7, <1>10
<1>12. QED
  BY <1>11

(* What the highest byte says of a number. *)
LEMMA TopByte ==
  ASSUME NEW s \in Seq(Byte), Len(s) # 0
  PROVE  \E w \in Nat : /\ w > 0 /\ Weight(Len(s)) = ByteBase * w /\ Last(s) \in Byte
                        /\ Value(s) \in Nat
                        /\ Last(s) * w <= Value(s) /\ Value(s) < (Last(s) + 1) * w
<1> DEFINE n == Len(s)
           t == Last(s)
<1>1. n \in Nat /\ n # 0 /\ t = s[n] /\ \A i \in 1 .. n : s[i] \in Byte
  BY ElementOfSeq, LenProperties DEF Last
<1> HIDE DEF n, t
<1>2. PICK f \in [0 .. n -> Nat] :
        /\ f[0] = 0 /\ Value(s) = f[n]
        /\ \A i \in 1 .. n : f[i] = f[i - 1] * ByteBase + s[n - i + 1]
  BY ValueIs DEF n
<1>3. PICK g \in [0 .. n -> Nat] :
        /\ g[0] = 1 /\ Weight(n) = g[n]
        /\ \A i \in 1 .. n : g[i] = g[i - 1] * ByteBase
  BY <1>1, WeightIs
<1>4. /\ ByteBase \in Nat /\ ByteBase > 0 /\ t \in Nat
      /\ \A b \in Byte : b \in Nat /\ b <= ByteBase - 1
  BY <1>1, Constants DEF Byte
<1> DEFINE T == {i \in 0 .. n : i # 0 => /\ g[i - 1] > 0
                                         /\ t * g[i - 1] <= f[i]
                                         /\ f[i] < (t + 1) * g[i - 1]}
<1>5. 0 .. n \subseteq T
  <2>1. 0 \in T
    BY <1>1
  <2>2. ASSUME NEW i \in 1 .. n, i - 1 \in T PROVE i \in T
    <3>1. CASE i = 1
      <4>1. f[1] = f[0] * ByteBase + s[n]
        BY <1>1, <1>2, <3>1
      <4>2. f[1] = t /\ g[1 - 1] = 1
        <5>1. f[1] = 0 * ByteBase + t
          BY <1>1, <1>2, <4>1
        <5>2. 0 * ByteBase + t = t
          BY <1>4
        <5>3. QED
          BY <1>3, <5>1, <5>2
      <4>3. t * 1 <= t /\ t < (t + 1) * 1
        BY <1>4
      <4>4. QED
        BY <3>1, <4>2, <4>3
    <3>2. CASE i # 1
      <4> DEFINE j == i - 1
                 v == g[j - 1]
                 b == s[n - i + 1]
      <4>1. j \in 1 .. n /\ j # 0 /\ j - 1 \in 0 .. n /\ j \in 0 .. n /\ n - i + 1 \in 1 .. n
        BY <1>1, <3>2
      <4>2. v \in Nat /\ f[j] \in Nat /\ b \in Byte
        BY <1>1, <1>2, <1>3, <4>1
      <4>3. v > 0 /\ t * v <= f[j] /\ f[j] < (t + 1) * v
        BY <2>2, <4>1
      <4>4. g[j] = v * ByteBase /\ f[i] = f[j] * ByteBase + b
        BY <1>2, <1>3, <4>1
      <4> HIDE DEF j, v, b
      <4>5. v * ByteBase > 0
        BY <1>4, <4>2, <4>3, Z3
      <4>6. t * (v * ByteBase) <= f[j] * ByteBase
        <5>1. (t * v) * ByteBase <= f[j] * ByteBase
          <6>1. \A x, y, z \in Nat : x <= y => x * z <= y * z
            BY Z3
          <6>2. t * v \in Nat
            BY <1>4, <4>2
          <6>3. QED
            BY <1>4, <4>2, <4>3, <6>1, <6>2
        <5>2. (t * v) * ByteBase = t * (v * ByteBase)
          BY <1>4, <4>2, Z3
        <5>3. QED
          BY <5>1, <5>2
      <4>7. f[j] * ByteBase + ByteBase <= (t + 1) * (v * ByteBase)
        <5>1. (f[j] + 1) * ByteBase <= ((t + 1) * v) * ByteBase
          <6>1. \A x, y, z \in Nat : x <= y => x * z <= y * z
            BY Z3
          <6>2. (t + 1) * v \in Nat /\ f[j] + 1 \in Nat /\ f[j] + 1 <= (t + 1) * v
            BY <1>4, <4>2, <4>3
          <6>3. QED
            BY <1>4, <6>1, <6>2
        <5>2. ((t + 1) * v) * ByteBase = (t + 1) * (v * ByteBase)
          BY <1>4, <4>2, Z3
        <5>3. (f[j] + 1) * ByteBase = f[j] * ByteBase + ByteBase
          BY <1>4, <4>2, Z3
        <5>4. QED
          BY <5>1, <5>2, <5>3
      <4>8. t * (v * ByteBase) <= f[i] /\ f[i] < (t + 1) * (v * ByteBase)
        <5>1. b \in Nat /\ b <= ByteBase - 1
          BY <1>4, <4>2
        <5>2. /\ t * (v * ByteBase) \in Nat /\ f[j] * ByteBase \in Nat
              /\ (t + 1) * (v * ByteBase) \in Nat
          BY <1>4, <4>2
        <5> DEFINE lo == t * (v * ByteBase)
                   fj == f[j] * ByteBase
                   hi == (t + 1) * (v * ByteBase)
        <5> HIDE DEF lo, fj, hi
        <5>3. /\ lo \in Nat /\ fj \in Nat /\ hi \in Nat /\ lo <= fj /\ fj + ByteBase <= hi
              /\ f[i] = fj + b
          BY <4>4, <4>6, <4>7, <5>2 DEF lo, fj, hi
        <5>4. lo <= fj + b /\ fj + b < hi
          BY <1>4, <5>1, <5>3
        <5>5. QED
          BY <5>3, <5>4 DEF lo, hi
      <4>9. QED
        BY <4>4, <4>5, <4>8 DEF j
    <3>3. QED
      BY <3>1, <3>2
  <2> HIDE DEF T
  <2>3. QED
    BY <1>1, <2>1, <2>2, Along
<1> DEFINE w == g[n - 1]
<1>6. n \in 0 .. n /\ n \in 1 .. n /\ n - 1 \in 0 .. n
  BY <1>1
<1>7. w \in Nat /\ w > 0 /\ t * w <= f[n] /\ f[n] < (t + 1) * w /\ f[n] \in Nat
  BY <1>1, <1>2, <1>3, <1>5, <1>6
<1>8. Weight(n) = w * ByteBase
  BY <1>3, <1>6
<1>9. w * ByteBase = ByteBase * w
  BY <1>4, <1>7
<1>10. t \in Byte
  BY <1>1, <1>6
<1> HIDE DEF w
<1>11. QED
  BY <1>2, <1>7, <1>8, <1>9, <1>10 DEF n, t

LEMMA SignedTyped ==
  ASSUME NEW s \in Seq(Byte)
  PROVE  SignedValue(s) \in Int
<1>1. Value(s) \in Int
  BY StoredValue
<1>2. Weight(Len(s)) \in Int
  <2>1. Len(s) \in Nat
    BY LenProperties
  <2>2. PICK f \in [0 .. Len(s) -> Nat] : Weight(Len(s)) = f[Len(s)]
    BY <2>1, WeightIs
  <2>3. QED
    BY <2>1, <2>2
<1>3. QED
  BY <1>1, <1>2 DEF SignedValue

(* A number whose highest bit is the sign. *)
LEMMA SignedRange ==
  ASSUME NEW s \in Seq(Byte), Len(s) # 0
  PROVE  SignedValue(s) \in -Weight(Len(s)) \div 2 .. Weight(Len(s)) \div 2 - 1
<1>1. PICK w \in Nat : /\ w > 0 /\ Weight(Len(s)) = ByteBase * w /\ Last(s) \in Byte
                       /\ Value(s) \in Nat
                       /\ Last(s) * w <= Value(s) /\ Value(s) < (Last(s) + 1) * w
  BY TopByte
<1> DEFINE h == ByteBase \div 2
           t == Last(s)
           v == Value(s)
           W == Weight(Len(s))
<1>2. h \in Nat /\ ByteBase = 2 * h /\ ByteBase \in Nat
  <2>1. ByteBase \in Nat
    BY Constants
  <2>2. h \in Nat /\ ByteBase = 2 * h + (ByteBase % 2)
    <3>1. 2 \in Nat \ {0} /\ ByteBase \in Int
      BY <2>1
    <3>2. ByteBase = 2 * (ByteBase \div 2) + (ByteBase % 2)
      BY <3>1, DivMod
    <3>3. ByteBase \div 2 \in Nat
      BY <2>1, <3>1, DivNat
    <3>4. QED
      BY <3>2, <3>3
  <2>3. QED
    BY <2>1, <2>2, SignAssumption
<1>3. W = 2 * (h * w) /\ h * w \in Nat /\ t \in Nat /\ t <= ByteBase - 1
  <2>1. W = (2 * h) * w
    BY <1>1, <1>2
  <2>2. t \in Nat /\ t <= ByteBase - 1
    BY <1>1, <1>2 DEF Byte
  <2> HIDE DEF h
  <2>3. (2 * h) * w = 2 * (h * w) /\ h * w \in Nat
    BY <1>2, Z3
  <2>4. QED
    BY <2>1, <2>2, <2>3
<1> DEFINE hw == h * w
<1>4. W \div 2 = hw /\ (-W) \div 2 = -hw
  <2> HIDE DEF h, W
  <2>1. hw \in Nat /\ W = 2 * hw
    BY <1>3
  <2> HIDE DEF hw
  <2>2. QED
    BY <2>1, Z3
<1>5. \A x, y, z \in Nat : x <= y => x * z <= y * z
  BY Z3
<1>6. s # <<>>
  OBVIOUS
<1> HIDE DEF h, t, v, W
<1>7. v \in Nat /\ t * w <= v /\ v < (t + 1) * w
  BY <1>1 DEF t, v
<1>8. CASE t >= h
  <2>1. SignedValue(s) = v - W
    BY <1>6, <1>8 DEF SignedValue, h, t, v, W
  <2>2. hw <= v
    <3>1. h * w <= t * w /\ t * w \in Nat
      BY <1>2, <1>3, <1>5, <1>8
    <3>2. QED
      BY <1>2, <1>3, <1>7, <3>1
  <2>3. v < 2 * hw
    <3>1. (t + 1) * w <= (2 * h) * w
      BY <1>2, <1>3, <1>5
    <3>2. (2 * h) * w = 2 * hw
      BY <1>2, Z3
    <3>3. (t + 1) * w \in Nat
      BY <1>3
    <3>4. QED
      BY <1>2, <1>3, <1>7, <3>1, <3>2, <3>3
  <2>4. W = 2 * hw /\ hw \in Nat
    BY <1>3
  <2> HIDE DEF hw
  <2>5. v - W \in -hw .. hw - 1
    BY <1>7, <2>2, <2>3, <2>4
  <2>6. QED
    BY <1>4, <2>1, <2>5 DEF W
<1>9. CASE ~(t >= h)
  <2>1. SignedValue(s) = v
    BY <1>6, <1>9 DEF SignedValue, h, t, v, W
  <2>2. v < hw
    <3>1. t + 1 \in Nat /\ t + 1 <= h
      BY <1>2, <1>3, <1>9
    <3>2. (t + 1) * w <= h * w /\ (t + 1) * w \in Nat
      BY <1>2, <1>5, <3>1
    <3>3. QED
      BY <1>3, <1>7, <3>2
  <2>3. hw \in Nat
    BY <1>3
  <2> HIDE DEF hw
  <2>4. v \in -hw .. hw - 1
    BY <1>7, <2>2, <2>3
  <2>5. QED
    BY <1>4, <2>1, <2>4 DEF W
<1>10. QED
  BY <1>8, <1>9
=============================================================================

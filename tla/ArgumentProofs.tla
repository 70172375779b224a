--------------------------- MODULE ArgumentProofs ---------------------------
(***************************************************************************)
(* How arguments are written and read: numbers in digits, the fields and   *)
(* the properties of a text, and what is picked from a sequence.           *)
(***************************************************************************)
EXTENDS AlgorithmProofs

-----------------------------------------------------------------------------
(* Concatenations *)

(* Induction up to L, on the set of the numbers that are known to be good. *)
LEMMA UpTo ==
  ASSUME NEW L \in Nat, NEW I, 0 \in I, \A i \in 1..L : i - 1 \in I => i \in I
  PROVE  \A i \in 0..L : i \in I
<1> DEFINE T == {i \in 0..L : i \notin I}
<1>1. T = {}
  <2> SUFFICES ASSUME T # {} PROVE FALSE
    OBVIOUS
  <2>1. Min(T) \in T /\ \A k \in T : Min(T) <= k
    <3>1. T \in SUBSET Nat
      OBVIOUS
    <3> HIDE DEF T
    <3> QED BY <3>1, Least
  <2>2. PICK K \in T : \A k \in T : K <= k
    BY <2>1
  <2>3. K \in 1..L /\ K - 1 \in 0..L /\ ~(K <= K - 1) /\ K \notin I
    OBVIOUS
  <2>4. K - 1 \in I
    BY <2>2, <2>3
  <2> QED BY <2>3, <2>4
<1> QED BY <1>1

(* f[i] is the concatenation of the first i of seqs. *)
Joins(f, seqs) ==
  /\ f[0] = <<>>
  /\ \A i \in 1..Len(seqs) : f[i] = f[i - 1] \o seqs[i]

(* FlattenSeq concatenates one after the other. *)
LEMMA Flattening ==
  ASSUME NEW S, NEW seqs \in Seq(Seq(S))
  PROVE  \E f \in [0..Len(seqs) -> Seq(S)] :
           Joins(f, seqs) /\ FlattenSeq(seqs) = f[Len(seqs)]
<1> DEFINE L == Len(seqs)
           Rec(g, b) == g = [i \in 1..b |-> IF i = 1 THEN seqs[i] ELSE g[i - 1] \o seqs[i]]
           I == {b \in 0..L : \E g : Rec(g, b)}
<1>1. L \in Nat /\ \A i \in 1..L : seqs[i] \in Seq(S)
  OBVIOUS
<1>2. \A b \in 0..L : b \in I
  <2>1. 0 \in I
    <3>1. Rec(<<>>, 0)
      OBVIOUS
    <3> HIDE DEF Rec
    <3> QED BY <1>1, <3>1
  <2>2. ASSUME NEW b \in 1..L, b - 1 \in I PROVE b \in I
    <3>1. PICK g : Rec(g, b - 1)
      BY <2>2
    <3> DEFINE h == [i \in 1..b |-> IF i # b THEN g[i]
                                    ELSE IF b = 1 THEN seqs[1] ELSE g[b - 1] \o seqs[b]]
    <3>2. \A i \in 1..b : h[i] = IF i = 1 THEN seqs[i] ELSE h[i - 1] \o seqs[i]
      <4> TAKE i \in 1..b
      <4>1. CASE i = b
        <5>1. b # 1 => b - 1 \in 1..b /\ b - 1 # b
          OBVIOUS
        <5>2. b # 1 => h[b - 1] = g[b - 1]
          BY <5>1
        <5> QED BY <4>1, <5>2
      <4>2. CASE i # b
        <5>1. i \in 1..b - 1
          BY <4>2
        <5>2. g[i] = IF i = 1 THEN seqs[i] ELSE g[i - 1] \o seqs[i]
          BY <3>1, <5>1
        <5>3. i # 1 => i - 1 \in 1..b /\ i - 1 # b
          BY <4>2
        <5>4. i # 1 => h[i - 1] = g[i - 1]
          BY <5>3
        <5> QED BY <4>2, <5>2, <5>4
      <4> QED BY <4>1, <4>2
    <3>3. Rec(h, b)
      BY <3>2
    <3> HIDE DEF Rec, h
    <3> QED BY <3>3
  <2> HIDE DEF I
  <2> QED BY <1>1, <2>1, <2>2, UpTo
<1>3. PICK g : g = (CHOOSE h : Rec(h, L)) /\ Rec(g, L)
  <2>1. L \in 0..L
    BY <1>1
  <2> QED BY <1>2, <2>1
<1> DEFINE f == [i \in 0..L |-> IF i = 0 THEN <<>> ELSE g[i]]
<1>4. Joins(f, seqs)
  <2>1. f[0] = <<>>
    BY <1>1
  <2>2. ASSUME NEW i \in 1..L PROVE f[i] = f[i - 1] \o seqs[i]
    <3>1. i \in 0..L /\ i - 1 \in 0..L /\ i # 0
      BY <1>1
    <3>2. g[i] = IF i = 1 THEN seqs[i] ELSE g[i - 1] \o seqs[i]
      BY <1>3
    <3>3. <<>> \o seqs[i] = seqs[i]
      BY <1>1
    <3>4. f[i] = g[i] /\ f[i - 1] = IF i = 1 THEN <<>> ELSE g[i - 1]
      BY <3>1
    <3> HIDE DEF f
    <3> QED BY <3>2, <3>3, <3>4
  <2> QED BY <2>1, <2>2 DEF Joins
<1>5. \A i \in 0..L : f[i] \in Seq(S)
  <2> DEFINE J == {i \in 0..L : f[i] \in Seq(S)}
  <2> HIDE DEF f
  <2>1. 0 \in J
    <3>1. 0 \in 0..L /\ f[0] = <<>>
      BY <1>1, <1>4 DEF Joins
    <3>2. <<>> \in Seq(S)
      OBVIOUS
    <3> QED BY <3>1, <3>2
  <2>2. ASSUME NEW i \in 1..L, i - 1 \in J PROVE i \in J
    <3>1. f[i - 1] \in Seq(S) /\ seqs[i] \in Seq(S) /\ f[i] = f[i - 1] \o seqs[i]
      BY <1>1, <1>4, <2>2 DEF Joins
    <3>2. f[i] \in Seq(S)
      BY <3>1
    <3> QED BY <1>1, <3>2
  <2> HIDE DEF J
  <2>3. \A i \in 0..L : i \in J
    BY <1>1, <2>1, <2>2, UpTo
  <2> QED BY <2>3 DEF J
<1>6. FlattenSeq(seqs) = f[L]
  <2>1. CASE L = 0
    <3>1. seqs = <<>>
      BY <2>1
    <3> QED BY <2>1, <3>1 DEF FlattenSeq
  <2>2. CASE L # 0
    <3>1. FlattenSeq(seqs) = g[L]
      BY <1>3, <2>2 DEF FlattenSeq
    <3> QED BY <1>1, <2>2, <3>1
  <2> QED BY <2>1, <2>2
<1>7. f \in [0..L -> Seq(S)]
  BY <1>5
<1> QED BY <1>4, <1>6, <1>7

-----------------------------------------------------------------------------
(* Numbers in digits *)

(* The digits of L, if g has those of the smaller numbers. *)
DigitsOf(g, L) ==
  IF L < 10 THEN <<Digits[L + 1]>> ELSE Append(g[L \div 10], Digits[(L % 10) + 1])

(* Dividing by ten gives a smaller number. *)
LEMMA Division ==
  ASSUME NEW L \in Nat
  PROVE  /\ L \div 10 \in Nat /\ L % 10 \in 0..9 /\ L = 10 * (L \div 10) + (L % 10)
         /\ L >= 10 => L \div 10 \in 1..L - 1
<1>1. L \div 10 \in Nat
  OBVIOUS
<1>2. L % 10 \in 0..9
  OBVIOUS
<1>3. L = 10 * (L \div 10) + (L % 10)
  OBVIOUS
<1> QED BY <1>1, <1>2, <1>3

(* A table of the numbers up to b. *)
Table(g, b) == g = [L \in 0..b |-> DigitsOf(g, L)]

(* There is a table up to every number. *)
LEMMA TableExists == \A b \in Nat : \E g : Table(g, b)
<1> SUFFICES ASSUME NEW b \in Nat PROVE \E g : Table(g, b)
  OBVIOUS
<1> DEFINE I == {c \in 0..b : \E g : Table(g, c)}
<1>1. 0 \in I
  <2>1. Table([L \in 0..0 |-> <<Digits[1]>>], 0)
    BY DEF Table, DigitsOf
  <2> QED BY <2>1
<1>2. ASSUME NEW c \in 1..b, c - 1 \in I PROVE c \in I
  <2>1. PICK g : Table(g, c - 1)
    BY <1>2
  <2> DEFINE h == [L \in 0..c |-> IF L = c THEN DigitsOf(g, c) ELSE g[L]]
  <2>2. ASSUME NEW L \in 0..c PROVE h[L] = DigitsOf(h, L)
    <3>1. L >= 10 => L \div 10 \in 0..c /\ L \div 10 # c
      BY Division
    <3>2. L >= 10 => h[L \div 10] = g[L \div 10]
      BY <3>1
    <3>3. DigitsOf(h, L) = DigitsOf(g, L)
      <4> HIDE DEF h
      <4> QED BY <3>2 DEF DigitsOf
    <3>4. CASE L = c
      BY <3>3, <3>4
    <3>5. CASE L # c
      <4>1. L \in 0..c - 1
        BY <3>5
      <4>2. g[L] = DigitsOf(g, L)
        <5> DEFINE d(k) == DigitsOf(g, k)
        <5>1. g = [k \in 0..c - 1 |-> d(k)]
          BY <2>1 DEF Table
        <5> HIDE DEF d
        <5>2. g[L] = d(L)
          BY <4>1, <5>1
        <5> QED BY <5>2 DEF d
      <4> QED BY <3>3, <3>5, <4>2
    <3> QED BY <3>4, <3>5
  <2>3. Table(h, c)
    <3> DEFINE d(k) == DigitsOf(h, k)
    <3>1. \A L \in 0..c : h[L] = d(L)
      BY <2>2
    <3>2. h = [L \in 0..c |-> h[L]]
      OBVIOUS
    <3> HIDE DEF h, d
    <3>3. h = [L \in 0..c |-> d(L)]
      BY <3>1, <3>2
    <3> QED BY <3>3 DEF Table, d
  <2> QED BY <2>3
<1> HIDE DEF I
<1>3. \A c \in 0..b : c \in I
  BY <1>1, <1>2, UpTo
<1> QED BY <1>3 DEF I

(* An entry of a table. *)
LEMMA TableEntry ==
  ASSUME NEW g, NEW b \in Nat, Table(g, b), NEW L \in 0..b
  PROVE  g[L] = DigitsOf(g, L)
<1> DEFINE d(k) == DigitsOf(g, k)
<1>1. g = [k \in 0..b |-> d(k)]
  BY DEF Table
<1> HIDE DEF d
<1>2. g[L] = d(L)
  BY <1>1
<1> QED BY <1>2 DEF d

(* Tables agree. *)
LEMMA TablesAgree ==
  ASSUME NEW g, NEW b \in Nat, Table(g, b), NEW h, NEW c \in Nat, Table(h, c), b <= c
  PROVE  \A L \in 0..b : g[L] = h[L]
<1> DEFINE I == {K \in 0..b : \A L \in 0..K : g[L] = h[L]}
<1>1. ASSUME NEW L \in 0..b, \A k \in 0..L - 1 : g[k] = h[k] PROVE g[L] = h[L]
  <2>1. g[L] = DigitsOf(g, L) /\ h[L] = DigitsOf(h, L)
    BY TableEntry
  <2>2. L >= 10 => L \div 10 \in 0..L - 1
    BY Division
  <2> QED BY <1>1, <2>1, <2>2 DEF DigitsOf
<1>2. 0 \in I
  <2>1. \A L \in 0..0 : L \in 0..b /\ \A k \in 0..L - 1 : g[k] = h[k]
    OBVIOUS
  <2> QED BY <1>1, <2>1
<1>3. ASSUME NEW K \in 1..b, K - 1 \in I PROVE K \in I
  <2>1. g[K] = h[K]
    BY <1>1, <1>3
  <2>2. \A L \in 0..K : L = K \/ L \in 0..K - 1
    OBVIOUS
  <2> QED BY <1>3, <2>1, <2>2
<1> HIDE DEF I
<1>4. \A K \in 0..b : K \in I
  BY <1>2, <1>3, UpTo
<1>5. b \in I
  BY <1>4
<1> QED BY <1>5 DEF I

(* decimal is the function its recursion describes. *)
LEMMA DecimalRecursion == decimal = [L \in Nat |-> DigitsOf(decimal, L)]
<1> DEFINE Full(g) == g = [L \in Nat |-> DigitsOf(g, L)]
           table(L) == CHOOSE g : Table(g, L)
           all == [L \in Nat |-> table(L)[L]]
<1>1. \A L \in Nat : Table(table(L), L)
  BY TableExists
<1> HIDE DEF table
<1>2. ASSUME NEW L \in Nat PROVE all[L] = DigitsOf(all, L)
  <2>1. all[L] = DigitsOf(table(L), L)
    BY <1>1, TableEntry
  <2>2. L >= 10 => table(L)[L \div 10] = all[L \div 10]
    <3> HAVE L >= 10
    <3>1. L \div 10 \in Nat /\ L \div 10 <= L /\ L \div 10 \in 0..L \div 10
      BY Division
    <3>2. table(L \div 10)[L \div 10] = table(L)[L \div 10]
      BY <1>1, <3>1, TablesAgree
    <3> QED BY <3>1, <3>2
  <2> HIDE DEF all
  <2> QED BY <2>1, <2>2 DEF DigitsOf
<1>3. Full(all)
  <2> DEFINE d(k) == DigitsOf(all, k)
  <2>1. \A L \in Nat : all[L] = d(L)
    BY <1>2
  <2>2. all = [L \in Nat |-> all[L]]
    OBVIOUS
  <2> HIDE DEF all, d
  <2>3. all = [L \in Nat |-> d(L)]
    BY <2>1, <2>2
  <2> QED BY <2>3 DEF d
<1>4. decimal = CHOOSE g : Full(g)
  BY DEF decimal, DigitsOf
<1> HIDE DEF Full, all
<1>5. Full(decimal)
  BY <1>3, <1>4
<1> QED BY <1>5 DEF Full

(* The digits, as characters. *)
DigitChars == {"0", "1", "2", "3", "4", "5", "6", "7", "8", "9"}

(* The digits are ten, and differ. *)
LEMMA DigitsAreChars ==
  /\ \A i \in 1..10 : Digits[i] \in DigitChars
  /\ \A i, j \in 1..10 : Digits[i] = Digits[j] => i = j
<1>1. \A i \in 1..10 : i = 1 \/ i = 2 \/ i = 3 \/ i = 4 \/ i = 5 \/ i = 6 \/ i = 7 \/ i = 8
                         \/ i = 9 \/ i = 10
  OBVIOUS
<1> QED BY <1>1 DEF Digits, DigitChars

(* An entry of a table is the number in digits. *)
LEMMA DecimalEntry ==
  ASSUME NEW L \in Nat
  PROVE  decimal[L] = DigitsOf(decimal, L)
<1> DEFINE d(k) == DigitsOf(decimal, k)
<1>1. decimal = [k \in Nat |-> d(k)]
  BY DecimalRecursion
<1> HIDE DEF d
<1>2. decimal[L] = d(L)
  BY <1>1
<1> QED BY <1>2 DEF d

(* A number is written in digits, at least one. *)
LEMMA DecimalDigits ==
  \A L \in Nat : decimal[L] \in Seq(DigitChars) /\ decimal[L] # <<>>
<1> SUFFICES ASSUME NEW b \in Nat PROVE decimal[b] \in Seq(DigitChars) /\ decimal[b] # <<>>
  OBVIOUS
<1> DEFINE Ok(L) == decimal[L] \in Seq(DigitChars) /\ decimal[L] # <<>>
           I == {K \in 0..b : \A L \in 0..K : Ok(L)}
<1>1. ASSUME NEW L \in Nat, \A k \in 0..L - 1 : Ok(k) PROVE Ok(L)
  <2>1. CASE L < 10
    <3>1. decimal[L] = <<Digits[L + 1]>>
      BY <2>1, DecimalEntry, Zenon DEF DigitsOf
    <3>2. L + 1 \in 1..10
      BY <2>1
    <3> QED BY <3>1, <3>2, DigitsAreChars
  <2>2. CASE ~(L < 10)
    <3>1. decimal[L] = Append(decimal[L \div 10], Digits[(L % 10) + 1])
      BY <2>2, DecimalEntry, Zenon DEF DigitsOf
    <3>3. L \div 10 \in 0..L - 1 /\ (L % 10) + 1 \in 1..10
      BY <2>2, Division
    <3>2. Ok(L \div 10) /\ Digits[(L % 10) + 1] \in DigitChars
      BY <1>1, <3>3, DigitsAreChars
    <3> QED BY <3>1, <3>2, AppendProperties
  <2> QED BY <2>1, <2>2
<1> HIDE DEF Ok
<1>2. 0 \in I
  <2>1. \A L \in 0..0 : L \in Nat /\ \A k \in 0..L - 1 : Ok(k)
    OBVIOUS
  <2> QED BY <1>1, <2>1
<1>3. ASSUME NEW K \in 1..b, K - 1 \in I PROVE K \in I
  <2>1. Ok(K)
    BY <1>1, <1>3
  <2>2. \A L \in 0..K : L = K \/ L \in 0..K - 1
    OBVIOUS
  <2> QED BY <1>3, <2>1, <2>2
<1> HIDE DEF I
<1>4. b \in I
  BY <1>2, <1>3, UpTo
<1>5. Ok(b)
  BY <1>4 DEF I
<1> QED BY <1>5 DEF Ok

(* Different numbers are written differently. *)
LEMMA DecimalInjective ==
  \A K, L \in Nat : decimal[K] = decimal[L] => K = L
<1> SUFFICES ASSUME NEW b \in Nat PROVE \A L \in Nat : decimal[b] = decimal[L] => b = L
  OBVIOUS
<1> DEFINE Ok(K) == \A L \in Nat : decimal[K] = decimal[L] => K = L
           I == {K \in 0..b : \A k \in 0..K : Ok(k)}
<1>1. ASSUME NEW L \in Nat, L < 10
      PROVE  Len(decimal[L]) = 1 /\ decimal[L][1] = Digits[L + 1] /\ L + 1 \in 1..10
  <2>1. decimal[L] = <<Digits[L + 1]>>
    BY <1>1, DecimalEntry, Zenon DEF DigitsOf
  <2>2. L + 1 \in 1..10
    BY <1>1
  <2> QED BY <2>1, <2>2
<1>7. ASSUME NEW L \in Nat, ~(L < 10)
      PROVE  /\ decimal[L] = Append(decimal[L \div 10], Digits[(L % 10) + 1])
             /\ L \div 10 \in 0..L - 1 /\ L \div 10 \in Nat /\ (L % 10) + 1 \in 1..10
             /\ decimal[L \div 10] \in Seq(DigitChars) /\ Digits[(L % 10) + 1] \in DigitChars
             /\ Len(decimal[L]) > 1
  <2>1. decimal[L] = Append(decimal[L \div 10], Digits[(L % 10) + 1])
    BY <1>7, DecimalEntry, Zenon DEF DigitsOf
  <2>2. L \div 10 \in 0..L - 1 /\ L \div 10 \in Nat /\ (L % 10) + 1 \in 1..10
    BY <1>7, Division
  <2> DEFINE x == decimal[L \div 10]
             p == Digits[(L % 10) + 1]
  <2>3. x \in Seq(DigitChars) /\ x # <<>> /\ p \in DigitChars
    BY <2>2, DecimalDigits, DigitsAreChars
  <2>4. Len(Append(x, p)) > 1
    <3> HIDE DEF x, p
    <3>1. Len(Append(x, p)) = Len(x) + 1 /\ Len(x) > 0
      BY <2>3, AppendProperties
    <3> QED BY <3>1
  <2> QED BY <2>1, <2>2, <2>3, <2>4
<1>2. ASSUME NEW K \in Nat, \A k \in 0..K - 1 : Ok(k) PROVE Ok(K)
  <2> SUFFICES ASSUME NEW L \in Nat, decimal[K] = decimal[L] PROVE K = L
    OBVIOUS
  <2>1. CASE K < 10
    <3>1. L < 10
      <4> SUFFICES ASSUME ~(L < 10) PROVE FALSE
        OBVIOUS
      <4>1. Len(decimal[L]) > 1 /\ Len(decimal[K]) = 1
        BY <1>1, <1>7, <2>1
      <4> QED BY <4>1
    <3>2. Digits[K + 1] = Digits[L + 1] /\ K + 1 \in 1..10 /\ L + 1 \in 1..10
      BY <1>1, <2>1, <3>1
    <3>3. K + 1 = L + 1
      BY <3>2, DigitsAreChars
    <3> QED BY <3>3
  <2>2. CASE ~(K < 10)
    <3>1. ~(L < 10)
      <4> SUFFICES ASSUME L < 10 PROVE FALSE
        OBVIOUS
      <4>1. Len(decimal[K]) > 1 /\ Len(decimal[L]) = 1
        BY <1>1, <1>7, <2>2
      <4> QED BY <4>1
    <3> DEFINE x == decimal[K \div 10]
               y == decimal[L \div 10]
               p == Digits[(K % 10) + 1]
               q == Digits[(L % 10) + 1]
    <3>2. /\ K \div 10 \in 0..K - 1 /\ K \div 10 \in Nat /\ L \div 10 \in Nat
          /\ (K % 10) + 1 \in 1..10 /\ (L % 10) + 1 \in 1..10
      BY <1>7, <2>2, <3>1
    <3>3. x \in Seq(DigitChars) /\ y \in Seq(DigitChars) /\ p \in DigitChars /\ q \in DigitChars
      BY <1>7, <2>2, <3>1
    <3>4. Append(x, p) = Append(y, q)
      BY <1>7, <2>2, <3>1
    <3> HIDE DEF x, y, p, q
    <3>5. x = y /\ p = q
      BY <3>3, <3>4, AppendProperties
    <3>6. K \div 10 = L \div 10
      BY <1>2, <3>2, <3>5 DEF x, y
    <3>7. K % 10 = L % 10
      <4>1. (K % 10) + 1 = (L % 10) + 1
        BY <3>2, <3>5, DigitsAreChars DEF p, q
      <4>2. K % 10 \in 0..9 /\ L % 10 \in 0..9
        BY Division
      <4> QED BY <4>1, <4>2
    <3>8. K = 10 * (K \div 10) + (K % 10) /\ L = 10 * (L \div 10) + (L % 10)
      BY Division
    <3> QED BY <3>6, <3>7, <3>8, Zenon
  <2> QED BY <2>1, <2>2
<1> HIDE DEF Ok
<1>3. 0 \in I
  <2>1. \A L \in 0..0 : L \in Nat /\ \A k \in 0..L - 1 : Ok(k)
    OBVIOUS
  <2> QED BY <1>2, <2>1
<1>4. ASSUME NEW K \in 1..b, K - 1 \in I PROVE K \in I
  <2>1. Ok(K)
    BY <1>2, <1>4
  <2>2. \A L \in 0..K : L = K \/ L \in 0..K - 1
    OBVIOUS
  <2> QED BY <1>4, <2>1, <2>2
<1> HIDE DEF I
<1>5. b \in I
  BY <1>3, <1>4, UpTo
<1>6. Ok(b)
  BY <1>5 DEF I
<1> QED BY <1>6 DEF Ok

-----------------------------------------------------------------------------
(* The fields of a text *)

(* What is at each place of two that are joined. *)
LEMMA Joined ==
  ASSUME NEW S, NEW a \in Seq(S), NEW b \in Seq(S)
  PROVE  /\ a \o b \in Seq(S) /\ Len(a \o b) = Len(a) + Len(b)
         /\ Len(a) \in Nat /\ Len(b) \in Nat
         /\ \A k \in 1..Len(a) : (a \o b)[k] = a[k]
         /\ \A k \in 1..Len(b) : (a \o b)[Len(a) + k] = b[k]
  BY ConcatProperties

(* A part of the first, or of the second, of two that are joined. *)
LEMMA PartOfJoin ==
  ASSUME NEW S, NEW a \in Seq(S), NEW b \in Seq(S), NEW i \in Nat, NEW j \in Nat,
         1 <= i, i <= j + 1
  PROVE  /\ j <= Len(a) => SubSeq(a \o b, i, j) = SubSeq(a, i, j)
         /\ j <= Len(b) => SubSeq(a \o b, Len(a) + i, Len(a) + j) = SubSeq(b, i, j)
<1> DEFINE t == a \o b
<1>1. /\ t \in Seq(S) /\ Len(t) = Len(a) + Len(b) /\ Len(a) \in Nat /\ Len(b) \in Nat
      /\ \A k \in 1..Len(a) : t[k] = a[k]
      /\ \A k \in 1..Len(b) : t[Len(a) + k] = b[k]
  BY ConcatProperties
<1> HIDE DEF t
<1>2. ASSUME j <= Len(a) PROVE SubSeq(t, i, j) = SubSeq(a, i, j)
  <2> DEFINE x == SubSeq(t, i, j)
             y == SubSeq(a, i, j)
  <2>1. x \in Seq(S) /\ Len(x) = j + 1 - i /\ \A k \in 1..j + 1 - i : x[k] = t[i - 1 + k]
    BY <1>1, <1>2, Part
  <2>2. y \in Seq(S) /\ Len(y) = j + 1 - i /\ \A k \in 1..j + 1 - i : y[k] = a[i - 1 + k]
    BY <1>1, <1>2, Part
  <2>3. \A k \in 1..j + 1 - i : i - 1 + k \in 1..Len(a)
    BY <1>1, <1>2
  <2> HIDE DEF x, y
  <2>4. \A k \in 1..Len(x) : x[k] = y[k]
    BY <1>1, <2>1, <2>2, <2>3
  <2>5. x = y
    BY <2>1, <2>2, <2>4, SeqEqual
  <2> QED BY <2>5 DEF x, y
<1>3. ASSUME j <= Len(b) PROVE SubSeq(t, Len(a) + i, Len(a) + j) = SubSeq(b, i, j)
  <2> DEFINE x == SubSeq(t, Len(a) + i, Len(a) + j)
             y == SubSeq(b, i, j)
             l == Len(a)
  <2>1. x \in Seq(S) /\ Len(x) = j + 1 - i /\ \A k \in 1..j + 1 - i : x[k] = t[l + (i - 1 + k)]
    <3>1. /\ l + i \in Nat /\ l + j \in Nat /\ 1 <= l + i /\ l + i <= l + j + 1
          /\ l + j <= Len(t) /\ l + j + 1 - (l + i) = j + 1 - i
          /\ \A k \in 1..j + 1 - i : (l + i) - 1 + k = l + (i - 1 + k)
      BY <1>1, <1>3
    <3> DEFINE p == l + i
               q == l + j
    <3>3. p \in Nat /\ q \in Nat /\ 1 <= p /\ p <= q + 1 /\ q <= Len(t)
      BY <3>1
    <3> HIDE DEF p, q
    <3>2. /\ SubSeq(t, p, q) \in Seq(S)
          /\ Len(SubSeq(t, p, q)) = q + 1 - p
          /\ \A k \in 1..q + 1 - p : SubSeq(t, p, q)[k] = t[p - 1 + k]
      BY <1>1, <3>3, Part
    <3> QED BY <3>1, <3>2 DEF p, q
  <2>2. y \in Seq(S) /\ Len(y) = j + 1 - i /\ \A k \in 1..j + 1 - i : y[k] = b[i - 1 + k]
    BY <1>1, <1>3, Part
  <2>3. \A k \in 1..j + 1 - i : i - 1 + k \in 1..Len(b)
    BY <1>1, <1>3
  <2> HIDE DEF x, y
  <2>4. \A k \in 1..Len(x) : x[k] = y[k]
    BY <1>1, <2>1, <2>2, <2>3
  <2>5. x = y
    BY <2>1, <2>2, <2>4, SeqEqual
  <2> QED BY <2>5 DEF x, y
<1> QED BY <1>2, <1>3 DEF t

(* There is a field of t between i and j. *)
FieldAt(t, sep, i, j) ==
  /\ i < j
  /\ i = 0 \/ t[i] = sep
  /\ j = Len(t) + 1 \/ t[j] = sep
  /\ \A k \in i + 1..j - 1 : t[k] # sep

(* A field is what stands between two ends. *)
LEMMA FieldsAre ==
  ASSUME NEW S, NEW t \in Seq(S), NEW sep, NEW x
  PROVE  x \in Fields(t, sep) <=>
           \E i \in 0..Len(t), j \in 1..Len(t) + 1 :
             FieldAt(t, sep, i, j) /\ x = SubSeq(t, i + 1, j - 1)
<1>1. Len(t) \in Nat /\ DOMAIN t = 1..Len(t)
  OBVIOUS
<1>2. ASSUME x \in Fields(t, sep)
      PROVE  \E i \in 0..Len(t), j \in 1..Len(t) + 1 :
               FieldAt(t, sep, i, j) /\ x = SubSeq(t, i + 1, j - 1)
  <2>1. PICK p \in Ends(t, sep) \X Ends(t, sep) :
          /\ p[1] < p[2] /\ \A k \in p[1] + 1..p[2] - 1 : t[k] # sep
          /\ x = SubSeq(t, p[1] + 1, p[2] - 1)
    BY <1>2 DEF Fields
  <2>2. PICK i \in Ends(t, sep), j \in Ends(t, sep) : i = p[1] /\ j = p[2]
    OBVIOUS
  <2>3. i \in 0..Len(t) /\ j \in 1..Len(t) + 1 /\ FieldAt(t, sep, i, j)
    <3>1. /\ i = 0 \/ (i \in 1..Len(t) /\ t[i] = sep) \/ i = Len(t) + 1
          /\ j = 0 \/ (j \in 1..Len(t) /\ t[j] = sep) \/ j = Len(t) + 1
      BY <1>1 DEF Ends
    <3>2. i < j /\ \A k \in i + 1..j - 1 : t[k] # sep
      BY <2>1, <2>2
    <3>3. i \in 0..Len(t) /\ j \in 1..Len(t) + 1
      BY <1>1, <3>1, <3>2
    <3> QED BY <1>1, <3>1, <3>2, <3>3 DEF FieldAt
  <2> QED BY <2>1, <2>2, <2>3
<1>3. ASSUME NEW i \in 0..Len(t), NEW j \in 1..Len(t) + 1,
             FieldAt(t, sep, i, j), x = SubSeq(t, i + 1, j - 1)
      PROVE  x \in Fields(t, sep)
  <2>1. i \in Ends(t, sep) /\ j \in Ends(t, sep)
    BY <1>1, <1>3 DEF Ends, FieldAt
  <2> DEFINE p == <<i, j>>
  <2>2. p \in Ends(t, sep) \X Ends(t, sep) /\ p[1] = i /\ p[2] = j
    BY <2>1
  <2>3. p[1] < p[2] /\ \A k \in p[1] + 1..p[2] - 1 : t[k] # sep
    BY <1>3, <2>2 DEF FieldAt
  <2>4. x = SubSeq(t, p[1] + 1, p[2] - 1)
    BY <1>3, <2>2
  <2> HIDE DEF p
  <2> QED BY <2>2, <2>3, <2>4 DEF Fields
<1> QED BY <1>2, <1>3

(* A text without separators is one field. *)
LEMMA OneField ==
  ASSUME NEW S, NEW t \in Seq(S), NEW sep, \A k \in 1..Len(t) : t[k] # sep
  PROVE  Fields(t, sep) = {t}
<1>1. Len(t) \in Nat /\ SubSeq(t, 0 + 1, Len(t) + 1 - 1) = t
  <2>1. SubSeq(t, 1, Len(t)) = t
    OBVIOUS
  <2>2. 0 + 1 = 1 /\ Len(t) + 1 - 1 = Len(t) /\ Len(t) \in Nat
    OBVIOUS
  <2> QED BY <2>1, <2>2
<1>2. \A i \in 0..Len(t), j \in 1..Len(t) + 1 :
        FieldAt(t, sep, i, j) <=> i = 0 /\ j = Len(t) + 1
  BY <1>1 DEF FieldAt
<1>3. 0 \in 0..Len(t) /\ Len(t) + 1 \in 1..Len(t) + 1
  BY <1>1
<1>4. ASSUME NEW x PROVE x \in Fields(t, sep) <=> x = t
  <2>1. x \in Fields(t, sep) => x = t
    BY <1>1, <1>2, FieldsAre
  <2>2. t \in Fields(t, sep)
    BY <1>1, <1>2, <1>3, FieldsAre
  <2> QED BY <2>1, <2>2
<1> QED BY <1>4

(* A separator divides the fields of a text. *)
LEMMA FieldsJoin ==
  ASSUME NEW S, NEW a \in Seq(S), NEW b \in Seq(S), NEW sep \in S
  PROVE  Fields(a \o <<sep>> \o b, sep) = Fields(a, sep) \cup Fields(b, sep)
<1> DEFINE h == a \o <<sep>>
           t == h \o b
           l == Len(a)
           K == Len(b)
<1>1. /\ h \in Seq(S) /\ t \in Seq(S) /\ l \in Nat /\ K \in Nat
      /\ Len(h) = l + 1 /\ Len(t) = l + 1 + K
      /\ \A k \in 1..l : t[k] = a[k]
      /\ t[l + 1] = sep
      /\ \A k \in 1..K : t[l + 1 + k] = b[k]
  <2>1. /\ h \in Seq(S) /\ Len(h) = l + 1 /\ l \in Nat /\ K \in Nat /\ h[l + 1] = sep
        /\ \A k \in 1..l : h[k] = a[k]
    OBVIOUS
  <2> HIDE DEF h
  <2>2. /\ t \in Seq(S) /\ Len(t) = Len(h) + Len(b)
        /\ \A k \in 1..Len(h) : t[k] = h[k]
        /\ \A k \in 1..Len(b) : t[Len(h) + k] = b[k]
    <3>1. b \in Seq(S)
      OBVIOUS
    <3>2. h \in Seq(S)
      BY <2>1
    <3>3. /\ h \o b \in Seq(S) /\ Len(h \o b) = Len(h) + Len(b)
          /\ \A k \in 1..Len(h) : (h \o b)[k] = h[k]
          /\ \A k \in 1..Len(b) : (h \o b)[Len(h) + k] = b[k]
      BY ONLY <3>1, <3>2, Joined, SMTT(20)
    <3> QED BY ONLY <3>3 DEF t
  <2> HIDE DEF t
  <2> QED BY <2>1, <2>2
<1>2. \A i, j \in Nat : 1 <= i /\ i <= j + 1 =>
        /\ j <= l => SubSeq(t, i, j) = SubSeq(a, i, j)
        /\ j <= K => SubSeq(t, l + 1 + i, l + 1 + j) = SubSeq(b, i, j)
  <2> SUFFICES ASSUME NEW i \in Nat, NEW j \in Nat, 1 <= i, i <= j + 1
               PROVE  /\ j <= l => SubSeq(t, i, j) = SubSeq(a, i, j)
                      /\ j <= K => SubSeq(t, l + 1 + i, l + 1 + j) = SubSeq(b, i, j)
    OBVIOUS
  <2>1. j <= l => SubSeq(h, i, j) = SubSeq(a, i, j)
    <3>1. <<sep>> \in Seq(S)
      OBVIOUS
    <3> QED BY <3>1, PartOfJoin
  <2>2. j <= l => SubSeq(t, i, j) = SubSeq(h, i, j)
    <3>1. j <= l => j <= Len(h)
      BY <1>1
    <3> HIDE DEF h, l
    <3> QED BY <1>1, <3>1, PartOfJoin
  <2>3. j <= K => SubSeq(t, l + 1 + i, l + 1 + j) = SubSeq(b, i, j)
    <3> HIDE DEF h, l
    <3> QED BY <1>1, PartOfJoin
  <2> QED BY <2>1, <2>2, <2>3
<1> HIDE DEF h, t, l, K
<1>3. ASSUME NEW x \in Fields(t, sep) PROVE x \in Fields(a, sep) \cup Fields(b, sep)
  <2>0. x \in Fields(t, sep) /\ t \in Seq(S)
    BY <1>1
  <2>1. PICK i \in 0..Len(t), j \in 1..Len(t) + 1 :
          FieldAt(t, sep, i, j) /\ x = SubSeq(t, i + 1, j - 1)
    BY <2>0, FieldsAre
  <2>2. i < j /\ ~(i < l + 1 /\ l + 1 < j)
    <3>1. i < l + 1 /\ l + 1 < j => l + 1 \in i + 1..j - 1
      BY <1>1
    <3> QED BY <1>1, <2>1, <3>1 DEF FieldAt
  <2>3. CASE j <= l + 1
    <3>1. i \in 0..l /\ j \in 1..l + 1
      BY <1>1, <2>2, <2>3
    <3>2. FieldAt(a, sep, i, j)
      <4>1. i = 0 \/ a[i] = sep
        BY <1>1, <2>1, <3>1 DEF FieldAt
      <4>2. j = l + 1 \/ a[j] = sep
        BY <1>1, <2>1, <3>1 DEF FieldAt
      <4>3. \A k \in i + 1..j - 1 : a[k] # sep
        <5> TAKE k \in i + 1..j - 1
        <5>1. k \in 1..l
          BY <1>1, <3>1
        <5> QED BY <1>1, <2>1, <5>1 DEF FieldAt
      <4> QED BY <2>2, <4>1, <4>2, <4>3 DEF FieldAt, l
    <3>3. x = SubSeq(a, i + 1, j - 1)
      <4>1. i + 1 \in Nat /\ j - 1 \in Nat /\ 1 <= i + 1 /\ i + 1 <= (j - 1) + 1 /\ j - 1 <= l
        BY <1>1, <2>2, <3>1
      <4> QED BY <1>2, <2>1, <4>1
    <3> QED BY <3>1, <3>2, <3>3, FieldsAre DEF l
  <2>4. CASE ~(j <= l + 1)
    <3> DEFINE i1 == i - (l + 1)
               j1 == j - (l + 1)
    <3>1. i1 \in 0..K /\ j1 \in 1..K + 1 /\ i = l + 1 + i1 /\ j = l + 1 + j1 /\ i1 < j1
      BY <1>1, <2>1, <2>2, <2>4
    <3> HIDE DEF i1, j1
    <3>2. FieldAt(b, sep, i1, j1)
      <4>1. i1 = 0 \/ b[i1] = sep
        BY <1>1, <2>1, <3>1 DEF FieldAt
      <4>2. j1 = K + 1 \/ b[j1] = sep
        <5>1. j1 # K + 1 => j1 \in 1..K /\ j # Len(t) + 1
          BY <1>1, <3>1
        <5> QED BY <1>1, <2>1, <3>1, <5>1 DEF FieldAt
      <4>3. \A k \in i1 + 1..j1 - 1 : b[k] # sep
        <5> TAKE k \in i1 + 1..j1 - 1
        <5>1. l + 1 + k \in i + 1..j - 1 /\ k \in 1..K
          BY <1>1, <3>1
        <5> QED BY <1>1, <2>1, <5>1 DEF FieldAt
      <4> QED BY <3>1, <4>1, <4>2, <4>3 DEF FieldAt, K
    <3>3. x = SubSeq(b, i1 + 1, j1 - 1)
      <4>0. K \in Nat
        BY <1>1
      <4>1. /\ i1 + 1 \in Nat /\ j1 - 1 \in Nat /\ 1 <= i1 + 1 /\ i1 + 1 <= (j1 - 1) + 1
            /\ j1 - 1 <= K
        BY <3>1, <4>0
      <4>2. i + 1 = l + 1 + (i1 + 1) /\ j - 1 = l + 1 + (j1 - 1)
        BY <1>1, <3>1
      <4> QED BY <1>2, <2>1, <4>1, <4>2
    <3> QED BY <3>1, <3>2, <3>3, FieldsAre DEF K
  <2> QED BY <2>3, <2>4
<1>4. ASSUME NEW x \in Fields(a, sep) PROVE x \in Fields(t, sep)
  <2>1. PICK i \in 0..l, j \in 1..l + 1 :
          FieldAt(a, sep, i, j) /\ x = SubSeq(a, i + 1, j - 1)
    BY FieldsAre DEF l
  <2>2. i \in 0..Len(t) /\ j \in 1..Len(t) + 1 /\ i < j
    BY <1>1, <2>1 DEF FieldAt
  <2>3. FieldAt(t, sep, i, j)
    <3>1. i = 0 \/ t[i] = sep
      BY <1>1, <2>1 DEF FieldAt
    <3>2. t[j] = sep
      <4>1. j = l + 1 \/ a[j] = sep
        BY <2>1 DEF FieldAt, l
      <4>2. j = l + 1 \/ j \in 1..l
        BY <1>1
      <4> QED BY <1>1, <4>1, <4>2
    <3>3. \A k \in i + 1..j - 1 : t[k] # sep
      <4> TAKE k \in i + 1..j - 1
      <4>1. k \in 1..l
        BY <1>1
      <4> QED BY <1>1, <2>1, <4>1 DEF FieldAt
    <3> QED BY <2>2, <3>1, <3>2, <3>3 DEF FieldAt
  <2>4. x = SubSeq(t, i + 1, j - 1)
    <3>1. i + 1 \in Nat /\ j - 1 \in Nat /\ 1 <= i + 1 /\ i + 1 <= (j - 1) + 1 /\ j - 1 <= l
      BY <1>1, <2>2
    <3> QED BY <1>2, <2>1, <3>1
  <2> QED BY <1>1, <2>2, <2>3, <2>4, FieldsAre
<1>5. ASSUME NEW x \in Fields(b, sep) PROVE x \in Fields(t, sep)
  <2>1. PICK i1 \in 0..K, j1 \in 1..K + 1 :
          FieldAt(b, sep, i1, j1) /\ x = SubSeq(b, i1 + 1, j1 - 1)
    BY FieldsAre DEF K
  <2> DEFINE i == l + 1 + i1
             j == l + 1 + j1
  <2>2. i \in 0..Len(t) /\ j \in 1..Len(t) + 1 /\ i < j
    BY <1>1, <2>1 DEF FieldAt
  <2>3. FieldAt(t, sep, i, j)
    <3>1. t[i] = sep
      <4>1. i1 = 0 => i = l + 1
        BY <1>1
      <4>2. i1 # 0 => t[i] = b[i1] /\ b[i1] = sep
        BY <1>1, <2>1 DEF FieldAt
      <4> QED BY <1>1, <4>1, <4>2
    <3>2. j = Len(t) + 1 \/ t[j] = sep
      <4>1. j1 = K + 1 => j = Len(t) + 1
        BY <1>1
      <4>2. j1 = K + 1 \/ b[j1] = sep
        BY <2>1 DEF FieldAt, K
      <4>3. K \in Nat
        BY <1>1
      <4>4. j1 # K + 1 => j1 \in 1..K
        BY <4>3
      <4> QED BY <1>1, <4>1, <4>2, <4>4
    <3>3. ASSUME NEW k \in i + 1..j - 1 PROVE t[k] # sep
      <4>1. k - (l + 1) \in i1 + 1..j1 - 1 /\ k - (l + 1) \in 1..K /\ k = l + 1 + (k - (l + 1))
        BY <1>1, <2>1
      <4>2. b[k - (l + 1)] # sep
        BY <2>1, <4>1 DEF FieldAt
      <4>3. t[k] = b[k - (l + 1)]
        BY <1>1, <4>1
      <4> QED BY ONLY <4>2, <4>3
    <3> HIDE DEF i, j
    <3> QED BY <2>2, <3>1, <3>2, <3>3 DEF FieldAt
  <2>4. x = SubSeq(t, i + 1, j - 1)
    <3>1. /\ i1 + 1 \in Nat /\ j1 - 1 \in Nat /\ 1 <= i1 + 1 /\ i1 + 1 <= (j1 - 1) + 1
          /\ j1 - 1 <= K /\ i + 1 = l + 1 + (i1 + 1) /\ j - 1 = l + 1 + (j1 - 1)
      BY <1>1, <2>1 DEF FieldAt
    <3> HIDE DEF i, j
    <3> QED BY <1>2, <2>1, <3>1
  <2> HIDE DEF i, j
  <2> QED BY <1>1, <2>2, <2>3, <2>4, FieldsAre
<1> QED BY <1>3, <1>4, <1>5 DEF t, h

(* Texts are sequences of the atoms in A. *)
NoComma(s) == \A i \in 1..Len(s) : s[i] # Comma

(* The text of a property and of an option. *)
LEMMA PropertyText ==
  ASSUME NEW A, Comma \in A, "=" \in A, NEW key \in A, NEW val \in Seq(A)
  PROVE  /\ property(key, val) \in Seq(A) /\ option(key, val) \in Seq(A)
         /\ Len(property(key, val)) = Len(val) + 2
         /\ property(key, val)[1] = key /\ property(key, val)[2] = "="
         /\ \A i \in 1..Len(val) : property(key, val)[i + 2] = val[i]
         /\ key # Comma /\ NoComma(val) =>
              \A i \in 1..Len(property(key, val)) : property(key, val)[i] # Comma
<1> DEFINE q == <<key, "=">>
           p == q \o val
           o == <<Comma>> \o p
<1>1. /\ q \in Seq(A) /\ Len(q) = 2 /\ q[1] = key /\ q[2] = "="
      /\ <<Comma>> \in Seq(A) /\ Len(<<Comma>>) = 1 /\ Len(val) \in Nat
  OBVIOUS
<1> HIDE DEF q
<1>2. /\ p \in Seq(A) /\ Len(p) = Len(val) + 2 /\ p[1] = key /\ p[2] = "="
      /\ \A i \in 1..Len(val) : p[i + 2] = val[i]
  <2>1. /\ p \in Seq(A) /\ Len(p) = Len(q) + Len(val)
        /\ \A i \in 1..Len(q) : p[i] = q[i]
        /\ \A i \in 1..Len(val) : p[Len(q) + i] = val[i]
    <3>1. q \in Seq(A) /\ val \in Seq(A)
      BY <1>1
    <3> QED BY ONLY <3>1, Joined
  <2> HIDE DEF p
  <2>4. 1 \in 1..Len(q) /\ 2 \in 1..Len(q) /\ Len(q) + Len(val) = Len(val) + 2
    BY <1>1
  <2>5. \A i \in 1..Len(val) : Len(q) + i = i + 2
    BY <1>1
  <2> QED BY <1>1, <2>1, <2>4, <2>5
<1> HIDE DEF p
<1>3. o \in Seq(A)
  BY <1>1, <1>2
<1> HIDE DEF o
<1>4. ASSUME key # Comma, NoComma(val), NEW i \in 1..Len(p) PROVE p[i] # Comma
  <2>1. i = 1 \/ i = 2 \/ (i - 2 \in 1..Len(val) /\ (i - 2) + 2 = i)
    BY <1>1, <1>2
  <2>2. CASE i = 1
    BY <1>2, <1>4, <2>2
  <2>3. CASE i = 2
    <3>1. "=" # Comma
      BY Zenon DEF Comma
    <3> QED BY <1>2, <2>3, <3>1
  <2>4. CASE i - 2 \in 1..Len(val) /\ (i - 2) + 2 = i
    BY <1>2, <1>4, <2>4 DEF NoComma
  <2> QED BY <2>1, <2>2, <2>3, <2>4
<1>5. property(key, val) = p /\ option(key, val) = o
  BY DEF property, option, p, o, q
<1> QED BY <1>2, <1>3, <1>4, <1>5

(* An option adds one field to a text.                                     *)
LEMMA FieldsOption ==
  ASSUME NEW A, Comma \in A, "=" \in A, NEW text \in Seq(A),
         NEW key \in A, key # Comma, NEW val \in Seq(A), NoComma(val)
  PROVE  /\ text \o option(key, val) \in Seq(A)
         /\ Fields(text \o option(key, val), Comma)
              = Fields(text, Comma) \cup {property(key, val)}
<1> DEFINE p == property(key, val)
<1>1. p \in Seq(A) /\ <<Comma>> \in Seq(A) /\ \A k \in 1..Len(p) : p[k] # Comma
  BY PropertyText
<1> HIDE DEF p
<1>3. Fields(p, Comma) = {p}
  BY <1>1, OneField
<1>4. text \o option(key, val) = (text \o <<Comma>>) \o p
  <2>1. option(key, val) = <<Comma>> \o p
    BY DEF option, p
  <2>2. text \in Seq(A)
    OBVIOUS
  <2> DEFINE c == <<Comma>>
  <2>3. c \in Seq(A) /\ p \in Seq(A)
    BY <1>1
  <2> HIDE DEF c
  <2>4. text \o (c \o p) = (text \o c) \o p
    BY ONLY <2>2, <2>3, ConcatAssociative, SMTT(20)
  <2> QED BY ONLY <2>1, <2>4 DEF c
<1>5. Fields((text \o <<Comma>>) \o p, Comma) = Fields(text, Comma) \cup Fields(p, Comma)
  BY <1>1, FieldsJoin
<1>6. (text \o <<Comma>>) \o p \in Seq(A)
  BY <1>1
<1> QED BY <1>3, <1>4, <1>5, <1>6 DEF p

(* What a field says.                                                      *)
Says(f, key) == IF IsPrefix(<<key, "=">>, f) THEN {SubSeq(f, 3, Len(f))} ELSE {}

(* The values of a key are what the fields say of it. *)
LEMMA ValuesAreSaid ==
  ASSUME NEW text, NEW key
  PROVE  Values(text, key) = UNION {Says(f, key) : f \in Fields(text, Comma)}
BY DEF Values, Says

(* A property says its value of its key, and nothing of other keys. *)
LEMMA PropertySays ==
  ASSUME NEW A, Comma \in A, "=" \in A, NEW k \in A, NEW key \in A, NEW val \in Seq(A)
  PROVE  Says(property(key, val), k) = IF k = key THEN {val} ELSE {}
<1> DEFINE p == property(key, val)
           q == <<k, "=">>
<1>1. p \in Seq(A) /\ Len(p) = Len(val) + 2 /\ Len(val) \in Nat
      /\ p[1] = key /\ p[2] = "=" /\ \A i \in 1..Len(val) : p[i + 2] = val[i]
  BY PropertyText
<1>2. q \in Seq(A) /\ Len(q) = 2 /\ q[1] = k /\ q[2] = "="
  OBVIOUS
<1> HIDE DEF p, q
<1>3. SubSeq(q, 1, 2) = q
  BY <1>2
<1>4. SubSeq(p, 1, 2) = q <=> k = key
  <2> DEFINE r == SubSeq(p, 1, 2)
  <2>1. r \in Seq(A) /\ Len(r) = 2 /\ r[1] = key /\ r[2] = "="
    BY <1>1
  <2> HIDE DEF r
  <2>2. k = key => r = q
    <3> HAVE k = key
    <3>1. \A i \in 1..2 : i = 1 \/ i = 2
      OBVIOUS
    <3>2. \A i \in 1..2 : r[i] = q[i]
      BY <1>2, <2>1, <3>1
    <3> QED BY <1>2, <2>1, <3>2, SeqEqual
  <2>3. r = q => k = key
    BY <1>2, <2>1
  <2> QED BY <2>2, <2>3 DEF r
<1>5. SubSeq(p, 3, Len(p)) = val
  <2> DEFINE r == SubSeq(p, 3, Len(p))
  <2>1. r \in Seq(A) /\ Len(r) = Len(val) /\ \A i \in 1..Len(val) : r[i] = p[3 - 1 + i]
    <3>1. /\ 3 \in Nat /\ Len(p) \in Nat /\ 1 <= 3 /\ 3 <= Len(p) + 1 /\ Len(p) <= Len(p)
          /\ Len(p) + 1 - 3 = Len(val)
      BY <1>1
    <3> QED BY <1>1, <3>1, Part
  <2>2. \A i \in 1..Len(val) : r[i] = val[i]
    <3>1. \A i \in 1..Len(val) : 3 - 1 + i = i + 2
      BY <1>1
    <3> QED BY <1>1, <2>1, <3>1
  <2> HIDE DEF r
  <2>3. r = val
    BY <1>1, <2>1, <2>2, SeqEqual
  <2> QED BY <2>3 DEF r
<1>6. IsPrefix(q, p) <=> k = key
  BY <1>1, <1>2, <1>3, <1>4 DEF IsPrefix
<1> QED BY <1>5, <1>6 DEF Says, p, q

(* So an option adds what it says of its property. *)
LEMMA ValuesOption ==
  ASSUME NEW A, Comma \in A, "=" \in A, NEW text \in Seq(A),
         NEW key \in A, key # Comma, NEW val \in Seq(A), NoComma(val), NEW k \in A
  PROVE  Values(text \o option(key, val), k)
           = Values(text, k) \cup (IF k = key THEN {val} ELSE {})
<1> DEFINE p == property(key, val)
           F == Fields(text, Comma)
<1>1. Fields(text \o option(key, val), Comma) = F \cup {p}
  BY FieldsOption
<1> HIDE DEF p, F
<1>2. UNION {Says(f, k) : f \in F \cup {p}} = (UNION {Says(f, k) : f \in F}) \cup Says(p, k)
  OBVIOUS
<1> QED BY <1>1, <1>2, ValuesAreSaid, PropertySays DEF p, F

(* A driver's name says nothing of a property; a property at the start. *)
LEMMA ValuesFirst ==
  ASSUME NEW A, Comma \in A, "=" \in A, NEW k \in A
  PROVE  /\ \A w \in A : w # Comma => <<w>> \in Seq(A) /\ Values(<<w>>, k) = {}
         /\ \A key \in A, val \in Seq(A) : key # Comma /\ NoComma(val) =>
              Values(property(key, val), k) = IF k = key THEN {val} ELSE {}
<1>1. ASSUME NEW w \in A, w # Comma PROVE <<w>> \in Seq(A) /\ Values(<<w>>, k) = {}
  <2> DEFINE t == <<w>>
             q == <<k, "=">>
  <2>1. t \in Seq(A) /\ Len(t) = 1 /\ \A i \in 1..Len(t) : t[i] # Comma
    BY <1>1
  <2>2. Len(q) = 2
    OBVIOUS
  <2> HIDE DEF t, q
  <2>3. Fields(t, Comma) = {t}
    BY <2>1, OneField
  <2>4. Says(t, k) = {}
    <3>1. ~IsPrefix(q, t)
      BY <2>1, <2>2 DEF IsPrefix
    <3> QED BY <3>1 DEF Says, q
  <2>5. Values(t, k) = {}
    BY <2>3, <2>4, ValuesAreSaid
  <2> QED BY <2>1, <2>5 DEF t
<1>2. ASSUME NEW key \in A, NEW val \in Seq(A), key # Comma, NoComma(val)
      PROVE  Values(property(key, val), k) = IF k = key THEN {val} ELSE {}
  <2> DEFINE p == property(key, val)
  <2>1. p \in Seq(A) /\ \A i \in 1..Len(p) : p[i] # Comma
    BY <1>2, PropertyText
  <2> HIDE DEF p
  <2>2. Fields(p, Comma) = {p}
    BY <2>1, OneField
  <2>3. Values(p, k) = Says(p, k)
    BY <2>2, ValuesAreSaid
  <2> QED BY <2>3, PropertySays DEF p
<1> QED BY <1>1, <1>2

-----------------------------------------------------------------------------
(* What is picked from a sequence *)

(* The places of the members of P in s, and the number of a place in I. *)
At(s, P) == {i \in 1..Len(s) : s[i] \in P}
Rank(I, i) == Cardinality({j \in I : j <= i})

(* w is the sequence of the members of P in s, in their order. *)
Picks(s, P, w) ==
  /\ Len(w) = Cardinality(At(s, P))
  /\ \A i \in At(s, P) : w[Rank(At(s, P), i)] = s[i]
  /\ \A L \in 1..Len(w) : \E i \in At(s, P) : s[i] = w[L]

(* None of them is in s. *)
None(s, P) == \A i \in 1..Len(s) : s[i] \notin P

(* The places are finitely many. *)
LEMMA AtFinite ==
  ASSUME NEW s, Len(s) \in Nat, NEW P
  PROVE  IsFiniteSet(At(s, P)) /\ Cardinality(At(s, P)) \in Nat
<1>1. IsFiniteSet(1..Len(s))
  BY FS_Interval
<1>2. At(s, P) \in SUBSET (1..Len(s))
  BY DEF At
<1> QED BY <1>1, <1>2, FS_Subset, FS_CardinalityType

(* The numbers of places are those from 1, and each has its own. *)
LEMMA RankRange ==
  ASSUME NEW I \in SUBSET Nat, IsFiniteSet(I)
  PROVE  /\ \A i \in I : Rank(I, i) \in 1..Cardinality(I)
         /\ \A i, j \in I : Rank(I, i) = Rank(I, j) => i = j
<1> DEFINE upto(i) == {j \in I : j <= i}
<1>1. \A i \in I : /\ upto(i) \in SUBSET I /\ i \in upto(i)
                   /\ IsFiniteSet(upto(i)) /\ Cardinality(upto(i)) \in 1..Cardinality(I)
  <2> TAKE i \in I
  <2>1. upto(i) \in SUBSET I /\ i \in upto(i)
    OBVIOUS
  <2> HIDE DEF upto
  <2>2. IsFiniteSet(upto(i)) /\ Cardinality(upto(i)) <= Cardinality(I)
    BY <2>1, FS_Subset
  <2>3. Cardinality(upto(i)) # 0 /\ Cardinality(upto(i)) \in Nat /\ Cardinality(I) \in Nat
    BY <2>1, <2>2, FS_EmptySet, FS_CardinalityType
  <2> QED BY <2>1, <2>2, <2>3
<1>2. ASSUME NEW i \in I, NEW j \in I, Rank(I, i) = Rank(I, j), i < j PROVE FALSE
  <2>1. upto(i) \in SUBSET upto(j) /\ j \notin upto(i) /\ j \in upto(j)
    <3>1. i \in Nat /\ j \in Nat /\ \A x \in I : x \in Nat
      OBVIOUS
    <3>2. ~(j <= i) /\ j <= j /\ \A x \in I : x <= i => x <= j
      BY <1>2, <3>1
    <3> QED BY <3>2
  <2>2. Cardinality(upto(i)) = Cardinality(upto(j))
    BY <1>2 DEF Rank
  <2> HIDE DEF upto
  <2>3. upto(j) = upto(i)
    BY <1>1, <2>1, <2>2, FS_Subset
  <2> QED BY <2>1, <2>3
<1>3. \A i \in I : Rank(I, i) \in 1..Cardinality(I)
  BY <1>1 DEF Rank
<1>4. ASSUME NEW i \in I, NEW j \in I, Rank(I, i) = Rank(I, j) PROVE i = j
  <2>1. ~(i < j) /\ ~(j < i)
    BY <1>2, <1>4
  <2> QED BY <2>1
<1> QED BY <1>3, <1>4

(* Different things picked are at different places. *)
LEMMA PickedAt ==
  ASSUME NEW s, Len(s) \in Nat, NEW P, NEW w, Picks(s, P, w)
  PROVE  /\ \A i \in At(s, P) : Rank(At(s, P), i) \in 1..Len(w)
         /\ \A i, j \in At(s, P) : Rank(At(s, P), i) = Rank(At(s, P), j) => i = j
         /\ {s[i] : i \in At(s, P)} = {w[L] : L \in 1..Len(w)}
<1> DEFINE I == At(s, P)
<1>1. I \in SUBSET Nat /\ IsFiniteSet(I) /\ Cardinality(I) = Len(w)
  <2>1. I \in SUBSET Nat
    BY DEF At
  <2>2. IsFiniteSet(I)
    BY AtFinite
  <2>3. Cardinality(I) = Len(w)
    BY DEF Picks
  <2> QED BY <2>1, <2>2, <2>3
<1>2. /\ \A i \in I : Rank(I, i) \in 1..Len(w)
      /\ \A i, j \in I : Rank(I, i) = Rank(I, j) => i = j
  <2> HIDE DEF I
  <2> QED BY <1>1, RankRange
<1>3. {s[i] : i \in At(s, P)} = {w[L] : L \in 1..Len(w)}
  <2>1. \A i \in I : \E L \in 1..Len(w) : s[i] = w[L]
    BY <1>2 DEF Picks
  <2>2. \A L \in 1..Len(w) : \E i \in I : s[i] = w[L]
    BY DEF Picks
  <2> HIDE DEF I
  <2>3. {s[i] : i \in I} = {w[L] : L \in 1..Len(w)}
    BY <2>1, <2>2
  <2> QED BY <2>3 DEF I
<1> QED BY <1>2, <1>3

(* Places do not change their number when all are shifted. *)
LEMMA ShiftCount ==
  ASSUME NEW I \in SUBSET Nat, IsFiniteSet(I), NEW l \in Nat
  PROVE  LET J == {l + i : i \in I}
         IN IsFiniteSet(J) /\ Cardinality(J) = Cardinality(I)
<1> DEFINE J == {l + i : i \in I}
           f == [i \in I |-> l + i]
<1>1. f \in [I -> J]
  OBVIOUS
<1>2. \A i, j \in I : f[i] = f[j] => i = j
  OBVIOUS
<1>3. \A j \in J : \E i \in I : f[i] = j
  OBVIOUS
<1> HIDE DEF f, J
<1>4. f \in Bijection(I, J)
  BY <1>1, <1>2, <1>3 DEF Bijection, Injection, Surjection, IsInjective
<1>5. ExistsBijection(I, J)
  BY <1>4 DEF ExistsBijection
<1>6. IsFiniteSet(J) /\ Cardinality(J) = Cardinality(I)
  BY <1>5, FS_Bijection
<1> QED BY <1>6 DEF J

(* Nothing is picked where there is none. *)
LEMMA PicksNone ==
  ASSUME NEW s, NEW P, None(s, P)
  PROVE  Picks(s, P, <<>>)
<1>1. At(s, P) = {}
  BY DEF At, None
<1>2. Len(<<>>) = 0 /\ Cardinality(At(s, P)) = 0
  BY <1>1, FS_EmptySet
<1> QED BY <1>1, <1>2 DEF Picks

(* Everything is picked where all are members. *)
LEMMA PicksAll ==
  ASSUME NEW S, NEW s \in Seq(S), NEW P, \A i \in 1..Len(s) : s[i] \in P
  PROVE  Picks(s, P, s)
<1>1. At(s, P) = 1..Len(s) /\ Len(s) \in Nat
  BY DEF At
<1>2. \A i \in 1..Len(s) : {j \in 1..Len(s) : j <= i} = 1..i
  BY <1>1
<1>0. \A L \in Nat : Cardinality(1..L) = L
  <2> SUFFICES ASSUME NEW k \in Nat PROVE Cardinality(1..k) = k
    OBVIOUS
  <2>1. 1 \in Int /\ k \in Int /\ k - 1 + 1 = k /\ (1 > k => k = 0)
    OBVIOUS
  <2>2. Cardinality(1..k) = IF 1 > k THEN 0 ELSE k - 1 + 1
    BY <2>1, FS_Interval, Zenon
  <2> QED BY <2>1, <2>2
<1>3. \A i \in 1..Len(s) : Rank(1..Len(s), i) = i
  <2> TAKE i \in 1..Len(s)
  <2>1. i \in Nat
    BY <1>1
  <2> QED BY <1>0, <1>2, <2>1, Zenon DEF Rank
<1>4. Cardinality(1..Len(s)) = Len(s)
  BY <1>0, <1>1
<1> QED BY <1>1, <1>3, <1>4 DEF Picks

(* What is picked from two that are joined. *)
LEMMA PicksJoin ==
  ASSUME NEW S, NEW s \in Seq(S), NEW t \in Seq(S), NEW P,
         NEW v \in Seq(S), NEW w \in Seq(S), Picks(s, P, v), Picks(t, P, w)
  PROVE  Picks(s \o t, P, v \o w)
<1> DEFINE l == Len(s)
           a == At(s, P)
           b == At(t, P)
           c == {l + i : i \in b}
           u == s \o t
           vw == v \o w
<1>1. /\ u \in Seq(S) /\ Len(u) = l + Len(t) /\ l \in Nat /\ Len(t) \in Nat
      /\ \A k \in 1..l : u[k] = s[k]
      /\ \A k \in 1..Len(t) : u[l + k] = t[k]
  BY Joined
<1>2. /\ Len(vw) = Len(v) + Len(w) /\ Len(v) \in Nat /\ Len(w) \in Nat
      /\ \A k \in 1..Len(v) : vw[k] = v[k]
      /\ \A k \in 1..Len(w) : vw[Len(v) + k] = w[k]
  BY Joined
<1>3. a \in SUBSET (1..l) /\ b \in SUBSET (1..Len(t)) /\ IsFiniteSet(a) /\ IsFiniteSet(b)
  BY <1>1, AtFinite DEF At
<1>4. At(u, P) = a \cup c
  <2> HIDE DEF l, u
  <2>1. ASSUME NEW i \in At(u, P) PROVE i \in a \cup c
    <3>1. i \in 1..l + Len(t) /\ u[i] \in P
      BY <1>1, <2>1 DEF At
    <3>2. CASE i <= l
      <4>1. i \in 1..l
        BY <1>1, <3>1, <3>2
      <4> QED BY <1>1, <3>1, <4>1 DEF At, l
    <3>3. CASE ~(i <= l)
      <4>1. i - l \in 1..Len(t) /\ l + (i - l) = i
        BY <1>1, <3>1, <3>3
      <4>2. i - l \in b
        BY <1>1, <3>1, <4>1 DEF At
      <4> HIDE DEF b
      <4> QED BY <4>1, <4>2
    <3> QED BY <3>2, <3>3
  <2>2. ASSUME NEW i \in a PROVE i \in At(u, P)
    <3>1. i \in 1..l /\ s[i] \in P
      BY DEF At, l
    <3>2. i \in 1..Len(u)
      BY <1>1, <3>1
    <3> QED BY <1>1, <3>1, <3>2 DEF At
  <2>3. ASSUME NEW k \in b PROVE l + k \in At(u, P)
    <3>1. k \in 1..Len(t) /\ t[k] \in P
      BY DEF At
    <3>2. l + k \in 1..Len(u) /\ u[l + k] = t[k]
      BY <1>1, <3>1
    <3> QED BY <3>1, <3>2 DEF At
  <2> HIDE DEF a, b
  <2> QED BY <2>1, <2>2, <2>3
<1>5. /\ IsFiniteSet(c) /\ Cardinality(c) = Cardinality(b)
      /\ Cardinality(a) = Len(v) /\ Cardinality(b) = Len(w)
  <2>1. b \in SUBSET Nat
    BY <1>3
  <2>2. Cardinality(a) = Len(v) /\ Cardinality(b) = Len(w)
    BY DEF Picks
  <2> HIDE DEF a, b, l
  <2> QED BY <1>1, <1>3, <2>1, <2>2, ShiftCount
<1>6. /\ \A i \in a : Rank(a, i) \in 1..Len(v) /\ v[Rank(a, i)] = s[i]
      /\ \A k \in b : Rank(b, k) \in 1..Len(w) /\ w[Rank(b, k)] = t[k]
      /\ \A L \in 1..Len(v) : \E i \in a : s[i] = v[L]
      /\ \A L \in 1..Len(w) : \E k \in b : t[k] = w[L]
  BY <1>1, PickedAt DEF Picks
<1> HIDE DEF a, b, l, u, vw
<1>7. Cardinality(a \cup c) = Len(v) + Len(w)
  <2>1. a \cap c = {}
    BY <1>1, <1>3
  <2> HIDE DEF c
  <2>2. Cardinality(a \cap c) = 0
    BY <2>1, FS_EmptySet
  <2>3. Cardinality(a \cup c) = Cardinality(a) + Cardinality(c) - Cardinality(a \cap c)
    BY <1>3, <1>5, FS_Union
  <2> QED BY <1>2, <1>5, <2>2, <2>3
<1>8. \A i \in a : Rank(a \cup c, i) = Rank(a, i)
  <2> TAKE i \in a
  <2>1. {j \in a \cup c : j <= i} = {j \in a : j <= i}
    BY <1>1, <1>3
  <2> QED BY <2>1 DEF Rank
<1>9. \A k \in b : Rank(a \cup c, l + k) = Len(v) + Rank(b, k)
  <2> TAKE k \in b
  <2> DEFINE d == {j \in b : j <= k}
             e == {l + j : j \in d}
  <2>1. d \in SUBSET b /\ d \in SUBSET Nat
    <3>1. \A x \in b : x \in Nat
      BY <1>3
    <3>2. d \in SUBSET b
      OBVIOUS
    <3> QED BY <3>1, <3>2
  <2>2. {j \in a \cup c : j <= l + k} = a \cup e
    <3>1. ASSUME NEW j \in a \cup c, j <= l + k PROVE j \in a \cup e
      <4>1. CASE j \in c
        <5>1. PICK x \in b : j = l + x
          BY <4>1
        <5>2. x <= k
          BY <1>1, <1>3, <3>1, <5>1
        <5> QED BY <5>1, <5>2
      <4> QED BY <4>1
    <3>2. \A j \in a : j <= l + k
      BY <1>1, <1>3
    <3>3. \A j \in d : l + j \in c /\ l + j <= l + k
      BY <1>1, <1>3
    <3> HIDE DEF c, d
    <3> QED BY <3>1, <3>2, <3>3
  <2>3. IsFiniteSet(d)
    BY <1>3, <2>1, FS_Subset
  <2>4. a \cap e = {}
    BY <1>1, <1>3
  <2> HIDE DEF d
  <2>5. IsFiniteSet(e) /\ Cardinality(e) = Cardinality(d)
    BY <1>1, <2>1, <2>3, ShiftCount
  <2> HIDE DEF e
  <2>6. Cardinality(a \cap e) = 0
    BY <2>4, FS_EmptySet
  <2>7. Cardinality(a \cup e) = Cardinality(a) + Cardinality(e) - Cardinality(a \cap e)
    BY <1>3, <2>5, FS_Union
  <2>8. Cardinality(d) \in Nat
    BY <2>3, FS_CardinalityType
  <2>9. Cardinality(a \cup e) = Len(v) + Cardinality(d)
    BY <1>2, <1>5, <2>5, <2>6, <2>7, <2>8
  <2> QED BY <2>2, <2>9 DEF Rank, d
<1>10. ASSUME NEW i \in a \cup c PROVE vw[Rank(a \cup c, i)] = u[i]
  <2>1. CASE i \in a
    <3>1. Rank(a \cup c, i) = Rank(a, i) /\ Rank(a, i) \in 1..Len(v) /\ v[Rank(a, i)] = s[i]
      BY <1>6, <1>8, <2>1
    <3>2. u[i] = s[i]
      BY <1>1, <1>3, <2>1
    <3> QED BY <1>2, <3>1, <3>2
  <2>2. CASE i \in c
    <3>1. PICK k \in b : i = l + k
      BY <2>2
    <3>2. /\ Rank(a \cup c, i) = Len(v) + Rank(b, k) /\ Rank(b, k) \in 1..Len(w)
          /\ w[Rank(b, k)] = t[k]
      BY <1>6, <1>9, <3>1
    <3>3. u[i] = t[k]
      BY <1>1, <1>3, <3>1
    <3> QED BY <1>2, <3>2, <3>3
  <2> QED BY <2>1, <2>2
<1>11. ASSUME NEW L \in 1..Len(vw) PROVE \E i \in a \cup c : u[i] = vw[L]
  <2>1. CASE L <= Len(v)
    <3>1. L \in 1..Len(v)
      BY <1>2, <2>1
    <3>2. PICK i \in a : s[i] = v[L]
      BY <1>6, <3>1
    <3>3. u[i] = s[i] /\ vw[L] = v[L]
      BY <1>1, <1>2, <1>3, <3>1
    <3> QED BY <3>2, <3>3
  <2>2. CASE ~(L <= Len(v))
    <3>1. L - Len(v) \in 1..Len(w) /\ Len(v) + (L - Len(v)) = L
      BY <1>2, <2>2
    <3>2. PICK k \in b : t[k] = w[L - Len(v)]
      BY <1>6, <3>1
    <3>3. u[l + k] = t[k] /\ vw[L] = w[L - Len(v)]
      BY <1>1, <1>2, <1>3, <3>1
    <3> QED BY <3>2, <3>3
  <2> QED BY <2>1, <2>2
<1>12. Picks(u, P, vw)
  <2> HIDE DEF c
  <2> QED BY <1>2, <1>4, <1>7, <1>10, <1>11 DEF Picks
<1> QED BY <1>12 DEF u, vw

(* None in two is none in both joined. *)
LEMMA NoneJoin ==
  ASSUME NEW S, NEW s \in Seq(S), NEW t \in Seq(S), NEW P, None(s, P), None(t, P)
  PROVE  None(s \o t, P)
<1> DEFINE u == s \o t
           l == Len(s)
<1>1. /\ u \in Seq(S) /\ Len(u) = l + Len(t) /\ l \in Nat /\ Len(t) \in Nat
      /\ \A k \in 1..l : u[k] = s[k]
      /\ \A k \in 1..Len(t) : u[l + k] = t[k]
  BY Joined
<1> HIDE DEF u, l
<1>2. ASSUME NEW i \in 1..Len(u) PROVE u[i] \notin P
  <2>1. CASE i <= l
    <3>1. i \in 1..l
      BY <1>1, <2>1
    <3> QED BY <1>1, <3>1 DEF None, l
  <2>2. CASE ~(i <= l)
    <3>1. i - l \in 1..Len(t) /\ l + (i - l) = i
      BY <1>1, <2>2
    <3> QED BY <1>1, <3>1 DEF None
  <2> QED BY <2>1, <2>2
<1> QED BY <1>2 DEF None, u

(* None in any is none in all of them joined. *)
LEMMA NoneFlat ==
  ASSUME NEW S, NEW seqs \in Seq(Seq(S)), NEW P, \A i \in 1..Len(seqs) : None(seqs[i], P)
  PROVE  None(FlattenSeq(seqs), P)
<1> DEFINE L == Len(seqs)
<1>1. PICK f \in [0..L -> Seq(S)] : Joins(f, seqs) /\ FlattenSeq(seqs) = f[L]
  BY Flattening
<1>2. L \in Nat /\ \A i \in 1..L : seqs[i] \in Seq(S)
  OBVIOUS
<1> DEFINE I == {i \in 0..L : None(f[i], P)}
<1>3. 0 \in I
  <2>1. f[0] = <<>> /\ Len(<<>>) = 0
    BY <1>1 DEF Joins
  <2>2. None(<<>>, P)
    BY DEF None
  <2> QED BY <1>2, <2>1, <2>2
<1>4. ASSUME NEW i \in 1..L, i - 1 \in I PROVE i \in I
  <2>1. i - 1 \in 0..L /\ f[i - 1] \in Seq(S) /\ f[i] = f[i - 1] \o seqs[i] /\ None(f[i - 1], P)
    BY <1>1, <1>2, <1>4 DEF Joins
  <2>2. None(f[i], P)
    BY <1>2, <2>1, NoneJoin
  <2> QED BY <1>2, <2>2
<1> HIDE DEF I, L
<1>5. L \in I
  <2>1. \A i \in 0..L : i \in I
    BY <1>2, <1>3, <1>4, UpTo
  <2>2. L \in 0..L
    BY <1>2
  <2> QED BY <2>1, <2>2
<1> QED BY <1>1, <1>5 DEF I, L

(* What is picked from many that are joined. *)
LEMMA PicksFlat ==
  ASSUME NEW S, NEW seqs \in Seq(Seq(S)), NEW ws \in Seq(Seq(S)), Len(ws) = Len(seqs), NEW P,
         \A i \in 1..Len(seqs) : Picks(seqs[i], P, ws[i])
  PROVE  Picks(FlattenSeq(seqs), P, FlattenSeq(ws))
<1> DEFINE L == Len(seqs)
<1>1. PICK f \in [0..L -> Seq(S)] : Joins(f, seqs) /\ FlattenSeq(seqs) = f[L]
  BY Flattening
<1>2. PICK g \in [0..L -> Seq(S)] : Joins(g, ws) /\ FlattenSeq(ws) = g[L]
  BY Flattening
<1>3. L \in Nat /\ \A i \in 1..L : seqs[i] \in Seq(S) /\ ws[i] \in Seq(S)
  OBVIOUS
<1> DEFINE I == {i \in 0..L : Picks(f[i], P, g[i])}
<1>4. 0 \in I
  <2>1. f[0] = <<>> /\ g[0] = <<>>
    BY <1>1, <1>2 DEF Joins
  <2>2. None(<<>>, P)
    BY DEF None
  <2>3. Picks(<<>>, P, <<>>)
    BY <2>2, PicksNone
  <2> QED BY <1>3, <2>1, <2>3
<1>5. ASSUME NEW i \in 1..L, i - 1 \in I PROVE i \in I
  <2>1. /\ i - 1 \in 0..L /\ f[i - 1] \in Seq(S) /\ g[i - 1] \in Seq(S)
        /\ Picks(f[i - 1], P, g[i - 1])
    BY <1>3, <1>5
  <2>2. f[i] = f[i - 1] \o seqs[i] /\ g[i] = g[i - 1] \o ws[i]
    BY <1>1, <1>2 DEF Joins
  <2>3. Picks(f[i - 1] \o seqs[i], P, g[i - 1] \o ws[i])
    BY <1>3, <2>1, PicksJoin
  <2>4. Picks(f[i], P, g[i])
    BY <2>2, <2>3
  <2>5. i \in 0..L
    BY <1>3
  <2> QED BY <2>4, <2>5
<1> HIDE DEF I, L
<1>6. L \in I
  <2>1. \A i \in 0..L : i \in I
    BY <1>3, <1>4, <1>5, UpTo
  <2>2. L \in 0..L
    BY <1>3
  <2> QED BY <2>1, <2>2
<1> QED BY <1>1, <1>2, <1>6 DEF I, L

(* What is picked from many if only the k-th has any.                      *)
LEMMA PicksIn ==
  ASSUME NEW S, NEW seqs \in Seq(Seq(S)), NEW P, NEW k \in 1..Len(seqs),
         NEW w \in Seq(S), Picks(seqs[k], P, w),
         \A i \in 1..Len(seqs) : i # k => None(seqs[i], P)
  PROVE  Picks(FlattenSeq(seqs), P, w)
<1> DEFINE L == Len(seqs)
           g(i) == IF i < k THEN <<>> ELSE w
<1>1. PICK f \in [0..L -> Seq(S)] : Joins(f, seqs) /\ FlattenSeq(seqs) = f[L]
  BY Flattening
<1>2. L \in Nat /\ k \in 1..L /\ \A i \in 1..L : seqs[i] \in Seq(S)
  OBVIOUS
<1> DEFINE I == {i \in 0..L : Picks(f[i], P, g(i))}
<1>4. 0 \in I
  <2>1. f[0] = <<>> /\ 0 < k
    BY <1>1, <1>2 DEF Joins
  <2>2. None(<<>>, P)
    BY DEF None
  <2>3. Picks(<<>>, P, <<>>)
    BY <2>2, PicksNone
  <2> QED BY <1>2, <2>1, <2>3
<1>5. ASSUME NEW i \in 1..L, i - 1 \in I PROVE i \in I
  <2>1. i - 1 \in 0..L /\ f[i - 1] \in Seq(S) /\ Picks(f[i - 1], P, g(i - 1))
    BY <1>2, <1>5
  <2>2. f[i] = f[i - 1] \o seqs[i]
    BY <1>1 DEF Joins
  <2> DEFINE v == IF i = k THEN w ELSE <<>>
  <2>3. Picks(seqs[i], P, v)
    BY PicksNone
  <2>4. g(i - 1) \in Seq(S) /\ v \in Seq(S) /\ g(i - 1) \o v = g(i)
    <3>1. <<>> \in Seq(S) /\ <<>> \o <<>> = <<>> /\ <<>> \o w = w /\ w \o <<>> = w
      OBVIOUS
    <3>2. CASE i < k
      <4>1. i - 1 < k /\ i # k
        BY <1>2, <3>2
      <4> QED BY <3>1, <3>2, <4>1
    <3>3. CASE i = k
      <4>1. i - 1 < k /\ ~(i < k)
        BY <1>2, <3>3
      <4> QED BY <3>1, <3>3, <4>1
    <3>4. CASE k < i
      <4>1. ~(i - 1 < k) /\ ~(i < k) /\ i # k
        BY <1>2, <3>4
      <4> QED BY <3>1, <4>1
    <3>5. i < k \/ i = k \/ k < i
      BY <1>2
    <3> HIDE DEF v, g
    <3> QED BY <3>2, <3>3, <3>4, <3>5
  <2> HIDE DEF v, g
  <2>5. Picks(f[i - 1] \o seqs[i], P, g(i - 1) \o v)
    BY <1>2, <2>1, <2>3, <2>4, PicksJoin
  <2>6. Picks(f[i], P, g(i))
    BY <2>2, <2>4, <2>5
  <2>7. i \in 0..L
    BY <1>2
  <2> QED BY <2>6, <2>7
<1> HIDE DEF I, L
<1>6. L \in I
  <2>1. \A i \in 0..L : i \in I
    BY <1>2, <1>4, <1>5, UpTo
  <2>2. L \in 0..L
    BY <1>2
  <2> QED BY <2>1, <2>2
<1>7. ~(L < k)
  BY <1>2
<1> QED BY <1>1, <1>6, <1>7 DEF I, L

(* Single things, one after the other. *)
LEMMA FlatOnes ==
  ASSUME NEW S, NEW w \in Seq(S), NEW seqs \in Seq(Seq(S)), Len(seqs) = Len(w),
         \A i \in 1..Len(w) : seqs[i] = <<w[i]>>
  PROVE  FlattenSeq(seqs) = w
<1> DEFINE L == Len(seqs)
<1>1. PICK f \in [0..L -> Seq(S)] : Joins(f, seqs) /\ FlattenSeq(seqs) = f[L]
  BY Flattening
<1>2. L \in Nat /\ Len(w) = L
  OBVIOUS
<1> DEFINE I == {i \in 0..L : Len(f[i]) = i /\ \A k \in 1..i : f[i][k] = w[k]}
<1>3. 0 \in I
  <2>1. f[0] = <<>> /\ Len(<<>>) = 0
    BY <1>1 DEF Joins
  <2> QED BY <1>2, <2>1
<1>4. ASSUME NEW i \in 1..L, i - 1 \in I PROVE i \in I
  <2> DEFINE p == f[i - 1]
             q == <<w[i]>>
  <2>1. /\ p \in Seq(S) /\ Len(p) = i - 1 /\ \A k \in 1..i - 1 : p[k] = w[k]
    BY <1>2, <1>4
  <2>2. f[i] = p \o q
    BY <1>1 DEF Joins
  <2>3. q \in Seq(S) /\ Len(q) = 1 /\ q[1] = w[i]
    BY <1>2
  <2> HIDE DEF p, q
  <2>4. /\ Len(p \o q) = Len(p) + Len(q)
        /\ \A k \in 1..Len(p) : (p \o q)[k] = p[k]
        /\ \A k \in 1..Len(q) : (p \o q)[Len(p) + k] = q[k]
    <3>1. p \in Seq(S) /\ q \in Seq(S)
      BY <2>1, <2>3
    <3> QED BY ONLY <3>1, Joined
  <2>5. Len(p \o q) = i
    BY <2>1, <2>3, <2>4
  <2>6. (p \o q)[i] = w[i]
    <3>1. 1 \in 1..Len(q) /\ Len(p) + 1 = i
      BY <2>1, <2>3
    <3> QED BY <2>3, <2>4, <3>1
  <2>7. \A k \in 1..i : k = i \/ k \in 1..Len(p)
    BY <2>1
  <2>8. \A k \in 1..i : (p \o q)[k] = w[k]
    <3> TAKE k \in 1..i
    <3>1. CASE k = i
      BY <2>6, <3>1
    <3>2. CASE k \in 1..Len(p)
      BY <2>1, <2>4, <3>2
    <3> QED BY <2>7, <3>1, <3>2
  <2>9. i \in 0..L
    BY <1>2
  <2> QED BY <2>2, <2>5, <2>8, <2>9
<1> HIDE DEF I
<1>5. L \in I
  <2>1. \A i \in 0..L : i \in I
    BY <1>2, <1>3, <1>4, UpTo
  <2>2. L \in 0..L
    BY <1>2
  <2> QED BY <2>1, <2>2
<1> HIDE DEF L
<1>6. Len(f[L]) = L /\ \A k \in 1..L : f[L][k] = w[k]
  BY <1>5 DEF I
<1>7. f[L] \in Seq(S)
  BY <1>2
<1> QED BY <1>1, <1>2, <1>6, <1>7, SeqEqual
=============================================================================

---------------------------- MODULE CodecProofs ----------------------------
(***************************************************************************)
(* Proofs about Codec: the round trips and the errors of the conversions,  *)
(* for strings and numbers of any length and for any width of integers.    *)
(*                                                                         *)
(* What a string stands for is defined by recursion, so some facts need    *)
(* induction.  It is used in the form of the least number of a set.        *)
(***************************************************************************)
EXTENDS Codec, WellFoundedInduction, SequenceTheorems, TLAPS

----------------------------------------------------------------------------
(* Induction.                                                              *)

\* A set of natural numbers that is not empty has a least element: the least
\* counterexample in the proofs about digits and numbers below.
LEMMA LeastOf ==
    ASSUME NEW S \in SUBSET Nat, S # {}
    PROVE  \E n \in S : \A m \in S : n <= m
<1>1. IsWellFoundedOn(OpToRel(<, Nat), Nat)
  BY NatLessThanWellFounded
<1>2. PICK n \in S : \A m \in S : ~(<<m, n>> \in OpToRel(<, Nat))
  BY <1>1, WFMin
<1>3. \A m \in S : ~(m < n)
  BY <1>2 DEF OpToRel
<1> QED BY <1>3

----------------------------------------------------------------------------
(* Positional notation.                                                    *)

\* f holds the values of the prefixes of d (the loop of big.Int.SetString and
\* strconv.ParseUint).
PrefixValues(f, d, base) ==
    /\ f[0] = 0
    /\ \A k \in 1..Len(d) : f[k] = base * f[k - 1] + d[k]

\* A step of that loop stays within the natural numbers.
LEMMA NatStep ==
    ASSUME NEW x \in Nat, NEW y \in Nat, NEW z \in Nat
    PROVE  x * y + z \in Nat
<1>1. x * y \in Nat
  OBVIOUS
<1> QED BY <1>1

\* There is such a function, of natural numbers,
LEMMA PrefixValuesExist ==
    ASSUME NEW d \in Seq(Nat), NEW base \in Nat
    PROVE  \E f \in [0..Len(d) -> Nat] : PrefixValues(f, d, base)
<1> DEFINE N == Len(d)
           Upto(n) == \E f \in [0..n -> Nat] :
                         f[0] = 0 /\ \A k \in 1..n : f[k] = base * f[k - 1] + d[k]
           Bad == {n \in 0..N : ~Upto(n)}
<1>0. N \in Nat /\ \A k \in 1..N : d[k] \in Nat
  OBVIOUS
<1>1. Upto(0)
  <2>1. /\ [k \in 0..0 |-> 0] \in [0..0 -> Nat]
        /\ [k \in 0..0 |-> 0][0] = 0
        /\ \A k \in 1..0 : [j \in 0..0 |-> 0][k] = base * [j \in 0..0 |-> 0][k - 1] + d[k]
    OBVIOUS
  <2> QED BY <2>1
<1>2. ASSUME NEW n \in 0..N, n < N, Upto(n) PROVE Upto(n + 1)
  <2>1. PICK f \in [0..n -> Nat] :
                f[0] = 0 /\ \A k \in 1..n : f[k] = base * f[k - 1] + d[k]
    BY <1>2
  <2> DEFINE g == [k \in 0..(n + 1) |-> IF k = n + 1 THEN base * f[n] + d[n + 1] ELSE f[k]]
  <2>2. base * f[n] + d[n + 1] \in Nat
    <3>1. f[n] \in Nat /\ d[n + 1] \in Nat
      BY <1>0, <1>2
    <3> QED BY <3>1, NatStep
  <2>3. g \in [0..(n + 1) -> Nat]
    BY <2>2
  <2>4. ASSUME NEW k \in 1..(n + 1) PROVE g[k] = base * g[k - 1] + d[k]
    <3>1. g[k - 1] = f[k - 1]
      BY <1>2
    <3>2. CASE k = n + 1
      BY <3>1, <3>2, <1>2
    <3>3. CASE k # n + 1
      <4>1. k \in 1..n /\ g[k] = f[k]
        BY <3>3, <1>2
      <4> QED BY <2>1, <3>1, <4>1
    <3> QED BY <3>2, <3>3
  <2>5. g[0] = 0
    BY <2>1, <1>2
  <2> QED BY <2>3, <2>4, <2>5
<1>3. Bad = {}
  <2> SUFFICES ASSUME Bad # {} PROVE FALSE
    OBVIOUS
  <2> HIDE DEF Upto
  <2>0. Bad \in SUBSET Nat
    BY <1>0
  <2>1. PICK n \in Bad : \A m \in Bad : n <= m
    <3> HIDE DEF Bad
    <3> QED BY <2>0, LeastOf
  <2>2. n > 0 /\ n - 1 \in 0..N /\ n - 1 < N /\ Upto(n - 1)
    BY <1>0, <1>1, <2>1
  <2>3. Upto(n - 1 + 1)
    BY <1>2, <2>2
  <2> QED BY <1>0, <2>1, <2>3
<1>4. Upto(N)
  <2> HIDE DEF Upto
  <2> QED BY <1>0, <1>3
<1> QED BY <1>4 DEF PrefixValues

\* and no other: it ends in the value of d.
LEMMA ValueIs ==
    ASSUME NEW d \in Seq(Nat), NEW base \in Nat, NEW f, PrefixValues(f, d, base)
    PROVE  Value(d, base) = f[Len(d)]
<1> DEFINE value[k \in 0..Len(d)] == IF k = 0 THEN 0 ELSE base * value[k - 1] + d[k]
<1>1. value = [k \in 0..Len(d) |-> IF k = 0 THEN 0 ELSE base * value[k - 1] + d[k]]
  <2>1. PICK g \in [0..Len(d) -> Nat] : PrefixValues(g, d, base)
    BY PrefixValuesExist
  <2>2. g = [k \in 0..Len(d) |-> IF k = 0 THEN 0 ELSE base * g[k - 1] + d[k]]
    BY <2>1 DEF PrefixValues
  <2> QED BY <2>2
<1>2. Value(d, base) = value[Len(d)]
  BY DEF Value
<1> HIDE DEF value
<1> DEFINE Bad == {k \in 0..Len(d) : value[k] # f[k]}
<1>3. Len(d) \in Nat
  OBVIOUS
<1>4. Bad = {}
  <2> SUFFICES ASSUME Bad # {} PROVE FALSE
    OBVIOUS
  <2>0. Bad \in SUBSET Nat
    BY <1>3
  <2>1. PICK n \in Bad : \A m \in Bad : n <= m
    <3> HIDE DEF Bad
    <3> QED BY <2>0, LeastOf
  <2>2. n # 0
    BY <1>1, <1>3 DEF PrefixValues
  <2>3. n \in 1..Len(d) /\ n - 1 \in 0..Len(d) /\ value[n - 1] = f[n - 1]
    BY <1>3, <2>1, <2>2
  <2>4. value[n] = base * value[n - 1] + d[n] /\ f[n] = base * f[n - 1] + d[n]
    BY <1>1, <1>3, <2>2, <2>3 DEF PrefixValues
  <2> QED BY <2>3, <2>4
<1> QED BY <1>2, <1>3, <1>4
----------------------------------------------------------------------------
(* Digits.                                                                 *)

\* The two tables, entry by entry (hex.go:78-90).
LEMMA Tables ==
    /\ lower[1] = "0" /\ lower[2] = "1" /\ lower[3] = "2" /\ lower[4] = "3"
    /\ lower[5] = "4" /\ lower[6] = "5" /\ lower[7] = "6" /\ lower[8] = "7"
    /\ lower[9] = "8" /\ lower[10] = "9" /\ lower[11] = "a" /\ lower[12] = "b"
    /\ lower[13] = "c" /\ lower[14] = "d" /\ lower[15] = "e" /\ lower[16] = "f"
    /\ upper[1] = "0" /\ upper[2] = "1" /\ upper[3] = "2" /\ upper[4] = "3"
    /\ upper[5] = "4" /\ upper[6] = "5" /\ upper[7] = "6" /\ upper[8] = "7"
    /\ upper[9] = "8" /\ upper[10] = "9" /\ upper[11] = "A" /\ upper[12] = "B"
    /\ upper[13] = "C" /\ upper[14] = "D" /\ upper[15] = "E" /\ upper[16] = "F"
BY DEF lower, upper

\* No digit stands for two numbers.
LEMMA DigitsDiffer ==
    ASSUME NEW j \in 1..16, NEW k \in 1..16,
           lower[k] \in {lower[j], upper[j]} \/ upper[k] \in {lower[j], upper[j]}
    PROVE  j = k
<1>1. \/ j = 1 \/ j = 2 \/ j = 3 \/ j = 4 \/ j = 5 \/ j = 6 \/ j = 7 \/ j = 8
      \/ j = 9 \/ j = 10 \/ j = 11 \/ j = 12 \/ j = 13 \/ j = 14 \/ j = 15 \/ j = 16
  OBVIOUS
<1>2. \/ k = 1 \/ k = 2 \/ k = 3 \/ k = 4 \/ k = 5 \/ k = 6 \/ k = 7 \/ k = 8
      \/ k = 9 \/ k = 10 \/ k = 11 \/ k = 12 \/ k = 13 \/ k = 14 \/ k = 15 \/ k = 16
  OBVIOUS
<1> QED BY <1>1, <1>2, Tables

\* The prefix, the signs and what is a digit in which base.
LEMMA DigitSets ==
    /\ Digits(10) \subseteq Digits(16)
    /\ "+" \notin Digits(16) /\ "-" \notin Digits(16) /\ "x" \notin Digits(16)
    /\ "0" \in Digits(10) /\ "0" \in Digits(16)
<1>1. Digits(10) \subseteq Digits(16) /\ "0" \in Digits(10)
  BY Tables DEF Digits
<1>2. ASSUME NEW k \in 1..16
      PROVE  lower[k] \notin {"+", "-", "x"} /\ upper[k] \notin {"+", "-", "x"}
  <2>1. \/ k = 1 \/ k = 2 \/ k = 3 \/ k = 4 \/ k = 5 \/ k = 6 \/ k = 7 \/ k = 8
        \/ k = 9 \/ k = 10 \/ k = 11 \/ k = 12 \/ k = 13 \/ k = 14 \/ k = 15 \/ k = 16
    OBVIOUS
  <2> QED BY <2>1, Tables
<1> QED BY <1>1, <1>2 DEF Digits

\* DecodeNibble yields a number for every character,
LEMMA NibbleNat ==
    ASSUME NEW c
    PROVE  DecodeNibble(c) \in Nat
<1> DEFINE D == {k \in 1..16 : c \in {lower[k], upper[k]}}
<1>1. CASE D = {}
  BY <1>1, RangeAssumption DEF DecodeNibble, BadNibble
<1>2. CASE D # {}
  <2>1. \E k \in 0..15 : k + 1 \in D
    <3>1. PICK j \in 1..16 : j \in D
      BY <1>2
    <3>2. j - 1 \in 0..15 /\ j - 1 + 1 = j
      OBVIOUS
    <3> QED BY <3>1, <3>2
  <2>2. DecodeNibble(c) \in 0..15
    BY <1>2, <2>1 DEF DecodeNibble
  <2> QED BY <2>2
<1> QED BY <1>1, <1>2

\* and the place in the table for a digit of either case.
LEMMA NibbleOfDigit ==
    ASSUME NEW k \in 0..15, NEW c \in {lower[k + 1], upper[k + 1]}
    PROVE  DecodeNibble(c) = k
<1> DEFINE D == {j \in 1..16 : c \in {lower[j], upper[j]}}
<1>1. k + 1 \in D
  OBVIOUS
<1>2. \A j \in 0..15 : j + 1 \in D => j = k
  <2> SUFFICES ASSUME NEW j \in 0..15, j + 1 \in D PROVE j = k
    OBVIOUS
  <2>1. j + 1 \in 1..16 /\ k + 1 \in 1..16 /\ c \in {lower[j + 1], upper[j + 1]}
    OBVIOUS
  <2>2. j + 1 = k + 1
    BY <2>1, DigitsDiffer
  <2> QED BY <2>2
<1> HIDE DEF D
<1>3. DecodeNibble(c) = CHOOSE j \in 0..15 : j + 1 \in D
  BY <1>1 DEF DecodeNibble, D
<1> QED BY <1>1, <1>2, <1>3

\* The digits are the characters of the tables, so they stand for 0 to 15.
LEMMA DigitNibble ==
    ASSUME NEW c \in Digits(16)
    PROVE  DecodeNibble(c) \in 0..15
<1>1. PICK j \in 1..16 : c \in {lower[j], upper[j]}
  BY DEF Digits
<1>2. j - 1 \in 0..15 /\ j - 1 + 1 = j
  OBVIOUS
<1>3. DecodeNibble(c) = j - 1
  BY <1>1, <1>2, NibbleOfDigit
<1> QED BY <1>2, <1>3

\* The digit that is written for k is read as k.
LEMMA LowerDigit ==
    ASSUME NEW k \in 0..15
    PROVE  lower[k + 1] \in Digits(16) /\ DecodeNibble(lower[k + 1]) = k
<1>1. k + 1 \in 1..16
  OBVIOUS
<1>2. lower[k + 1] \in Digits(16)
  BY <1>1 DEF Digits
<1> QED BY <1>2, NibbleOfDigit
----------------------------------------------------------------------------
(* The number that a string of digits stands for.                          *)

\* As PrefixValues, for the characters of s.
PrefixNumbers(f, s, base) ==
    /\ f[0] = 0
    /\ \A k \in 1..Len(s) : f[k] = base * f[k - 1] + DecodeNibble(s[k])

\* Number is the last of the numbers of the prefixes, whichever way these are
\* given,
LEMMA NumberIs ==
    ASSUME NEW C, NEW s \in Seq(C), NEW base \in Nat, NEW f, PrefixNumbers(f, s, base)
    PROVE  Number(s, base) = f[Len(s)]
<1> DEFINE d == [k \in DOMAIN s |-> DecodeNibble(s[k])]
<1>1. DOMAIN s = 1..Len(s) /\ Len(s) \in Nat
  OBVIOUS
<1>2. d \in Seq(Nat) /\ Len(d) = Len(s) /\ \A k \in 1..Len(s) : d[k] = DecodeNibble(s[k])
  BY <1>1, NibbleNat
<1>3. PrefixValues(f, d, base)
  <2> HIDE DEF d
  <2> QED BY <1>2 DEF PrefixValues, PrefixNumbers
<1>4. Value(d, base) = f[Len(d)]
  BY <1>2, <1>3, ValueIs
<1> QED BY <1>2, <1>4 DEF Number

\* and there are such numbers.
LEMMA NumberExists ==
    ASSUME NEW C, NEW s \in Seq(C), NEW base \in Nat
    PROVE  \E f \in [0..Len(s) -> Nat] : PrefixNumbers(f, s, base)
<1> DEFINE d == [k \in DOMAIN s |-> DecodeNibble(s[k])]
<1>1. DOMAIN s = 1..Len(s) /\ Len(s) \in Nat
  OBVIOUS
<1>2. d \in Seq(Nat) /\ Len(d) = Len(s) /\ \A k \in 1..Len(s) : d[k] = DecodeNibble(s[k])
  BY <1>1, NibbleNat
<1> HIDE DEF d
<1>3. PICK f \in [0..Len(d) -> Nat] : PrefixValues(f, d, base)
  BY <1>2, PrefixValuesExist
<1>4. PrefixNumbers(f, s, base) /\ f \in [0..Len(s) -> Nat]
  BY <1>2, <1>3 DEF PrefixValues, PrefixNumbers
<1> QED BY <1>4

\* No digits are 0.
LEMMA EmptyNumber == Number(<<>>, 16) = 0
<1> DEFINE f == [k \in 0..0 |-> 0]
<1>1. <<>> \in Seq({}) /\ Len(<<>>) = 0
  OBVIOUS
<1>2. PrefixNumbers(f, <<>>, 16) /\ f[0] = 0
  BY <1>1 DEF PrefixNumbers
<1> HIDE DEF f
<1> QED BY <1>1, <1>2, NumberIs

\* It is a natural number, also if there are characters that are no digits.
LEMMA NumberNat ==
    ASSUME NEW C, NEW s \in Seq(C), NEW base \in Nat
    PROVE  Number(s, base) \in Nat
<1>1. PICK f \in [0..Len(s) -> Nat] : PrefixNumbers(f, s, base)
  BY NumberExists
<1>2. Number(s, base) = f[Len(s)]
  BY <1>1, NumberIs
<1> QED BY <1>2

\* One more digit at the end.
LEMMA NumberAppend ==
    ASSUME NEW C, NEW s \in Seq(C), NEW c \in C, NEW base \in Nat
    PROVE  Number(Append(s, c), base) = base * Number(s, base) + DecodeNibble(c)
<1>1. PICK f \in [0..Len(s) -> Nat] : PrefixNumbers(f, s, base)
  BY NumberExists
<1> DEFINE N == Len(s)
           t == Append(s, c)
           g == [k \in 0..(N + 1) |-> IF k = N + 1 THEN base * f[N] + DecodeNibble(c) ELSE f[k]]
<1>2. /\ N \in Nat /\ t \in Seq(C) /\ Len(t) = N + 1 /\ t[N + 1] = c
      /\ \A k \in 1..N : t[k] = s[k]
  OBVIOUS
<1>3. ASSUME NEW k \in 1..(N + 1)
      PROVE  g[k] = base * g[k - 1] + DecodeNibble(t[k])
  <2> HIDE DEF t
  <2>1. g[k - 1] = f[k - 1]
    BY <1>2
  <2>2. CASE k = N + 1
    BY <1>2, <2>1, <2>2
  <2>3. CASE k # N + 1
    <3>1. k \in 1..N /\ g[k] = f[k] /\ t[k] = s[k]
      BY <1>2, <2>3
    <3> QED BY <1>1, <2>1, <3>1 DEF PrefixNumbers
  <2> QED BY <2>2, <2>3
<1>4. g[0] = 0 /\ g[N + 1] = base * f[N] + DecodeNibble(c)
  BY <1>1, <1>2 DEF PrefixNumbers
<1>5. Number(t, base) = g[N + 1]
  <2> HIDE DEF t, g
  <2>1. PrefixNumbers(g, t, base)
    BY <1>2, <1>3, <1>4 DEF PrefixNumbers
  <2> QED BY <1>2, <2>1, NumberIs
<1>6. Number(s, base) = f[N]
  BY <1>1, NumberIs
<1> QED BY <1>4, <1>5, <1>6

\* A zero in front changes nothing (hex.go:43-47).
LEMMA NumberZeroFirst ==
    ASSUME NEW C, NEW s \in Seq(C), NEW base \in Nat, "0" \in C
    PROVE  Number(<<"0">> \o s, base) = Number(s, base)
<1>1. PICK f \in [0..Len(s) -> Nat] : PrefixNumbers(f, s, base)
  BY NumberExists
<1> DEFINE N == Len(s)
           t == <<"0">> \o s
           g == [k \in 0..(N + 1) |-> IF k = 0 THEN 0 ELSE f[k - 1]]
<1>2. /\ N \in Nat /\ t \in Seq(C) /\ Len(t) = N + 1 /\ t[1] = "0"
      /\ \A k \in 2..(N + 1) : t[k] = s[k - 1]
  OBVIOUS
<1>3. DecodeNibble("0") = 0
  <2>1. 0 \in 0..15 /\ "0" \in {lower[0 + 1], upper[0 + 1]}
    BY Tables
  <2> QED BY <2>1, NibbleOfDigit
<1>4. ASSUME NEW k \in 1..(N + 1)
      PROVE  g[k] = base * g[k - 1] + DecodeNibble(t[k])
  <2> HIDE DEF t
  <2>1. CASE k = 1
    BY <1>1, <1>2, <1>3, <2>1 DEF PrefixNumbers
  <2>2. CASE k # 1
    <3>1. k - 1 \in 1..N /\ g[k] = f[k - 1] /\ g[k - 1] = f[k - 1 - 1] /\ t[k] = s[k - 1]
      BY <1>2, <2>2
    <3> QED BY <1>1, <3>1 DEF PrefixNumbers
  <2> QED BY <2>1, <2>2
<1>5. g[0] = 0 /\ g[N + 1] = f[N]
  BY <1>2
<1>6. Number(t, base) = g[N + 1]
  <2> HIDE DEF t, g
  <2>1. PrefixNumbers(g, t, base)
    BY <1>2, <1>4, <1>5 DEF PrefixNumbers
  <2> QED BY <1>2, <2>1, NumberIs
<1>7. Number(s, base) = f[N]
  BY <1>1, NumberIs
<1> QED BY <1>5, <1>6, <1>7
----------------------------------------------------------------------------
(* Reading a number (big.Int.SetString).                                   *)

\* A string consists of digits if each of its characters is one.
LEMMA DigitsEach ==
    ASSUME NEW C, NEW t \in Seq(C), NEW base
    PROVE  AllDigits(t, base) <=> \A k \in 1..Len(t) : t[k] \in Digits(base)
<1>1. ToSet(t) = {t[k] : k \in 1..Len(t)}
  BY DEF ToSet
<1> QED BY <1>1 DEF AllDigits

\* SetString reads up to the first character that is not a digit,
LEMMA DigitsReadIs ==
    ASSUME NEW C, NEW t \in Seq(C), NEW base
    PROVE  LET n == DigitsRead(t, base)
           IN /\ n \in 0..Len(t)
              /\ \A k \in 1..n : t[k] \in Digits(base)
              /\ n = Len(t) \/ t[n + 1] \notin Digits(base)
<1> DEFINE N == Len(t)
           Stop(k) == /\ AllDigits(SubSeq(t, 1, k), base)
                      /\ k = N \/ t[k + 1] \notin Digits(base)
           Bad == {k \in 1..N : t[k] \notin Digits(base)}
<1>1. N \in Nat /\ Bad \in SUBSET Nat
  OBVIOUS
<1>2. ASSUME NEW k \in 0..N
      PROVE  AllDigits(SubSeq(t, 1, k), base) <=> \A j \in 1..k : t[j] \in Digits(base)
  <2>1. /\ SubSeq(t, 1, k) \in Seq(C) /\ Len(SubSeq(t, 1, k)) = k
        /\ \A j \in 1..k : SubSeq(t, 1, k)[j] = t[j]
    OBVIOUS
  <2> QED BY <2>1, DigitsEach
<1>3. \E k \in 0..N : Stop(k)
  <2>1. CASE Bad = {}
    <3>1. \A j \in 1..N : t[j] \in Digits(base)
      BY <2>1
    <3>2. N \in 0..N /\ Stop(N)
      BY <1>1, <1>2, <3>1
    <3> QED BY <3>2
  <2>2. CASE Bad # {}
    <3>1. PICK n \in Bad : \A m \in Bad : n <= m
      <4> HIDE DEF Bad
      <4> QED BY <1>1, <2>2, LeastOf
    <3>2. n - 1 \in 0..N /\ n - 1 + 1 = n /\ \A j \in 1..(n - 1) : t[j] \in Digits(base)
      BY <1>1, <3>1
    <3>3. Stop(n - 1)
      BY <1>2, <3>1, <3>2
    <3> QED BY <3>2, <3>3
  <2> QED BY <2>1, <2>2
<1>4. DigitsRead(t, base) = CHOOSE k \in 0..N : Stop(k)
  BY DEF DigitsRead
<1> HIDE DEF Stop
<1>5. DigitsRead(t, base) \in 0..N /\ Stop(DigitsRead(t, base))
  BY <1>3, <1>4
<1> QED BY <1>2, <1>5 DEF Stop

\* so it has no error exactly for digits after an optional sign,
LEMMA SetStringOk ==
    ASSUME NEW C, NEW s \in Seq(C), NEW base
    PROVE  LET t == IF Signed(s) THEN Tail(s) ELSE s
           IN SetString(s, base).ok <=> t # <<>> /\ AllDigits(t, base)
<1> DEFINE t == IF Signed(s) THEN Tail(s) ELSE s
<1>1. t \in Seq(C)
  BY DEF Signed
<1>2. SetString(s, base).ok <=> t # <<>> /\ DigitsRead(t, base) = Len(t)
  BY DEF SetString
<1> HIDE DEF t
<1>3. DigitsRead(t, base) = Len(t) <=> AllDigits(t, base)
  BY <1>1, DigitsReadIs, DigitsEach
<1> QED BY <1>2, <1>3 DEF t

\* and then the value is that of the digits.
LEMMA SetStringVal ==
    ASSUME NEW C, NEW s \in Seq(C), NEW base, SetString(s, base).ok
    PROVE  SetString(s, base).val =
              IF ~Signed(s) THEN Number(s, base)
              ELSE IF Head(s) = "-" THEN -Number(Tail(s), base) ELSE Number(Tail(s), base)
<1> DEFINE t == IF Signed(s) THEN Tail(s) ELSE s
<1>1. t \in Seq(C)
  BY DEF Signed
<1>2. DigitsRead(t, base) = Len(t)
  BY DEF SetString
<1>3. SubSeq(t, 1, Len(t)) = t
  BY <1>1
<1>4. SetString(s, base).val = IF Signed(s) /\ Head(s) = "-" THEN -Number(t, base)
                                                            ELSE Number(t, base)
  BY <1>2, <1>3 DEF SetString
<1> QED BY <1>4

\* A digit is no sign.
LEMMA DigitsUnsigned ==
    ASSUME NEW C, NEW s \in Seq(C), NEW base \in {10, 16}, AllDigits(s, base)
    PROVE  ~Signed(s)
<1>1. s # <<>> => Head(s) \in Digits(16)
  BY DigitsEach, DigitSets
<1> QED BY <1>1, DigitSets DEF Signed

\* What is read for a string of digits, as strconv.ParseUint does.
LEMMA ReadDigits ==
    ASSUME NEW C, NEW s \in Seq(C), NEW base \in {10, 16}, s # <<>>, AllDigits(s, base)
    PROVE  SetString(s, base) = [val |-> Number(s, base), ok |-> TRUE]
<1>1. ~Signed(s)
  BY DigitsUnsigned
<1>2. SetString(s, base).ok
  BY <1>1, SetStringOk
<1>3. SetString(s, base).val = Number(s, base)
  BY <1>1, <1>2, SetStringVal
<1>4. SetString(s, base) = [val |-> SetString(s, base).val, ok |-> SetString(s, base).ok]
  BY DEF SetString
<1>5. SetString(s, base).ok = TRUE
  BY <1>2 DEF SetString
<1> QED BY <1>3, <1>4, <1>5
----------------------------------------------------------------------------
(* The prefix.                                                             *)

\* What strings.HasPrefix tests and strings.TrimPrefix leaves.
LEMMA TrimmedIs ==
    ASSUME NEW C, NEW s \in Seq(C)
    PROVE  /\ HasPrefix0x(s) <=> Len(s) >= 2 /\ s[1] = "0" /\ s[2] = "x"
           /\ TrimPrefix0x(s) \in Seq(C)
           /\ HasPrefix0x(s) => /\ Len(TrimPrefix0x(s)) = Len(s) - 2
                                /\ \A k \in 1..(Len(s) - 2) : TrimPrefix0x(s)[k] = s[k + 2]
           /\ ~HasPrefix0x(s) => TrimPrefix0x(s) = s
<1>1. HasPrefix0x(s) <=> Len(s) >= 2 /\ s[1] = "0" /\ s[2] = "x"
  BY DEF HasPrefix0x, IsPrefix
<1>2. CASE HasPrefix0x(s)
  <2>1. Len(s) \in Nat /\ 2 <= Len(s)
    BY <1>1, <1>2
  <2>2. TrimPrefix0x(s) = SubSeq(s, 3, Len(s))
    BY <1>2 DEF TrimPrefix0x
  <2>3. SubSeq(s, 3, Len(s)) \in Seq(C) /\ Len(SubSeq(s, 3, Len(s))) = Len(s) - 2
    <3>1. CASE Len(s) = 2
      <4>1. SubSeq(s, 3, Len(s)) = <<>>
        BY <3>1, SubSeqEmpty
      <4> QED BY <3>1, <4>1
    <3>2. CASE Len(s) >= 3
      BY <2>1, <3>2
    <3>3. Len(s) = 2 \/ Len(s) >= 3
      <4> DEFINE n == Len(s)
      <4>1. n \in Nat /\ 2 <= n
        BY <2>1
      <4> HIDE DEF n
      <4>2. n = 2 \/ n >= 3
        BY <4>1
      <4> QED BY <4>2 DEF n
    <3> QED BY <3>1, <3>2, <3>3, Zenon
  <2>4. ASSUME NEW k \in 1..(Len(s) - 2) PROVE SubSeq(s, 3, Len(s))[k] = s[k + 2]
    <3>1. 3 + k - 1 = k + 2
      OBVIOUS
    <3>2. SubSeq(s, 3, Len(s))[k] = s[3 + k - 1]
      BY <2>1
    <3> QED BY <3>1, <3>2
  <2> QED BY <1>1, <1>2, <2>2, <2>3, <2>4
<1>3. CASE ~HasPrefix0x(s)
  BY <1>1, <1>3 DEF TrimPrefix0x
<1> QED BY <1>1, <1>2, <1>3

\* A prefix that was put in front is taken off.
LEMMA TrimAdded ==
    ASSUME NEW C, NEW s \in Seq(C)
    PROVE  /\ HasPrefix0x(<<"0", "x">> \o s)
           /\ TrimPrefix0x(<<"0", "x">> \o s) = s
<1> DEFINE t == <<"0", "x">> \o s
           D == C \cup {"0", "x"}
<1>1. /\ t \in Seq(D) /\ Len(t) = Len(s) + 2 /\ t[1] = "0" /\ t[2] = "x" /\ Len(s) \in Nat
      /\ \A k \in 1..Len(s) : t[k + 2] = s[k]
  OBVIOUS
<1> HIDE DEF t
<1>2. HasPrefix0x(t) /\ Len(TrimPrefix0x(t)) = Len(s) /\ TrimPrefix0x(t) \in Seq(D)
  BY <1>1, TrimmedIs
<1>3. \A k \in 1..Len(s) : TrimPrefix0x(t)[k] = s[k]
  <2>1. Len(t) - 2 = Len(s)
    BY <1>1
  <2>2. \A k \in 1..(Len(t) - 2) : TrimPrefix0x(t)[k] = t[k + 2]
    BY <1>1, <1>2, TrimmedIs
  <2> QED BY <1>1, <2>1, <2>2
<1>4. s \in Seq(D)
  OBVIOUS
<1>5. TrimPrefix0x(t) = s
  BY <1>2, <1>3, <1>4
<1> QED BY <1>2, <1>5 DEF t

----------------------------------------------------------------------------
(* Integers of fixed width.                                                *)

\* The conversion to int64 is two's complement: it keeps the number modulo
\* 2^64 and lands in the range of int64 (encoding.go:61).
LEMMA TwosComplement ==
    ASSUME NEW n \in Nat, n < Range64
    PROVE  /\ int64(n) % Range64 = n
           /\ int64(n) \in -(Range64 \div 2)..(Range64 \div 2 - 1)
<1> DEFINE h == Range64 \div 2
<1>1. h \in Nat /\ Range64 = 2 * h /\ Range64 \in Nat /\ Range64 > 0
  BY RangeAssumption
<1>2. n % Range64 = n
  BY <1>1
<1>3. (n - Range64) % Range64 = n
  BY <1>1
<1> HIDE DEF h
<1>4. int64(n) = IF n < h THEN n ELSE n - Range64
  BY DEF int64, h
<1>5. int64(n) \in -h..(h - 1)
  BY <1>1, <1>4
<1> QED BY <1>2, <1>3, <1>4, <1>5 DEF h

\* ParseUint accepts the digits of a number that fits, and returns it.
LEMMA ParseUintIs ==
    ASSUME NEW C, NEW s \in Seq(C), NEW base \in {10, 16}
    PROVE  /\ ParseUint(s, base).ok <=> /\ s # <<>> /\ AllDigits(s, base)
                                        /\ Number(s, base) < Range64
           /\ ParseUint(s, base).ok => ParseUint(s, base) = [val |-> Number(s, base), ok |-> TRUE]
<1> DEFINE k == DigitsRead(s, base)
           n == Number(SubSeq(s, 1, k), base)
<1>1. ASSUME AllDigits(s, base) PROVE SubSeq(s, 1, k) = s
  <2>1. k = Len(s)
    BY <1>1, DigitsReadIs, DigitsEach
  <2> QED BY <2>1
<1>2. ParseUint(s, base).ok <=> s # <<>> /\ AllDigits(s, base) /\ n < Range64
  BY DEF ParseUint
<1>3. ASSUME ParseUint(s, base).ok
      PROVE  ParseUint(s, base) = [val |-> n, ok |-> TRUE]
  <2>1. s # <<>> /\ AllDigits(s, base) /\ n < Range64
    BY <1>2, <1>3
  <2>2. n \in Nat /\ Range64 \in Nat
    BY <1>1, <2>1, NumberNat, RangeAssumption
  <2>3. ~(n >= Range64)
    BY <2>1, <2>2
  <2>4. ParseUint(s, base) =
            [val |-> IF n >= Range64 THEN Range64 - 1
                     ELSE IF s # <<>> /\ AllDigits(s, base) THEN n ELSE 0,
             ok |-> s # <<>> /\ AllDigits(s, base) /\ n < Range64]
    BY DEF ParseUint
  <2> HIDE DEF n
  <2>5. (s # <<>> /\ AllDigits(s, base) /\ n < Range64) = TRUE
    BY <2>1
  <2> QED BY <2>1, <2>3, <2>4, <2>5
<1> HIDE DEF k, n
<1> QED BY <1>1, <1>2, <1>3 DEF n

\* Every string, numbers that overflow included.
LEMMA OverflowOfString ==
    ASSUME NEW C, str \in Seq(C)
    PROVE  OverflowIsError
<1> DEFINE t == TrimPrefix0x(str)
           b == Base(str)
           u == DecodeUint64orHex(str)
           big == DecodeUint256orHex(str)
           i == DecodeInt64orHex(str)
<1>1. t \in Seq(C) /\ b \in {10, 16} /\ u = ParseUint(t, b) /\ big = SetString(t, b)
  BY TrimmedIs DEF Base, DecodeUint64orHex, DecodeUint256orHex
<1>2. i.val = int64(u.val) /\ i.ok = u.ok
  BY DEF DecodeInt64orHex
<1> HIDE DEF b, u, big, i
<1>3. Number(t, b) \in Nat /\ Range64 \in Nat
  BY <1>1, NumberNat, RangeAssumption
<1>4. ASSUME u.ok PROVE big.ok /\ u.val = big.val
  <2> HIDE DEF t
  <2>1. t # <<>> /\ AllDigits(t, b) /\ u = [val |-> Number(t, b), ok |-> TRUE]
    BY <1>1, <1>4, ParseUintIs
  <2>2. big = [val |-> Number(t, b), ok |-> TRUE]
    BY <1>1, <2>1, ReadDigits
  <2> QED BY <2>1, <2>2
<1>5. ASSUME big.ok, ~u.ok
      PROVE  big.val >= Range64 \/ "-" \in ToSet(str) \/ "+" \in ToSet(str)
  <2>1. CASE Signed(t)
    <3>1. t # <<>> /\ t[1] \in {"+", "-"} /\ Len(t) >= 1
      BY <1>1, <2>1 DEF Signed
    <3>2. \E k \in DOMAIN str : t[1] = str[k]
      <4>1. CASE HasPrefix0x(str)
        <5>1. Len(str) \in Nat /\ Len(t) = Len(str) - 2 /\ t[1] = str[1 + 2]
          BY <3>1, <4>1, TrimmedIs
        <5>2. 1 + 2 \in DOMAIN str
          BY <3>1, <5>1
        <5> QED BY <5>1, <5>2
      <4>2. CASE ~HasPrefix0x(str)
        BY <3>1, <4>2, TrimmedIs
      <4> QED BY <4>1, <4>2
    <3> QED BY <3>1, <3>2 DEF ToSet
  <2>2. CASE ~Signed(t)
    <3> HIDE DEF t
    <3>1. t # <<>> /\ AllDigits(t, b)
      BY <1>1, <1>5, <2>2, SetStringOk
    <3>2. ~(Number(t, b) < Range64)
      BY <1>1, <1>5, <3>1, ParseUintIs
    <3>3. big.val = Number(t, b)
      BY <1>1, <1>5, <2>2, SetStringVal
    <3> QED BY <1>3, <3>2, <3>3
  <2> QED BY <2>1, <2>2
<1>6. ASSUME i.ok
      PROVE  i.val % Range64 = u.val /\ i.val \in -(Range64 \div 2)..(Range64 \div 2 - 1)
  <2> HIDE DEF t
  <2>1. u.val = Number(t, b) /\ Number(t, b) < Range64
    <3>1. u.ok
      BY <1>2, <1>6
    <3> QED BY <1>1, <3>1, ParseUintIs
  <2> QED BY <1>2, <1>3, <2>1, TwosComplement
<1> QED BY <1>4, <1>5, <1>6 DEF OverflowIsError, u, big, i

----------------------------------------------------------------------------
(* Writing a number (big.Int.Text, strconv.FormatUint).                    *)

\* What is written for n, if f holds what is written for smaller numbers.
Written(f, n) ==
    IF n < 16 THEN <<lower[n + 1]>> ELSE Append(f[n \div 16], lower[(n % 16) + 1])

\* Division by 16 leads to a smaller number and a digit.
LEMMA Division ==
    ASSUME NEW n \in Nat
    PROVE  /\ n \div 16 \in Nat /\ n % 16 \in 0..15 /\ n = 16 * (n \div 16) + (n % 16)
           /\ n >= 16 => n \div 16 < n /\ n \div 16 > 0
OBVIOUS

\* A step writes a digit.
LEMMA WrittenDigits ==
    ASSUME NEW n \in Nat, NEW f, n >= 16 => f[n \div 16] \in Seq(Digits(16))
    PROVE  Written(f, n) \in Seq(Digits(16))
<1>1. CASE n < 16
  <2>1. lower[n + 1] \in Digits(16)
    BY <1>1, LowerDigit
  <2> QED BY <1>1, <2>1 DEF Written
<1>2. CASE ~(n < 16)
  <2>1. n % 16 \in 0..15 /\ n >= 16
    BY <1>2, Division
  <2>2. lower[(n % 16) + 1] \in Digits(16)
    BY <2>1, LowerDigit
  <2>3. Append(f[n \div 16], lower[(n % 16) + 1]) \in Seq(Digits(16))
    BY <2>1, <2>2
  <2> QED BY <1>2, <2>3 DEF Written
<1> QED BY <1>1, <1>2

\* There is a function that writes all numbers up to the bound.
LEMMA WrittenExists ==
    \E f \in [0..MaxNumber -> Seq(Digits(16))] : \A n \in 0..MaxNumber : f[n] = Written(f, n)
<1> DEFINE Upto(n) == \E f \in [0..n -> Seq(Digits(16))] : \A k \in 0..n : f[k] = Written(f, k)
           Bad == {n \in 0..MaxNumber : ~Upto(n)}
<1>0. MaxNumber \in Nat
  BY CodecAssumption
<1>1. Upto(0)
  <2> DEFINE g == [k \in 0..0 |-> <<lower[1]>>]
  <2>1. lower[0 + 1] \in Digits(16)
    BY LowerDigit
  <2>2. g \in [0..0 -> Seq(Digits(16))]
    BY <2>1
  <2>3. \A k \in 0..0 : g[k] = Written(g, k)
    BY DEF Written
  <2> QED BY <2>2, <2>3
<1>2. ASSUME NEW n \in Nat, Upto(n) PROVE Upto(n + 1)
  <2>1. PICK f \in [0..n -> Seq(Digits(16))] : \A k \in 0..n : f[k] = Written(f, k)
    BY <1>2
  <2> DEFINE g == [k \in 0..(n + 1) |-> IF k = n + 1 THEN Written(f, n + 1) ELSE f[k]]
  <2>2. \A k \in 0..(n + 1) : k >= 16 => k \div 16 \in 0..n
    <3> SUFFICES ASSUME NEW k \in 0..(n + 1), k >= 16 PROVE k \div 16 \in 0..n
      OBVIOUS
    <3>1. k \in Nat /\ k \div 16 \in Nat /\ k \div 16 < k
      BY Division
    <3> QED BY <3>1
  <2>3. Written(f, n + 1) \in Seq(Digits(16))
    <3>1. n + 1 \in Nat /\ n + 1 \in 0..(n + 1)
      OBVIOUS
    <3> QED BY <2>2, <3>1, WrittenDigits
  <2>4. g \in [0..(n + 1) -> Seq(Digits(16))]
    BY <2>3
  <2>5. ASSUME NEW k \in 0..(n + 1) PROVE g[k] = Written(g, k)
    <3>1. k >= 16 => g[k \div 16] = f[k \div 16]
      BY <2>2
    <3>2. Written(g, k) = Written(f, k)
      <4> HIDE DEF g
      <4> QED BY <3>1 DEF Written
    <3>3. CASE k = n + 1
      BY <3>2, <3>3
    <3>4. CASE k # n + 1
      <4>1. k \in 0..n /\ g[k] = f[k]
        BY <3>4
      <4> QED BY <2>1, <3>2, <4>1
    <3> QED BY <3>3, <3>4
  <2> QED BY <2>4, <2>5
<1> HIDE DEF Upto
<1>3. Bad = {}
  <2> SUFFICES ASSUME Bad # {} PROVE FALSE
    OBVIOUS
  <2>0. Bad \in SUBSET Nat
    BY <1>0
  <2>1. PICK n \in Bad : \A m \in Bad : n <= m
    <3> HIDE DEF Bad
    <3> QED BY <2>0, LeastOf
  <2>2. n - 1 \in Nat /\ Upto(n - 1)
    BY <1>0, <1>1, <2>1
  <2>3. Upto(n - 1 + 1)
    BY <1>2, <2>2
  <2> QED BY <1>0, <2>1, <2>3
<1>4. Upto(MaxNumber)
  BY <1>0, <1>3
<1> QED BY <1>4 DEF Upto

\* Text is that function,
LEMMA TextIs ==
    /\ Text \in [0..MaxNumber -> Seq(Digits(16))]
    /\ \A n \in 0..MaxNumber : Text[n] = Written(Text, n)
<1>1. PICK f \in [0..MaxNumber -> Seq(Digits(16))] :
             \A n \in 0..MaxNumber : f[n] = Written(f, n)
  BY WrittenExists
<1>2. f = [n \in 0..MaxNumber |-> Written(f, n)]
  BY <1>1
<1>3. Text = [n \in 0..MaxNumber |-> Written(Text, n)]
  BY <1>2 DEF Text, Written
<1>4. \A n \in 0..MaxNumber : Text[n] = Written(Text, n)
  BY <1>3
<1> DEFINE Bad == {n \in 0..MaxNumber : Text[n] \notin Seq(Digits(16))}
<1>5. Bad = {}
  <2> SUFFICES ASSUME Bad # {} PROVE FALSE
    OBVIOUS
  <2>0. MaxNumber \in Nat /\ Bad \in SUBSET Nat
    BY CodecAssumption
  <2>1. PICK n \in Bad : \A m \in Bad : n <= m
    <3> HIDE DEF Bad
    <3> QED BY <2>0, LeastOf
  <2>2. n \in Nat /\ n \in 0..MaxNumber
    BY <2>0
  <2>3. n >= 16 => n \div 16 \in 0..MaxNumber /\ n \div 16 < n
    BY <2>0, <2>2, Division
  <2>4. n >= 16 => Text[n \div 16] \in Seq(Digits(16))
    BY <2>0, <2>1, <2>2, <2>3
  <2>5. Written(Text, n) \in Seq(Digits(16))
    BY <2>2, <2>4, WrittenDigits
  <2> QED BY <1>4, <2>1, <2>2, <2>5
<1> QED BY <1>3, <1>4, <1>5

\* and what it writes is never empty and is read as the number.
LEMMA TextReads ==
    ASSUME NEW n \in 0..MaxNumber
    PROVE  Text[n] # <<>> /\ Number(Text[n], 16) = n
<1> DEFINE Bad == {k \in 0..MaxNumber : ~(Text[k] # <<>> /\ Number(Text[k], 16) = k)}
<1>0. MaxNumber \in Nat /\ Bad \in SUBSET Nat
  BY CodecAssumption
<1> SUFFICES ASSUME Bad # {} PROVE FALSE
  OBVIOUS
<1>1. PICK k \in Bad : \A m \in Bad : k <= m
  <2> HIDE DEF Bad
  <2> QED BY <1>0, LeastOf
<1>2. k \in Nat /\ k \in 0..MaxNumber /\ Text[k] = Written(Text, k)
  BY <1>0, TextIs
<1>3. ~(Text[k] # <<>> /\ Number(Text[k], 16) = k)
  OBVIOUS
<1>4. CASE k < 16
  <2>0. k \in 0..15
    BY <1>2, <1>4
  <2>1. lower[k + 1] \in Digits(16) /\ DecodeNibble(lower[k + 1]) = k
    BY <2>0, LowerDigit
  <2>2. Text[k] = <<lower[k + 1]>>
    BY <1>2, <1>4 DEF Written
  <2>3. Number(Text[k], 16) = k
    <3> DEFINE f == [j \in 0..1 |-> IF j = 0 THEN 0 ELSE k]
    <3>1. Text[k] \in Seq(Digits(16)) /\ Len(Text[k]) = 1 /\ Text[k][1] = lower[k + 1]
      BY <2>1, <2>2
    <3>2. f[0] = 0 /\ f[1] = k
      OBVIOUS
    <3>3. PrefixNumbers(f, Text[k], 16)
      <4> HIDE DEF f
      <4> QED BY <1>2, <2>1, <3>1, <3>2 DEF PrefixNumbers
    <3> HIDE DEF f
    <3>4. Number(Text[k], 16) = f[Len(Text[k])]
      BY <3>1, <3>3, NumberIs
    <3> QED BY <3>1, <3>2, <3>4
  <2>4. Text[k] # <<>>
    BY <2>2
  <2> QED BY <1>3, <2>3, <2>4
<1>5. CASE ~(k < 16)
  <2>1. /\ k \div 16 \in Nat /\ k % 16 \in 0..15 /\ k = 16 * (k \div 16) + (k % 16)
        /\ k \div 16 < k
    BY <1>2, <1>5, Division
  <2>2. k \div 16 \in 0..MaxNumber /\ k \div 16 \notin Bad
    <3>1. \A x \in Nat : x < k => x \in 0..MaxNumber /\ ~(k <= x)
      BY <1>0, <1>2
    <3> HIDE DEF Bad
    <3> QED BY <1>1, <2>1, <3>1, Zenon
  <2>3. Number(Text[k \div 16], 16) = k \div 16 /\ Text[k \div 16] \in Seq(Digits(16))
    BY <2>2, TextIs
  <2>4. /\ lower[(k % 16) + 1] \in Digits(16)
        /\ DecodeNibble(lower[(k % 16) + 1]) = k % 16
    BY <2>1, LowerDigit
  <2>5. Text[k] = Append(Text[k \div 16], lower[(k % 16) + 1])
    BY <1>2, <1>5 DEF Written
  <2>6. Number(Text[k], 16) = 16 * (k \div 16) + (k % 16)
    BY <2>3, <2>4, <2>5, NumberAppend
  <2>7. Text[k] # <<>>
    <3>1. \A s \in Seq(Digits(16)), d \in Digits(16) : Append(s, d) # <<>>
      OBVIOUS
    <3> QED BY <2>3, <2>4, <2>5, <3>1, Zenon
  <2> QED BY <1>3, <2>1, <2>6, <2>7
<1> QED BY <1>4, <1>5

----------------------------------------------------------------------------
(* Numbers that are written and read again.                                *)

\* The text of a number consists of digits and is read as the number.
LEMMA TextDigits ==
    ASSUME NEW n \in 0..MaxNumber
    PROVE  /\ n \in Nat /\ Text[n] \in Seq(Digits(16)) /\ Text[n] # <<>>
           /\ AllDigits(Text[n], 16)
           /\ SetString(Text[n], 16) = [val |-> n, ok |-> TRUE]
<1>1. n \in Nat /\ Text[n] \in Seq(Digits(16)) /\ Text[n] # <<>> /\ Number(Text[n], 16) = n
  BY CodecAssumption, TextIs, TextReads
<1>2. AllDigits(Text[n], 16)
  BY <1>1, DigitsEach
<1>3. 16 \in {10, 16}
  OBVIOUS
<1> QED BY <1>1, <1>2, <1>3, ReadDigits

\* With a sign in front it is read as the negative number.
LEMMA MinusText ==
    ASSUME NEW n \in 0..MaxNumber
    PROVE  /\ <<"-">> \o Text[n] \in Seq(Digits(16) \cup {"-"})
           /\ SetString(<<"-">> \o Text[n], 16) = [val |-> -n, ok |-> TRUE]
<1> DEFINE t == Text[n]
           s == <<"-">> \o t
           C == Digits(16) \cup {"-"}
<1>1. t \in Seq(Digits(16)) /\ t # <<>> /\ AllDigits(t, 16) /\ Number(t, 16) = n
  BY TextDigits, TextReads
<1> HIDE DEF t
<1>2. s \in Seq(C) /\ s # <<>> /\ Head(s) = "-" /\ Len(s) = Len(t) + 1 /\ Len(t) \in Nat
  BY <1>1
<1>3. Tail(s) = t
  <2>1. Tail(s) \in Seq(C) /\ t \in Seq(C) /\ Len(Tail(s)) = Len(t)
    BY <1>1, <1>2
  <2>2. \A k \in 1..Len(t) : Tail(s)[k] = t[k]
    BY <1>1, <1>2
  <2> QED BY <2>1, <2>2
<1> HIDE DEF s, C
<1>4. Signed(s)
  BY <1>2 DEF Signed
<1>5. SetString(s, 16).ok
  BY <1>1, <1>2, <1>3, <1>4, SetStringOk
<1>6. SetString(s, 16).val = -n
  BY <1>1, <1>2, <1>3, <1>4, <1>5, SetStringVal
<1>7. SetString(s, 16) = [val |-> SetString(s, 16).val, ok |-> SetString(s, 16).ok]
  BY DEF SetString
<1>8. SetString(s, 16).ok = TRUE
  BY <1>5 DEF SetString
<1> QED BY <1>2, <1>6, <1>7, <1>8 DEF s, C, t

\* EncodeBig writes zero as the other numbers (hex.go:92-101).
LEMMA EncodeBigIs ==
    ASSUME NEW n \in 0..MaxNumber
    PROVE  EncodeBig(n) = <<"0", "x">> \o Text[n]
<1>1. n \in Nat
  BY TextDigits
<1>2. CASE n = 0
  <2>1. Text[n] = <<lower[n + 1]>>
    BY <1>2, TextIs DEF Written
  <2>2. Text[n] = <<"0">>
    BY <1>2, <2>1, Tables
  <2> QED BY <1>2, <2>2 DEF EncodeBig
<1>3. CASE n > 0
  BY <1>1, <1>3 DEF EncodeBig
<1> QED BY <1>1, <1>2, <1>3

\* EncodeBigInt puts the sign between the prefix and the digits.
LEMMA EncodeNegative ==
    ASSUME NEW n \in 0..MaxNumber, n > 0
    PROVE  EncodeBigInt(-n) = <<"0", "x">> \o (<<"-">> \o Text[n])
<1>1. EncodeBigInt(-n) = <<"0", "x", "-">> \o Text[n]
  <2>1. n \in Nat /\ ~(-n >= 0) /\ -(-n) = n
    BY TextDigits
  <2> QED BY <2>1 DEF EncodeBigInt
<1>2. <<"0", "x", "-">> \o Text[n] = <<"0", "x">> \o (<<"-">> \o Text[n])
  BY TextDigits
<1> QED BY <1>1, <1>2

\* Every number below the bound, also those that do not fit.
LEMMA RoundTripOfNumber ==
    ASSUME num \in 0..MaxNumber
    PROVE  NumberRoundTrip
<1> DEFINE t == Text[num]
           e == <<"0", "x">> \o t
<1>1. /\ num \in Nat /\ t \in Seq(Digits(16)) /\ t # <<>> /\ AllDigits(t, 16)
      /\ SetString(t, 16) = [val |-> num, ok |-> TRUE] /\ Number(t, 16) = num
  BY TextDigits, TextReads
<1>2. EncodeHexUint64(num) = e /\ EncodeUint64(num) = e /\ EncodeBig(num) = e
  BY EncodeBigIs DEF EncodeHexUint64, EncodeUint64
<1>3. EncodeBigInt(num) = e
  BY <1>1 DEF EncodeBigInt
<1> HIDE DEF t
<1>4. HasPrefix0x(e) /\ TrimPrefix0x(e) = t
  BY <1>1, TrimAdded
<1> HIDE DEF e
<1>5. DecodeBig(e) = num
  BY <1>1, <1>4 DEF DecodeBig
<1>6. Range64 \in Nat /\ Range64 > 0
  BY RangeAssumption
<1>7. DecodeUint64(e) = num % Range64
  BY <1>1, <1>5 DEF DecodeUint64
<1>8. num < Range64 => num % Range64 = num
  BY <1>1, <1>6
<1>9. ASSUME num < Range64 PROVE DecodeUint64orHex(e) = [val |-> num, ok |-> TRUE]
  <2>1. DecodeUint64orHex(e) = ParseUint(t, 16)
    BY <1>4 DEF DecodeUint64orHex, Base
  <2>2. ParseUint(t, 16) = [val |-> num, ok |-> TRUE]
    BY <1>1, <1>9, ParseUintIs
  <2> QED BY <2>1, <2>2
<1>10. DecodeUint256orHex(e) = [val |-> num, ok |-> TRUE]
  BY <1>1, <1>4 DEF DecodeUint256orHex, Base
<1>11. DecodeUint256orHex(EncodeBigInt(-num)) = [val |-> -num, ok |-> TRUE]
  <2>1. CASE num = 0
    BY <1>3, <1>10, <2>1
  <2>2. CASE num > 0
    <3> DEFINE m == <<"-">> \o t
    <3>1. m \in Seq(Digits(16) \cup {"-"}) /\ SetString(m, 16) = [val |-> -num, ok |-> TRUE]
      BY MinusText DEF t
    <3>2. EncodeBigInt(-num) = <<"0", "x">> \o m
      BY <2>2, EncodeNegative DEF t
    <3> HIDE DEF m
    <3>3. HasPrefix0x(<<"0", "x">> \o m) /\ TrimPrefix0x(<<"0", "x">> \o m) = m
      BY <3>1, TrimAdded
    <3> QED BY <3>1, <3>2, <3>3 DEF DecodeUint256orHex, Base
  <2> QED BY <1>1, <2>1, <2>2
<1> QED BY <1>2, <1>3, <1>5, <1>7, <1>8, <1>9, <1>10, <1>11 DEF NumberRoundTrip

----------------------------------------------------------------------------
(* Reading bytes (hex.DecodeString of encoding/hex).                       *)

\* The digits of a byte, and its number.
LEMMA PairIs ==
    ASSUME NEW C, NEW s \in Seq(C), NEW k, 2 * k - 1 \in 1..Len(s), 2 * k \in 1..Len(s)
    PROVE  /\ AllDigits(Pair(s, k), 16) <=> s[2 * k - 1] \in Digits(16) /\ s[2 * k] \in Digits(16)
           /\ Number(Pair(s, k), 16) = 16 * DecodeNibble(s[2 * k - 1]) + DecodeNibble(s[2 * k])
           /\ Number(Pair(s, k), 16) \in Nat
<1> DEFINE a == s[2 * k - 1]
           b == s[2 * k]
           f == [j \in 0..2 |-> IF j = 0 THEN 0 ELSE IF j = 1 THEN DecodeNibble(a)
                                 ELSE 16 * DecodeNibble(a) + DecodeNibble(b)]
<1>1. a \in C /\ b \in C
  OBVIOUS
<1>2. Pair(s, k) = <<a, b>>
  BY DEF Pair
<1> HIDE DEF a, b
<1>3. <<a, b>> \in Seq(C) /\ Len(<<a, b>>) = 2 /\ <<a, b>>[1] = a /\ <<a, b>>[2] = b
  BY <1>1
<1>4. AllDigits(<<a, b>>, 16) <=> a \in Digits(16) /\ b \in Digits(16)
  <2> DEFINE t == <<a, b>>
  <2>1. t \in Seq(C) /\ Len(t) = 2 /\ t[1] = a /\ t[2] = b
    BY <1>3
  <2> HIDE DEF t
  <2>2. AllDigits(t, 16) <=> \A j \in 1..2 : t[j] \in Digits(16)
    BY <2>1, DigitsEach
  <2>3. \A j \in 1..2 : j = 1 \/ j = 2
    OBVIOUS
  <2>4. AllDigits(t, 16) <=> a \in Digits(16) /\ b \in Digits(16)
    BY <2>1, <2>2, <2>3
  <2> QED BY <2>4 DEF t
<1>5. DecodeNibble(a) \in Nat /\ DecodeNibble(b) \in Nat
  BY NibbleNat
<1>6. f[0] = 0 /\ f[1] = DecodeNibble(a) /\ f[2] = 16 * DecodeNibble(a) + DecodeNibble(b)
  OBVIOUS
<1>7. PrefixNumbers(f, <<a, b>>, 16)
  <2> HIDE DEF f
  <2>1. ASSUME NEW j \in 1..2 PROVE f[j] = 16 * f[j - 1] + DecodeNibble(<<a, b>>[j])
    <3>1. CASE j = 1
      BY <1>3, <1>5, <1>6, <3>1
    <3>2. CASE j = 2
      BY <1>3, <1>5, <1>6, <3>2
    <3> QED BY <3>1, <3>2
  <2> QED BY <1>3, <1>6, <2>1 DEF PrefixNumbers
<1>8. Number(<<a, b>>, 16) = 16 * DecodeNibble(a) + DecodeNibble(b)
  <2> HIDE DEF f
  <2> QED BY <1>3, <1>6, <1>7, NumberIs
<1> QED BY <1>2, <1>4, <1>5, <1>8 DEF a, b

\* DecodeString reads up to the first pair that is not two digits,
LEMMA PairsReadIs ==
    ASSUME NEW C, NEW s \in Seq(C)
    PROVE  /\ PairsRead(s) \in 0..(Len(s) \div 2)
           /\ GoodPairs(s, PairsRead(s))
           /\ PairsRead(s) = Len(s) \div 2 \/ ~GoodPairs(s, PairsRead(s) + 1)
<1> DEFINE N == Len(s) \div 2
           Stop(m) == GoodPairs(s, m) /\ (m = N \/ ~GoodPairs(s, m + 1))
           Bad == {k \in 1..N : ~AllDigits(Pair(s, k), 16)}
<1>1. N \in Nat /\ Bad \in SUBSET Nat
  OBVIOUS
<1>2. \E m \in 0..N : Stop(m)
  <2>1. CASE Bad = {}
    <3>1. N \in 0..N /\ Stop(N)
      BY <1>1, <2>1 DEF GoodPairs
    <3> QED BY <3>1
  <2>2. CASE Bad # {}
    <3>1. PICK n \in Bad : \A m \in Bad : n <= m
      <4> HIDE DEF Bad
      <4> QED BY <1>1, <2>2, LeastOf
    <3>2. n - 1 \in 0..N /\ n - 1 + 1 = n /\ n \in 1..n /\ n - 1 < n /\ n \in Nat
      BY <1>1
    <3>3. GoodPairs(s, n - 1)
      BY <1>1, <3>1, <3>2 DEF GoodPairs
    <3>4. ~GoodPairs(s, n)
      BY <3>2 DEF GoodPairs
    <3> QED BY <3>2, <3>3, <3>4
  <2> QED BY <2>1, <2>2
<1>3. PairsRead(s) = CHOOSE m \in 0..N : Stop(m)
  BY DEF PairsRead
<1> HIDE DEF Stop
<1>4. PairsRead(s) \in 0..N /\ Stop(PairsRead(s))
  BY <1>2, <1>3
<1> QED BY <1>4 DEF Stop

\* which is the end if all characters are digits,
LEMMA AllPairsRead ==
    ASSUME NEW C, NEW s \in Seq(C), AllDigits(s, 16)
    PROVE  PairsRead(s) = Len(s) \div 2
<1> DEFINE N == Len(s) \div 2
<1>1. N \in Nat /\ Len(s) \in Nat /\ 2 * N <= Len(s)
  OBVIOUS
<1>2. ASSUME NEW m \in 0..N PROVE GoodPairs(s, m)
  <2> SUFFICES ASSUME NEW k \in 1..m PROVE AllDigits(Pair(s, k), 16)
    BY DEF GoodPairs
  <2>1. 2 * k - 1 \in 1..Len(s) /\ 2 * k \in 1..Len(s)
    BY <1>1
  <2>2. s[2 * k - 1] \in Digits(16) /\ s[2 * k] \in Digits(16)
    BY <2>1, DigitsEach
  <2> QED BY <2>1, <2>2, PairIs
<1>3. PairsRead(s) \in 0..N /\ (PairsRead(s) = N \/ ~GoodPairs(s, PairsRead(s) + 1))
  BY PairsReadIs
<1>4. PairsRead(s) # N => PairsRead(s) + 1 \in 0..N
  BY <1>1, <1>3
<1> QED BY <1>2, <1>3, <1>4

\* so it has no error exactly for an even number of digits.
LEMMA DecodeStringOk ==
    ASSUME NEW C, NEW s \in Seq(C)
    PROVE  DecodeString(s).ok <=> Len(s) % 2 = 0 /\ AllDigits(s, 16)
<1> DEFINE m == PairsRead(s)
<1>1. DecodeString(s).ok <=> 2 * m = Len(s)
  BY DEF DecodeString
<1>2. m \in 0..(Len(s) \div 2) /\ GoodPairs(s, m) /\ Len(s) \in Nat
  BY PairsReadIs
<1> HIDE DEF m
<1>3. ASSUME 2 * m = Len(s) PROVE Len(s) % 2 = 0 /\ AllDigits(s, 16)
  <2>1. Len(s) % 2 = 0
    BY <1>2, <1>3
  <2>2. ASSUME NEW j \in 1..Len(s) PROVE s[j] \in Digits(16)
    <3> DEFINE k == (j + 1) \div 2
    <3>1. /\ k \in 1..m /\ (j = 2 * k - 1 \/ j = 2 * k)
          /\ 2 * k - 1 \in 1..Len(s) /\ 2 * k \in 1..Len(s)
      BY <1>2, <1>3
    <3> HIDE DEF k
    <3>2. AllDigits(Pair(s, k), 16)
      BY <1>2, <3>1 DEF GoodPairs
    <3>3. s[2 * k - 1] \in Digits(16) /\ s[2 * k] \in Digits(16)
      BY <3>1, <3>2, PairIs
    <3> QED BY <3>1, <3>3
  <2> QED BY <2>1, <2>2, DigitsEach
<1>4. ASSUME Len(s) % 2 = 0, AllDigits(s, 16) PROVE 2 * m = Len(s)
  <2>1. m = Len(s) \div 2
    BY <1>4, AllPairsRead DEF m
  <2> QED BY <1>2, <1>4, <2>1
<1> QED BY <1>1, <1>3, <1>4

\* The bytes of an even number of characters are the number of these.
LEMMA BytesNumber ==
    ASSUME NEW C, NEW s \in Seq(C), NEW m \in Nat, Len(s) = 2 * m
    PROVE  SetBytes([k \in 1..m |-> Number(Pair(s, k), 16)]) = Number(s, 16)
<1> DEFINE d == [k \in 1..m |-> Number(Pair(s, k), 16)]
<1>1. PICK f \in [0..Len(s) -> Nat] : PrefixNumbers(f, s, 16)
  BY NumberExists
<1> DEFINE g == [k \in 0..m |-> f[2 * k]]
<1>2. ASSUME NEW k \in 1..m
      PROVE  /\ d[k] \in Nat
             /\ g[k] = 256 * g[k - 1] + d[k]
  <2>1. /\ 2 * k - 1 \in 1..Len(s) /\ 2 * k \in 1..Len(s) /\ 2 * k - 1 - 1 \in 0..Len(s)
        /\ 2 * (k - 1) = 2 * k - 1 - 1 /\ k - 1 \in 0..m
    OBVIOUS
  <2>2. d[k] = 16 * DecodeNibble(s[2 * k - 1]) + DecodeNibble(s[2 * k]) /\ d[k] \in Nat
    BY <2>1, PairIs
  <2>3. /\ f[2 * k] = 16 * f[2 * k - 1] + DecodeNibble(s[2 * k])
        /\ f[2 * k - 1] = 16 * f[2 * k - 1 - 1] + DecodeNibble(s[2 * k - 1])
    BY <1>1, <2>1 DEF PrefixNumbers
  <2>4. g[k] = f[2 * k] /\ g[k - 1] = f[2 * k - 1 - 1]
    BY <2>1
  <2>5. DecodeNibble(s[2 * k - 1]) \in Nat /\ DecodeNibble(s[2 * k]) \in Nat
    BY NibbleNat
  <2>6. f[2 * k - 1 - 1] \in Nat
    BY <2>1
  <2> HIDE DEF d, g
  <2> DEFINE x == g[k - 1]
             y == DecodeNibble(s[2 * k - 1])
             z == DecodeNibble(s[2 * k])
  <2>7. x \in Nat /\ y \in Nat /\ z \in Nat /\ g[k] = 16 * (16 * x + y) + z /\ d[k] = 16 * y + z
    BY <2>2, <2>3, <2>4, <2>5, <2>6
  <2> HIDE DEF x, y, z
  <2>8. g[k] = 256 * x + d[k]
    BY <2>7
  <2> QED BY <2>2, <2>8 DEF x
<1>3. d \in Seq(Nat) /\ Len(d) = m
  <2>1. d \in [1..m -> Nat]
    BY <1>2
  <2> HIDE DEF d
  <2> QED BY <2>1
<1>4. g[0] = 0 /\ g[m] = f[Len(s)]
  BY <1>1 DEF PrefixNumbers
<1> HIDE DEF d, g
<1>5. PrefixValues(g, d, 256)
  BY <1>2, <1>3, <1>4 DEF PrefixValues
<1>6. Value(d, 256) = g[m]
  BY <1>3, <1>5, ValueIs
<1>7. Number(s, 16) = f[Len(s)]
  BY <1>1, NumberIs
<1> QED BY <1>4, <1>6, <1>7 DEF SetBytes, d

----------------------------------------------------------------------------
(* Strings of digits that are decoded to bytes.                            *)

\* DecodeHex makes the number of digits even and leaves the number alone
\* (hex.go:43-47).
LEMMA PadOddIs ==
    ASSUME NEW C, NEW t \in Seq(C)
    PROVE  /\ PadOdd(t) \in Seq(C \cup {"0"}) /\ Len(PadOdd(t)) % 2 = 0
           /\ AllDigits(PadOdd(t), 16) <=> AllDigits(t, 16)
           /\ Number(PadOdd(t), 16) = Number(t, 16)
<1> DEFINE D == C \cup {"0"}
<1>0. t \in Seq(D) /\ Len(t) \in Nat
  OBVIOUS
<1>1. CASE Len(t) % 2 = 0
  BY <1>0, <1>1 DEF PadOdd
<1>2. CASE Len(t) % 2 # 0
  <2> DEFINE p == <<"0">> \o t
  <2>1. PadOdd(t) = p
    BY <1>2 DEF PadOdd
  <2>2. /\ p \in Seq(D) /\ Len(p) = Len(t) + 1 /\ p[1] = "0"
        /\ \A k \in 1..Len(t) : p[k + 1] = t[k]
    BY <1>0
  <2> HIDE DEF p
  <2>3. Len(p) % 2 = 0
    BY <1>0, <1>2, <2>2
  <2>4. AllDigits(p, 16) => AllDigits(t, 16)
    <3> SUFFICES ASSUME AllDigits(p, 16), NEW k \in 1..Len(t) PROVE t[k] \in Digits(16)
      BY DigitsEach
    <3>1. k + 1 \in 1..Len(p)
      BY <1>0, <2>2
    <3>2. p[k + 1] \in Digits(16)
      BY <2>2, <3>1, DigitsEach
    <3> QED BY <2>2, <3>2
  <2>5. AllDigits(t, 16) => AllDigits(p, 16)
    <3> SUFFICES ASSUME AllDigits(t, 16), NEW k \in 1..Len(p) PROVE p[k] \in Digits(16)
      BY <2>2, DigitsEach
    <3>1. CASE k = 1
      BY <2>2, <3>1, DigitSets
    <3>2. CASE k # 1
      <4>1. k - 1 \in 1..Len(t) /\ k - 1 + 1 = k
        BY <1>0, <2>2, <3>2
      <4>2. t[k - 1] \in Digits(16)
        BY <4>1, DigitsEach
      <4> QED BY <2>2, <4>1, <4>2
    <3> QED BY <3>1, <3>2
  <2>6. Number(p, 16) = Number(t, 16)
    BY <1>0, NumberZeroFirst DEF p
  <2> QED BY <2>1, <2>2, <2>3, <2>4, <2>5, <2>6
<1> QED BY <1>1, <1>2

\* Without an error, all characters were read.
LEMMA DecodedPairs ==
    ASSUME NEW C, NEW s \in Seq(C), DecodeString(s).ok
    PROVE  PairsRead(s) \in Nat /\ Len(s) = 2 * PairsRead(s)
<1>1. 2 * PairsRead(s) = Len(s)
  BY DEF DecodeString
<1>2. PairsRead(s) \in 0..(Len(s) \div 2)
  BY PairsReadIs
<1> QED BY <1>1, <1>2

\* What is decoded without an error stands for the number of the digits.
LEMMA DecodedNumber ==
    ASSUME NEW C, NEW s \in Seq(C), DecodeString(s).ok
    PROVE  SetBytes(DecodeString(s).val) = Number(s, 16)
<1> DEFINE m == PairsRead(s)
<1>1. m \in Nat /\ Len(s) = 2 * m
  BY DecodedPairs
<1>2. DecodeString(s).val = [k \in 1..m |-> Number(Pair(s, k), 16)]
  BY DEF DecodeString
<1> HIDE DEF m
<1> QED BY <1>1, <1>2, BytesNumber

\* No digits are no bytes, without an error, and stand for 0.
LEMMA NothingDecoded ==
    DecodeString(<<>>) = [val |-> <<>>, ok |-> TRUE] /\ SetBytes(<<>>) = 0
<1>1. <<>> \in Seq({}) /\ Len(<<>>) = 0 /\ 0 \div 2 = 0
  OBVIOUS
<1>2. PairsRead(<<>>) = 0
  <2>1. PairsRead(<<>>) \in 0..(Len(<<>>) \div 2)
    BY <1>1, PairsReadIs
  <2> QED BY <1>1, <2>1
<1>3. DecodeString(<<>>) = [val |-> <<>>, ok |-> TRUE]
  <2>1. [k \in 1..0 |-> Number(Pair(<<>>, k), 16)] = <<>>
    OBVIOUS
  <2>2. (2 * 0 = Len(<<>>)) = TRUE
    BY <1>1
  <2> QED BY <1>2, <2>1, <2>2 DEF DecodeString
<1>4. SetBytes(<<>>) = 0
  <2>1. DecodeString(<<>>).ok /\ DecodeString(<<>>).val = <<>>
    BY <1>3
  <2> QED BY <1>1, <2>1, DecodedNumber, EmptyNumber
<1> QED BY <1>3, <1>4

\* Every string.
LEMMA ValidOfString ==
    ASSUME NEW C, str \in Seq(C)
    PROVE  ValidDecodes
<1> DEFINE t == TrimPrefix0x(str)
           p == PadOdd(t)
<1>1. t \in Seq(C)
  BY TrimmedIs
<1>2. /\ DecodeHex(str) = DecodeString(p) /\ DecodeBig(str) = SetString(t, 16).val
      /\ IsValid(str) <=> AllDigits(t, 16)
  BY DEF DecodeHex, DecodeBig, IsValid
<1> HIDE DEF t
<1>3. /\ p \in Seq(C \cup {"0"}) /\ Len(p) % 2 = 0
      /\ AllDigits(p, 16) <=> AllDigits(t, 16)
      /\ Number(p, 16) = Number(t, 16)
  BY <1>1, PadOddIs
<1> HIDE DEF p
<1>4. DecodeString(p).ok <=> AllDigits(t, 16)
  BY <1>3, DecodeStringOk
<1>5. ASSUME AllDigits(t, 16), t # <<>> PROVE SetBytes(DecodeString(p).val) = SetString(t, 16).val
  <2>1. SetBytes(DecodeString(p).val) = Number(p, 16)
    BY <1>3, <1>4, <1>5, DecodedNumber
  <2>2. 16 \in {10, 16}
    OBVIOUS
  <2>3. SetString(t, 16).val = Number(t, 16)
    BY <1>1, <1>5, <2>2, ReadDigits
  <2> QED BY <1>3, <2>1, <2>3
<1>6. ASSUME t = <<>> PROVE DecodeString(p) = [val |-> <<>>, ok |-> TRUE]
  <2>1. p = <<>>
    BY <1>6 DEF p, PadOdd
  <2> QED BY <2>1, NothingDecoded
<1> QED BY <1>2, <1>4, <1>5, <1>6 DEF ValidDecodes, t

\* Bytes are decoded from what was encoded for them.
LEMMA EncodedBytes ==
    ASSUME NEW b \in Seq(0..255)
    PROVE  /\ EncodeToString(b) \in Seq(Digits(16)) /\ Len(EncodeToString(b)) = 2 * Len(b)
           /\ DecodeString(EncodeToString(b)) = [val |-> b, ok |-> TRUE]
<1> DEFINE N == Len(b)
           e == EncodeToString(b)
<1>1. N \in Nat /\ b \in [1..N -> 0..255]
  BY LenProperties
<1>2. ASSUME NEW x \in 0..255
      PROVE  /\ x \div 16 \in 0..15 /\ x % 16 \in 0..15 /\ 16 * (x \div 16) + (x % 16) = x
  OBVIOUS
<1>3. ASSUME NEW k \in 1..N
      PROVE  /\ 2 * k - 1 \in 1..(2 * N) /\ 2 * k \in 1..(2 * N)
             /\ e[2 * k - 1] = lower[(b[k] \div 16) + 1] /\ e[2 * k] = lower[(b[k] % 16) + 1]
  <2>1. /\ 2 * k - 1 \in 1..(2 * N) /\ 2 * k \in 1..(2 * N)
        /\ (2 * k - 1) % 2 = 1 /\ (2 * k - 1 + 1) \div 2 = k
        /\ (2 * k) % 2 = 0 /\ (2 * k) \div 2 = k
    BY <1>1
  <2>2. e[2 * k - 1] = lower[(b[(2 * k - 1 + 1) \div 2] \div 16) + 1]
    BY <2>1 DEF EncodeToString
  <2>3. e[2 * k] = lower[(b[(2 * k) \div 2] % 16) + 1]
    BY <2>1 DEF EncodeToString
  <2> QED BY <2>1, <2>2, <2>3
<1>4. ASSUME NEW j \in 1..(2 * N) PROVE e[j] \in Digits(16)
  <2> DEFINE k == (j + 1) \div 2
  <2>1. k \in 1..N /\ (j = 2 * k - 1 \/ j = 2 * k)
    BY <1>1
  <2> HIDE DEF k, e
  <2>2. b[k] \in 0..255
    BY <1>1, <2>1
  <2>3. lower[(b[k] \div 16) + 1] \in Digits(16) /\ lower[(b[k] % 16) + 1] \in Digits(16)
    BY <1>2, <2>2, LowerDigit
  <2> QED BY <1>3, <2>1, <2>3
<1>5. e \in Seq(Digits(16)) /\ Len(e) = 2 * N
  <2>1. e \in [1..(2 * N) -> Digits(16)]
    BY <1>4 DEF EncodeToString
  <2>2. 2 * N \in Nat
    BY <1>1
  <2> HIDE DEF e
  <2> QED BY <2>1, <2>2
<1> HIDE DEF e
<1>6. PairsRead(e) = N
  <2>1. AllDigits(e, 16)
    BY <1>4, <1>5, DigitsEach
  <2>2. (2 * N) \div 2 = N
    <3> HIDE DEF N
    <3> QED BY <1>1
  <2> QED BY <1>5, <2>1, <2>2, AllPairsRead
<1>7. ASSUME NEW k \in 1..N PROVE Number(Pair(e, k), 16) = b[k]
  <2>1. b[k] \in 0..255
    BY <1>1
  <2>2. /\ DecodeNibble(lower[(b[k] \div 16) + 1]) = b[k] \div 16
        /\ DecodeNibble(lower[(b[k] % 16) + 1]) = b[k] % 16
    BY <1>2, <2>1, LowerDigit
  <2>3. 2 * k - 1 \in 1..Len(e) /\ 2 * k \in 1..Len(e)
    BY <1>3, <1>5
  <2>4. Number(Pair(e, k), 16) = 16 * DecodeNibble(e[2 * k - 1]) + DecodeNibble(e[2 * k])
    BY <1>5, <2>3, PairIs
  <2> QED BY <1>2, <1>3, <2>1, <2>2, <2>4
<1>8. [k \in 1..N |-> Number(Pair(e, k), 16)] = b
  BY <1>1, <1>7
<1>9. DecodeString(e) = [val |-> b, ok |-> TRUE]
  <2>1. (2 * N = Len(e)) = TRUE
    BY <1>5
  <2> QED BY <1>6, <1>8, <2>1 DEF DecodeString
<1> QED BY <1>5, <1>9 DEF e

\* What is decoded are bytes.
LEMMA DecodedBytes ==
    ASSUME NEW C, NEW s \in Seq(C), DecodeString(s).ok
    PROVE  /\ DecodeString(s).val \in Seq(0..255)
           /\ DecodeString(s) = [val |-> DecodeString(s).val, ok |-> TRUE]
<1> DEFINE m == PairsRead(s)
           v == [k \in 1..m |-> Number(Pair(s, k), 16)]
<1>1. m \in Nat /\ Len(s) = 2 * m
  BY DecodedPairs
<1>2. AllDigits(s, 16)
  BY DecodeStringOk
<1>3. DecodeString(s) = [val |-> v, ok |-> 2 * m = Len(s)]
  BY DEF DecodeString
<1> HIDE DEF m
<1>4. ASSUME NEW k \in 1..m PROVE Number(Pair(s, k), 16) \in 0..255
  <2>1. 2 * k - 1 \in 1..Len(s) /\ 2 * k \in 1..Len(s)
    BY <1>1
  <2>2. s[2 * k - 1] \in Digits(16) /\ s[2 * k] \in Digits(16)
    BY <1>2, <2>1, DigitsEach
  <2>3. DecodeNibble(s[2 * k - 1]) \in 0..15 /\ DecodeNibble(s[2 * k]) \in 0..15
    BY <2>2, DigitNibble
  <2>4. Number(Pair(s, k), 16) = 16 * DecodeNibble(s[2 * k - 1]) + DecodeNibble(s[2 * k])
    BY <2>1, PairIs
  <2>5. \A x, y \in 0..15 : 16 * x + y \in 0..255
    OBVIOUS
  <2> QED BY <2>3, <2>4, <2>5, Zenon
<1>5. v \in Seq(0..255)
  <2>1. v \in [1..m -> 0..255]
    BY <1>4
  <2> HIDE DEF v
  <2> QED BY <1>1, <2>1
<1>6. (2 * m = Len(s)) = TRUE
  BY <1>1
<1> HIDE DEF v
<1>7. DecodeString(s) = [val |-> v, ok |-> TRUE]
  BY <1>3, <1>6
<1>8. DecodeString(s).val = v
  BY <1>7
<1> QED BY <1>5, <1>7, <1>8

\* Every string, those that are not digits included.
LEMMA BytesOfString ==
    ASSUME NEW C, str \in Seq(C)
    PROVE  BytesRoundTrip
<1> DEFINE t == TrimPrefix0x(str)
           p == PadOdd(t)
<1>1. t \in Seq(C) /\ Len(t) \in Nat /\ Len(str) \in Nat
  BY TrimmedIs
<1>2. Len(t) = Len(str) \/ Len(t) = Len(str) - 2
  BY TrimmedIs
<1>3. DecodeHex(str) = DecodeString(p) /\ DecodeBytes(str) = DecodeString(t)
  BY DEF DecodeHex, DecodeBytes
<1> HIDE DEF t
<1>4. Len(t) % 2 = 0 <=> Len(str) % 2 = 0
  <2> DEFINE a == Len(t)
             b == Len(str)
  <2>1. a \in Nat /\ b \in Nat /\ (a = b \/ a = b - 2)
    BY <1>1, <1>2
  <2> HIDE DEF a, b
  <2>2. a % 2 = 0 <=> b % 2 = 0
    BY <2>1
  <2> QED BY <2>2 DEF a, b
<1>5. /\ p \in Seq(C \cup {"0"}) /\ Len(p) % 2 = 0
      /\ AllDigits(p, 16) <=> AllDigits(t, 16)
  BY <1>1, PadOddIs
<1> HIDE DEF p
<1>6. DecodeString(p).ok <=> AllDigits(t, 16)
  BY <1>5, DecodeStringOk
<1>7. DecodeString(t).ok <=> Len(t) % 2 = 0 /\ AllDigits(t, 16)
  BY <1>1, DecodeStringOk
<1>8. DecodeBytes(str).ok <=> DecodeHex(str).ok /\ Len(str) % 2 = 0
  BY <1>3, <1>4, <1>6, <1>7
<1>9. ASSUME DecodeBytes(str).ok
      PROVE  /\ DecodeHex(EncodeToHex(DecodeBytes(str).val)) = DecodeBytes(str)
             /\ DecodeBytes(EncodeBytes(DecodeBytes(str).val)) = DecodeBytes(str)
  <2> DEFINE b == DecodeString(t).val
             e == EncodeToString(b)
  <2>1. b \in Seq(0..255) /\ DecodeString(t) = [val |-> b, ok |-> TRUE]
    BY <1>1, <1>3, <1>9, DecodedBytes
  <2> HIDE DEF b
  <2>2. /\ e \in Seq(Digits(16)) /\ Len(e) = 2 * Len(b)
        /\ DecodeString(e) = [val |-> b, ok |-> TRUE]
    BY <2>1, EncodedBytes
  <2>3. EncodeToHex(b) = <<"0", "x">> \o e /\ EncodeBytes(b) = <<"0", "x">> \o e
    BY DEF EncodeToHex, EncodeBytes
  <2> HIDE DEF e
  <2>4. TrimPrefix0x(<<"0", "x">> \o e) = e
    BY <2>2, TrimAdded
  <2>5. PadOdd(e) = e
    <3> DEFINE n == Len(b)
    <3>1. n \in Nat /\ Len(e) = 2 * n
      BY <2>1, <2>2, LenProperties
    <3> HIDE DEF n
    <3>2. Len(e) % 2 = 0
      BY <3>1
    <3> QED BY <3>2 DEF PadOdd
  <2>6. DecodeHex(EncodeToHex(b)) = [val |-> b, ok |-> TRUE]
    BY <2>2, <2>3, <2>4, <2>5 DEF DecodeHex
  <2>7. DecodeBytes(EncodeBytes(b)) = [val |-> b, ok |-> TRUE]
    BY <2>2, <2>3, <2>4 DEF DecodeBytes
  <2>8. DecodeBytes(str) = [val |-> b, ok |-> TRUE] /\ DecodeBytes(str).val = b
    BY <1>3, <2>1
  <2> QED BY <2>6, <2>7, <2>8
<1> QED BY <1>8, <1>9 DEF BytesRoundTrip

----------------------------------------------------------------------------
(* What is not read back.                                                  *)

\* common.Hex2Bytes leaves out the last digit of an odd number of digits.
LEMMA LastDigitLost ==
    ASSUME NEW n \in 0..MaxNumber
    PROVE  SetBytes(DecodeString(Text[n]).val) =
              IF Len(Text[n]) % 2 = 0 THEN n ELSE n \div 16
<1> DEFINE t == Text[n]
           N == Len(t)
<1>1. /\ n \in Nat /\ t \in Seq(Digits(16)) /\ t # <<>> /\ AllDigits(t, 16)
      /\ Number(t, 16) = n /\ t = Written(Text, n)
  BY TextDigits, TextReads, TextIs
<1> HIDE DEF t
<1>2. N \in Nat
  BY <1>1
<1>3. CASE N % 2 = 0
  <2>1. DecodeString(t).ok
    BY <1>1, <1>3, DecodeStringOk
  <2>2. SetBytes(DecodeString(t).val) = n
    BY <1>1, <2>1, DecodedNumber
  <2> QED BY <1>3, <2>2 DEF t
<1>4. CASE N % 2 # 0
  <2> DEFINE m == N \div 2
  <2>1. m \in Nat /\ N = 2 * m + 1
    <3> HIDE DEF N
    <3> QED BY <1>2, <1>4
  <2>2. DecodeString(t).val = [k \in 1..m |-> Number(Pair(t, k), 16)]
    <3>1. PairsRead(t) = m
      BY <1>1, AllPairsRead
    <3> QED BY <3>1 DEF DecodeString
  <2> HIDE DEF m
  <2>3. \E u \in Seq(Digits(16)) : /\ Len(u) = 2 * m /\ Number(u, 16) = n \div 16
                                   /\ \A k \in 1..(2 * m) : u[k] = t[k]
    <3>1. CASE n < 16
      <4>1. t = <<lower[n + 1]>> /\ N = 1
        BY <1>1, <3>1 DEF Written
      <4>2. m = 0
        BY <2>1, <4>1
      <4>3. n \div 16 = 0
        BY <1>1, <3>1
      <4>4. <<>> \in Seq(Digits(16)) /\ Len(<<>>) = 0
        OBVIOUS
      <4>5. Number(<<>>, 16) = 0
        BY EmptyNumber
      <4>6. Len(<<>>) = 2 * m /\ \A k \in 1..(2 * m) : <<>>[k] = t[k]
        BY <4>2, <4>4
      <4>7. Number(<<>>, 16) = n \div 16
        BY <4>3, <4>5
      <4> QED BY <4>4, <4>6, <4>7, Zenon
    <3>2. CASE ~(n < 16)
      <4> DEFINE u == Text[n \div 16]
                 c == lower[(n % 16) + 1]
      <4>1. t = Append(u, c)
        BY <1>1, <3>2 DEF Written
      <4>2. n \div 16 \in 0..MaxNumber /\ n % 16 \in 0..15
        BY <1>1, <3>2, Division, CodecAssumption
      <4>3. u \in Seq(Digits(16)) /\ Number(u, 16) = n \div 16 /\ c \in Digits(16)
        BY <4>2, TextIs, TextReads, LowerDigit
      <4> HIDE DEF u, c
      <4>4. N = Len(u) + 1 /\ Len(u) \in Nat /\ \A k \in 1..Len(u) : u[k] = t[k]
        BY <4>1, <4>3
      <4>5. Len(u) = 2 * m
        <5> HIDE DEF N
        <5> QED BY <2>1, <4>4
      <4> QED BY <4>3, <4>4, <4>5
    <3> QED BY <3>1, <3>2
  <2>4. PICK u \in Seq(Digits(16)) : /\ Len(u) = 2 * m /\ Number(u, 16) = n \div 16
                                     /\ \A k \in 1..(2 * m) : u[k] = t[k]
    BY <2>3
  <2>5. ASSUME NEW k \in 1..m PROVE Pair(t, k) = Pair(u, k)
    <3>1. 2 * k - 1 \in 1..(2 * m) /\ 2 * k \in 1..(2 * m)
      BY <2>1
    <3> QED BY <2>4, <3>1 DEF Pair
  <2>6. DecodeString(t).val = [k \in 1..m |-> Number(Pair(u, k), 16)]
    BY <2>2, <2>5
  <2>7. SetBytes(DecodeString(t).val) = n \div 16
    BY <2>1, <2>4, <2>6, BytesNumber
  <2> QED BY <1>4, <2>7 DEF t
<1> QED BY <1>3, <1>4

\* common.Hex2Bytes reads nothing after a sign, and has no error.
LEMMA NothingAfterSign ==
    ASSUME NEW C, NEW t \in Seq(C)
    PROVE  SetBytes(DecodeString(<<"-">> \o t).val) = 0
<1> DEFINE s == <<"-">> \o t
           m == PairsRead(s)
<1>1. s \in Seq(C \cup {"-"}) /\ Len(s) \in Nat /\ Len(s) >= 1 /\ s[1] = "-"
  OBVIOUS
<1> HIDE DEF s
<1>2. m \in 0..(Len(s) \div 2) /\ GoodPairs(s, m)
  BY <1>1, PairsReadIs
<1> HIDE DEF m
<1>3. m = 0
  <2> SUFFICES ASSUME m >= 1 PROVE FALSE
    BY <1>1, <1>2
  <2>1. AllDigits(Pair(s, 1), 16)
    BY <1>1, <1>2 DEF GoodPairs
  <2>2. 2 * 1 - 1 \in 1..Len(s) /\ 2 * 1 \in 1..Len(s)
    BY <1>1, <1>2
  <2>3. s[2 * 1 - 1] \in Digits(16)
    BY <1>1, <2>1, <2>2, PairIs
  <2> QED BY <1>1, <2>3, DigitSets
<1>4. DecodeString(s).val = [k \in 1..0 |-> Number(Pair(s, k), 16)]
  BY <1>3 DEF DecodeString, m
<1>5. DecodeString(s).val = <<>>
  BY <1>4
<1> QED BY <1>5, NothingDecoded DEF s

\* DecodeBig stops at the prefix that comes after a sign.
LEMMA SignLost ==
    ASSUME NEW C, NEW t \in Seq(C)
    PROVE  DecodeBig(<<"-", "0", "x">> \o t) = 0
<1> DEFINE s == <<"-", "0", "x">> \o t
           r == <<"0", "x">> \o t
           D == C \cup {"-", "0", "x"}
<1>1. /\ s \in Seq(D) /\ s # <<>> /\ s[1] = "-" /\ Head(s) = "-" /\ Len(s) = Len(t) + 3
      /\ r \in Seq(D) /\ Len(r) = Len(t) + 2 /\ r[1] = "0" /\ r[2] = "x" /\ Len(t) \in Nat
  OBVIOUS
<1>2. Tail(s) = r
  <2>1. Tail(s) \in Seq(D) /\ Len(Tail(s)) = Len(r)
    BY <1>1
  <2>2. \A k \in 1..Len(r) : Tail(s)[k] = r[k]
    <3>1. \A k \in 1..Len(r) : Tail(s)[k] = s[k + 1]
      BY <1>1
    <3>2. \A k \in 1..Len(r) : s[k + 1] = r[k]
      OBVIOUS
    <3> QED BY <3>1, <3>2
  <2> HIDE DEF s, r
  <2> QED BY <1>1, <2>1, <2>2
<1> HIDE DEF s, r, D
<1>3. TrimPrefix0x(s) = s
  BY <1>1, TrimmedIs
<1>4. Signed(s)
  BY <1>1 DEF Signed
<1>5. DigitsRead(r, 16) = 1
  <2> DEFINE n == DigitsRead(r, 16)
  <2>1. /\ n \in 0..Len(r) /\ \A k \in 1..n : r[k] \in Digits(16)
        /\ n = Len(r) \/ r[n + 1] \notin Digits(16)
    BY <1>1, DigitsReadIs
  <2> HIDE DEF n
  <2>2. n \in Nat /\ Len(r) >= 2
    BY <1>1, <2>1
  <2>3. n # 0
    BY <1>1, <2>1, <2>2, DigitSets
  <2>4. ~(n >= 2)
    <3> SUFFICES ASSUME n >= 2 PROVE FALSE
      OBVIOUS
    <3>1. 2 \in 1..n
      BY <2>2
    <3> QED BY <1>1, <2>1, <3>1, DigitSets
  <2>5. n = 1
    BY <2>2, <2>3, <2>4
  <2> QED BY <2>5 DEF n
<1>6. Number(SubSeq(r, 1, 1), 16) = 0
  <2> DEFINE q == SubSeq(r, 1, 1)
             f == [k \in 0..1 |-> 0]
  <2>1. q \in Seq(D) /\ Len(q) = 1 /\ q[1] = "0"
    BY <1>1
  <2>2. DecodeNibble("0") = 0
    <3>1. 0 \in 0..15 /\ "0" \in {lower[0 + 1], upper[0 + 1]}
      BY Tables
    <3> QED BY <3>1, NibbleOfDigit
  <2>3. f[0] = 0 /\ f[1] = 0
    OBVIOUS
  <2> HIDE DEF q, f
  <2>4. PrefixNumbers(f, q, 16)
    BY <2>1, <2>2, <2>3 DEF PrefixNumbers
  <2>5. Number(q, 16) = 0
    BY <2>1, <2>3, <2>4, NumberIs
  <2> QED BY <2>5 DEF q
<1>7. SetString(s, 16).val = -Number(SubSeq(r, 1, 1), 16)
  BY <1>1, <1>2, <1>4, <1>5 DEF SetString
<1>8. SetString(s, 16).val = 0
  BY <1>6, <1>7
<1> QED BY <1>3, <1>8 DEF DecodeBig, s

\* Every number.
LEMMA LostOfNumber ==
    ASSUME num \in 0..MaxNumber
    PROVE  WhatIsLost
<1> DEFINE t == Text[num]
           e == <<"0", "x">> \o t
<1>0. num \in Nat /\ t \in Seq(Digits(16))
  BY TextDigits
<1>1. num \in Nat /\ t \in Seq(Digits(16)) /\ EncodeBigInt(num) = e
  BY <1>0 DEF EncodeBigInt
<1>2. HasPrefix0x(e) /\ TrimPrefix0x(e) = t
  BY <1>1, TrimAdded
<1>3. DecodeBigIntHexOrDecimal(e) =
          [val |-> IF Len(t) % 2 = 0 THEN num ELSE num \div 16, ok |-> TRUE]
  <2>1. DecodeBigIntHexOrDecimal(e) = [val |-> SetBytes(DecodeString(t).val), ok |-> TRUE]
    <3> HIDE DEF e, t
    <3> QED BY <1>2 DEF DecodeBigIntHexOrDecimal
  <2> QED BY <2>1, LastDigitLost
<1>4. DecodeBig(EncodeBig(-num)) = 0
  <2>1. CASE num = 0
    <3>1. EncodeBig(-num) = e
      BY <2>1, EncodeBigIs
    <3>2. DecodeBig(e) = num
      <4>1. SetString(t, 16) = [val |-> num, ok |-> TRUE]
        BY TextDigits
      <4> HIDE DEF e, t
      <4> QED BY <1>2, <4>1 DEF DecodeBig
    <3> QED BY <2>1, <3>1, <3>2
  <2>2. CASE num > 0
    <3>1. -num # 0 /\ ~(-num > 0) /\ -(-num) = num
      BY <1>1, <2>2
    <3>2. EncodeBig(-num) = <<"-", "0", "x">> \o t
      BY <3>1 DEF EncodeBig
    <3> HIDE DEF t
    <3> QED BY <1>1, <3>2, SignLost
  <2> QED BY <1>1, <2>1, <2>2
<1>5. ASSUME num > 0
      PROVE  DecodeBigIntHexOrDecimal(EncodeBigInt(-num)) = [val |-> 0, ok |-> TRUE]
  <2> DEFINE m == <<"-">> \o t
  <2>1. EncodeBigInt(-num) = <<"0", "x">> \o m
    BY <1>1, <1>5, EncodeNegative
  <2>2. m \in Seq(Digits(16) \cup {"-"})
    BY <1>1
  <2>3. SetBytes(DecodeString(m).val) = 0
    BY <1>1, NothingAfterSign
  <2> HIDE DEF m
  <2>4. HasPrefix0x(<<"0", "x">> \o m) /\ TrimPrefix0x(<<"0", "x">> \o m) = m
    BY <2>2, TrimAdded
  <2> QED BY <2>1, <2>3, <2>4 DEF DecodeBigIntHexOrDecimal
<1> QED BY <1>1, <1>3, <1>4, <1>5 DEF WhatIsLost

----------------------------------------------------------------------------
(* The theorems.                                                           *)

\* The inputs are strings of the characters, and numbers below the bound.
Inputs == str \in Seq(Char) /\ num \in 0..MaxNumber

\* Whatever is typed and counted stays such an input.
LEMMA InputsHold == Spec => []Inputs
<1>1. Init => Inputs
  BY CodecAssumption DEF Init, Inputs
<1>2. Inputs /\ [Next]_vars => Inputs'
  <2> SUFFICES ASSUME Inputs, [Next]_vars PROVE Inputs'
    OBVIOUS
  <2>1. CASE Count
    BY <2>1, CodecAssumption DEF Count, Inputs
  <2>2. ASSUME NEW c \in Char, TypeChar(c) PROVE Inputs'
    BY <2>2 DEF TypeChar, Inputs
  <2>3. CASE UNCHANGED vars
    BY <2>3 DEF vars, Inputs
  <2> QED BY <2>1, <2>2, <2>3 DEF Next
<1> QED BY <1>1, <1>2, PTL DEF Spec

\* For strings of any length over any characters: IsValid accepts exactly
\* what DecodeHex decodes, and the bytes are the number that DecodeBig reads,
\* though only DecodeHex pads an odd number of digits; without digits there are
\* no bytes and no error (hex.go:40-50, :104-121).
THEOREM ValidDecodesHolds == Spec => []ValidDecodes
<1>1. Inputs => ValidDecodes
  BY ValidOfString DEF Inputs
<1> QED BY <1>1, InputsHold, PTL

\* For any width of integers, every number that is written is read back by
\* every decoder that takes its form, or reduced modulo 2^64 where it does not
\* fit (hex.go:62-73, :92-110, encoding.go:24-56, :75-91).
THEOREM NumberRoundTripHolds == Spec => []NumberRoundTrip
<1>1. Inputs => NumberRoundTrip
  BY RoundTripOfNumber DEF Inputs
<1> QED BY <1>1, InputsHold, PTL

\* Bytes of any length survive being encoded and decoded, and DecodeBytes
\* rejects an odd number of digits (hex.go:24-50, encoding.go:64-85).
THEOREM BytesRoundTripHolds == Spec => []BytesRoundTrip
<1>1. Inputs => BytesRoundTrip
  BY BytesOfString DEF Inputs
<1> QED BY <1>1, InputsHold, PTL

\* A number that does not fit is an error whatever its length and base, and
\* the signed decoder is two's complement (encoding.go:24-62).
THEOREM OverflowIsErrorHolds == Spec => []OverflowIsError
<1>1. Inputs => OverflowIsError
  BY OverflowOfString DEF Inputs
<1> QED BY <1>1, InputsHold, PTL

\* For every number, and without an error: DecodeBigIntHexOrDecimal drops the
\* last of an odd number of digits and reads a negative number as 0
\* (encoding.go:87-100), and so does DecodeBig for what EncodeBig wrote
\* (hex.go:92-110).
THEOREM WhatIsLostHolds == Spec => []WhatIsLost
<1>1. Inputs => WhatIsLost
  BY LostOfNumber DEF Inputs
<1> QED BY <1>1, InputsHold, PTL
============================================================================

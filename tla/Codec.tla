------------------------------- MODULE Codec -------------------------------
(***************************************************************************)
(* The conversions of hex/hex.go and encoding/encoding.go between strings, *)
(* numbers and bytes.  A string is a sequence of characters; a fixed-width *)
(* integer has BitSize64 bits, a number smaller than 64 in the instances.  *)
(*                                                                         *)
(* What they take from the Go library (encoding/hex, strconv, math/big) is *)
(* defined first.                                                          *)
(***************************************************************************)
EXTENDS Integers, SequencesExt

CONSTANTS
    Char,            \* the characters strings are made of
    MaxLen,          \* bound: the length of the strings
    MaxNumber,       \* bound: the size of the numbers
    BitSize64        \* the width of uint64 and int64

ASSUME CodecAssumption ==
    BitSize64 \in Nat \ {0} /\ MaxLen \in Nat /\ MaxNumber \in Nat

VARIABLES
    str,             \* any string
    num              \* any number

vars == <<str, num>>

Range64 == 2 ^ BitSize64

\* What is used of the power of two; it follows from BitSize64 > 0.
ASSUME RangeAssumption == Range64 \in Nat /\ Range64 > 0 /\ Range64 % 2 = 0

----------------------------------------------------------------------------
(* The library.                                                            *)

HasPrefix0x(s) == IsPrefix(<<"0", "x">>, s)

TrimPrefix0x(s) == IF HasPrefix0x(s) THEN SubSeq(s, 3, Len(s)) ELSE s

lower == <<"0", "1", "2", "3", "4", "5", "6", "7", "8", "9", "a", "b", "c", "d", "e", "f">>
upper == <<"0", "1", "2", "3", "4", "5", "6", "7", "8", "9", "A", "B", "C", "D", "E", "F">>

BadNibble == Range64 - 1

DecodeNibble(c) ==
    LET D == {k \in 1..16 : c \in {lower[k], upper[k]}}
    IN IF D = {} THEN BadNibble ELSE CHOOSE k \in 0..15 : k + 1 \in D

\* The digits of base, which is 10 or 16.
Digits(base) == {lower[k] : k \in 1..base} \cup {upper[k] : k \in 1..base}

AllDigits(s, base) == ToSet(s) \subseteq Digits(base)

\* The number that has the digits d, the most significant first.
Value(d, base) ==
    LET value[k \in 0..Len(d)] == IF k = 0 THEN 0 ELSE base * value[k - 1] + d[k]
    IN value[Len(d)]

Number(s, base) == Value([k \in DOMAIN s |-> DecodeNibble(s[k])], base)

\* Text(16) of a natural number: no leading zeros.
Text[n \in 0..MaxNumber] ==
    IF n < 16 THEN <<lower[n + 1]>> ELSE Append(Text[n \div 16], lower[(n % 16) + 1])

\* hex.DecodeString of encoding/hex: the bytes up to the first bad pair of
\* digits.
Pair(s, k) == <<s[2 * k - 1], s[2 * k]>>

GoodPairs(s, m) == \A k \in 1..m : AllDigits(Pair(s, k), 16)

PairsRead(s) ==
    CHOOSE m \in 0..(Len(s) \div 2) :
        GoodPairs(s, m) /\ (m = Len(s) \div 2 \/ ~GoodPairs(s, m + 1))

DecodeString(s) ==
    [val |-> [k \in 1..PairsRead(s) |-> Number(Pair(s, k), 16)],
     ok |-> 2 * PairsRead(s) = Len(s)]

EncodeToString(b) ==
    [k \in 1..(2 * Len(b)) |->
        IF k % 2 = 1 THEN lower[(b[(k + 1) \div 2] \div 16) + 1]
                     ELSE lower[(b[k \div 2] % 16) + 1]]

\* big.Int.SetString: an optional sign and digits.  If the string is not a
\* number, the value is that of the digits that were read before the error.
DigitsRead(t, base) ==
    CHOOSE k \in 0..Len(t) :
        /\ AllDigits(SubSeq(t, 1, k), base)
        /\ k = Len(t) \/ t[k + 1] \notin Digits(base)

Signed(s) == s # <<>> /\ Head(s) \in {"+", "-"}

SetString(s, base) ==
    LET t == IF Signed(s) THEN Tail(s) ELSE s
        n == Number(SubSeq(t, 1, DigitsRead(t, base)), base)
    IN [val |-> IF Signed(s) /\ Head(s) = "-" THEN -n ELSE n,
        ok |-> t # <<>> /\ DigitsRead(t, base) = Len(t)]

\* strconv.ParseUint: digits only.  The value is the largest one if they were
\* too many before a bad character, and 0 for any other error.
ParseUint(s, base) ==
    LET digits == s # <<>> /\ AllDigits(s, base)
        n == Number(SubSeq(s, 1, DigitsRead(s, base)), base)
    IN [val |-> IF n >= Range64 THEN Range64 - 1 ELSE IF digits THEN n ELSE 0,
        ok |-> digits /\ n < Range64]

\* big.Int.SetBytes
SetBytes(b) == Value(b, 256)

----------------------------------------------------------------------------
(* hex/hex.go                                                              *)

EncodeToHex(b) == <<"0", "x">> \o EncodeToString(b)

\* Mistaken variant: the missing digit is put at the end.
PadOddEnd(s) == IF Len(s) % 2 # 0 THEN Append(s, "0") ELSE s

PadOdd(s) == IF Len(s) % 2 # 0 THEN <<"0">> \o s ELSE s

DecodeHex(s) == DecodeString(PadOdd(TrimPrefix0x(s)))

DecodeBig(s) == SetString(TrimPrefix0x(s), 16).val

\* big.Int.Uint64 keeps the low bits of the absolute value.
DecodeUint64(s) == LET n == DecodeBig(s) IN (IF n < 0 THEN -n ELSE n) % Range64

EncodeHexUint64(n) == <<"0", "x">> \o Text[n]

EncodeBig(n) ==
    IF n = 0 THEN <<"0", "x", "0">>
    ELSE IF n > 0 THEN <<"0", "x">> \o Text[n]
    ELSE <<"-", "0", "x">> \o Text[-n]

IsValid(s) == AllDigits(TrimPrefix0x(s), 16)

----------------------------------------------------------------------------
(* encoding/encoding.go; strings are given, a nil pointer is left out.     *)

Base(s) == IF HasPrefix0x(s) THEN 16 ELSE 10

DecodeUint64orHex(s) == ParseUint(TrimPrefix0x(s), Base(s))

DecodeUint256orHex(s) == SetString(TrimPrefix0x(s), Base(s))

\* Mistaken variant: the value is cut off at the largest int64.
int64Saturates(n) == IF n < Range64 \div 2 THEN n ELSE Range64 \div 2 - 1

\* The conversion of Go: two's complement.
int64(n) == IF n < Range64 \div 2 THEN n ELSE n - Range64

DecodeInt64orHex(s) ==
    LET u == DecodeUint64orHex(s) IN [val |-> int64(u.val), ok |-> u.ok]

\* Mistaken variant: as DecodeHex.
DecodeBytesPads(s) == DecodeHex(s)

DecodeBytes(s) == DecodeString(TrimPrefix0x(s))

\* Mistaken variant: no prefix.
EncodeUint64Bare(n) == Text[n]

EncodeUint64(n) == <<"0", "x">> \o Text[n]

EncodeBytes(b) == <<"0", "x">> \o EncodeToString(b)

EncodeBigInt(n) ==
    IF n >= 0 THEN <<"0", "x">> \o Text[n] ELSE <<"0", "x", "-">> \o Text[-n]

\* Mistaken variant: no hexadecimal form.
DecodeBigIntDecimal(s) == SetString(s, 10)

\* common.Hex2Bytes ignores the error of DecodeString.
DecodeBigIntHexOrDecimal(s) ==
    IF HasPrefix0x(s)
    THEN [val |-> SetBytes(DecodeString(TrimPrefix0x(s)).val), ok |-> TRUE]
    ELSE SetString(s, 10)

----------------------------------------------------------------------------
(* The inputs: every string, then every number.                            *)

Init == str = <<>> /\ num = 0

TypeChar(c) ==
    /\ num = 0 /\ Len(str) < MaxLen
    /\ str' = Append(str, c)
    /\ UNCHANGED num

Count ==
    /\ str = <<>> /\ num < MaxNumber
    /\ num' = num + 1
    /\ UNCHANGED str

Next == Count \/ \E c \in Char : TypeChar(c)

Spec == Init /\ [][Next]_vars

----------------------------------------------------------------------------
\* A string passes IsValid exactly if DecodeHex has no error for it, and then
\* the bytes are the number that DecodeBig reads, also for an odd number of
\* digits (hex.go:40-50, :104-121).  Without digits there are no bytes and no
\* error: the ErrLength that the test lists for "" and "0x" (hex_test.go:36-37)
\* is not returned, and is not compared with what is (:45).
ValidDecodes ==
    /\ IsValid(str) <=> DecodeHex(str).ok
    /\ IsValid(str) /\ TrimPrefix0x(str) # <<>> =>
          SetBytes(DecodeHex(str).val) = DecodeBig(str)
    /\ TrimPrefix0x(str) = <<>> => DecodeHex(str) = [val |-> <<>>, ok |-> TRUE]

\* What is encoded is decoded to the same number by every decoder that takes
\* the form, and DecodeUint64 keeps the low 64 bits of a longer number.
NumberRoundTrip ==
    /\ num < Range64 =>
          /\ DecodeUint64(EncodeHexUint64(num)) = num
          /\ DecodeUint64orHex(EncodeUint64(num)) = [val |-> num, ok |-> TRUE]
    /\ DecodeBig(EncodeBig(num)) = num /\ DecodeUint64(EncodeBig(num)) = num % Range64
    /\ \A n \in {num, -num} : DecodeUint256orHex(EncodeBigInt(n)) = [val |-> n, ok |-> TRUE]

\* Bytes survive being encoded and decoded, and DecodeBytes, unlike DecodeHex,
\* rejects what EncodeBytes cannot have written: an odd number of digits
\* (encoding.go:65-85).
BytesRoundTrip ==
    /\ DecodeBytes(str).ok <=> DecodeHex(str).ok /\ Len(str) % 2 = 0
    /\ DecodeBytes(str).ok =>
          /\ DecodeHex(EncodeToHex(DecodeBytes(str).val)) = DecodeBytes(str)
          /\ DecodeBytes(EncodeBytes(DecodeBytes(str).val)) = DecodeBytes(str)

\* A number that does not fit is an error and is never reduced to one that
\* does; the signed decoder takes the upper half for negative numbers, equal
\* to the number modulo 2^64 (encoding.go:25-37, :59-62).
OverflowIsError ==
    LET u == DecodeUint64orHex(str)
        big == DecodeUint256orHex(str)
        i == DecodeInt64orHex(str)
    IN /\ u.ok => big.ok /\ u.val = big.val
       /\ big.ok /\ ~u.ok => big.val >= Range64 \/ "-" \in ToSet(str) \/ "+" \in ToSet(str)
       /\ i.ok => i.val % Range64 = u.val /\ i.val \in -(Range64 \div 2)..(Range64 \div 2 - 1)

\* What is written and silently read back as another number: by
\* DecodeBigIntHexOrDecimal without the last digit if their number is odd, and
\* as 0 if the number is negative, since Hex2Bytes has no error for the sign
\* (encoding.go:87-100); by DecodeBig as 0 if the number is negative, since
\* EncodeBig puts the sign before the prefix, though its comment says that "the
\* sign of the integer is ignored" (hex.go:93, :100).
WhatIsLost ==
    /\ DecodeBigIntHexOrDecimal(EncodeBigInt(num)) =
          [val |-> IF Len(Text[num]) % 2 = 0 THEN num ELSE num \div 16, ok |-> TRUE]
    /\ num > 0 => DecodeBigIntHexOrDecimal(EncodeBigInt(-num)) = [val |-> 0, ok |-> TRUE]
    /\ DecodeBig(EncodeBig(-num)) = 0
============================================================================

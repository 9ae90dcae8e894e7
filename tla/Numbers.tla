------------------------------ MODULE Numbers ------------------------------
(***************************************************************************)
(* How numbers become bytes and text, and come back.                       *)
(*                                                                         *)
(* Heights, I-Scores and sizes are kept as byte strings in database keys,  *)
(* records and messages, and as hexadecimal text in JSON.  Unsigned words  *)
(* are big-endian without leading zeros, signed ones and big integers the  *)
(* shortest two's complement, and 0 is the empty string.  A word has Width *)
(* bytes here, instead of 8.                                               *)
(***************************************************************************)
EXTENDS Integers, SequencesExt

CONSTANT Width      \* bytes of a word
ASSUME WidthAssumption == Width \in Nat \ {0}

Radix == 256
Top == Radix \div 2     \* 0x80
\* 2 to the n, and the values n bytes tell apart
TwoPower[n \in 0 .. 8 * Width] == IF n = 0 THEN 1 ELSE 2 * TwoPower[n - 1]
RadixPower(n) == TwoPower[8 * n]

\* what n bytes can hold, without and with a sign
UintRange(n) == 0 .. RadixPower(n) - 1
MinInt(n) == -(RadixPower(n) \div 2)
IntRange(n) == MinInt(n) .. -MinInt(n) - 1

\* the last n bytes of a number, two's complement for a negative one
Bytes(v, n) == [i \in 1 .. n |-> (v \div RadixPower(n - i)) % Radix]
Bits(v) == Min({n \in 0 .. 8 * Width : (IF v < 0 THEN -v ELSE v) < TwoPower[n]})

\* v << 8 | b, in a word
Shift(v, b) == (v % RadixPower(Width - 1)) * Radix + b

-----------------------------------------------------------------------------
(* Bytes. *)

Uint64ToBytes(v) == IF v = 0 THEN <<>> ELSE Bytes(v, Min({n \in 1 .. Width : v \in UintRange(n)}))
BytesToUint64(bs) == FoldLeft(Shift, 0, bs)

\* the loop ends at the first byte that leaves nothing but the sign
Int64ToBytes(v) == IF v = 0 THEN <<>> ELSE Bytes(v, Min({n \in 1 .. Width : v \in IntRange(n)}))
BytesToInt64(bs) ==
    IF bs # <<>> /\ Head(bs) >= Top
    THEN -FoldLeft(LAMBDA v, b : Shift(v, Radix - 1 - b), 0, bs) - 1
    ELSE FoldLeft(Shift, 0, bs)

\* Mutant: no byte is added for the sign
BigIntToBytesUnsigned(i) ==
    IF i >= 0 THEN Uint64ToBytes(i)
    ELSE LET n == (Bits(i + 1) + 8) \div 8 IN Uint64ToBytes(TwoPower[8 * n] + i)

BigIntToBytes(i) ==
    IF i >= 0
    THEN (IF i # 0 /\ Bits(i) % 8 = 0 THEN <<0>> ELSE <<>>) \o Uint64ToBytes(i)
    ELSE LET n == (Bits(i + 1) + 8) \div 8 IN Uint64ToBytes(TwoPower[8 * n] + i)
BigIntSetBytes(bs) ==
    LET i == BytesToUint64(bs)
    IN  IF bs # <<>> /\ Head(bs) >= Top THEN i - TwoPower[Bits(i)] ELSE i

\* Mutant: the key is as long as the number needs
UnpaddedID(h) == Uint64ToBytes(h)

\* ID of the entries that are found by block height or index: a word
ID(h) == LET bs == Uint64ToBytes(h) IN [i \in 1 .. Width - Len(bs) |-> 0] \o bs

\* the order of keys in a database
Before(k, l) ==
    \/ k # l /\ IsPrefix(k, l)
    \/ \E i \in DOMAIN k \cap DOMAIN l : k[i] < l[i] /\ SubSeq(k, 1, i - 1) = SubSeq(l, 1, i - 1)

-----------------------------------------------------------------------------
(* Text: a sign, "0x" and hexadecimal digits. *)

\* a byte has two digits; one leading 0 is left out
encodeHexNumber(neg, bs) ==
    LET digits == [i \in 1 .. 2 * Len(bs) |->
                      IF i % 2 = 1 THEN bs[(i + 1) \div 2] \div 16 ELSE bs[i \div 2] % 16]
    IN  IF bs = <<>> THEN [neg |-> FALSE, digits |-> <<0>>]
        ELSE [neg |-> neg, digits |-> IF Head(digits) = 0 THEN Tail(digits) ELSE digits]

decodeHexNumber(text) ==
    LET s == IF Len(text.digits) % 2 = 1 THEN <<0>> \o text.digits ELSE text.digits
    IN  [i \in 1 .. Len(s) \div 2 |-> 16 * s[2 * i - 1] + s[2 * i]]

Abs(v) == IF v < 0 THEN -v ELSE v
FormatInt(v) == encodeHexNumber(v < 0, Uint64ToBytes(Abs(v)))
FormatUint(v) == encodeHexNumber(FALSE, Uint64ToBytes(v))

\* strconv, which is tried first
strconvParse(text, range) ==
    LET v == FoldLeft(LAMBDA u, d : 16 * u + d, 0, text.digits)
    IN  {IF text.neg THEN -v ELSE v} \cap range

\* {the number}, or {} for OutOfRange, for a type of n bytes
ParseInt(text, n) ==
    LET bs == decodeHexNumber(text)
        u == BytesToUint64(bs)
        edge == -MinInt(n)
        first == strconvParse(text, IntRange(n))
    IN  IF first # {} THEN first
        ELSE IF Len(bs) > n THEN {}
        ELSE IF text.neg THEN (IF u > edge THEN {} ELSE {-u})
        ELSE IF u >= edge THEN {} ELSE {u}
ParseUint(text, n) ==
    LET bs == decodeHexNumber(text)
        first == IF text.neg THEN {} ELSE strconvParse(text, UintRange(n))
    IN  IF first # {} THEN first
        ELSE IF text.neg \/ Len(bs) > n THEN {} ELSE {BytesToUint64(bs)}

\* HexInt: a big integer
HexIntString(i) == encodeHexNumber(i < 0, Uint64ToBytes(Abs(i)))
HexIntUnmarshalJSON(text) ==
    LET u == BytesToUint64(decodeHexNumber(text)) IN IF text.neg THEN -u ELSE u
=============================================================================

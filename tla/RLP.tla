-------------------------------- MODULE RLP --------------------------------
(***************************************************************************)
(* The RLP codec: byte strings, numbers and containers in one byte stream. *)
(*                                                                         *)
(* An encoder writes to a buffer; EncodeContainer gives an encoder for a   *)
(* nested container, which is written to its parent, behind its length,    *)
(* when the parent is used again or at the end (flush).  A decoder reads a *)
(* header and what it announces; the decoder of a container is limited to  *)
(* its bytes.  Slices, pointers, structs and maps are containers.  Here a  *)
(* client encodes some items at the nesting levels it likes, and another   *)
(* one decodes the same items.                                             *)
(***************************************************************************)
EXTENDS Numbers

CONSTANTS
    Strings,        \* byte strings that are encoded
    Ints,           \* signed numbers
    MaxItems        \* bound: items of a stream

ASSUME RLPAssumption ==
    /\ MaxItems \in Nat /\ Ints \subseteq IntRange(Width)
    /\ \A s \in Strings : \A i \in DOMAIN s : s[i] \in 0 .. Radix - 1

VARIABLES
    log,            \* the items that were encoded: level, kind and value
    enc,            \* the encoders' buffers, the outermost first
    wire,           \* the stream
    phase,          \* "encode", "decode", "done", or "failed" (an error or a panic)
    pos,            \* bytes of the stream that were read
    ends,           \* where the decoders end, the outermost first
    got             \* the items that were decoded

vars == <<log, enc, wire, phase, pos, ends, got>>

Item(level, kind, value) == [level |-> level, kind |-> kind, value |-> value]

\* lengths up to 55 are told by the header
Short == 55
Container == Top + 64       \* 0xC0

-----------------------------------------------------------------------------
(* Numbers in RLP: a word is never empty, and a negative one is its        *)
(* magnitude behind a sign bit.                                            *)

uint64ToBytes(v) == IF v = 0 THEN <<0>> ELSE Uint64ToBytes(v)

\* Mutant: no room is made for the sign bit
int64ToBytesTight(v) ==
    IF v >= 0 THEN uint64ToBytes(v)
    ELSE LET bs == uint64ToBytes(-v)
         IN  <<IF Head(bs) < Top THEN Head(bs) + Top ELSE Head(bs)>> \o Tail(bs)

int64ToBytes(v) ==
    IF v >= 0 THEN uint64ToBytes(v)
    ELSE LET bs == uint64ToBytes(-v)
         IN  IF Head(bs) < Top THEN <<Head(bs) + Top>> \o Tail(bs)
             ELSE IF Len(bs) = Width THEN bs ELSE <<Top>> \o bs
bytesToInt64(bs) ==
    IF bs # <<>> /\ Head(bs) >= Top
    THEN -BytesToUint64(<<Head(bs) - Top>> \o Tail(bs)) ELSE BytesToUint64(bs)

-----------------------------------------------------------------------------
(* The encoder. *)

\* the length of a container that is longer than a header tells
sizeToBytes(n) == uint64ToBytes(n)

\* the header of a string or container of n bytes
Header(base, n) ==
    IF n <= Short THEN <<base + n>>
    ELSE <<base + Short + Len(sizeToBytes(n))>> \o sizeToBytes(n)

encodeBytes(b) ==
    IF Len(b) = 1 /\ Head(b) < Top THEN b ELSE Header(Top, Len(b)) \o b
writeContainer(b) == Header(Container, Len(b)) \o b

\* flush: what encoder n has written once the containers inside it are
flush[n \in Nat] ==
    enc[n] \o IF n < Len(enc) THEN writeContainer(flush[n + 1]) ELSE <<>>

encodeValue(kind, v) ==
    CASE kind = "bytes" -> encodeBytes(v)
      [] kind = "uint" -> encodeBytes(uint64ToBytes(v))
      [] kind = "int" -> encodeBytes(int64ToBytes(v))

Init ==
    /\ log = <<>> /\ enc = <<<<>>>> /\ wire = <<>>
    /\ phase = "encode"
    /\ pos = 0 /\ ends = <<>> /\ got = <<>>

Encode(level, kind, v) ==
    /\ phase = "encode" /\ Len(log) < MaxItems
    /\ enc' = Append(SubSeq(enc, 1, level - 1), flush[level] \o encodeValue(kind, v))
    /\ log' = Append(log, Item(level, kind, v))
    /\ UNCHANGED <<wire, phase, pos, ends, got>>

EncodeContainer(level) ==
    /\ phase = "encode" /\ Len(log) < MaxItems
    /\ enc' = SubSeq(enc, 1, level - 1) \o <<flush[level], <<>>>>
    /\ log' = Append(log, Item(level, "container", 0))
    /\ UNCHANGED <<wire, phase, pos, ends, got>>

\* the end of Marshal, and the start of Unmarshal
Marshal ==
    /\ phase = "encode" /\ log # <<>>
    /\ wire' = flush[1]
    /\ ends' = <<Len(flush[1])>>
    /\ phase' = "decode"
    /\ UNCHANGED <<log, enc, pos, got>>

-----------------------------------------------------------------------------
(* The decoder. *)

Failed == [ok |-> FALSE, from |-> 0, to |-> 0]

\* the decoder's "055": an octal number
OctalShort == 45

\* where the content of the string or container at pos is; sizes that are not
\* there, and negative ones, fail
Content(base, n) ==
    LET h == wire[pos + 1] - base
        size == IF h < OctalShort THEN 0 ELSE h - Short
        from == pos + 1 + size
        length == IF h < OctalShort THEN h ELSE BytesToUint64(SubSeq(wire, pos + 2, from))
    IN  IF size < 0 \/ from > n THEN Failed
        ELSE [ok |-> TRUE, from |-> from, to |-> from + length]

\* decodeBytes and decodeContainer of the decoder that ends at n; a string must be
\* there, a container may end early
decodeBytes(n) ==
    IF pos >= n \/ wire[pos + 1] >= Container THEN Failed
    ELSE IF wire[pos + 1] < Top THEN [ok |-> TRUE, from |-> pos, to |-> pos + 1]
    ELSE LET c == Content(Top, n) IN IF c.to <= n THEN c ELSE Failed
decodeContainer(n) ==
    IF pos >= n \/ wire[pos + 1] < Container THEN Failed
    ELSE LET c == Content(Container, n) IN [c EXCEPT !.to = Min({@, n})]

Read(c) == SubSeq(wire, c.from + 1, c.to)
decodeValue(kind, bs) ==
    CASE kind = "bytes" -> bs
      [] kind = "uint" -> BytesToUint64(bs)
      [] kind = "int" -> bytesToInt64(bs)

\* the decoders of the containers inside this one have read everything: the
\* client has met their end, and flush of the decoder skips nothing
Finished(level) == \A n \in level + 1 .. Len(ends) : ends[n] = pos

Fail ==
    /\ phase' = "failed"
    /\ UNCHANGED <<log, enc, wire, pos, ends, got>>

Decode(item) ==
    LET c == decodeBytes(ends[item.level])
    IN  IF c.ok /\ Finished(item.level)
        THEN /\ got' = Append(got, [item EXCEPT !.value = decodeValue(item.kind, Read(c))])
             /\ pos' = c.to
             /\ ends' = SubSeq(ends, 1, item.level)
             /\ UNCHANGED <<log, enc, wire, phase>>
        ELSE Fail

DecodeContainer(item) ==
    LET c == decodeContainer(ends[item.level])
    IN  IF c.ok /\ Finished(item.level)
        THEN /\ got' = Append(got, item)
             /\ pos' = c.from
             /\ ends' = Append(SubSeq(ends, 1, item.level), c.to)
             /\ UNCHANGED <<log, enc, wire, phase>>
        ELSE Fail

DecodeNext ==
    /\ phase = "decode" /\ Len(got) < Len(log)
    /\ LET item == log[Len(got) + 1]
       IN  IF item.kind = "container" THEN DecodeContainer(item) ELSE Decode(item)

Unmarshal ==
    /\ phase = "decode" /\ Len(got) = Len(log)
    /\ phase' = "done"
    /\ UNCHANGED <<log, enc, wire, pos, ends, got>>

Next ==
    \/ \E level \in DOMAIN enc :
          \/ EncodeContainer(level)
          \/ \E s \in Strings : Encode(level, "bytes", s)
          \/ \E v \in Ints : Encode(level, "int", v) \/ (v >= 0 /\ Encode(level, "uint", v))
    \/ Marshal \/ DecodeNext \/ Unmarshal

Spec == Init /\ [][Next]_vars

-----------------------------------------------------------------------------
(* Properties. *)

\* "Decoded value isn't same" (rlp_test.go:90): what is decoded is what was encoded,
\* and the whole of it (rlpEncoder, rlpDecoder).
DecodedIsSame ==
    /\ phase # "failed"
    /\ \A i \in DOMAIN got : got[i] = log[i]
    /\ phase = "done" => Finished(0)

\* the bytes of item i in the stream, and of the items of a container
Children(i) ==
    {j \in DOMAIN log : /\ j > i /\ log[j].level = log[i].level + 1
                        /\ \A k \in i + 1 .. j : log[k].level > log[i].level}
Size[i \in Nat] ==
    IF log[i].kind # "container" THEN Len(encodeValue(log[i].kind, log[i].value))
    ELSE LET n == MapThenSumSet(LAMBDA j : Size[j], Children(i))
         IN  Len(Header(Container, n)) + n
Length(i) ==
    IF log[i].kind = "container" THEN MapThenSumSet(LAMBDA j : Size[j], Children(i))
    ELSE IF log[i].kind = "bytes" THEN Len(log[i].value) ELSE 0

\* the items the decoder does not misread: their length is not between its "055" and
\* the encoder's 55, and their first bit is no sign by chance
Readable(i) ==
    /\ Length(i) \notin OctalShort .. Short
    /\ log[i].kind = "int" => /\ log[i].value # MinInt(Width)
                              /\ log[i].value >= 0 => Head(uint64ToBytes(log[i].value)) < Top

\* What is decoded is what was encoded, however the containers are nested and
\* whenever they are flushed, short or long, up to the lengths and signs that are
\* misread (rlpEncoder.flush, encodeBytes, writeContainer, decodeContainer).
ReadsBack == (\A i \in DOMAIN log : Readable(i)) => DecodedIsSame

NumbersOf(kind) == {log[i].value : i \in {j \in DOMAIN log : log[j].kind = kind}}

\* Numbers come back from bytes and from text; machine words and big integers have
\* the same bytes, so that hashes agree; and a text is read by every type as the
\* number or refused, never cut off (hexint.go).
NumbersReadBack ==
    /\ \A v \in NumbersOf("int") :
          /\ BytesToInt64(Int64ToBytes(v)) = v
          /\ BigIntSetBytes(BigIntToBytes(v)) = v
          /\ BigIntToBytes(v) = Int64ToBytes(v)
          /\ HexIntUnmarshalJSON(HexIntString(v)) = v
          /\ \A n \in 1 .. Width : /\ ParseInt(FormatInt(v), n) = {v} \cap IntRange(n)
                                    /\ ParseUint(FormatInt(v), n) = {v} \cap UintRange(n)
    /\ \A v \in NumbersOf("uint") :
          /\ BytesToUint64(Uint64ToBytes(v)) = v
          /\ \A n \in 1 .. Width : ParseUint(FormatUint(v), n) = {v} \cap UintRange(n)

\* An iteration over keys goes by block height: the order of the keys is the order of
\* the numbers, so the lists that are loaded are sorted (ID of GovernanceVariable,
\* PRep and IISSTX).
KeysInOrder ==
    \A u, v \in NumbersOf("uint") : u < v <=> Before(ID(u), ID(v))
=============================================================================

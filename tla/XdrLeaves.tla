----------------------------- MODULE XdrLeaves -----------------------------
(***************************************************************************)
(* The XDR codec (internal/go-xdr/xdr2): the types of the protocol, and    *)
(* how those that have no parts are encoded and decoded: numbers, and      *)
(* opaque data of a length that is on the wire or in the type.             *)
(*                                                                         *)
(* An octet has Base values in place of 256, so that the lengths and       *)
(* numbers at the limits of a type fit the model checker's integers.       *)
(***************************************************************************)
EXTENDS XdrLayout, SequencesExt

CONSTANT Base      \* the values of an octet: 256 in the code

\* The numbers a word of four octets has, and one of w octets.
Radix4 == Base * Base * Base * Base
Radix(w) ==
    CASE w = 1 -> Base
      [] w = 2 -> Base * Base
      [] w = 4 -> Radix4
      [] w = 8 -> Radix4 * Radix4

ASSUME BaseAssumption == Base \in Nat \ {0, 1} /\ 2 * (MaxInt32 + 1) = Radix4

Octet == 0..(Base - 1)

(***************************************************************************)
(* Types and values.  A type has a kind "k": "num" is an integer or a      *)
(* float (whose bits are an unsigned integer) of w octets in Go; "opaque"  *)
(* is a string or []byte, "fixed" a [size]byte, "array" a [size]of,        *)
(* "slice" a []of, which the protocol may limit; a field of a "struct" may *)
(* be "hidden" (not exported); "union" is the value of a typed parameter:  *)
(* its discriminant, and a number or a string.                             *)
(***************************************************************************)
Num(w, signed) == [k |-> "num", w |-> w, signed |-> signed]
Int8 == Num(1, TRUE)
Uint8 == Num(1, FALSE)
Uint16 == Num(2, FALSE)
Int32 == Num(4, TRUE)
Uint32 == Num(4, FALSE)
Int64 == Num(8, TRUE)
Uint64 == Num(8, FALSE)
Float64 == Num(8, FALSE)
Opaque == [k |-> "opaque"]
String == Opaque
Fixed(size) == [k |-> "fixed", size |-> size]
Array(size, of) == [k |-> "array", size |-> size, of |-> of]
Slice(of) == [k |-> "slice", of |-> of, most |-> 2]
Opt(of) == [k |-> "slice", of |-> of, most |-> 1]
Struct(types) == [k |-> "struct", types |-> types]
Hidden(type) == [k |-> "hidden", type |-> type]
Union == [k |-> "union"]
TypedParam == Struct(<<String, Union>>)

\* The type of the value of a typed parameter, by its discriminant.
ParamType(d) == <<Int32, Uint32, Int64, Uint64, Float64, Int32, Opaque>>[d]

\* What a number of a type may be.
NumRange(t) ==
    IF t.signed THEN (-(Radix(t.w) \div 2))..(Radix(t.w) \div 2 - 1) ELSE 0..(Radix(t.w) - 1)

Zeros(n) == [i \in 1..n |-> 0]
From(s, n) == SubSeq(s, n + 1, Len(s))

(***************************************************************************)
(* Encoding.  A bytes.Buffer takes every write, so encode() only fails for *)
(* values it has no type for, which the generated client does not make.    *)
(* Operators named <operator>_<fault> are faulty variants, as elsewhere.   *)
(***************************************************************************)
Width(t) == IF t.w = 8 THEN 8 ELSE 4

\* byte(v >> 24), byte(v >> 16), ...: a negative number is its two's complement.
EncodeWord(x) ==
    LET x8 == x \div Base       \* x >> 8
        x16 == x8 \div Base     \* x >> 16
        x24 == x16 \div Base    \* x >> 24
    IN  <<x24 % Base, x16 % Base, x8 % Base, x % Base>>
EncodeNumber(x, n) ==
    IF n = 8 THEN EncodeWord(x \div Radix4) \o EncodeWord(x) ELSE EncodeWord(x)

\* A whole word of padding is added to what needs none.
EncodeFixedOpaque_Long(v) == v \o Zeros(4 - (Len(v) % 4))

EncodeFixedOpaque(v) == v \o Zeros(Pad(Len(v)))
EncodeOpaque(v) == EncodeNumber(Len(v), 4) \o EncodeFixedOpaque(v)

(***************************************************************************)
(* Decoding.  A result says whether it succeeded, with which value, and    *)
(* how many octets it took from the reader.                                *)
(***************************************************************************)
Good(v, n) == [ok |-> TRUE, v |-> v, n |-> n]
Bad(n) == [ok |-> FALSE, v |-> <<>>, n |-> n]
After(n, r) == [r EXCEPT !.n = n + @]

\* io.Read in place of io.ReadFull: fewer octets than asked for are taken for all.
ReadFull_Short(in, n) ==
    IF in # <<>> /\ Len(in) < n THEN Good(in \o Zeros(n - Len(in)), Len(in))
    ELSE IF Len(in) < n THEN Bad(0) ELSE Good(SubSeq(in, 1, n), n)

\* io.ReadFull: what is there of too few octets is lost.
ReadFull(in, n) ==
    IF Len(in) < n THEN Bad(Len(in)) ELSE Good(SubSeq(in, 1, n), n)

\* Big-endian: uint32(buf[3]) | uint32(buf[2])<<8 | ...
UnsignedWord(s) == ((s[1] * Base + s[2]) * Base + s[3]) * Base + s[4]
Unsigned(s) ==
    IF Len(s) = 8 THEN UnsignedWord(s) * Radix4 + UnsignedWord(From(s, 4)) ELSE UnsignedWord(s)
Signed(s) ==
    LET x == Unsigned(s) IN IF x < Radix(Len(s)) \div 2 THEN x ELSE x - Radix(Len(s))

\* Every number is taken for an unsigned one.
DecodeNumber_Unsigned(t, in) ==
    LET r == ReadFull(in, Width(t)) IN IF r.ok THEN Good(Unsigned(r.v), r.n) ELSE r

\* A number that overflows its Go type is an error.
DecodeNumber(t, in) ==
    LET r == ReadFull(in, Width(t))
        x == IF t.signed THEN Signed(r.v) ELSE Unsigned(r.v)
    IN  IF r.ok /\ x \in NumRange(t) THEN Good(x, r.n) ELSE Bad(r.n)
DecodeUint(in) == DecodeNumber(Uint32, in)

DecodeFixedOpaque(size, in) ==
    IF size = 0 THEN Good(<<>>, 0)
    ELSE IF TooLarge(size) THEN Bad(0)
    ELSE LET r == ReadFull(in, PaddedSize(size))
         IN  IF r.ok THEN Good(SubSeq(r.v, 1, size), r.n) ELSE r

\* DecodeOpaque, DecodeString
DecodeOpaque(in) ==
    LET l == DecodeUint(in)
    IN  IF ~l.ok \/ l.v > MaxInt32 THEN Bad(l.n)
        ELSE After(l.n, DecodeFixedOpaque(l.v, From(in, l.n)))

\* Types decoded on their own.  A field that is not exported is skipped.
Leaves == {"num", "opaque", "fixed", "hidden"}
DecodeLeaf(t, in) ==
    CASE t.k = "num" -> DecodeNumber(t, in)
      [] t.k = "opaque" -> DecodeOpaque(in)
      [] t.k = "fixed" -> DecodeFixedOpaque(t.size, in)
      [] t.k = "hidden" -> Good(0, 0)

(***************************************************************************)
(* The reference: the form RFC 4506 gives what has no parts.               *)
(***************************************************************************)
Padded(s) == s \o Zeros(CHOOSE p \in 0..3 : (Len(s) + p) % 4 = 0)
Word(x) == EncodeNumber(x, 4)
=============================================================================

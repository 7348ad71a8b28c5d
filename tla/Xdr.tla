-------------------------------- MODULE Xdr --------------------------------
(***************************************************************************)
(* The XDR codec (internal/go-xdr/xdr2) with the typed parameters of       *)
(* rpc.go, in the use the generated client makes of it: a call encodes its *)
(* arguments into a buffer; the fields of a reply are decoded one after    *)
(* the other, each into a fresh variable, from one reader on the payload.  *)
(***************************************************************************)
EXTENDS XdrLeaves

RECURSIVE Encode(_, _)
EncodeAll(ts, vs) == FlattenSeq([i \in DOMAIN vs |-> Encode(ts[i], vs[i])])
Encode(t, v) ==
    CASE t.k = "num" -> EncodeNumber(v, Width(t))
      [] t.k = "opaque" -> EncodeOpaque(v)
      [] t.k = "fixed" -> EncodeFixedOpaque(v)
      [] t.k = "array" -> EncodeAll([i \in 1..t.size |-> t.of], v)
      [] t.k = "slice" -> EncodeNumber(Len(v), 4) \o EncodeAll([i \in DOMAIN v |-> t.of], v)
      [] t.k = "struct" -> EncodeAll(t.types, v)
      [] t.k = "hidden" -> <<>>
      [] t.k = "union" -> EncodeAll(<<Uint32, ParamType(v[1])>>, v)

(***************************************************************************)
(* Decoding.                                                               *)
(***************************************************************************)
\* What the others start with, and the types that make up the rest: a result with
\* "types".
Start(r, types) == [ok |-> r.ok, v |-> r.v, n |-> r.n, types |-> types]

\* decodeArray: a fresh slice has no capacity, so it is made as long as the wire says.
StartSlice(of, l) ==
    IF l.ok /\ l.v <= MaxInt32 THEN Start(Good(<<>>, l.n), [i \in 1..l.v |-> of])
    ELSE Start(Bad(l.n), <<>>)

\* decodeTypedParamValue; a decoder that has not been given the one for typed
\* parameters cannot decode into an interface{} that is nil.
StartUnion(d, custom) ==
    IF d.ok /\ d.v \in 1..7 /\ custom THEN Start(Good(<<d.v>>, d.n), <<ParamType(d.v)>>)
    ELSE Start(Bad(d.n), <<>>)

Parts(t, in, custom) ==
    CASE t.k = "array" -> Start(Good(<<>>, 0), [i \in 1..t.size |-> t.of])
      [] t.k = "struct" -> Start(Good(<<>>, 0), t.types)
      [] t.k = "slice" -> StartSlice(t.of, DecodeUint(in))
      [] t.k = "union" -> StartUnion(DecodeUint(in), custom)

\* One part after the other, until one fails.  custom: typedParamDecoder is there.
AddPart(r, e) == [ok |-> e.ok, v |-> Append(r.v, e.v), n |-> r.n + e.n]
Result(p) == [ok |-> p.ok, v |-> p.v, n |-> p.n]

RECURSIVE Decode(_, _, _)
DecodeParts(p, in, custom) ==
    FoldLeft(LAMBDA r, t : IF r.ok THEN AddPart(r, Decode(t, From(in, r.n), custom)) ELSE r,
             Result(p), p.types)
Decode(t, in, custom) ==
    IF t.k \in Leaves THEN DecodeLeaf(t, in)
    ELSE DecodeParts(Parts(t, in, custom), in, custom)
DecodeAll(ts, in, custom) == Decode(Struct(ts), in, custom)

(***************************************************************************)
(* The reference: the form RFC 4506 and libvirt's protocol give a value,   *)
(* and libvirtd sends and expects.                                         *)
(***************************************************************************)
RECURSIVE Wire(_, _)
WireAll(ts, vs) == FlattenSeq([i \in DOMAIN vs |-> Wire(ts[i], vs[i])])
Wire(t, v) ==
    CASE t.k = "num" -> EncodeNumber(v, IF t.w = 8 THEN 8 ELSE 4)
      [] t.k = "opaque" -> Word(Len(v)) \o Padded(v)
      [] t.k = "fixed" -> Padded(v)
      [] t.k = "array" -> WireAll([i \in DOMAIN v |-> t.of], v)
      [] t.k = "slice" -> Word(Len(v)) \o WireAll([i \in DOMAIN v |-> t.of], v)
      [] t.k = "struct" -> WireAll(t.types, v)
      [] t.k = "hidden" -> Wire(t.type, v)
      [] t.k = "union" -> WireAll(<<Uint32, ParamType(v[1])>>, v)

(***************************************************************************)
(* The values of a type to try, numbered by a seed: numbers at the limits  *)
(* of the type, opaque data of every length modulo a word, lists of every  *)
(* length up to "most", parameters of every discriminant.  The seed        *)
(* changes from one field to the next, so that no two look alike.          *)
(***************************************************************************)
Edges(t) ==
    LET half == Radix(t.w) \div 2
    IN  IF t.signed THEN <<1, -half, half - 1, -1, 0>> ELSE <<1, 2 * half - 1, half, 0, 2>>
Bytes(n) == [i \in 1..n |-> (i + n) % Base]
Pick(s, seed) == s[1 + (seed % Len(s))]

RECURSIVE Value(_, _)
Values(ts, seed) == [i \in DOMAIN ts |-> Value(ts[i], seed + i)]
Value(t, seed) ==
    CASE t.k = "num" -> Pick(Edges(t), seed)
      [] t.k = "opaque" -> Bytes(seed % 6)
      [] t.k = "fixed" -> [i \in 1..t.size |-> (i + seed) % Base]
      [] t.k = "array" -> Values([i \in 1..t.size |-> t.of], seed)
      [] t.k = "slice" -> Values([i \in 1..(seed % (t.most + 1)) |-> t.of], seed)
      [] t.k = "struct" -> Values(t.types, seed)
      [] t.k = "hidden" -> Value(t.type, seed)
      [] t.k = "union" -> LET d == 1 + (seed % 7) IN <<d, Value(ParamType(d), seed)>>
=============================================================================

----------------------------- MODULE XdrProofs -----------------------------
(***************************************************************************)
(* Proofs about XdrLeaves: any number of any type is read back as it was   *)
(* written, and so are opaque data of any length that the code has an      *)
(* int32 for, with and without their length; how they are padded; and what *)
(* the decoder makes of octets that nobody encoded.                        *)
(***************************************************************************)
EXTENDS XdrLeaves, SequenceTheorems, TLAPS

(***************************************************************************)
(* Sizes.                                                                  *)
(***************************************************************************)
\* Padding is less than a word and ends on one.
LEMMA PadAligns ==
    ASSUME NEW size \in Nat
    PROVE  Pad(size) \in 0..3 /\ (size + Pad(size)) % 4 = 0
  <1>1. size % 4 \in 0..3
    OBVIOUS
  <1>2. CASE size % 4 = 0
    BY <1>2 DEF Pad
  <1>3. CASE size % 4 = 1
    BY <1>3 DEF Pad
  <1>4. CASE size % 4 = 2
    BY <1>4 DEF Pad
  <1>5. CASE size % 4 = 3
    BY <1>5 DEF Pad
  <1> QED BY <1>1, <1>2, <1>3, <1>4, <1>5

\* A length the decoder accepts makes a buffer of that many octets and less than
\* a word of padding, in whole words: make([]byte, paddedSize) gets no negative
\* size and buf[0:size] is within the buffer (DecodeFixedOpaque).
THEOREM BufferHoldsData ==
    \A n \in Lengths :
        Accepted(n) => /\ PaddedSize(n) \in n..(n + 3)
                       /\ PaddedSize(n) <= MaxInt32
                       /\ PaddedSize(n) % 4 = 0
  <1> SUFFICES ASSUME NEW n \in Lengths, Accepted(n)
               PROVE  /\ PaddedSize(n) \in n..(n + 3)
                      /\ PaddedSize(n) <= MaxInt32
                      /\ PaddedSize(n) % 4 = 0
    OBVIOUS
  <1>1. n \in Nat /\ n <= MaxInt32
    BY MaxInt32Assumption DEF Lengths, Accepted
  <1>2. Pad(n) \in 0..3 /\ (n + Pad(n)) % 4 = 0
    BY <1>1, PadAligns
  <1>3. n + Pad(n) <= MaxInt32
    BY <1>1, <1>2, MaxInt32Assumption DEF Accepted, TooLarge, PaddedSize, Wrap
  <1>4. PaddedSize(n) = n + Pad(n)
    BY <1>1, <1>2, <1>3, MaxInt32Assumption DEF PaddedSize, Wrap
  <1>5. ASSUME NEW p \in 0..3 PROVE n + p \in n..(n + 3)
    BY <1>1
  <1>6. n + Pad(n) \in n..(n + 3)
    BY <1>2, <1>5
  <1> QED BY <1>2, <1>3, <1>4, <1>6

\* The decoder accepts exactly the lengths up to the last whole word: the three
\* above it are refused because the padded size wraps, not because of the
\* length, and every larger one by the test of the length.
THEOREM AcceptedLengths == \A n \in Lengths : Accepted(n) <=> n <= MaxInt32 - 3
  <1> SUFFICES ASSUME NEW n \in Lengths PROVE Accepted(n) <=> n <= MaxInt32 - 3
    OBVIOUS
  <1>1. n \in Nat
    BY MaxInt32Assumption DEF Lengths
  <1>2. Pad(n) \in 0..3 /\ (n + Pad(n)) % 4 = 0
    BY <1>1, PadAligns
  <1>3. ASSUME n <= MaxInt32 - 3 PROVE Accepted(n)
    BY <1>1, <1>2, <1>3, MaxInt32Assumption DEF Accepted, TooLarge, PaddedSize, Wrap
  <1>4. ASSUME Accepted(n) PROVE n <= MaxInt32 - 3
    <2>1. n + Pad(n) <= MaxInt32
      BY <1>4, <1>1, <1>2, MaxInt32Assumption
         DEF Accepted, TooLarge, PaddedSize, Wrap
    <2>2. MaxInt32 \in Nat /\ MaxInt32 % 4 = 3
      <3>1. ASSUME NEW m \in Nat, (m + 1) % 4 = 0 PROVE m % 4 = 3
        BY <3>1
      <3> QED BY <3>1, MaxInt32Assumption
    <2>3. n + Pad(n) <= MaxInt32 - 3
      <3>1. ASSUME NEW x \in Nat, NEW m \in Nat, x % 4 = 0, m % 4 = 3, x <= m
            PROVE  x <= m - 3
        BY <3>1
      <3>2. n + Pad(n) \in Nat
        <4>1. ASSUME NEW p \in 0..3 PROVE n + p \in Nat
          BY <1>1
        <4> QED BY <4>1, <1>2
      <3> QED BY <3>1, <3>2, <2>1, <2>2, <1>2
    <2> QED BY <1>1, <1>2, <2>3, MaxInt32Assumption
  <1> QED BY <1>3, <1>4

(***************************************************************************)
(* Numbers.                                                                *)
(***************************************************************************)
NumTypes == [k : {"num"}, w : {1, 2, 4, 8}, signed : BOOLEAN]

\* Division with remainder, which is unique.
LEMMA Division ==
    ASSUME NEW b \in Nat \ {0}, NEW x \in Int
    PROVE  /\ x \div b \in Int /\ x % b \in 0..(b - 1)
           /\ x = (x \div b) * b + (x % b)
  <1>1. x \div b \in Int /\ x % b \in 0..(b - 1)
    OBVIOUS
  <1>2. x % b = x - b * (x \div b)
    BY SMTT(60)
  <1> DEFINE q == x \div b
             r == x % b
  <1>3. q \in Int /\ r \in Int /\ r = x - b * q
    BY <1>1, <1>2
  <1> HIDE DEF q, r
  <1>4. x = q * b + r
    BY <1>3
  <1> QED BY <1>1, <1>4, Zenon DEF q, r

LEMMA Remainder ==
    ASSUME NEW b \in Nat \ {0}, NEW d \in Int, NEW y \in 0..(b - 1)
    PROVE  /\ d * b + y \in 0..(b - 1) => d = 0
           /\ d * b + y \in (-b)..(-1) => d = -1
  <1>1. ASSUME NEW x \in 0..(b - 1), x = d * b + y PROVE d = 0
    BY <1>1
  <1>2. ASSUME NEW x \in (-b)..(-1), x = d * b + y PROVE d = -1
    BY <1>2
  <1> QED BY <1>1, <1>2

\* A digit more, in a positional system.
LEMMA Digit ==
    ASSUME NEW b \in Nat \ {0}, NEW m \in Nat \ {0}, NEW a \in 0..(m - 1), NEW c \in 0..(b - 1)
    PROVE  m * b \in Nat \ {0} /\ a * b + c \in 0..(m * b - 1)
  <1>1. m * b \in Nat /\ m * b # 0
    OBVIOUS
  <1>2. a * b <= (m - 1) * b /\ a * b >= 0
    OBVIOUS
  <1>3. (m - 1) * b = m * b - b
    OBVIOUS
  <1> QED BY <1>1, <1>2, <1>3

LEMMA Radixes ==
    /\ Base \in Nat \ {0}
    /\ Radix4 \in Nat \ {0} /\ Radix4 = 2 * (MaxInt32 + 1)
    /\ \A w \in {1, 2, 4, 8} : Radix(w) \in Nat \ {0}
  <1>1. Base \in Nat \ {0} /\ Radix4 \in Nat \ {0} /\ Radix4 = 2 * (MaxInt32 + 1)
    BY BaseAssumption, MaxInt32Assumption
  <1>2. ASSUME NEW b \in Nat \ {0} PROVE b * b \in Nat \ {0}
    OBVIOUS
  <1> QED BY <1>1, <1>2 DEF Radix

\* Four octets are a number below Radix4.
LEMMA WordRange ==
    ASSUME NEW s, \A i \in 1..4 : s[i] \in Octet
    PROVE  UnsignedWord(s) \in 0..(Radix4 - 1)
  <1>1. \A i \in 1..4 : s[i] \in 0..(Base - 1)
    BY DEF Octet
  <1>2. Base \in Nat \ {0}
    BY Radixes
  <1>3. s[1] * Base + s[2] \in 0..(Base * Base - 1) /\ Base * Base \in Nat \ {0}
    BY <1>1, <1>2, Digit
  <1>4. (s[1] * Base + s[2]) * Base + s[3] \in 0..(Base * Base * Base - 1)
        /\ Base * Base * Base \in Nat \ {0}
    BY <1>1, <1>2, <1>3, Digit
  <1> DEFINE m == Base * Base * Base
             a == (s[1] * Base + s[2]) * Base + s[3]
  <1>5. m \in Nat \ {0} /\ a \in 0..(m - 1) /\ s[4] \in 0..(Base - 1)
    BY <1>1, <1>4
  <1> HIDE DEF m, a
  <1>6. a * Base + s[4] \in 0..(m * Base - 1)
    BY <1>2, <1>5, Digit
  <1> QED BY <1>6 DEF UnsignedWord, Radix4, m, a

\* The octets of a word are those of the number modulo Radix4.
LEMMA WordOctets ==
    ASSUME NEW x \in Int
    PROVE  /\ EncodeWord(x) \in Seq(Octet) /\ Len(EncodeWord(x)) = 4
           /\ \E d \in Int : x = d * Radix4 + UnsignedWord(EncodeWord(x))
  <1> DEFINE x8 == x \div Base
             x16 == x8 \div Base
             x24 == x16 \div Base
             x32 == x24 \div Base
             e == <<x24 % Base, x16 % Base, x8 % Base, x % Base>>
  <1>1. Base \in Nat \ {0}
    BY Radixes
  <1>2. x8 \in Int /\ x % Base \in Octet /\ x = x8 * Base + (x % Base)
    BY <1>1, Division DEF Octet
  <1> HIDE DEF x8
  <1>3. x16 \in Int /\ x8 % Base \in Octet /\ x8 = x16 * Base + (x8 % Base)
    BY <1>1, <1>2, Division DEF Octet
  <1> HIDE DEF x16
  <1>4. x24 \in Int /\ x16 % Base \in Octet /\ x16 = x24 * Base + (x16 % Base)
    BY <1>1, <1>3, Division DEF Octet
  <1> HIDE DEF x24
  <1>5. x32 \in Int /\ x24 % Base \in Octet /\ x24 = x32 * Base + (x24 % Base)
    BY <1>1, <1>4, Division DEF Octet
  <1> HIDE DEF x32
  <1>6. EncodeWord(x) = e
    BY DEF EncodeWord, x8, x16, x24
  <1>7. e \in Seq(Octet) /\ Len(e) = 4
    BY <1>2, <1>3, <1>4, <1>5
  <1>8. x = x32 * Radix4 + UnsignedWord(e)
    <2> DEFINE r0 == x % Base
               r1 == x8 % Base
               r2 == x16 % Base
               r3 == x24 % Base
               b == Base
    <2>1. /\ b \in Int /\ r0 \in Int /\ r1 \in Int /\ r2 \in Int /\ r3 \in Int
          /\ x = x8 * b + r0 /\ x8 = x16 * b + r1 /\ x16 = x24 * b + r2 /\ x24 = x32 * b + r3
      BY <1>1, <1>2, <1>3, <1>4, <1>5 DEF Octet
    <2>2. e = <<r3, r2, r1, r0>> /\ Radix4 = b * b * b * b
      BY DEF Radix4
    <2> HIDE DEF r0, r1, r2, r3, b, e
    <2>3. x16 = x32 * (b * b) + (r3 * b + r2)
      BY <1>2, <1>3, <1>4, <1>5, <2>1
    <2>4. x8 = x32 * (b * b * b) + ((r3 * b + r2) * b + r1)
      BY <1>2, <1>3, <1>4, <1>5, <2>1, <2>3
    <2>5. x = x32 * (b * b * b * b) + (((r3 * b + r2) * b + r1) * b + r0)
      BY <1>2, <1>3, <1>4, <1>5, <2>1, <2>4
    <2>6. UnsignedWord(e) = ((r3 * b + r2) * b + r1) * b + r0
      BY <2>2 DEF UnsignedWord, b
    <2> QED BY <2>2, <2>5, <2>6
  <1> QED BY <1>5, <1>6, <1>7, <1>8

\* The octets of a number are those of the number modulo its radix.
LEMMA NumberOctets ==
    ASSUME NEW n \in {4, 8}, NEW x \in Int
    PROVE  LET e == EncodeNumber(x, n)
           IN  /\ e \in Seq(Octet) /\ Len(e) = n
               /\ \E d \in Int : x = d * Radix(n) + Unsigned(e)
  <1>1. CASE n = 4
    <2>1. EncodeNumber(x, n) = EncodeWord(x) /\ Radix(n) = Radix4
      BY <1>1 DEF EncodeNumber, Radix
    <2>2. Unsigned(EncodeWord(x)) = UnsignedWord(EncodeWord(x))
      <3>1. Len(EncodeWord(x)) = 4
        BY WordOctets
      <3> QED BY <3>1 DEF Unsigned
    <2> QED BY <1>1, <2>1, <2>2, WordOctets
  <1>2. CASE n = 8
    <2> DEFINE q == x \div Radix4
               r == x % Radix4
               high == EncodeWord(q)
               low == EncodeWord(x)
               e == high \o low
    <2>1. Radix4 \in Nat \ {0} /\ q \in Int /\ r \in 0..(Radix4 - 1) /\ x = q * Radix4 + r
      BY Radixes, Division
    <2> HIDE DEF q, r
    <2>2. PICK d \in Int : high \in Seq(Octet) /\ Len(high) = 4 /\ q = d * Radix4 + UnsignedWord(high)
      BY <2>1, WordOctets
    <2>3. PICK c \in Int : low \in Seq(Octet) /\ Len(low) = 4 /\ x = c * Radix4 + UnsignedWord(low)
      BY WordOctets
    <2> HIDE DEF high, low
    <2>4. UnsignedWord(low) \in 0..(Radix4 - 1) /\ UnsignedWord(high) \in 0..(Radix4 - 1)
      BY <2>2, <2>3, WordRange
    <2>5. UnsignedWord(low) = r /\ c = q
      <3> DEFINE m == Radix4
                 y == UnsignedWord(low)
      <3>1. m \in Nat \ {0} /\ y \in 0..(m - 1) /\ r \in 0..(m - 1) /\ q * m + r = c * m + y
        BY <2>1, <2>3, <2>4
      <3> HIDE DEF m, y
      <3>2. (c - q) * m + y = r
        BY <2>1, <2>3, <3>1
      <3>3. c - q = 0
        BY <2>1, <2>3, <3>1, <3>2, Remainder
      <3>4. c = q
        BY <2>1, <2>3, <3>3
      <3>5. y = r
        BY <2>1, <2>3, <3>1, <3>4
      <3> QED BY <3>4, <3>5 DEF y
    <2>6. e \in Seq(Octet) /\ Len(e) = 8 /\ From(e, 4) = low /\ \A i \in 1..4 : e[i] = high[i]
      <3>1. /\ e \in Seq(Octet) /\ Len(e) = Len(high) + Len(low)
            /\ \A i \in 1..Len(high) : e[i] = high[i]
            /\ \A i \in 1..Len(low) : e[Len(high) + i] = low[i]
        <4>1. high \in Seq(Octet) /\ low \in Seq(Octet)
          BY <2>2, <2>3
        <4> QED BY <4>1
      <3> HIDE DEF e
      <3>2. SubSeq(e, 5, 8) = low
        BY <2>2, <2>3, <3>1
      <3> QED BY <2>2, <2>3, <3>1, <3>2 DEF From
    <2>7. Unsigned(e) = UnsignedWord(high) * Radix4 + r
      <3>1. UnsignedWord(e) = UnsignedWord(high)
        BY <2>6 DEF UnsignedWord
      <3> HIDE DEF e
      <3> QED BY <2>5, <2>6, <3>1 DEF Unsigned
    <2>8. x = d * (Radix4 * Radix4) + Unsigned(e)
      <3> DEFINE m == Radix4
                 y == UnsignedWord(high)
      <3>1. m \in Int /\ y \in Int /\ r \in Int /\ q = d * m + y /\ x = q * m + r
        BY <2>1, <2>2, <2>4
      <3> HIDE DEF m, y
      <3>2. (d * m + y) * m + r = d * (m * m) + (y * m + r)
        BY <3>1
      <3>3. x = d * (m * m) + (y * m + r)
        BY <3>1, <3>2
      <3> QED BY <2>7, <3>3 DEF m, y
    <2>9. EncodeNumber(x, n) = e /\ Radix(n) = Radix4 * Radix4
      BY <1>2 DEF EncodeNumber, Radix, q, high, low
    <2> HIDE DEF e
    <2> QED BY <1>2, <2>2, <2>6, <2>8, <2>9
  <1> QED BY <1>1, <1>2

\* Octets are a number below their radix.
LEMMA OctetsRange ==
    ASSUME NEW n \in {4, 8}, NEW s \in Seq(Octet), Len(s) = n
    PROVE  Unsigned(s) \in 0..(Radix(n) - 1)
  <1>1. UnsignedWord(s) \in 0..(Radix4 - 1) /\ Radix4 \in Nat \ {0}
    BY WordRange, Radixes
  <1>2. CASE n = 4
    BY <1>1, <1>2 DEF Unsigned, Radix
  <1>3. CASE n = 8
    <2> DEFINE low == From(s, 4)
    <2>1. ASSUME NEW i \in 1..4 PROVE low[i] \in Octet
      <3>1. SubSeq(s, 5, 8)[i] = s[4 + i]
        BY <1>3
      <3>2. 4 + i \in 1..Len(s)
        BY <1>3
      <3>4. s[4 + i] \in Octet
        BY <3>2
      <3>3. low = SubSeq(s, 5, 8)
        BY <1>3 DEF From
      <3> QED BY <3>1, <3>3, <3>4
    <2> HIDE DEF low
    <2>2. UnsignedWord(low) \in 0..(Radix4 - 1)
      BY <2>1, WordRange
    <2>3. UnsignedWord(s) * Radix4 + UnsignedWord(low) \in 0..(Radix4 * Radix4 - 1)
      BY <1>1, <2>2, Digit
    <2>4. Unsigned(s) = UnsignedWord(s) * Radix4 + UnsignedWord(low) /\ Radix(n) = Radix4 * Radix4
      BY <1>3 DEF Unsigned, Radix, low
    <2> QED BY <2>3, <2>4
  <1> QED BY <1>2, <1>3

\* A type has no more numbers than its octets, half of them negative if it is signed.
LEMMA Ranges ==
    ASSUME NEW t \in NumTypes
    PROVE  LET n == Width(t)
               half == Radix(n) \div 2
           IN  /\ n \in {4, 8} /\ half \in Nat \ {0} /\ Radix(n) = 2 * half
               /\ t.signed \in BOOLEAN
               /\ NumRange(t) \subseteq IF t.signed THEN (-half)..(half - 1) ELSE 0..(2 * half - 1)
  <1>1. t.w \in {1, 2, 4, 8} /\ t.signed \in BOOLEAN
    BY DEF NumTypes, Num
  <1>2. Width(t) \in {4, 8}
    BY DEF Width
  <1>3. ASSUME NEW h \in Nat \ {0}, NEW m, m = 2 * h
        PROVE  m \div 2 = h
    BY <1>3
  <1> DEFINE h == MaxInt32 + 1
             g == Radix4 * h
  <1>4. h \in Nat \ {0} /\ Radix4 = 2 * h /\ Radix4 \in Nat \ {0}
    BY Radixes, MaxInt32Assumption
  <1> HIDE DEF h
  <1>5. g \in Nat \ {0} /\ Radix4 * Radix4 = 2 * g
    BY <1>4
  <1> HIDE DEF g
  <1>6. ASSUME Width(t) = 8
        PROVE  Radix(8) = 2 * g /\ t.w = 8
    BY <1>5, <1>6 DEF Radix, Width
  <1>7. CASE Width(t) = 8
    <2>1. Radix(8) \div 2 = g
      BY <1>3, <1>5, <1>6, <1>7
    <2> QED BY <1>1, <1>5, <1>6, <1>7, <2>1 DEF NumRange
  <1>8. CASE Width(t) = 4
    <2>1. Radix(4) = 2 * h /\ Radix(4) \div 2 = h
      BY <1>3, <1>4 DEF Radix
    <2>2. Radix(t.w) <= 2 * h /\ Radix(t.w) \in Nat
      <3>1. t.w \in {1, 2, 4}
        BY <1>1, <1>8 DEF Width
      <3>2. Base \in Nat \ {0} /\ Base <= Base * Base /\ Base * Base \in Nat \ {0}
        BY Radixes
      <3> DEFINE s == Base * Base
      <3>3. s \in Nat \ {0} /\ s <= s * s /\ Radix4 = s * s
        <4>1. s \in Nat \ {0}
          BY <3>2
        <4>2. Radix4 = s * s
          BY <3>2 DEF Radix4
        <4> HIDE DEF s
        <4> QED BY <4>1, <4>2
      <3> QED BY <1>4, <3>1, <3>2, <3>3 DEF Radix
    <2>3. ASSUME NEW m \in Nat, NEW k \in Nat, m <= 2 * k
          PROVE  (-(m \div 2))..(m \div 2 - 1) \subseteq (-k)..(k - 1) /\ 0..(m - 1) \subseteq 0..(2 * k - 1)
      BY <2>3
    <2> QED BY <1>1, <1>4, <1>8, <2>1, <2>2, <2>3 DEF NumRange
  <1> QED BY <1>2, <1>7, <1>8

\* io.ReadFull gets what was written, whatever follows it, and nothing of less than that.
LEMMA ReadBack ==
    ASSUME NEW e \in Seq(Octet), NEW rest \in Seq(Octet)
    PROVE  ReadFull(e \o rest, Len(e)) = Good(e, Len(e))
  <1> DEFINE in == e \o rest
  <1>1. /\ in \in Seq(Octet) /\ Len(in) = Len(e) + Len(rest)
        /\ \A i \in 1..Len(e) : in[i] = e[i]
    OBVIOUS
  <1> HIDE DEF in
  <1>2. SubSeq(in, 1, Len(e)) = e /\ ~(Len(in) < Len(e))
    BY <1>1
  <1> QED BY <1>2 DEF ReadFull, in

\* A number is read back as it was written, whatever follows it: those of the Go types
\* with 1, 2, 4 and 8 octets, signed or not, to the limits of each.
THEOREM NumberRoundTrip ==
    \A t \in NumTypes : \A x \in NumRange(t), rest \in Seq(Octet) :
        DecodeNumber(t, EncodeNumber(x, Width(t)) \o rest) = Good(x, Width(t))
  <1> SUFFICES ASSUME NEW t \in NumTypes, NEW x \in NumRange(t), NEW rest \in Seq(Octet)
               PROVE  DecodeNumber(t, EncodeNumber(x, Width(t)) \o rest) = Good(x, Width(t))
    OBVIOUS
  <1> DEFINE n == Width(t)
             e == EncodeNumber(x, n)
             half == Radix(n) \div 2
             y == Unsigned(e)
  <1>1. /\ n \in {4, 8} /\ half \in Nat \ {0} /\ Radix(n) = 2 * half
        /\ x \in IF t.signed THEN (-half)..(half - 1) ELSE 0..(2 * half - 1)
    BY Ranges
  <1> HIDE DEF n, half
  <1>2. x \in Int
    BY <1>1
  <1>3. e \in Seq(Octet) /\ Len(e) = n
    BY <1>1, <1>2, NumberOctets
  <1>4. PICK d \in Int : x = d * Radix(n) + y
    BY <1>1, <1>2, NumberOctets
  <1>5. y \in 0..(Radix(n) - 1)
    BY <1>1, <1>3, OctetsRange
  <1>6. (IF t.signed THEN Signed(e) ELSE y) = x
    <2> DEFINE m == Radix(n)
    <2>1. m \in Nat \ {0} /\ y \in 0..(m - 1) /\ m = 2 * half /\ x = d * m + y
      BY <1>1, <1>4, <1>5
    <2>2. Signed(e) = IF y < half THEN y ELSE y - m
      BY <1>3 DEF Signed, half
    <2> HIDE DEF m, y, e
    <2>3. CASE x >= 0
      <3>1. x \in 0..(m - 1)
        BY <1>1, <2>1, <2>3
      <3>2. d = 0
        BY <2>1, <3>1, Remainder
      <3>3. y = x
        BY <2>1, <3>2
      <3> QED BY <1>1, <2>1, <2>2, <2>3, <3>3
    <2>4. CASE x < 0
      <3>1. x \in (-m)..(-1) /\ t.signed
        BY <1>1, <2>1, <2>4
      <3>2. d = -1
        BY <2>1, <3>1, Remainder
      <3>3. y = x + m
        BY <2>1, <3>2, <1>2
      <3> QED BY <1>1, <1>2, <2>1, <2>2, <2>4, <3>1, <3>3
    <2> QED BY <1>2, <2>3, <2>4
  <1>7. ReadFull(e \o rest, n) = Good(e, n)
    BY <1>3, ReadBack
  <1> HIDE DEF e, y
  <1>8. Good(e, n).ok /\ Good(e, n).v = e /\ Good(e, n).n = n
    BY DEF Good
  <1> QED BY <1>6, <1>7, <1>8 DEF DecodeNumber, n, e, y

\* Octets that are not all there are no number, and no number takes more than there are:
\* for any octets from the wire, a number that is returned is one of its type.
THEOREM NumberWithinInput ==
    \A t \in NumTypes : \A in \in Seq(Octet) :
        LET r == DecodeNumber(t, in)
        IN  /\ r.n \in 0..Len(in)
            /\ r.ok => r.n = Width(t) /\ r.v \in NumRange(t)
            /\ Len(in) < Width(t) => ~r.ok
  <1> SUFFICES ASSUME NEW t \in NumTypes, NEW in \in Seq(Octet)
               PROVE  LET r == DecodeNumber(t, in)
                      IN  /\ r.n \in 0..Len(in)
                          /\ r.ok => r.n = Width(t) /\ r.v \in NumRange(t)
                          /\ Len(in) < Width(t) => ~r.ok
    OBVIOUS
  <1> DEFINE n == Width(t)
             f == ReadFull(in, n)
             x == IF t.signed THEN Signed(f.v) ELSE Unsigned(f.v)
  <1>1. n \in {4, 8} /\ Len(in) \in Nat
    BY Ranges
  <1> HIDE DEF n
  <1>2. f.n \in 0..Len(in) /\ f.ok \in BOOLEAN /\ (f.ok => f.n = n) /\ (Len(in) < n => ~f.ok)
    BY <1>1 DEF ReadFull, Good, Bad
  <1>3. DecodeNumber(t, in) = IF f.ok /\ x \in NumRange(t) THEN Good(x, f.n) ELSE Bad(f.n)
    BY DEF DecodeNumber, n
  <1> HIDE DEF f, x
  <1>4. CASE f.ok /\ x \in NumRange(t)
    BY <1>2, <1>3, <1>4 DEF Good, n
  <1>5. CASE ~(f.ok /\ x \in NumRange(t))
    BY <1>2, <1>3, <1>5 DEF Bad, n
  <1> QED BY <1>4, <1>5

(***************************************************************************)
(* Opaque data.                                                            *)
(***************************************************************************)
\* Zeros are octets.
LEMMA ZerosAreOctets ==
    ASSUME NEW n \in Nat
    PROVE  Zeros(n) \in Seq(Octet) /\ Len(Zeros(n)) = n
  BY BaseAssumption DEF Zeros, Octet

\* What is written are the data and their padding.
LEMMA Written ==
    ASSUME NEW v \in Seq(Octet)
    PROVE  /\ EncodeFixedOpaque(v) \in Seq(Octet)
           /\ Len(EncodeFixedOpaque(v)) = Len(v) + Pad(Len(v))
           /\ \A i \in 1..Len(v) : EncodeFixedOpaque(v)[i] = v[i]
  <1>1. Len(v) \in Nat /\ Pad(Len(v)) \in 0..3
    BY PadAligns
  <1>2. Zeros(Pad(Len(v))) \in Seq(Octet) /\ Len(Zeros(Pad(Len(v)))) = Pad(Len(v))
    BY <1>1, ZerosAreOctets
  <1> QED BY <1>1, <1>2, ConcatProperties DEF EncodeFixedOpaque

\* What EncodeFixedOpaque writes is what RFC 4506 asks for: the data, and as few zeros as
\* fill the last word.
THEOREM OpaqueAsInRfc == \A v \in Seq(Octet) : EncodeFixedOpaque(v) = Padded(v)
  <1> SUFFICES ASSUME NEW v \in Seq(Octet)
               PROVE  Pad(Len(v)) = CHOOSE p \in 0..3 : (Len(v) + p) % 4 = 0
    BY DEF EncodeFixedOpaque, Padded
  <1>1. ASSUME NEW n \in Nat, NEW p \in 0..3, NEW q \in 0..3, (n + p) % 4 = 0, (n + q) % 4 = 0
        PROVE  p = q
    BY <1>1
  <1>2. Len(v) \in Nat /\ Pad(Len(v)) \in 0..3 /\ (Len(v) + Pad(Len(v))) % 4 = 0
    BY PadAligns
  <1> QED BY <1>1, <1>2

\* Of a length that is accepted the padded size does not wrap.
LEMMA NoWrap ==
    ASSUME NEW n \in Nat, Accepted(n)
    PROVE  PaddedSize(n) = n + Pad(n) /\ Pad(n) \in 0..3 /\ ~TooLarge(n)
  <1>1. n <= MaxInt32 /\ n \in Lengths /\ ~TooLarge(n)
    BY MaxInt32Assumption DEF Accepted, Lengths
  <1>2. Pad(n) \in 0..3
    BY PadAligns
  <1>3. n + Pad(n) <= MaxInt32
    BY <1>1, <1>2, MaxInt32Assumption DEF TooLarge, PaddedSize, Wrap
  <1>4. PaddedSize(n) = n + Pad(n)
    BY <1>1, <1>2, <1>3, MaxInt32Assumption DEF PaddedSize, Wrap
  <1> QED BY <1>1, <1>2, <1>4

\* Whatever length is on the wire, DecodeFixedOpaque takes no more than there is, and if it
\* succeeds it has that many octets, the first of those it was given.
THEOREM OpaqueWithinInput ==
    \A size \in 0..MaxInt32, in \in Seq(Octet) :
        LET r == DecodeFixedOpaque(size, in)
        IN  /\ r.n \in 0..Len(in)
            /\ r.ok => r.n = size + Pad(size) /\ r.v = SubSeq(in, 1, size)
            /\ ~r.ok => TooLarge(size) \/ Len(in) < size + Pad(size)
  <1> SUFFICES ASSUME NEW size \in 0..MaxInt32, NEW in \in Seq(Octet)
               PROVE  LET r == DecodeFixedOpaque(size, in)
                      IN  /\ r.n \in 0..Len(in)
                          /\ r.ok => r.n = size + Pad(size) /\ r.v = SubSeq(in, 1, size)
                          /\ ~r.ok => TooLarge(size) \/ Len(in) < size + Pad(size)
    OBVIOUS
  <1>1. Len(in) \in Nat /\ size \in Nat
    BY MaxInt32Assumption
  <1>2. CASE size = 0
    <2>1. Pad(0) = 0 /\ SubSeq(in, 1, 0) = <<>>
      BY DEF Pad
    <2> QED BY <1>1, <1>2, <2>1 DEF DecodeFixedOpaque, Good
  <1>3. CASE size # 0 /\ TooLarge(size)
    BY <1>1, <1>3 DEF DecodeFixedOpaque, Bad
  <1>4. CASE size # 0 /\ ~TooLarge(size)
    <2>1. PaddedSize(size) = size + Pad(size) /\ Pad(size) \in 0..3
      BY <1>1, <1>4, NoWrap DEF Accepted
    <2> DEFINE n == size + Pad(size)
    <2>2. n \in Nat /\ size <= n
      BY <1>1, <2>1
    <2> HIDE DEF n
    <2>3. PaddedSize(size) = n
      BY <2>1 DEF n
    <2>4. CASE Len(in) < n
      BY <1>1, <1>4, <2>3, <2>4 DEF DecodeFixedOpaque, ReadFull, Bad, n
    <2>5. CASE ~(Len(in) < n)
      <3>1. SubSeq(SubSeq(in, 1, n), 1, size) = SubSeq(in, 1, size)
        BY <1>1, <2>2, <2>5
      <3>2. DecodeFixedOpaque(size, in) = Good(SubSeq(in, 1, size), n)
        BY <1>4, <2>3, <2>5, <3>1 DEF DecodeFixedOpaque, ReadFull, Good
      <3> QED BY <1>1, <2>2, <2>5, <3>2 DEF Good, n
    <2> QED BY <2>4, <2>5
  <1> QED BY <1>2, <1>3, <1>4

\* What was written is read back, and the reader stands behind it: opaque data are never
\* taken for what follows them, whatever that is, nor the reverse.
THEOREM OpaqueRoundTrip ==
    \A v, rest \in Seq(Octet) :
        Accepted(Len(v)) =>
            DecodeFixedOpaque(Len(v), EncodeFixedOpaque(v) \o rest) =
                Good(v, Len(EncodeFixedOpaque(v)))
  <1> SUFFICES ASSUME NEW v \in Seq(Octet), NEW rest \in Seq(Octet), Accepted(Len(v))
               PROVE  DecodeFixedOpaque(Len(v), EncodeFixedOpaque(v) \o rest) =
                          Good(v, Len(EncodeFixedOpaque(v)))
    OBVIOUS
  <1> DEFINE n == Len(v)
             e == EncodeFixedOpaque(v)
             in == e \o rest
  <1>1. n \in Nat /\ PaddedSize(n) = n + Pad(n) /\ Pad(n) \in 0..3 /\ ~TooLarge(n)
    BY NoWrap
  <1>2. e \in Seq(Octet) /\ Len(e) = n + Pad(n) /\ \A i \in 1..n : e[i] = v[i]
    BY Written
  <1>3. in \in Seq(Octet) /\ Len(in) >= n + Pad(n) /\ \A i \in 1..n : in[i] = v[i]
    <2>1. in \in Seq(Octet) /\ Len(in) = Len(e) + Len(rest) /\ Len(rest) \in Nat
          /\ \A i \in 1..Len(e) : in[i] = e[i]
      BY <1>2, ConcatProperties
    <2> QED BY <1>1, <1>2, <2>1
  <1> HIDE DEF e, in
  <1>4. CASE n = 0
    <2>1. v = <<>> /\ Pad(0) = 0
      BY <1>4 DEF Pad
    <2>2. Len(e) = 0
      BY <1>2, <1>4, <2>1
    <2>3. DecodeFixedOpaque(n, in) = Good(v, Len(e))
      BY <1>4, <2>1, <2>2 DEF DecodeFixedOpaque
    <2> QED BY <2>3 DEF e, in
  <1>5. CASE n # 0
    <2>1. SubSeq(SubSeq(in, 1, n + Pad(n)), 1, n) = v
      <3>1. SubSeq(SubSeq(in, 1, n + Pad(n)), 1, n) = SubSeq(in, 1, n)
        BY <1>1, <1>3
      <3>2. SubSeq(in, 1, n) = v
        BY <1>1, <1>3
      <3> QED BY <3>1, <3>2
    <2> DEFINE m == n + Pad(n)
    <2>2. m \in Nat /\ ~(Len(in) < m) /\ PaddedSize(n) = m
      BY <1>1, <1>3
    <2>3. SubSeq(SubSeq(in, 1, m), 1, n) = v
      BY <2>1
    <2> HIDE DEF m, n
    <2>4. ReadFull(in, m) = Good(SubSeq(in, 1, m), m)
      BY <2>2 DEF ReadFull
    <2>5. DecodeFixedOpaque(n, in) = Good(SubSeq(SubSeq(in, 1, m), 1, n), m)
      <3>1. /\ Good(SubSeq(in, 1, m), m).ok /\ Good(SubSeq(in, 1, m), m).n = m
            /\ Good(SubSeq(in, 1, m), m).v = SubSeq(in, 1, m)
        BY DEF Good
      <3>2. n # 0 /\ ~TooLarge(n) /\ ReadFull(in, PaddedSize(n)) = Good(SubSeq(in, 1, m), m)
        BY <1>1, <1>5, <2>2, <2>4
      <3> QED BY <3>1, <3>2, Zenon DEF DecodeFixedOpaque
    <2>6. DecodeFixedOpaque(n, in) = Good(v, m)
      BY <2>3, <2>5
    <2> QED BY <1>2, <2>6 DEF e, in, m, n
  <1> QED BY <1>4, <1>5

\* A result has three parts.
LEMMA ResultsHaveThree ==
    ASSUME NEW size, NEW in
    PROVE  LET r == DecodeFixedOpaque(size, in) IN r = [ok |-> r.ok, v |-> r.v, n |-> r.n]
  BY DEF DecodeFixedOpaque, ReadFull, Good, Bad

\* A length is read as one word, or not at all.
LEMMA LengthRead ==
    ASSUME NEW in \in Seq(Octet)
    PROVE  LET l == DecodeUint(in)
           IN  /\ l.n \in 0..Len(in)
               /\ l.ok => l.n = 4 /\ l.v \in Lengths
  <1> DEFINE r == ReadFull(in, 4)
             x == Unsigned(r.v)
  <1>1. Len(in) \in Nat
    OBVIOUS
  <1>2. /\ r.n \in 0..Len(in) /\ r.ok \in BOOLEAN
        /\ r.ok => r.n = 4
    BY <1>1 DEF ReadFull, Good, Bad
  <1>3. NumRange(Uint32) = 0..(Radix4 - 1) /\ Width(Uint32) = 4 /\ ~Uint32.signed
    BY DEF NumRange, Uint32, Num, Width, Radix
  <1> HIDE DEF r, x
  <1>4. DecodeUint(in) = IF r.ok /\ x \in 0..(Radix4 - 1) THEN Good(x, r.n) ELSE Bad(r.n)
    BY <1>3 DEF DecodeUint, DecodeNumber, r, x
  <1>5. ASSUME x \in 0..(Radix4 - 1) PROVE x \in Lengths
    <2>1. Radix4 - 1 = 2 * MaxInt32 + 1
      BY BaseAssumption, MaxInt32Assumption
    <2> QED BY <1>5, <2>1 DEF Lengths
  <1>6. CASE r.ok /\ x \in 0..(Radix4 - 1)
    <2>1. DecodeUint(in) = Good(x, r.n)
      BY <1>4, <1>6
    <2> QED BY <1>2, <1>5, <1>6, <2>1 DEF Good
  <1>7. CASE ~(r.ok /\ x \in 0..(Radix4 - 1))
    <2>1. DecodeUint(in) = Bad(r.n)
      BY <1>4, <1>7
    <2> QED BY <1>2, <2>1 DEF Bad
  <1> QED BY <1>6, <1>7

\* Whatever octets are on the wire, DecodeOpaque takes no more than there are, and what it
\* returns are as many as the length says, in its place: a length that lies is an error.
THEOREM LengthsDoNotLie ==
    \A in \in Seq(Octet) :
        LET r == DecodeOpaque(in)
        IN  /\ r.n \in 0..Len(in)
            /\ r.ok => LET size == DecodeUint(in).v
                       IN  /\ Accepted(size)
                           /\ r.n = 4 + size + Pad(size)
                           /\ r.v = SubSeq(in, 5, 4 + size)
  <1> SUFFICES ASSUME NEW in \in Seq(Octet)
               PROVE  LET r == DecodeOpaque(in)
                      IN  /\ r.n \in 0..Len(in)
                          /\ r.ok => LET size == DecodeUint(in).v
                                     IN  /\ Accepted(size)
                                         /\ r.n = 4 + size + Pad(size)
                                         /\ r.v = SubSeq(in, 5, 4 + size)
    OBVIOUS
  <1> DEFINE l == DecodeUint(in)
             size == l.v
             behind == From(in, 4)
             r == DecodeFixedOpaque(size, behind)
  <1>1. l.n \in 0..Len(in) /\ (l.ok => l.n = 4 /\ size \in Lengths)
    BY LengthRead
  <1> HIDE DEF l
  <1>2. CASE ~l.ok \/ size > MaxInt32
    <2>1. DecodeOpaque(in) = Bad(l.n)
      BY <1>2 DEF DecodeOpaque, l
    <2> QED BY <1>1, <2>1 DEF Bad
  <1>3. CASE ~(~l.ok \/ size > MaxInt32)
    <2>1. l.n = 4 /\ size \in 0..MaxInt32 /\ Len(in) \in Nat /\ 4 <= Len(in)
      BY <1>1, <1>3, MaxInt32Assumption DEF Lengths
    <2>2. /\ behind \in Seq(Octet) /\ Len(behind) = Len(in) - 4
          /\ \A i \in 1..Len(behind) : behind[i] = in[4 + i]
      <3>1. behind = SubSeq(in, 5, Len(in))
        BY DEF From
      <3>2. \A i \in 5..Len(in) : in[i] \in Octet
        BY <2>1
      <3>3. /\ SubSeq(in, 5, Len(in)) \in Seq(Octet)
            /\ Len(SubSeq(in, 5, Len(in))) = IF 5 <= Len(in) THEN Len(in) - 5 + 1 ELSE 0
            /\ \A i \in 1..(Len(in) - 5 + 1) : SubSeq(in, 5, Len(in))[i] = in[5 + i - 1]
        BY <2>1, <3>2, SubSeqProperties
      <3> HIDE DEF behind
      <3>4. behind \in Seq(Octet) /\ Len(behind) = Len(in) - 4
        <4>1. ASSUME NEW n \in Nat, 4 <= n PROVE (IF 5 <= n THEN n - 5 + 1 ELSE 0) = n - 4
          BY <4>1
        <4>2. (IF 5 <= Len(in) THEN Len(in) - 5 + 1 ELSE 0) = Len(in) - 4
          BY <2>1, <4>1
        <4> QED BY <3>1, <3>3, <4>2, Zenon
      <3>5. ASSUME NEW i \in 1..Len(behind) PROVE behind[i] = in[4 + i]
        <4>1. i \in 1..(Len(in) - 5 + 1) /\ 5 + i - 1 = 4 + i
          BY <2>1, <3>4
        <4> QED BY <3>1, <3>3, <4>1
      <3> QED BY <3>4, <3>5
    <2>3. /\ r.n \in 0..Len(behind)
          /\ r.ok => r.n = size + Pad(size) /\ r.v = SubSeq(behind, 1, size)
      BY <2>1, <2>2, OpaqueWithinInput
    <2>4. DecodeOpaque(in) = [r EXCEPT !.n = 4 + @]
      BY <1>3, <2>1 DEF DecodeOpaque, After, l
    <2>5. r.ok => Accepted(size)
      <3>1. CASE size = 0
        BY <3>1, MaxInt32Assumption, AcceptedLengths DEF Lengths
      <3>2. CASE size # 0 /\ r.ok
        BY <2>1, <3>2 DEF Accepted, DecodeFixedOpaque, Bad
      <3> QED BY <3>1, <3>2
    <2> DEFINE all == DecodeOpaque(in)
    <2> HIDE DEF r, behind
    <2>6. r = [ok |-> r.ok, v |-> r.v, n |-> r.n]
      BY ResultsHaveThree DEF r
    <2> SUFFICES ASSUME TRUE
                 PROVE  /\ all.n \in 0..Len(in)
                        /\ all.ok => /\ Accepted(size)
                                     /\ all.n = 4 + size + Pad(size)
                                     /\ all.v = SubSeq(in, 5, 4 + size)
      BY DEF l
    <2>7. all.ok = r.ok /\ all.v = r.v /\ all.n = 4 + r.n
      BY <2>4, <2>6
    <2> HIDE DEF all
    <2>8. all.n \in 0..Len(in)
      BY <2>1, <2>2, <2>3, <2>7
    <2>9. ASSUME all.ok
          PROVE  /\ Accepted(size)
                 /\ all.n = 4 + size + Pad(size)
                 /\ all.v = SubSeq(in, 5, 4 + size)
      <3>1. Pad(size) \in 0..3 /\ size \in Nat
        BY <2>1, PadAligns
      <3>2. r.n = size + Pad(size) /\ r.v = SubSeq(behind, 1, size)
        BY <2>3, <2>7, <2>9
      <3>3. all.n = 4 + size + Pad(size)
        BY <2>7, <3>1, <3>2
      <3>4. size <= Len(behind)
        BY <2>2, <2>1, <2>3, <3>1, <3>2
      <3>5. SubSeq(behind, 1, size) = SubSeq(in, 5, 4 + size)
        BY <2>1, <2>2, <3>1, <3>4
      <3> QED BY <2>5, <2>7, <2>9, <3>2, <3>3, <3>5
    <2> QED BY <2>8, <2>9
  <1> QED BY <1>2, <1>3

\* What stands behind the first four octets.
LEMMA Behind ==
    ASSUME NEW e \in Seq(Octet), NEW rest \in Seq(Octet)
    PROVE  From(e \o rest, Len(e)) = rest
  <1> DEFINE in == e \o rest
  <1>1. /\ in \in Seq(Octet) /\ Len(in) = Len(e) + Len(rest)
        /\ \A i \in 1..Len(rest) : in[Len(e) + i] = rest[i]
    OBVIOUS
  <1> HIDE DEF in
  <1>2. SubSeq(in, Len(e) + 1, Len(in)) = rest
    BY <1>1
  <1> QED BY <1>2 DEF From, in

\* Two pieces on the wire, one behind the other.
LEMMA Joined ==
    ASSUME NEW a \in Seq(Octet), NEW b \in Seq(Octet)
    PROVE  a \o b \in Seq(Octet) /\ Len(a \o b) = Len(a) + Len(b)
  OBVIOUS

\* What is taken before is counted.
LEMMA Counted == ASSUME NEW w, NEW k \in Nat PROVE After(4, Good(w, k)) = Good(w, 4 + k)
  <1>1. ASSUME NEW ok, NEW r, r = [ok |-> ok, v |-> w, n |-> k]
        PROVE  [r EXCEPT !.n = 4 + r.n] = [ok |-> ok, v |-> w, n |-> 4 + k]
    <2>1. r.n = k
      BY <1>1
    <2>2. [[ok |-> ok, v |-> w, n |-> k] EXCEPT !.n = 4 + k] = [ok |-> ok, v |-> w, n |-> 4 + k]
      OBVIOUS
    <2> QED BY <1>1, <2>1, <2>2, Zenon
  <1>2. [Good(w, k) EXCEPT !.n = 4 + Good(w, k).n] = Good(w, 4 + k)
    BY <1>1, Zenon DEF Good
  <1> QED BY <1>2 DEF After

\* What is left of two pieces when it is cut off in the second.
LEMMA CutBehind ==
    ASSUME NEW a \in Seq(Octet), NEW b \in Seq(Octet),
           NEW n \in Len(a)..(Len(a) + Len(b))
    PROVE  /\ SubSeq(b, 1, n - Len(a)) \in Seq(Octet)
           /\ SubSeq(a \o b, 1, n) = a \o SubSeq(b, 1, n - Len(a))
  <1>1. Len(a) \in Nat /\ Len(b) \in Nat /\ n \in Nat
    OBVIOUS
  <1>2. ASSUME NEW c \in Seq(Octet), Len(c) = n - Len(a), \A i \in 1..Len(c) : c[i] = b[i]
        PROVE  SubSeq(a \o b, 1, n) = a \o c
    <2>1. ASSUME NEW s \in Seq(Octet), s = a \o b
          PROVE  SubSeq(s, 1, n) \in Seq(Octet) /\ Len(SubSeq(s, 1, n)) = n
      BY <1>1, <2>1
    <2>2. SubSeq(a \o b, 1, n) \in Seq(Octet) /\ Len(SubSeq(a \o b, 1, n)) = n
      BY <2>1, ConcatProperties
    <2>3. a \o c \in Seq(Octet) /\ Len(a \o c) = n
      BY <1>1, <1>2
    <2>4. ASSUME NEW i \in 1..n PROVE SubSeq(a \o b, 1, n)[i] = (a \o c)[i]
      <3>1. i <= Len(a) \/ i > Len(a)
        BY <1>1
      <3>2. CASE i <= Len(a)
        BY <1>1, <1>2, <3>2
      <3>3. CASE i > Len(a)
        BY <1>1, <1>2, <3>3
      <3> QED BY <3>1, <3>2, <3>3, Zenon
    <2> QED BY <2>2, <2>3, <2>4, SeqEqual
  <1>3. /\ SubSeq(b, 1, n - Len(a)) \in Seq(Octet)
        /\ Len(SubSeq(b, 1, n - Len(a))) = n - Len(a)
        /\ \A i \in 1..(n - Len(a)) : SubSeq(b, 1, n - Len(a))[i] = b[i]
    BY <1>1
  <1> QED BY <1>2, <1>3

\* A length that is encoded is read back, whatever follows it.
LEMMA LengthReadBack ==
    ASSUME NEW n \in 0..MaxInt32, NEW rest \in Seq(Octet)
    PROVE  /\ EncodeNumber(n, 4) \in Seq(Octet) /\ Len(EncodeNumber(n, 4)) = 4
           /\ DecodeUint(EncodeNumber(n, 4) \o rest) = Good(n, 4)
  <1>1. n \in Int /\ n \in 0..(Radix4 - 1)
    BY MaxInt32Assumption, Radixes
  <1>2. Uint32 \in NumTypes
    BY DEF NumTypes, Uint32, Num
  <1>3. NumRange(Uint32) = 0..(Radix4 - 1) /\ Width(Uint32) = 4
    BY DEF NumRange, Uint32, Num, Width, Radix
  <1>4. n \in NumRange(Uint32)
    BY <1>1, <1>3
  <1>5. DecodeNumber(Uint32, EncodeNumber(n, Width(Uint32)) \o rest) = Good(n, Width(Uint32))
    BY <1>2, <1>4, NumberRoundTrip
  <1> QED BY <1>1, <1>3, <1>5, NumberOctets DEF DecodeUint

\* Opaque data stand behind their length.
LEMMA OpaqueOctets ==
    ASSUME NEW v \in Seq(Octet), Accepted(Len(v))
    PROVE  /\ Len(v) \in 0..MaxInt32 /\ Pad(Len(v)) \in 0..3
           /\ EncodeNumber(Len(v), 4) \in Seq(Octet) /\ Len(EncodeNumber(Len(v), 4)) = 4
           /\ EncodeFixedOpaque(v) \in Seq(Octet)
           /\ Len(EncodeFixedOpaque(v)) = Len(v) + Pad(Len(v))
           /\ EncodeOpaque(v) \in Seq(Octet)
           /\ Len(EncodeOpaque(v)) = 4 + Len(v) + Pad(Len(v))
  <1> DEFINE l == EncodeNumber(Len(v), 4)
             d == EncodeFixedOpaque(v)
  <1>1. Len(v) \in 0..MaxInt32 /\ Pad(Len(v)) \in 0..3
    BY PadAligns, MaxInt32Assumption DEF Accepted
  <1>2. l \in Seq(Octet) /\ Len(l) = 4
    BY <1>1, EmptySeq, LengthReadBack
  <1>3. d \in Seq(Octet) /\ Len(d) = Len(v) + Pad(Len(v))
    BY Written
  <1> HIDE DEF l, d
  <1>4. l \o d \in Seq(Octet) /\ Len(l \o d) = 4 + Len(v) + Pad(Len(v))
    <2>1. l \o d \in Seq(Octet) /\ Len(l \o d) = 4 + (Len(v) + Pad(Len(v)))
      BY <1>2, <1>3, Joined, Zenon
    <2>2. 4 + (Len(v) + Pad(Len(v))) = 4 + Len(v) + Pad(Len(v))
      BY <1>1
    <2> QED BY <2>1, <2>2, Zenon
  <1>5. EncodeOpaque(v) = l \o d
    BY DEF EncodeOpaque, l, d
  <1> QED BY <1>1, <1>2, <1>3, <1>4, <1>5 DEF l, d

\* Opaque data and their length are read back as they were written, whatever follows
\* them: EncodeOpaque and EncodeString with DecodeOpaque and DecodeString.
THEOREM OpaqueWithLengthRoundTrip ==
    \A v, rest \in Seq(Octet) :
        Accepted(Len(v)) => DecodeOpaque(EncodeOpaque(v) \o rest) = Good(v, Len(EncodeOpaque(v)))
  <1> SUFFICES ASSUME NEW v \in Seq(Octet), NEW rest \in Seq(Octet), Accepted(Len(v))
               PROVE  DecodeOpaque(EncodeOpaque(v) \o rest) = Good(v, Len(EncodeOpaque(v)))
    OBVIOUS
  <1> DEFINE n == Len(v)
             l == EncodeNumber(n, 4)
             d == EncodeFixedOpaque(v)
  <1>1. n \in 0..MaxInt32 /\ l \in Seq(Octet) /\ Len(l) = 4 /\ d \in Seq(Octet)
    BY OpaqueOctets
  <1>2. EncodeOpaque(v) = l \o d
    BY DEF EncodeOpaque
  <1>3. d \o rest \in Seq(Octet)
    BY <1>1
  <1>4. DecodeUint(l \o (d \o rest)) = Good(n, 4)
    BY <1>1, <1>3, LengthReadBack
  <1>5. DecodeFixedOpaque(n, d \o rest) = Good(v, Len(d))
    BY OpaqueRoundTrip
  <1> HIDE DEF l, d, n
  <1>6. (l \o d) \o rest = l \o (d \o rest)
    BY <1>1, ConcatAssociative, SMTT(30)
  <1>7. Len(l \o d) = 4 + Len(d) /\ Len(d) \in Nat
    <2>1. Len(d) \in Nat
      BY <1>1, LenProperties
    <2>2. Len(l \o d) = Len(l) + Len(d)
      BY <1>1, Joined, Zenon
    <2> QED BY <1>1, <2>1, <2>2, Zenon
  <1>8. From(l \o (d \o rest), 4) = d \o rest
    BY <1>1, <1>3, Behind
  <1>9. Good(n, 4).ok /\ Good(n, 4).v = n /\ Good(n, 4).n = 4 /\ ~(n > MaxInt32)
    BY <1>1, MaxInt32Assumption DEF Good
  <1>10. DecodeOpaque(l \o (d \o rest)) = After(4, Good(v, Len(d)))
    BY <1>4, <1>5, <1>8, <1>9, Zenon DEF DecodeOpaque
  <1>11. After(4, Good(v, Len(d))) = Good(v, 4 + Len(d))
    BY <1>7, Counted
  <1> QED BY <1>2, <1>6, <1>7, <1>10, <1>11, Zenon

\* A string or []byte that ends too early is an error, wherever it ends.
THEOREM ShortOpaqueFails ==
    \A v \in Seq(Octet) : \A n \in 0..(Len(EncodeOpaque(v)) - 1) :
        Accepted(Len(v)) => ~DecodeOpaque(SubSeq(EncodeOpaque(v), 1, n)).ok
  <1> SUFFICES ASSUME NEW v \in Seq(Octet), NEW n \in 0..(Len(EncodeOpaque(v)) - 1), Accepted(Len(v)),
                      DecodeOpaque(SubSeq(EncodeOpaque(v), 1, n)).ok
               PROVE  FALSE
    OBVIOUS
  <1> DEFINE size == Len(v)
             l == EncodeNumber(size, 4)
             d == EncodeFixedOpaque(v)
             e == EncodeOpaque(v)
             in == SubSeq(e, 1, n)
             tail == SubSeq(d, 1, n - 4)
  <1>1. /\ size \in 0..MaxInt32 /\ Pad(size) \in 0..3
        /\ l \in Seq(Octet) /\ Len(l) = 4
        /\ d \in Seq(Octet) /\ Len(d) = size + Pad(size)
        /\ e \in Seq(Octet) /\ Len(e) = 4 + size + Pad(size)
    BY OpaqueOctets
  <1>2. e = l \o d
    BY DEF EncodeOpaque
  <1>3. DecodeOpaque(in).ok /\ n \in 0..(Len(e) - 1)
    OBVIOUS
  <1> HIDE DEF l, d, e
  <1>4. size \in Nat /\ n \in Nat /\ n < 4 + size + Pad(size)
    BY <1>1, <1>3, MaxInt32Assumption
  <1>5. in \in Seq(Octet) /\ Len(in) = n /\ \A i \in 1..n : in[i] = e[i]
    BY <1>1, <1>4
  <1> HIDE DEF in
  <1>6. /\ DecodeOpaque(in).n \in 0..n
        /\ DecodeOpaque(in).n = 4 + DecodeUint(in).v + Pad(DecodeUint(in).v)
    BY <1>3, <1>5, LengthsDoNotLie
  <1>7. DecodeUint(in).ok
    BY <1>3 DEF DecodeOpaque, Bad
  <1>8. n >= 4
    BY <1>4, <1>5, <1>7, LengthRead
  <1>9. tail \in Seq(Octet) /\ in = l \o tail
    <2>1. n \in 4..(4 + Len(d))
      BY <1>1, <1>4, <1>8, SMTT(30)
    <2>2. n \in Len(l)..(Len(l) + Len(d)) /\ n - Len(l) = n - 4
      BY <1>1, <2>1
    <2>3. tail \in Seq(Octet) /\ SubSeq(l \o d, 1, n) = l \o tail
      <3>1. /\ SubSeq(d, 1, n - Len(l)) \in Seq(Octet)
            /\ SubSeq(l \o d, 1, n) = l \o SubSeq(d, 1, n - Len(l))
        BY <1>1, <2>2, CutBehind, Zenon
      <3> QED BY <2>2, <3>1, Zenon
    <2> QED BY <1>2, <2>3, Zenon DEF in
  <1> HIDE DEF tail, size
  <1>10. DecodeUint(l \o tail) = Good(size, 4)
    BY <1>1, <1>9, LengthReadBack DEF l
  <1>11. DecodeUint(in).v = size
    BY <1>9, <1>10 DEF Good
  <1> QED BY <1>1, <1>4, <1>6, <1>11
=============================================================================

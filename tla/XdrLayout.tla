----------------------------- MODULE XdrLayout -----------------------------
(***************************************************************************)
(* Sizes in the XDR codec (internal/go-xdr/xdr2): how opaque data are      *)
(* padded to whole words of four octets, and which lengths read from the   *)
(* wire the decoder takes.  The code computes the padded size in int32.    *)
(***************************************************************************)
EXTENDS Integers

CONSTANT MaxInt32

\* 2^31 - 1 in the code.
ASSUME MaxInt32Assumption == MaxInt32 \in Nat /\ MaxInt32 >= 3 /\ (MaxInt32 + 1) % 4 = 0

Lengths == 0..(2 * MaxInt32 + 1)

\* pad := (4 - (size % 4)) % 4
Pad(size) == (4 - (size % 4)) % 4

\* The int32 that the sum of two int32 wraps to.
Wrap(x) == IF x > MaxInt32 THEN x - 2 * (MaxInt32 + 1) ELSE x

PaddedSize(size) == Wrap(size + Pad(size))

\* uint(paddedSize) > uint(math.MaxInt32): a negative int32 is a huge uint.
TooLarge(size) == PaddedSize(size) < 0

\* What DecodeOpaque and DecodeString take, without a limit on the reader.
Accepted(dataLen) == dataLen <= MaxInt32 /\ ~TooLarge(dataLen)
=============================================================================

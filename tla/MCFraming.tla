------------------------------ MODULE MCFraming ------------------------------
(***************************************************************************)
(* Packets for TLC: one that fits the buffer of a bufio.Writer behind the  *)
(* header and one that does not; on the way in, one with a payload and one *)
(* without.                                                                *)
(***************************************************************************)
EXTENDS Framing

CONSTANTS Small, Large

SmallAndLarge == {Small, Large}
SmallThenLarge == [k \in {Small, Large} |-> IF k = Large THEN 2 * BufferSize ELSE 1]
TwoThenNone == [n \in 1..MaxPackets |-> (n + 1) % 3]
=============================================================================

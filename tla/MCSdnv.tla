------------------------------- MODULE MCSdnv -------------------------------
(* Inputs of Sdnv for TLC. *)
EXTENDS Sdnv

Edge == {{}, {0}, {6}, 0 .. 6, {7}, 0 .. 7}

\* Strings of n bytes with every first byte that can matter to compaction (a
\* lowest or highest bit set, or all bits below one), a last byte with and
\* without its low bits, and the bytes between alike.
FirstByte == Edge \cup {0 .. k : k \in 0 .. 5} \cup {{k} : k \in 1 .. 5}
Wide(n) ==
  { [x \in 0 .. n - 1 |-> IF x = 0 THEN a ELSE IF x = n - 1 THEN c ELSE b] :
      a \in FirstByte, b \in {{}, 0 .. 7, {0, 2, 5}}, c \in {{}, {0}, 0 .. 7, {1, 7}} }

\* All strings of one and two bytes over the edge values, the 32-bit words of
\* the fields, and the wider ones up to the 64-bit word of the dictionary size.
MCInputs ==
  [0 .. 0 -> Byte] \cup [0 .. 1 -> Edge] \cup [0 .. 3 -> Edge]
    \cup UNION {Wide(n) : n \in 2 .. 8}
=============================================================================

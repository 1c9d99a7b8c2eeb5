-------------------------------- MODULE Sdnv --------------------------------
(***************************************************************************)
(* The encoder of self-delimiting numeric values, sdnv.c: a number is cut  *)
(* into groups of seven bits, most significant first, one to a byte; the   *)
(* high bit of a byte, CONTINUE, says that another byte follows.           *)
(*                                                                         *)
(* A byte is modelled by the set of its bits, and the number a sequence of *)
(* bytes stands for by the set of the positions of its bits, so numbers of *)
(* any width can be compared.  Byte strings are functions from 0 .. n - 1, *)
(* the indices of the C arrays.                                            *)
(***************************************************************************)
EXTENDS Integers

CONSTANT Inputs   \* the byte strings sdnv_encode is called with, big-endian

Byte == SUBSET (0 .. 7)
CONTINUE == {7}

ASSUME InputsAssumption ==
  \A in \in Inputs : \E n \in 1 .. 16 : in \in [0 .. n - 1 -> Byte]

VARIABLES
  pc,       \* where the call of sdnv_encode is
  bytes,    \* the argument: byte_count is its length
  params,   \* params of sdnv_encode: whether to compact, and the length
  out,      \* the bytes of the SDNV
  i, j,     \* the current input and output byte
  bit,      \* the current bit index
  lo        \* the low bits of the previous byte

vars == <<pc, bytes, params, out, i, j, bit, lo>>

-----------------------------------------------------------------------------
(* Slips the properties notice; the model does not use them. *)
BytesCeil(n) == (n * 8 + 7) \div 7                  \* the ceiling, rounded up twice
MaskShort(k) == IF k = 0 THEN {} ELSE 8 - k .. 7    \* one bit short
LoMasked(b, k) == {x - (8 - k) : x \in {y \in b : y >= 8 - k}} \* one bit short
NextBitOpen(k) == k + 1                             \* does not start again
SkipNone(b) == 0                                    \* keeps leading zeros
MsbBare ==                                          \* no CONTINUE of its own
  lo \cup (IF params.compact THEN {x + bit : x \in bytes[i]} \cap (0 .. 7) ELSE {})

-----------------------------------------------------------------------------
\* The length of a byte string.
Count(b) == CHOOSE n \in 1 .. 18 : DOMAIN b = 0 .. n - 1

\* max_bytes: the ceiling of 8 n / 7
max_bytes(n) == (n * 8 + 7 - 1) \div 7

\* skip_bytes: the index of the first byte that is not zero, or of the last.
skip_bytes(b) ==
  CHOOSE s \in DOMAIN b :
    /\ b[s] # {} \/ s = Count(b) - 1
    /\ \A r \in 0 .. s - 1 : b[r] = {}

\* MASKS of compact_msb: the k + 1 most significant bits.
Mask(k) == 7 - k .. 7

compact_msb(first, n) == first \cap Mask((n - 1) % 8) = {}

sdnv_params(b) ==
  LET n       == Count(b) - skip_bytes(b)
      compact == compact_msb(b[skip_bytes(b)], n)
      len     == max_bytes(n) - (IF compact THEN 1 ELSE 0)
  IN  [compact |-> compact, len |-> IF len = 0 THEN 1 ELSE len]

sdnv_len(b) == sdnv_params(b).len

\* The 7 - k low bits of b, at the top of the seven bits of an output byte;
\* and its other bits, at the bottom of the next one.  With k = 7 there are
\* none of the former and all eight are of the latter.
Hi(b, k) == {x + k : x \in {y \in b : y < 7 - k}}
Lo(b, k) == {x - (7 - k) : x \in {y \in b : y >= 7 - k}}

NextBit(k) == (k + 1) % 8

-----------------------------------------------------------------------------
\* sdnv_init leaves the bytes as malloc made them: Unwritten, which is no byte,
\* until they are assigned.
Unwritten == {8}

Init ==
  /\ pc = "ready"
  /\ bytes \in Inputs
  /\ params = [compact |-> FALSE, len |-> 0]
  /\ out = << >>
  /\ i = 0 /\ j = 0 /\ bit = 0 /\ lo = {}

\* sdnv_encode, up to its loop.
Start ==
  /\ pc = "ready"
  /\ pc' = "loop"
  /\ params' = sdnv_params(bytes)
  /\ out' = [x \in 0 .. params'.len - 1 |-> Unwritten]
  /\ i' = Count(bytes) - 1
  /\ j' = params'.len - 1
  /\ UNCHANGED <<bytes, bit, lo>>

\* "Loop until most-significant output byte."
Turn ==
  /\ pc = "loop" /\ j # 0
  /\ out' = [out EXCEPT ![j] = CONTINUE \cup Hi(bytes[i], bit) \cup lo]
  /\ lo' = Lo(bytes[i], bit)
  /\ i' = IF bit # 7 THEN i - 1 ELSE i
  /\ j' = j - 1
  /\ bit' = NextBit(bit)
  /\ UNCHANGED <<pc, bytes, params>>

\* The most significant output byte, with the bits of an input byte the loop
\* did not visit; bits shifted beyond the byte are lost.
Msb ==
  CONTINUE \cup lo \cup
    IF params.compact
    THEN {x + bit : x \in bytes[i]} \cap (0 .. 7)
    ELSE {}

Finish ==
  /\ pc = "loop" /\ j = 0
  /\ out' = LET filled == [out EXCEPT ![0] = Msb]
            IN  [filled EXCEPT ![params.len - 1] = @ \ CONTINUE]
  /\ pc' = "done"
  /\ UNCHANGED <<bytes, params, i, j, bit, lo>>

\* The call has returned.
Returned == pc = "done" /\ UNCHANGED vars

Next == Start \/ Turn \/ Finish \/ Returned

Spec == Init /\ [][Next]_vars

-----------------------------------------------------------------------------
(* Properties *)

Encoded == pc = "done"

\* The positions of the bits of a number: of a byte string, and of a string
\* of groups of seven bits (the high bit of each is no part of it).
Number(b, n) ==
  UNION {{8 * (n - 1 - x) + y : y \in b[x]} : x \in 0 .. n - 1}
Grouped(b, x, n) == {7 * (n - 1 - x) + y : y \in b[x] \ CONTINUE}
Decoded(b, n) == UNION {Grouped(b, x, n) : x \in 0 .. n - 1}

\* The type invariant: indices within the arrays they index, bytes of eight bits.
TypeOK ==
  /\ pc \in {"ready", "loop", "done"}
  /\ bytes \in [0 .. Count(bytes) - 1 -> Byte]
  /\ params \in [compact : BOOLEAN, len : 0 .. max_bytes(Count(bytes))]
  /\ out \in [0 .. params.len - 1 -> Byte \cup {Unwritten}]
  /\ pc # "ready" => params.len > 0
  /\ i \in -1 .. Count(bytes) - 1
  /\ j \in 0 .. (IF pc = "ready" THEN 0 ELSE params.len - 1)
  /\ bit \in 0 .. 7
  /\ lo \in Byte

\* The bytes the code indexes are in the input, though i, a size_t, may have
\* wrapped around when the loop ends.
IndexSafe ==
  pc = "loop" /\ (j # 0 \/ params.compact) => i \in DOMAIN bytes

\* Decoding the SDNV as RFC 5050 says gives back the number: all bits, however
\* they straddle the bytes, and none that the compaction dropped.
DecodesBack ==
  Encoded => Decoded(out, params.len) = Number(bytes, Count(bytes))

\* While the loop runs, the output bytes written so far, the bits kept in lo
\* and the input bytes not yet visited hold the number between them.
NothingLost ==
  pc = "loop" =>
    LET n    == Count(bytes)
        done == 7 * (params.len - 1 - j)
        low  == UNION {Grouped(out, x, params.len) : x \in j + 1 .. params.len - 1}
        kept == {done + x : x \in lo}
        rest == UNION {{8 * (n - 1 - x) + y : y \in bytes[x]} : x \in 0 .. i}
    IN  low \cup kept \cup rest = Number(bytes, n)

\* The reader of an SDNV stops at its first byte without CONTINUE: that is the
\* last one, so the length written is the length sdnv_len announced.
SelfDelimiting ==
  Encoded => \A x \in 0 .. params.len - 1 :
               7 \in out[x] <=> x < params.len - 1

\* "Number of bytes needed to encode the given input": no shorter SDNV holds
\* the number.
Shortest(b) ==
  \/ sdnv_len(b) = 1
  \/ \E x \in Number(b, Count(b)) : x >= 7 * (sdnv_len(b) - 1)

LengthIsNeeded == Encoded => Shortest(bytes)

\* The same for numbers of at most 56 bits, all the program writes.
ShortLengthIsNeeded == Count(bytes) - skip_bytes(bytes) <= 7 => LengthIsNeeded
=============================================================================

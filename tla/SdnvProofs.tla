----------------------------- MODULE SdnvProofs -----------------------------
(***************************************************************************)
(* Theorems about Sdnv, for all inputs: the indices stay within the        *)
(* arrays, no bit is lost on the way, and what is written delimits itself. *)
(* Numbers of at most 64 bits are decoded to what was encoded.             *)
(***************************************************************************)
EXTENDS Sdnv, WellFoundedInduction, TLAPS

-----------------------------------------------------------------------------
(* The length of an input, and of its SDNV *)

LEMMA Counted ==
  ASSUME NEW b \in Inputs
  PROVE  Count(b) \in 1 .. 16 /\ b \in [0 .. Count(b) - 1 -> Byte]
PROOF
  <1>1. PICK n \in 1 .. 16 : b \in [0 .. n - 1 -> Byte]
    BY InputsAssumption
  <1>2. \A k \in 1 .. 18 : DOMAIN b = 0 .. k - 1 <=> k = n
    <2>1. DOMAIN b = 0 .. n - 1
      BY <1>1
    <2>2. ASSUME NEW k \in 1 .. 18, 0 .. n - 1 = 0 .. k - 1 PROVE k = n
      <3>1. n - 1 \in 0 .. k - 1 /\ k - 1 \in 0 .. n - 1
        BY <2>2
      <3> QED
        BY <3>1
    <2> QED
      BY <2>1, <2>2
  <1>3. \E k \in 1 .. 18 : DOMAIN b = 0 .. k - 1
    <2>1. DOMAIN b = 0 .. n - 1 /\ n \in 1 .. 18
      BY <1>1
    <2> QED
      BY <2>1
  <1>4. Count(b) \in 1 .. 18 /\ DOMAIN b = 0 .. Count(b) - 1
    BY <1>3 DEF Count
  <1>5. Count(b) = n
    BY <1>2, <1>4
  <1> QED
    BY <1>1, <1>5

LEMMA Skipped ==
  ASSUME NEW b \in Inputs
  PROVE  /\ skip_bytes(b) \in 0 .. Count(b) - 1
         /\ b[skip_bytes(b)] # {} \/ skip_bytes(b) = Count(b) - 1
         /\ \A r \in 0 .. skip_bytes(b) - 1 : b[r] = {}
PROOF
  <1> DEFINE T == {s \in DOMAIN b : b[s] # {} \/ s = Count(b) - 1}
  <1>1. Count(b) \in 1 .. 16 /\ DOMAIN b = 0 .. Count(b) - 1
    BY Counted
  <1>2. T \subseteq Nat /\ T # {}
    <2>1. Count(b) - 1 \in T
      BY <1>1
    <2>2. \A s \in DOMAIN b : s \in Nat
      BY <1>1
    <2> QED
      BY <2>1, <2>2
  <1> HIDE DEF T
  <1>3. PICK s \in T : \A r \in T : ~ (r < s)
    <2>1. PICK s \in T : \A r \in T : <<r, s>> \notin OpToRel(<, Nat)
      BY <1>2, NatLessThanWellFounded, WFMin, Zenon
    <2>2. \A r \in T : ~ (r < s)
      BY <1>2, <2>1 DEF OpToRel
    <2> QED
      BY <2>2
  <1>4. \A r \in 0 .. s - 1 : b[r] = {}
    <2>1. s \in 0 .. Count(b) - 1 /\ Count(b) \in Nat
      BY <1>1 DEF T
    <2>2. ASSUME NEW r \in 0 .. s - 1 PROVE b[r] = {}
      <3>1. r \in DOMAIN b /\ r < s
        BY <1>1, <2>1
      <3>2. r \notin T
        BY <1>3, <3>1
      <3> QED
        BY <3>1, <3>2 DEF T
    <2> QED
      BY <2>2
  <1>5. \E x \in DOMAIN b : /\ b[x] # {} \/ x = Count(b) - 1
                            /\ \A r \in 0 .. x - 1 : b[r] = {}
    BY <1>4 DEF T
  <1> QED
    BY <1>1, <1>5 DEF skip_bytes

\* How many bytes of the input are encoded, and what that says of the length.
Significant(b) == Count(b) - skip_bytes(b)

LEMMA Lengths ==
  ASSUME NEW b \in Inputs
  PROVE  LET m == Significant(b)
             p == sdnv_params(b)
         IN  /\ m \in 1 .. Count(b)
             /\ p \in [compact : BOOLEAN, len : Nat]
             /\ p.len > 0 /\ p.len <= max_bytes(Count(b))
             /\ p.compact = (b[skip_bytes(b)] \cap Mask((m - 1) % 8) = {})
             /\ p.compact => 7 * p.len < 8 * m /\ 8 * m <= 7 * p.len + 7
             /\ ~ p.compact => 8 * m <= 7 * p.len /\ 7 * p.len <= 8 * m + 6
PROOF
  <1> DEFINE m == Significant(b)
             p == sdnv_params(b)
             c == b[skip_bytes(b)] \cap Mask((m - 1) % 8) = {}
  <1>1. Count(b) \in 1 .. 16 /\ m \in 1 .. Count(b)
    <2>1. Count(b) \in 1 .. 16
      BY Counted
    <2>2. skip_bytes(b) \in 0 .. Count(b) - 1
      BY Skipped
    <2> QED
      BY <2>1, <2>2 DEF Significant
  <1>2. /\ max_bytes(m) \in Nat
        /\ 7 * max_bytes(m) <= 8 * m + 6 /\ 8 * m <= 7 * max_bytes(m)
        /\ max_bytes(m) <= max_bytes(Count(b)) /\ max_bytes(m) > 1
    BY <1>1 DEF max_bytes
  <1>3. p.compact = c /\ p.len = max_bytes(m) - IF c THEN 1 ELSE 0
    BY <1>2 DEF sdnv_params, compact_msb, Significant
  <1>4. p \in [compact : BOOLEAN, len : Nat]
    BY <1>2, <1>3 DEF sdnv_params, compact_msb, Significant
  <1> HIDE DEF c, p, m
  <1>5. p.len > 0 /\ p.len <= max_bytes(Count(b))
    BY <1>1, <1>2, <1>3 DEF max_bytes
  <1>6. p.compact => 7 * p.len < 8 * m /\ 8 * m <= 7 * p.len + 7
    BY <1>1, <1>2, <1>3
  <1>7. ~ p.compact => 8 * m <= 7 * p.len /\ 7 * p.len <= 8 * m + 6
    BY <1>1, <1>2, <1>3
  <1>8. p.compact = (b[skip_bytes(b)] \cap Mask((m - 1) % 8) = {})
    BY <1>3 DEF c
  <1> QED
    BY <1>1, <1>4, <1>5, <1>6, <1>7, <1>8 DEF m, p

-----------------------------------------------------------------------------
(* The inductive invariant *)

Fresh ==
  /\ params = [compact |-> FALSE, len |-> 0] /\ out = << >>
  /\ i = 0 /\ j = 0 /\ bit = 0 /\ lo = {}

Working ==
  /\ params = sdnv_params(bytes)
  /\ out \in [0 .. params.len - 1 -> Byte \cup {Unwritten}]
  /\ i \in -1 .. Count(bytes) - 1
  /\ j \in 0 .. params.len - 1
  /\ bit \in 0 .. 7
  /\ lo \in Byte

\* The bits of the input bytes the loop is done with are as many as those
\* of the output bytes it has written, of seven each, and those it carries.  Where
\* an output byte has ended with an input byte, all of the latter may be carried:
\* it is visited again.
Progress ==
  /\ 8 * (Count(bytes) - 1 - i) = 7 * (params.len - 1 - j) + bit
  /\ j # 0 \/ params.compact => i \in skip_bytes(bytes) .. Count(bytes) - 1
  /\ bit # 0 => lo \subseteq 0 .. bit - 1
  /\ bit = 0 => lo = {} \/ (i \in DOMAIN bytes /\ lo \subseteq bytes[i])
  /\ \A x \in j + 1 .. params.len - 1 : out[x] \in Byte /\ 7 \in out[x]

IInv ==
  /\ bytes \in Inputs
  /\ \/ pc = "ready" /\ Fresh
     \/ pc = "loop" /\ Working /\ Progress
     \/ pc = "done" /\ Working /\ SelfDelimiting

LEMMA InitHolds == Init => IInv
PROOF
  BY DEF Init, IInv, Fresh

LEMMA StartStep ==
  ASSUME IInv, Start
  PROVE  IInv'
PROOF
  <1> DEFINE n == Count(bytes)
             L == sdnv_params(bytes).len
  <1>1. /\ bytes \in Inputs /\ bytes' = bytes /\ pc' = "loop"
        /\ params' = sdnv_params(bytes) /\ i' = n - 1 /\ j' = L - 1
        /\ bit' = 0 /\ lo' = {}
        /\ out' = [x \in 0 .. L - 1 |-> Unwritten]
    BY DEF IInv, Start, Fresh
  <1>2. n \in 1 .. 16 /\ skip_bytes(bytes) \in 0 .. n - 1
    BY <1>1, Counted, Skipped
  <1>3. L \in Nat /\ L > 0
    BY <1>1, Lengths
  <1>4. Working'
    BY <1>1, <1>2, <1>3 DEF Working, Byte
  <1>5. 8 * (Count(bytes') - 1 - i') = 7 * (params'.len - 1 - j') + bit'
    BY <1>1, <1>2, <1>3
  <1>6. /\ i' \in skip_bytes(bytes') .. Count(bytes') - 1
        /\ bit' = 0 /\ lo' = {} /\ j' + 1 .. params'.len - 1 = {}
    BY <1>1, <1>2, <1>3
  <1>7. Progress'
    BY <1>5, <1>6 DEF Progress
  <1> QED
    BY <1>1, <1>4, <1>7 DEF IInv

\* The parts into which a turn cuts a byte.
LEMMA HiLo ==
  ASSUME NEW b \in Byte, NEW k \in 0 .. 7
  PROVE  /\ Hi(b, k) \subseteq k .. 6
         /\ Lo(b, k) \subseteq 0 .. k
         /\ k = 7 => Lo(b, k) = b
PROOF
  <1>1. Hi(b, k) \subseteq k .. 6
    BY DEF Hi, Byte
  <1>2. Lo(b, k) \subseteq 0 .. k
    BY DEF Lo, Byte
  <1>3. ASSUME k = 7 PROVE Lo(b, k) = b
    <2>1. \A x \in b : x \in 0 .. 7 /\ x >= 7 - k /\ x - (7 - k) = x
      BY <1>3 DEF Byte
    <2> QED
      BY <2>1 DEF Lo
  <1> QED
    BY <1>1, <1>2, <1>3

\* What the count of bits says of the index of the input.
LEMMA Room ==
  ASSUME NEW n \in Int, NEW t \in Int, NEW L \in Nat,
         NEW x \in Int, NEW y \in 0 .. L - 1, NEW k \in 0 .. 7,
         8 * (n - 1 - x) = 7 * (L - 1 - y) + k
  PROVE  /\ x <= n - 1
         /\ 7 * L < 8 * (n - t) => x >= t
         /\ 7 * L <= 8 * (n - t) + 6 => x >= t - 1
         /\ 7 * L <= 8 * (n - t) + 6 /\ y # 0 => x >= t
PROOF
  <1>1. 8 * (n - 1 - x) <= 7 * L /\ 8 * (n - 1 - x) >= 0
    OBVIOUS
  <1>2. y # 0 => 8 * (n - 1 - x) <= 7 * L - 7
    OBVIOUS
  <1>3. x <= n - 1
    BY <1>1
  <1>4. 7 * L < 8 * (n - t) => x >= t
    BY <1>1
  <1>5. 7 * L <= 8 * (n - t) + 6 => x >= t - 1
    BY <1>1
  <1>6. 7 * L <= 8 * (n - t) + 6 /\ y # 0 => x >= t
    BY <1>2
  <1> QED
    BY <1>3, <1>4, <1>5, <1>6

LEMMA TurnStep ==
  ASSUME IInv, Turn
  PROVE  IInv'
PROOF
  <1> DEFINE n == Count(bytes)
             L == params.len
             s == skip_bytes(bytes)
             b == bytes[i]
             w == CONTINUE \cup Hi(b, bit) \cup lo
  <1>1. Working /\ Progress /\ bytes \in Inputs /\ j # 0
    BY DEF IInv, Turn
  <1>2. n \in 1 .. 16 /\ s \in 0 .. n - 1 /\ bytes \in [0 .. n - 1 -> Byte]
    BY <1>1, Counted, Skipped
  <1>3. /\ L \in Nat /\ params.compact \in BOOLEAN
        /\ params.compact => 7 * L < 8 * (n - s)
        /\ ~ params.compact => 7 * L <= 8 * (n - s) + 6
    BY <1>1, Lengths DEF Working, Significant
  <1>4. i \in 0 .. n - 1 /\ j \in 1 .. L - 1 /\ bit \in 0 .. 7 /\ b \in Byte
    <2>1. i \in 0 .. n - 1
      BY <1>1, <1>2 DEF Progress
    <2> QED
      BY <1>1, <1>2, <1>3, <2>1 DEF Working
  <1>5. /\ j' = j - 1 /\ bit' = NextBit(bit) /\ lo' = Lo(b, bit)
        /\ i' = (IF bit # 7 THEN i - 1 ELSE i)
        /\ out' = [out EXCEPT ![j] = w]
        /\ UNCHANGED <<pc, bytes, params>>
    BY DEF Turn
  <1>6. bit' = (IF bit = 7 THEN 0 ELSE bit + 1) /\ bit' \in 0 .. 7
    BY <1>4, <1>5 DEF NextBit
  <1>7. 8 * (n - 1 - i') = 7 * (L - 1 - j') + bit'
    <2>1. 8 * (n - 1 - i) = 7 * (L - 1 - j) + bit
      BY <1>1 DEF Progress
    <2> HIDE DEF n, L
    <2>2. CASE bit = 7
      BY <1>2, <1>3, <1>4, <1>5, <1>6, <2>1, <2>2
    <2>3. CASE bit # 7
      BY <1>2, <1>3, <1>4, <1>5, <1>6, <2>1, <2>3
    <2> QED
      BY <2>2, <2>3
  <1>8. i' \in Int /\ j' \in 0 .. L - 1
    BY <1>3, <1>4, <1>5
  <1>9. /\ i' \in -1 .. n - 1
        /\ j' # 0 \/ params.compact => i' \in s .. n - 1
    <2>1. n \in Int /\ s \in Int /\ L \in Nat /\ s >= 0
      <3> HIDE DEF n, L, s
      <3> QED
        BY <1>2, <1>3
    <2> DEFINE x == i'
               y == j'
               k == bit'
    <2>2. x \in Int /\ y \in 0 .. L - 1 /\ k \in 0 .. 7
      BY <1>6, <1>8
    <2>3. 8 * (n - 1 - x) = 7 * (L - 1 - y) + k
      BY <1>7
    <2> HIDE DEF n, L, s, x, y, k
    <2>4. /\ x <= n - 1
          /\ 7 * L < 8 * (n - s) => x >= s
          /\ 7 * L <= 8 * (n - s) + 6 => x >= s - 1
          /\ 7 * L <= 8 * (n - s) + 6 /\ y # 0 => x >= s
      BY ONLY <2>1, <2>2, <2>3, Room
    <2>5. x >= s - 1 /\ (y # 0 \/ params.compact => x >= s)
      <3>1. CASE params.compact
        <4>1. x >= s
          BY <1>3, <2>4, <3>1
        <4> QED
          BY <2>1, <2>2, <4>1
      <3>2. CASE ~ params.compact
        BY <1>3, <2>4, <3>2
      <3> QED
        BY <3>1, <3>2
    <2> QED
      BY <2>1, <2>2, <2>4, <2>5 DEF x, y
  <1>10. Hi(b, bit) \subseteq 0 .. 6 /\ lo' \subseteq 0 .. bit /\ (bit = 7 => lo' = b)
    BY <1>4, <1>5, HiLo
  <1>11. w \in Byte /\ 7 \in w
    <2>1. Hi(b, bit) \subseteq 0 .. 7 /\ lo \subseteq 0 .. 7
      BY <1>1, <1>10 DEF Working, Byte
    <2>2. CONTINUE \subseteq 0 .. 7 /\ 7 \in CONTINUE
      BY DEF CONTINUE
    <2>3. w \subseteq 0 .. 7 /\ 7 \in w
      BY <2>1, <2>2
    <2> QED
      BY <2>3 DEF Byte
  <1>12. /\ out' \in [0 .. L - 1 -> Byte \cup {Unwritten}]
         /\ \A x \in j' + 1 .. L - 1 : out'[x] \in Byte /\ 7 \in out'[x]
    <2>1. /\ out \in [0 .. L - 1 -> Byte \cup {Unwritten}]
          /\ \A x \in j + 1 .. L - 1 : out[x] \in Byte /\ 7 \in out[x]
      BY <1>1 DEF Working, Progress
    <2> HIDE DEF w, L
    <2> QED
      BY <1>3, <1>4, <1>5, <1>11, <2>1
  <1>13. Working'
    <2>1. params' = sdnv_params(bytes') /\ params'.len = L /\ bytes' = bytes
      BY <1>1, <1>5 DEF Working
    <2>2. lo' \in Byte
      BY <1>4, <1>10 DEF Byte
    <2> HIDE DEF L, b
    <2> QED
      BY <1>6, <1>8, <1>9, <1>12, <2>1, <2>2 DEF Working
  <1>14. /\ bit' # 0 => lo' \subseteq 0 .. bit' - 1
         /\ bit' = 0 => i' \in DOMAIN bytes' /\ lo' \subseteq bytes'[i']
    <2>1. CASE bit = 7
      BY <1>2, <1>4, <1>5, <1>6, <1>10, <2>1
    <2>2. CASE bit # 7
      BY <1>4, <1>6, <1>10, <2>2
    <2> QED
      BY <2>1, <2>2
  <1>15. Progress'
    BY <1>5, <1>7, <1>9, <1>12, <1>14 DEF Progress
  <1> QED
    BY <1>1, <1>5, <1>13, <1>15 DEF IInv, Turn

\* The bytes written when the loop is over.
LEMMA Finished ==
  ASSUME IInv, Finish
  PROVE  /\ Working /\ Progress /\ bytes \in Inputs
         /\ params.len \in Nat /\ params.len > 0
         /\ Msb \in Byte /\ 7 \in Msb
         /\ out' \in [0 .. params.len - 1 -> Byte \cup {Unwritten}]
         /\ \A x \in 0 .. params.len - 1 :
              out'[x] = IF x = params.len - 1
                        THEN (IF x = 0 THEN Msb ELSE out[x]) \ CONTINUE
                        ELSE IF x = 0 THEN Msb ELSE out[x]
PROOF
  <1> DEFINE L == params.len
             filled == [out EXCEPT ![0] = Msb]
  <1>1. Working /\ Progress /\ bytes \in Inputs /\ j = 0
    BY DEF IInv, Finish
  <1>2. L \in Nat /\ L > 0
    BY <1>1, Lengths DEF Working
  <1>3. Msb \in Byte /\ 7 \in Msb
    <2>1. lo \subseteq 0 .. 7
      BY <1>1 DEF Working, Byte
    <2>2. CONTINUE \subseteq 0 .. 7 /\ 7 \in CONTINUE
      BY DEF CONTINUE
    <2>3. (IF params.compact THEN {x + bit : x \in bytes[i]} \cap (0 .. 7) ELSE {})
            \subseteq 0 .. 7
      OBVIOUS
    <2> QED
      BY <2>1, <2>2, <2>3 DEF Msb, Byte
  <1>4. out \in [0 .. L - 1 -> Byte \cup {Unwritten}]
    BY <1>1 DEF Working
  <1>5. \A x \in 1 .. L - 1 : out[x] \in Byte
    BY <1>1 DEF Progress
  <1>6. out' = [filled EXCEPT ![L - 1] = filled[L - 1] \ CONTINUE]
    BY DEF Finish
  <1> HIDE DEF L
  <1>7. /\ filled \in [0 .. L - 1 -> Byte \cup {Unwritten}]
        /\ \A x \in 0 .. L - 1 : filled[x] = IF x = 0 THEN Msb ELSE out[x]
    BY <1>2, <1>3, <1>4
  <1>8. filled[L - 1] \in Byte /\ filled[L - 1] \ CONTINUE \in Byte
    <2> HIDE DEF filled
    <2>1. filled[L - 1] \in Byte
      BY <1>2, <1>3, <1>5, <1>7
    <2> QED
      BY <2>1 DEF Byte
  <1> HIDE DEF filled
  <1>9. out' \in [0 .. L - 1 -> Byte \cup {Unwritten}]
    BY <1>2, <1>6, <1>7, <1>8
  <1>10. \A x \in 0 .. L - 1 :
           out'[x] = IF x = L - 1 THEN filled[L - 1] \ CONTINUE ELSE filled[x]
    BY <1>2, <1>6, <1>7
  <1> QED
    BY <1>1, <1>2, <1>3, <1>7, <1>9, <1>10 DEF L

LEMMA FinishStep ==
  ASSUME IInv, Finish
  PROVE  IInv'
PROOF
  <1> DEFINE L == params.len
  <1>1. /\ Working /\ Progress /\ bytes \in Inputs
        /\ L \in Nat /\ L > 0 /\ 7 \in Msb
    BY Finished
  <1>2. UNCHANGED <<bytes, params, i, j, bit, lo>> /\ pc' = "done"
    BY DEF Finish
  <1>3. Working'
    BY <1>1, <1>2, Finished DEF Working
  <1>4. \A x \in 0 .. L - 1 : 7 \in out'[x] <=> x < L - 1
    <2> TAKE x \in 0 .. L - 1
    <2>1. x # 0 => 7 \in out[x]
      <3>1. j + 1 = 1
        BY DEF Finish
      <3> QED
        BY <1>1, <3>1 DEF Progress
    <2>2. out'[x] = IF x = L - 1 THEN (IF x = 0 THEN Msb ELSE out[x]) \ CONTINUE
                    ELSE IF x = 0 THEN Msb ELSE out[x]
      BY Finished
    <2>3. CASE x = L - 1
      BY <1>1, <2>2, <2>3 DEF CONTINUE
    <2>4. CASE x # L - 1
      BY <1>1, <2>1, <2>2, <2>4
    <2> QED
      BY <2>3, <2>4
  <1>5. SelfDelimiting'
    BY <1>2, <1>4 DEF SelfDelimiting, Encoded
  <1> QED
    BY <1>1, <1>2, <1>3, <1>5 DEF IInv

LEMMA Inductive == IInv /\ [Next]_vars => IInv'
PROOF
  <1> SUFFICES ASSUME IInv, [Next]_vars PROVE IInv'
    OBVIOUS
  <1>1. CASE Start
    BY <1>1, StartStep
  <1>2. CASE Turn
    BY <1>2, TurnStep
  <1>3. CASE Finish
    BY <1>3, FinishStep
  <1>4. CASE UNCHANGED vars
    BY <1>4 DEF vars, IInv, Fresh, Working, Progress, SelfDelimiting, Encoded
  <1> QED
    BY <1>1, <1>2, <1>3, <1>4 DEF Next, Returned

LEMMA Invariance == Spec => []IInv
PROOF
  BY InitHolds, Inductive, PTL DEF Spec

\* The types, and that every index lies in its array: the length sdnv_params
\* computes is no more than what is left of the input fills (sdnv_encode, sdnv.c).
THEOREM TypeCorrect == Spec => []TypeOK
PROOF
  <1>1. IInv => TypeOK
    <2> SUFFICES ASSUME IInv PROVE TypeOK
      OBVIOUS
    <2>1. Count(bytes) \in 1 .. 16 /\ bytes \in [0 .. Count(bytes) - 1 -> Byte]
      BY Counted DEF IInv
    <2>2. CASE pc = "ready"
      <3>1. Fresh /\ max_bytes(Count(bytes)) \in Nat
        <4>1. Fresh
          BY <2>2 DEF IInv
        <4>2. \A n \in 1 .. 16 : max_bytes(n) \in Nat
          BY DEF max_bytes
        <4> QED
          BY <2>1, <4>1, <4>2
      <3>2. out \in [0 .. 0 - 1 -> Byte \cup {Unwritten}]
        BY <3>1 DEF Fresh
      <3>3. params \in [compact : BOOLEAN, len : 0 .. max_bytes(Count(bytes))] /\ params.len = 0
        BY <3>1 DEF Fresh
      <3> QED
        BY <2>1, <2>2, <3>1, <3>2, <3>3 DEF TypeOK, Fresh, Byte
    <2>3. CASE pc \in {"loop", "done"}
      <3>1. Working
        BY <2>3 DEF IInv
      <3>2. /\ params \in [compact : BOOLEAN, len : Nat]
            /\ params.len > 0 /\ params.len <= max_bytes(Count(bytes))
        BY <3>1, Lengths DEF IInv, Working
      <3>3. params \in [compact : BOOLEAN, len : 0 .. max_bytes(Count(bytes))]
        BY <2>1, <3>2 DEF max_bytes
      <3> QED
        BY <2>1, <2>3, <3>1, <3>2, <3>3 DEF TypeOK, Working
    <2> QED
      BY <2>2, <2>3 DEF IInv
  <1> QED
    BY <1>1, Invariance, PTL

\* The index of the input byte is in the input whenever that byte is read, also
\* behind the loop, where it may have wrapped around below zero (sdnv.c).
THEOREM IndicesSafe == Spec => []IndexSafe
PROOF
  <1>1. IInv => IndexSafe
    <2> SUFFICES ASSUME IInv, pc = "loop", j # 0 \/ params.compact
                 PROVE  i \in DOMAIN bytes
      BY DEF IndexSafe
    <2>1. bytes \in Inputs /\ i \in skip_bytes(bytes) .. Count(bytes) - 1
      BY DEF IInv, Progress
    <2>2. Count(bytes) \in 1 .. 16 /\ DOMAIN bytes = 0 .. Count(bytes) - 1
      BY <2>1, Counted
    <2>3. skip_bytes(bytes) \in 0 .. Count(bytes) - 1
      BY <2>1, Skipped
    <2> QED
      BY ONLY <2>1, <2>2, <2>3
  <1> QED
    BY <1>1, Invariance, PTL

\* The last byte of an SDNV is the first without CONTINUE, for every input: a
\* reader that stops there has read as many bytes as sdnv_len announced.
THEOREM DelimitsItself == Spec => []SelfDelimiting
PROOF
  <1>1. IInv => SelfDelimiting
    BY DEF IInv, SelfDelimiting, Encoded
  <1> QED
    BY <1>1, Invariance, PTL

-----------------------------------------------------------------------------
(* No bit is lost *)

\* The numbers in the output bytes behind y, and in the input bytes up to k.
Low(f, y, len) == UNION {Grouped(f, x, len) : x \in y + 1 .. len - 1}
Rest(b, k, n) == UNION {{8 * (n - 1 - x) + y : y \in b[x]} : x \in 0 .. k}
Kept(y, len, l) == {7 * (len - 1 - y) + x : x \in l}

Held ==
  Low(out, j, params.len) \cup Kept(j, params.len, lo) \cup Rest(bytes, i, Count(bytes))

LEMMA HeldIs == NothingLost <=> (pc = "loop" => Held = Number(bytes, Count(bytes)))
PROOF
  BY DEF NothingLost, Held, Low, Kept, Rest

Shift(d, s) == {d + y : y \in s}

\* What is carried into an input byte, with k of its bits free; if none are, all of
\* the byte may be carried already.
Carried(b, k, l) ==
  /\ b \in Byte /\ k \in 0 .. 7 /\ l \in Byte
  /\ IF k = 0 THEN l \subseteq b ELSE l \subseteq 0 .. k - 1

\* A turn distributes a byte and what was carried to the byte it writes and what
\* it carries on.
Distributes(b, k, l, d) ==
  Shift(d, (CONTINUE \cup Hi(b, k) \cup l) \ CONTINUE) \cup Shift(d + 7, Lo(b, k))
    = Shift(d, l) \cup Shift(d + k, b)

LEMMA Distributed ==
  ASSUME NEW b, NEW k, NEW l, Carried(b, k, l), NEW d \in Nat
  PROVE  Distributes(b, k, l, d)
PROOF
  <1> DEFINE v == (CONTINUE \cup Hi(b, k) \cup l) \ CONTINUE
  <1>1. b \subseteq 0 .. 7 /\ l \subseteq 0 .. 7 /\ k \in 0 .. 7
    BY DEF Carried, Byte
  <1>2. ASSUME NEW y \in v PROVE d + y \in {d + x : x \in l} \cup {d + k + x : x \in b}
    <2>1. CASE y \in l
      BY <2>1
    <2>2. CASE y \in Hi(b, k)
      <3>1. PICK x \in b : y = x + k
        BY <2>2 DEF Hi
      <3>2. d + y = d + k + x
        BY <1>1, <3>1
      <3> QED
        BY <3>2
    <2> QED
      BY <1>2, <2>1, <2>2 DEF CONTINUE
  <1>3. ASSUME NEW z \in Lo(b, k) PROVE d + 7 + z \in {d + k + x : x \in b}
    <2>1. PICK x \in b : z = x - (7 - k)
      BY DEF Lo
    <2>2. d + 7 + z = d + k + x
      BY <1>1, <2>1
    <2> QED
      BY <2>2
  <1>4. ASSUME NEW x \in b
        PROVE  d + k + x \in {d + y : y \in v} \cup {d + 7 + z : z \in Lo(b, k)}
    <2>1. CASE x < 7 - k
      <3>1. x + k \in Hi(b, k) /\ x + k # 7
        BY <1>1, <2>1 DEF Hi
      <3>2. x + k \in v /\ d + k + x = d + (x + k)
        BY <1>1, <3>1 DEF CONTINUE
      <3> QED
        BY <3>2
    <2>2. CASE x >= 7 - k
      <3>1. x - (7 - k) \in Lo(b, k)
        BY <2>2 DEF Lo
      <3>2. d + k + x = d + 7 + (x - (7 - k))
        BY <1>1
      <3> QED
        BY <3>1, <3>2
    <2> QED
      BY <1>1, <2>1, <2>2
  <1>5. ASSUME NEW y \in l
        PROVE  d + y \in {d + x : x \in v} \cup {d + 7 + z : z \in Lo(b, k)}
    <2>1. CASE y # 7
      BY <2>1 DEF CONTINUE
    <2>2. CASE y = 7
      <3>1. k = 0 /\ 7 \in b
        BY <1>5, <2>2 DEF Carried
      <3>2. 0 \in Lo(b, k) /\ d + y = d + 7 + 0
        <4>1. 7 - (7 - k) = 0 /\ 7 >= 7 - k
          BY <3>1
        <4> QED
          BY <2>2, <3>1, <4>1 DEF Lo
      <3> QED
        BY <3>2
    <2> QED
      BY <2>1, <2>2
  <1> HIDE DEF v
  <1>6. {d + y : y \in v} \cup {d + 7 + z : z \in Lo(b, k)}
          = {d + y : y \in l} \cup {d + k + x : x \in b}
    <2>1. {d + y : y \in v} \cup {d + 7 + z : z \in Lo(b, k)}
            \subseteq {d + y : y \in l} \cup {d + k + x : x \in b}
      BY <1>2, <1>3
    <2>2. {d + y : y \in l} \cup {d + k + x : x \in b}
            \subseteq {d + y : y \in v} \cup {d + 7 + z : z \in Lo(b, k)}
      BY <1>4, <1>5
    <2> QED
      BY <2>1, <2>2
  <1> QED
    BY <1>6 DEF v, Shift, Distributes

\* One more byte on either side.
LEMMA LowMore ==
  ASSUME NEW f, NEW g, NEW len \in Nat, NEW y \in 1 .. len - 1,
         \A x \in y + 1 .. len - 1 : g[x] = f[x]
  PROVE  Low(g, y - 1, len) = Low(f, y, len) \cup Grouped(g, y, len)
PROOF
  <1>1. (y - 1) + 1 .. len - 1 = (y + 1 .. len - 1) \cup {y}
    OBVIOUS
  <1>2. \A x \in y + 1 .. len - 1 : Grouped(g, x, len) = Grouped(f, x, len)
    BY DEF Grouped
  <1> QED
    BY <1>1, <1>2 DEF Low

LEMMA RestLess ==
  ASSUME NEW b, NEW n \in Nat, NEW k \in 0 .. n - 1
  PROVE  Rest(b, k, n) = Rest(b, k - 1, n) \cup {8 * (n - 1 - k) + y : y \in b[k]}
PROOF
  <1>1. 0 .. k = (0 .. k - 1) \cup {k}
    OBVIOUS
  <1> QED
    BY <1>1 DEF Rest

LEMMA StartHolds ==
  ASSUME IInv, Start
  PROVE  Held' = Number(bytes, Count(bytes))'
PROOF
  <1> DEFINE L == sdnv_params(bytes).len
             n == Count(bytes)
  <1>1. bytes \in Inputs /\ lo = {}
    BY DEF IInv, Start, Fresh
  <1>2. L \in Nat /\ n \in Nat
    <2>1. L \in Nat
      BY <1>1, Lengths
    <2>2. n \in Nat
      BY <1>1, Counted
    <2> QED
      BY <2>1, <2>2
  <1>3. params'.len = L /\ j' = L - 1 /\ i' = n - 1 /\ lo' = {} /\ bytes' = bytes
    BY <1>1 DEF Start
  <1>4. Low(out', L - 1, L) = {}
    <2>1. L - 1 + 1 .. L - 1 = {}
      BY <1>2
    <2> QED
      BY <2>1 DEF Low
  <1>5. Kept(L - 1, L, {}) = {}
    BY DEF Kept
  <1>6. Rest(bytes, n - 1, n) = Number(bytes, n)
    BY DEF Rest, Number
  <1> QED
    BY <1>3, <1>4, <1>5, <1>6 DEF Held

LEMMA TurnHolds ==
  ASSUME IInv, Turn
  PROVE  Held' = Held
PROOF
  <1> DEFINE n == Count(bytes)
             L == params.len
             d == 7 * (L - 1 - j)
             B == {8 * (n - 1 - i) + y : y \in bytes[i]}
  <1>1. Working /\ Progress /\ bytes \in Inputs
    BY DEF IInv, Turn
  <1>2. n \in 1 .. 16 /\ skip_bytes(bytes) \in 0 .. n - 1 /\ bytes \in [0 .. n - 1 -> Byte]
    BY <1>1, Counted, Skipped
  <1>3. L \in Nat
    BY <1>1, Lengths DEF Working
  <1>4. /\ i \in 0 .. n - 1 /\ j \in 1 .. L - 1 /\ bit \in 0 .. 7
        /\ bytes[i] \in Byte /\ lo \in Byte
    <2>1. i \in 0 .. n - 1 /\ j # 0
      BY <1>1, <1>2 DEF Progress, Turn
    <2> QED
      BY <1>1, <1>2, <1>3, <2>1 DEF Working
  <1>5. d \in Nat /\ 8 * (n - 1 - i) = d + bit /\ 7 * (L - 1 - (j - 1)) = d + 7
    <2>1. 8 * (n - 1 - i) = 7 * (L - 1 - j) + bit
      BY <1>1 DEF Progress
    <2> HIDE DEF n, L
    <2> QED
      BY <1>2, <1>3, <1>4, <2>1
  <1>6. /\ j' = j - 1 /\ lo' = Lo(bytes[i], bit)
        /\ i' = (IF bit # 7 THEN i - 1 ELSE i)
        /\ out' = [out EXCEPT ![j] = CONTINUE \cup Hi(bytes[i], bit) \cup lo]
        /\ UNCHANGED <<bytes, params>>
    BY DEF Turn
  <1>7. /\ out'[j] = CONTINUE \cup Hi(bytes[i], bit) \cup lo
        /\ \A x \in j + 1 .. L - 1 : out'[x] = out[x]
    BY <1>1, <1>4, <1>6 DEF Working
  <1>8. Low(out', j', L) = Low(out, j, L) \cup Grouped(out', j, L)
    <2> HIDE DEF L
    <2>1. Low(out', j - 1, L) = Low(out, j, L) \cup Grouped(out', j, L)
      <3>1. \A x \in j + 1 .. L - 1 : out'[x] = out[x]
        BY <1>7
      <3>2. L \in Nat /\ j \in 1 .. L - 1
        BY <1>3, <1>4
      <3> HIDE DEF d, B, n
      <3> QED
        BY ONLY <3>1, <3>2, LowMore
    <2> QED
      BY <1>6, <2>1
  <1>9. Grouped(out', j, L) \cup Kept(j', L, lo') = Kept(j, L, lo) \cup B
    <2>1. Grouped(out', j, L) = Shift(d, (CONTINUE \cup Hi(bytes[i], bit) \cup lo) \ CONTINUE)
      BY <1>7 DEF Grouped, Shift
    <2>2. Kept(j', L, lo') = Shift(d + 7, Lo(bytes[i], bit))
      BY <1>5, <1>6 DEF Kept, Shift
    <2>3. Kept(j, L, lo) = Shift(d, lo)
      BY DEF Kept, Shift
    <2>4. B = Shift(d + bit, bytes[i])
      BY <1>5 DEF Shift
    <2>5. (bit # 0 => lo \subseteq 0 .. bit - 1) /\ (bit = 0 => lo \subseteq bytes[i])
      BY <1>1 DEF Progress
    <2> HIDE DEF d, B, L
    <2>6. Distributes(bytes[i], bit, lo, d)
      <3>1. d \in Nat /\ Carried(bytes[i], bit, lo)
        BY <1>4, <1>5, <2>5 DEF Carried
      <3> QED
        BY ONLY <3>1, Distributed
    <2> QED
      BY ONLY <2>1, <2>2, <2>3, <2>4, <2>6 DEF Distributes
  <1>10. Rest(bytes, i, n) = Rest(bytes, i', n) \cup B
    <2>1. Rest(bytes, i, n) = Rest(bytes, i - 1, n) \cup B
      <3> HIDE DEF n
      <3> QED
        BY <1>2, <1>4, RestLess
    <2> HIDE DEF B, n
    <2> QED
      BY <1>6, <2>1
  <1>11. Held' = Low(out', j', L) \cup Kept(j', L, lo') \cup Rest(bytes, i', n)
    BY <1>6 DEF Held
  <1>12. Held = Low(out, j, L) \cup Kept(j, L, lo) \cup Rest(bytes, i, n)
    BY DEF Held
  <1> HIDE DEF L, n, B
  <1> QED
    BY <1>8, <1>9, <1>10, <1>11, <1>12

\* At each turn the bytes written, the bits carried and the bytes to come make up
\* the number, for inputs of every length (the loop of sdnv_encode, sdnv.c).
THEOREM NothingIsLost == Spec => []NothingLost
PROOF
  <1>1. Init => NothingLost
    BY DEF Init, NothingLost
  <1>2. IInv /\ NothingLost /\ [Next]_vars => NothingLost'
    <2> SUFFICES ASSUME IInv, NothingLost, [Next]_vars PROVE NothingLost'
      OBVIOUS
    <2>1. CASE Start
      BY <2>1, StartHolds, HeldIs DEF NothingLost, Held, Low, Kept, Rest
    <2>2. CASE Turn
      <3>1. Held = Number(bytes, Count(bytes)) /\ bytes' = bytes
        BY <2>2, HeldIs DEF Turn
      <3>2. Held' = Number(bytes, Count(bytes))'
        BY <2>2, <3>1, TurnHolds
      <3> QED
        BY <3>2 DEF NothingLost, Held, Low, Kept, Rest
    <2>3. CASE Finish
      BY <2>3 DEF Finish, NothingLost
    <2>4. CASE UNCHANGED vars
      BY <2>4 DEF NothingLost, vars
    <2> QED
      BY <2>1, <2>2, <2>3, <2>4 DEF Next, Returned
  <1> QED
    BY <1>1, <1>2, Invariance, PTL DEF Spec

-----------------------------------------------------------------------------
(* Decoding *)

\* Of no input are more than eight bytes encoded: the numbers are at most those
\* of a uint64_t.
Short == \A in \in Inputs : Significant(in) <= 8

\* What is decoded are the bits of the most significant byte, and the others.
LEMMA DecodedParts ==
  ASSUME IInv, Finish
  PROVE  Decoded(out', params.len)
           = Shift(7 * (params.len - 1), Msb \ CONTINUE) \cup Low(out, 0, params.len)
PROOF
  <1> DEFINE L == params.len
  <1>1. L \in Nat /\ L > 0
    BY Finished
  <1>2. \A x \in 1 .. L - 1 : out'[x] \ CONTINUE = out[x] \ CONTINUE
    <2> TAKE x \in 1 .. L - 1
    <2>1. x \in 0 .. L - 1 /\ x # 0
      OBVIOUS
    <2>2. out'[x] = IF x = L - 1 THEN out[x] \ CONTINUE ELSE out[x]
      BY <2>1, Finished
    <2> QED
      BY <2>2
  <1>3. out'[0] \ CONTINUE = Msb \ CONTINUE
    <2>1. 0 \in 0 .. L - 1
      BY <1>1
    <2>2. out'[0] = IF 0 = L - 1 THEN Msb \ CONTINUE ELSE Msb
      BY <2>1, Finished
    <2> QED
      BY <2>2
  <1> HIDE DEF L
  <1>4. Grouped(out', 0, L) = Shift(7 * (L - 1), Msb \ CONTINUE)
    <2>1. 7 * (L - 1 - 0) = 7 * (L - 1)
      BY <1>1
    <2> QED
      BY <1>3, <2>1 DEF Grouped, Shift
  <1>5. \A x \in 1 .. L - 1 : Grouped(out', x, L) = Grouped(out, x, L)
    BY <1>2 DEF Grouped
  <1>6. 0 .. L - 1 = {0} \cup (0 + 1 .. L - 1)
    BY <1>1
  <1>7. Decoded(out', L) = Grouped(out', 0, L) \cup UNION {Grouped(out', x, L) : x \in 0 + 1 .. L - 1}
    BY <1>6 DEF Decoded
  <1>8. UNION {Grouped(out', x, L) : x \in 0 + 1 .. L - 1} = Low(out, 0, L)
    BY <1>5 DEF Low
  <1> QED
    BY <1>4, <1>7, <1>8 DEF L

\* Bytes that are zero hold no bits.
LEMMA RestZero ==
  ASSUME NEW b, NEW n \in Nat, NEW k \in Int, \A r \in 0 .. k : b[r] = {}
  PROVE  Rest(b, k, n) = {}
PROOF
  BY DEF Rest

LEMMA MsbHolds ==
  ASSUME IInv, Finish, Short
  PROVE  Shift(7 * (params.len - 1), Msb \ CONTINUE)
           = Kept(0, params.len, lo) \cup Rest(bytes, i, Count(bytes))
PROOF
  <1> DEFINE n == Count(bytes)
             s == skip_bytes(bytes)
             m == Significant(bytes)
             L == params.len
             d == 7 * (L - 1)
             v == n - 1 - i
  <1>1. Working /\ Progress /\ bytes \in Inputs /\ j = 0
    BY DEF IInv, Finish
  <1>2. n \in 1 .. 16 /\ bytes \in [0 .. n - 1 -> Byte] /\ s \in 0 .. n - 1
    BY <1>1, Counted, Skipped
  <1>3. m \in 1 .. 8 /\ m = n - s
    <2>1. m = n - s
      BY DEF Significant
    <2>2. m <= 8
      BY <1>1 DEF Short
    <2> HIDE DEF m, n, s
    <2> QED
      BY <1>2, <2>1, <2>2
  <1>4. /\ L \in Nat /\ L > 0 /\ params.compact \in BOOLEAN
        /\ params.compact = (bytes[s] \cap Mask((m - 1) % 8) = {})
        /\ params.compact => 7 * L < 8 * m /\ 8 * m <= 7 * L + 7
        /\ ~ params.compact => 8 * m <= 7 * L /\ 7 * L <= 8 * m + 6
    BY <1>1, Lengths DEF Working
  <1>5. 8 * v = 7 * (L - 1) + bit /\ bit \in 0 .. 7 /\ i \in Int /\ lo \in Byte
    <2>1. 8 * (n - 1 - i) = 7 * (L - 1 - 0) + bit
      BY <1>1 DEF Progress
    <2> HIDE DEF n, L
    <2> QED
      BY <1>1, <1>4, <2>1 DEF Working
  <1>6. \A r \in 0 .. s - 1 : bytes[r] = {}
    BY <1>1, Skipped
  <1>7. Kept(0, L, lo) = Shift(d, lo)
    <2>1. 7 * (L - 1 - 0) = d
      BY <1>4
    <2> QED
      BY <2>1 DEF Kept, Shift
  <1>8. CASE ~ params.compact
    <2>1. v = m /\ bit # 0
      <3>1. v \in Int
        <4>1. n \in Int /\ i \in Int
          BY <1>2, <1>5
        <4> HIDE DEF n
        <4> QED
          BY <4>1
      <3>2. 8 * m <= 7 * L /\ 7 * L <= 8 * m + 6 /\ m \in Int /\ m <= 8 /\ m >= 1
        BY <1>3, <1>4, <1>8
      <3> HIDE DEF n, m, L, v, s
      <3>3. 8 * v <= 8 * m + 6 /\ 8 * v >= 8 * m - 7
        BY <1>4, <1>5, <3>1, <3>2
      <3>4. v = m
        BY <3>1, <3>2, <3>3
      <3> QED
        BY <1>4, <1>5, <3>2, <3>4
    <2>2. i = s - 1
      <3> HIDE DEF n, m, s
      <3> QED
        BY <1>2, <1>3, <1>5, <2>1
    <2>3. Rest(bytes, i, n) = {}
      <3>1. \A r \in 0 .. i : bytes[r] = {}
        BY <1>6, <2>2
      <3> HIDE DEF n, s
      <3> QED
        BY <1>2, <1>5, <3>1, RestZero
    <2>4. lo \subseteq 0 .. 6
      BY <1>1, <1>5, <2>1 DEF Progress
    <2>5. Msb \ CONTINUE = lo
      BY <1>8, <2>4 DEF Msb, CONTINUE
    <2> QED
      BY <1>7, <2>3, <2>5
  <1>9. CASE params.compact
    <2>1. m < 8
      <3>1. ASSUME m = 8 PROVE FALSE
        <4>1. Mask((m - 1) % 8) = 0 .. 7
          BY <3>1 DEF Mask
        <4>2. bytes[s] = {}
          BY <1>2, <1>4, <1>9, <4>1 DEF Byte
        <4>3. s = n - 1
          BY <1>1, <4>2, Skipped
        <4> QED
          BY <1>2, <1>3, <3>1, <4>3
      <3> QED
        BY <1>3, <3>1
    <2>2. v = m - 1 /\ bit = m - 1
      <3>1. v \in Int
        <4>1. n \in Int /\ i \in Int
          BY <1>2, <1>5
        <4> HIDE DEF n
        <4> QED
          BY <4>1
      <3>2. 7 * L < 8 * m /\ 8 * m <= 7 * L + 7 /\ m \in Int /\ m <= 7 /\ m >= 1
        BY <1>3, <1>4, <1>9, <2>1
      <3> HIDE DEF n, m, L, v, s
      <3>3. 8 * v < 8 * m /\ 8 * v >= 8 * m - 14
        BY <1>4, <1>5, <3>1, <3>2
      <3>4. v = m - 1
        BY <3>1, <3>2, <3>3
      <3>5. 7 * L = 7 * m
        BY <1>4, <1>5, <3>2, <3>4
      <3> QED
        BY <1>4, <1>5, <3>2, <3>4, <3>5
    <2>3. i = s
      <3> HIDE DEF n, m, s
      <3> QED
        BY <1>2, <1>3, <1>5, <2>2
    <2>4. Rest(bytes, i, n) = Shift(d + bit, bytes[i])
      <3>1. Rest(bytes, i, n) = Rest(bytes, i - 1, n) \cup {8 * (n - 1 - i) + y : y \in bytes[i]}
        <4> HIDE DEF n
        <4> QED
          BY <1>2, <2>3, RestLess
      <3>2. Rest(bytes, i - 1, n) = {}
        <4>1. (\A r \in 0 .. i - 1 : bytes[r] = {}) /\ i - 1 \in Int
          BY <1>5, <1>6, <2>3
        <4> HIDE DEF n, s
        <4> QED
          BY <1>2, <4>1, RestZero
      <3> QED
        BY <1>5, <3>1, <3>2 DEF Shift
    <2>5. bytes[i] \subseteq 0 .. 7 - m
      <3>1. (m - 1) % 8 = m - 1
        BY <1>3, <2>1
      <3>2. bytes[s] \subseteq 0 .. 7 /\ bytes[s] \cap (7 - (m - 1) .. 7) = {}
        BY <1>2, <1>4, <1>9, <3>1 DEF Byte, Mask
      <3> HIDE DEF m, s
      <3> QED
        BY <1>3, <2>3, <3>2
    <2>6. lo \subseteq 0 .. 6
      <3>1. CASE bit = 0
        BY <1>1, <1>3, <2>2, <2>5, <3>1 DEF Progress
      <3>2. CASE bit # 0
        BY <1>1, <1>5, <3>2 DEF Progress
      <3> QED
        BY <3>1, <3>2
    <2>7. {x + bit : x \in bytes[i]} \subseteq 0 .. 6
      <3> HIDE DEF m
      <3> QED
        BY <1>3, <2>2, <2>5
    <2>8. Msb \ CONTINUE = lo \cup {x + bit : x \in bytes[i]}
      BY <1>9, <2>6, <2>7 DEF Msb, CONTINUE
    <2>9. Shift(d, lo \cup {x + bit : x \in bytes[i]}) = Shift(d, lo) \cup Shift(d + bit, bytes[i])
      <3>1. \A x \in bytes[i] : d + (x + bit) = d + bit + x
        BY <1>3, <1>4, <1>5, <2>5
      <3> HIDE DEF d
      <3> QED
        BY <3>1 DEF Shift
    <2> QED
      BY <1>7, <2>4, <2>8, <2>9
  <1> QED
    BY <1>4, <1>8, <1>9

\* Decoding an SDNV gives back the number, for every number of at most 64 bits:
\* compaction drops no bit, and the last turn leaves none behind (sdnv_params and
\* sdnv_encode, sdnv.c).  Of nine bytes one could be lost.
THEOREM NumbersDecoded ==
  ASSUME Short
  PROVE  Spec => []DecodesBack
PROOF
  <1>1. Init => DecodesBack
    BY DEF Init, DecodesBack, Encoded
  <1>2. IInv /\ NothingLost /\ DecodesBack /\ [Next]_vars => DecodesBack'
    <2> SUFFICES ASSUME IInv, NothingLost, DecodesBack, [Next]_vars PROVE DecodesBack'
      OBVIOUS
    <2>1. CASE Start \/ Turn
      BY <2>1 DEF Start, Turn, DecodesBack, Encoded
    <2>2. CASE Finish
      <3>1. Held = Number(bytes, Count(bytes)) /\ j = 0
        BY <2>2, HeldIs DEF Finish
      <3>2. Decoded(out', params.len) = Number(bytes, Count(bytes))
        BY <2>2, <3>1, DecodedParts, MsbHolds DEF Held
      <3> QED
        BY <2>2, <3>2 DEF Finish, DecodesBack
    <2>3. CASE UNCHANGED vars
      BY <2>3 DEF DecodesBack, Encoded, vars
    <2> QED
      BY <2>1, <2>2, <2>3 DEF Next, Returned
  <1> QED
    BY <1>1, <1>2, Invariance, NothingIsLost, PTL DEF Spec

-----------------------------------------------------------------------------
(* The length *)

\* Where not more than seven bytes are significant, some bit needs the length
\* sdnv_len gives.
LEMMA BitNeedsLength ==
  ASSUME NEW b \in Inputs, Significant(b) <= 7
  PROVE  Shortest(b)
PROOF
  <1> DEFINE n == Count(b)
             s == skip_bytes(b)
             m == Significant(b)
             L == sdnv_params(b).len
             compact == sdnv_params(b).compact
  <1>1. n \in 1 .. 16 /\ b \in [0 .. n - 1 -> Byte] /\ s \in 0 .. n - 1
    BY Counted, Skipped
  <1>2. m \in 1 .. 7 /\ m = n - s /\ (m - 1) % 8 = m - 1
    <2>1. m \in 1 .. 7 /\ m = n - s
      BY <1>1, Lengths DEF Significant
    <2> HIDE DEF m
    <2> QED
      BY <2>1
  <1>3. /\ L \in Nat /\ compact \in BOOLEAN
        /\ compact = (b[s] \cap Mask((m - 1) % 8) = {})
        /\ compact => 7 * L < 8 * m /\ 8 * m <= 7 * L + 7
        /\ ~ compact => 8 * m <= 7 * L /\ 7 * L <= 8 * m + 6
    BY Lengths
  <1>4. (compact => L = m) /\ (~ compact => L = m + 1)
    <2> HIDE DEF m, L, compact
    <2> QED
      BY <1>2, <1>3
  <1>5. ASSUME NEW y \in b[s] PROVE 8 * (m - 1) + y \in Number(b, n) /\ y \in 0 .. 7
    <2>1. m - 1 = n - 1 - s
      <3> HIDE DEF m, n, s
      <3> QED
        BY <1>1, <1>2
    <2>2. y \in 0 .. 7
      BY <1>1, <1>5 DEF Byte
    <2>3. 8 * (n - 1 - s) + y \in Number(b, n)
      BY <1>1, <1>5 DEF Number
    <2> QED
      BY <2>1, <2>2, <2>3
  <1>6. CASE compact /\ L # 1
    <2>1. m > 1
      BY <1>2, <1>4, <1>6
    <2>2. s # n - 1
      <3> HIDE DEF m, n, s
      <3> QED
        BY <1>1, <1>2, <2>1
    <2>3. PICK y \in b[s] : TRUE
      BY <2>2, Skipped
    <2>4. 8 * (m - 1) + y >= 7 * (L - 1)
      <3>1. y \in 0 .. 7 /\ L = m
        BY <1>4, <1>5, <1>6
      <3> HIDE DEF m, L
      <3> QED
        BY <1>2, <3>1
    <2> QED
      BY <1>5, <2>4 DEF Shortest, sdnv_len
  <1>7. CASE ~ compact
    <2>1. PICK y \in b[s] : y \in 7 - (m - 1) .. 7
      BY <1>2, <1>3, <1>7 DEF Mask
    <2>2. 8 * (m - 1) + y >= 7 * (L - 1)
      <3> HIDE DEF m, L, compact, s
      <3> QED
        BY <1>2, <1>4, <1>7, <2>1
    <2> QED
      BY <1>5, <2>2 DEF Shortest, sdnv_len
  <1> QED
    BY <1>3, <1>6, <1>7 DEF Shortest, sdnv_len

\* "Number of bytes needed to encode the given input": for numbers of at most 56
\* significant bits, no shorter SDNV holds the number (sdnv_len, sdnv.c).
THEOREM LengthNeeded == Spec => []ShortLengthIsNeeded
PROOF
  <1>1. IInv => ShortLengthIsNeeded
    BY BitNeedsLength DEF IInv, ShortLengthIsNeeded, LengthIsNeeded, Significant
  <1> QED
    BY <1>1, Invariance, PTL
=============================================================================

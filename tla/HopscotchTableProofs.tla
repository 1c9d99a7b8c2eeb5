------------------------ MODULE HopscotchTableProofs ------------------------
(***************************************************************************)
(* Theorems about HopscotchTable, for tables, bitmaps and sets of hashes   *)
(* of any size.                                                            *)
(***************************************************************************)
EXTENDS HopscotchTable, WellFoundedInduction, TLAPS

USE DEF Empty

(* The table in use, apart from the operation in progress. *)
Good(t) == t.mask \in Nat /\ t.size = t.mask + 1 /\ t.size >= BucketSize /\ IsTable(t)

-----------------------------------------------------------------------------
(* Clamping *)

\* A remainder is below its divisor, for negative numbers too.
LEMMA ModRange ==
  ASSUME NEW n \in Nat \ {0}, NEW x \in Int
  PROVE  x % n \in 0 .. n - 1
  BY SMT

\* Clamping an index that has run past one end of the table wraps it to the
\* other: what HTABLE_CLAMP and HTABLE_INCR do with the slots near the ends.
LEMMA ModWraps ==
  ASSUME NEW n \in Nat \ {0}, NEW x \in (- n) .. 2 * n - 1
  PROVE  x % n = IF x < 0 THEN x + n ELSE IF x >= n THEN x - n ELSE x
<1>1. CASE x < 0 BY <1>1, SMTT(20)
<1>2. CASE x >= n BY <1>2, SMTT(20)
<1>3. CASE 0 <= x /\ x < n BY <1>3, SMTT(20)
<1>. QED BY <1>1, <1>2, <1>3

\* HTABLE_CLAMP gives the number of an allocated slot, whatever the index.
LEMMA ClampRange ==
  ASSUME NEW t, t.mask \in Nat, NEW x \in Int
  PROVE  Clamp(t, x) \in Slots(t)
<1>. DEFINE n == t.mask + 1
<1>1. n \in Nat \ {0} /\ n - 1 = t.mask
  OBVIOUS
<1>2. x % n \in 0 .. n - 1
  BY <1>1, ModRange
<1>. QED
  BY <1>1, <1>2 DEF Clamp, Slots

\* HTABLE_ALLOC makes a table of the size asked for.
LEMMA AllocGood ==
  ASSUME NEW n \in Nat, n >= BucketSize
  PROVE  Good(Alloc(n)) /\ Alloc(n).size = n
  BY ConstantsAssumption DEF Good, Alloc, IsTable, Slots

\* The scans of the table stop at a first place where they may stop.
LEMMA LeastExists ==
  ASSUME NEW S \in SUBSET Nat, S # {}
  PROVE  \E x \in S : \A y \in S : x <= y
<1>. DEFINE R == {ss \in Nat \X Nat : ss[1] < ss[2]}
<1>1. IsWellFoundedOn(R, Nat)
  BY NatLessThanWellFounded DEF OpToRel
<1>2. PICK x \in S : \A y \in S : <<y, x>> \notin R
  BY <1>1, WFMin
<1>3. \A y \in S : ~ (y < x)
  <2>1. \A y \in S : y < x => <<y, x>> \in R
    BY DEF R
  <2>. HIDE DEF R
  <2>. QED BY <1>2, <2>1
<1>. QED
  BY <1>3

\* Storing to a slot, or to a bitmap, keeps a table a table.
LEMMA StoreGood ==
  ASSUME NEW t, Good(t), NEW s \in Slots(t), NEW h \in Nat, NEW d \in Nat,
         NEW b \in Slots(t), NEW F \in SUBSET Nat
  PROVE  /\ Good([t EXCEPT !.data[s] = d])
         /\ Good([t EXCEPT !.hash[s] = h, !.data[s] = d])
         /\ Good([t EXCEPT !.hash[s] = h, !.fwd[b] = F])
         /\ Good([t EXCEPT !.fwd[b] = F])
  BY DEF Good, IsTable, Slots

\* Every outcome of "1u << n" is a set of bits.
LEMMA ShiftBitType ==
  ASSUME NEW n \in Nat
  PROVE  \A bits \in ShiftBit(n) : bits \in SUBSET Nat
<1>1. n % UintBits \in Nat
  BY ConstantsAssumption, ModRange
<1>. QED
  BY <1>1 DEF ShiftBit

-----------------------------------------------------------------------------
(* Type correctness *)

\* What TypeOK says of the tables, folded.
LEMMA TypeOKFacts ==
  ASSUME TypeOK
  PROVE  /\ Good(tab)
         /\ job \in [hash : Nat, data : Nat] /\ req \in [hash : Nat, data : Nat]
         /\ dest \in Slots(tab) /\ dest \in Int
         /\ \A x \in Int : Clamp(tab, x) \in Slots(tab)
         /\ Slots(tab) \subseteq Int
         /\ Home(tab, job.hash) \in Slots(tab)
<1>1. tab.mask \in Nat
  BY DEF TypeOK
<1>2. \A x \in Int : Clamp(tab, x) \in Slots(tab)
  BY <1>1, ClampRange
<1>. QED
  BY <1>1, <1>2 DEF TypeOK, Good, Slots, Home

\* HTABLE_ADD_HASH hands back a slot of a table, and its caller fills it.
LEMMA PlacedType ==
  ASSUME TypeOK, pc \in {"find", "place"},
         NEW t, Good(t), t.size = tab.size, t.mask = tab.mask,
         NEW s \in Slots(t), Placed(t, s)
  PROVE  TypeOK'
<1>1. Good(tab') /\ tab'.mask = tab.mask /\ tab'.size = tab.size
  <2>1. tab' = [t EXCEPT !.data[s] = job.data]
    BY DEF Placed
  <2>2. job.data \in Nat
    BY DEF TypeOK
  <2>3. Good(tab')
    BY <2>1, <2>2, StoreGood DEF Good, IsTable, Slots
  <2>. QED
    BY <2>1, <2>3 DEF Good, IsTable
<1>2. dest' \in Slots(tab') /\ UNCHANGED <<req, job, old>>
  BY <1>1 DEF Placed, TypeOK, Slots
<1>3. CASE Growing
  <2>1. pc' = "rehash" /\ i' = i + 1 /\ UNCHANGED ret
    BY <1>3 DEF Placed
  <2>2. i < old.size /\ old.size \in Nat
    BY <1>3 DEF TypeOK, IsTable
  <2>3. old' = old /\ Growing'
    BY <1>2, <1>3 DEF Growing
  <2>. QED
    BY <1>1, <1>2, <1>3, <2>1, <2>2, <2>3 DEF TypeOK, Good
<1>4. CASE ~ Growing
  BY <1>1, <1>2, <1>4 DEF Placed, TypeOK, Good, Growing
<1>. QED
  BY <1>3, <1>4

\* HTABLE_INIT leaves a table of the right shape, and no operation in progress.
LEMMA InitType == Init => TypeOK
<1>. SUFFICES ASSUME Init PROVE TypeOK
  OBVIOUS
<1>1. Good(tab) /\ tab.size = DefaultSize
  BY AllocGood, ConstantsAssumption DEF Init
<1>2. old = NoTable /\ ~ Growing
  BY DEF Init, Growing, NoTable, Alloc
<1>3. dest \in Slots(tab)
  BY <1>1, ConstantsAssumption DEF Init, Good, Slots
<1>. QED
  BY <1>1, <1>2, <1>3 DEF Init, TypeOK, Good

\* HTABLE_LOOKUP returns the data of a slot.
LEMMA FoundSlotType ==
  ASSUME TypeOK, NEW h \in Nat, Found(tab, h)
  PROVE  FoundSlot(tab, h) \in Slots(tab) /\ tab.data[FoundSlot(tab, h)] \in Nat
<1>1. Home(tab, h) \in Slots(tab)
  BY TypeOKFacts DEF Home
<1>2. Matches(tab, h) \in SUBSET Nat /\ Matches(tab, h) # {}
  BY <1>1, TypeOKFacts DEF Matches, Found, Good, IsTable
<1>3. PICK k \in Matches(tab, h) : \A j \in Matches(tab, h) : k <= j
  BY <1>2, LeastExists
<1>4. (CHOOSE x \in Matches(tab, h) : \A y \in Matches(tab, h) : x <= y) \in Nat
  BY <1>2, <1>3
<1>5. FoundSlot(tab, h) \in Slots(tab)
  BY <1>1, <1>4, TypeOKFacts DEF FoundSlot
<1>. QED
  BY <1>5, TypeOKFacts DEF Good, IsTable

\* Every step of every operation keeps the types: one proof step for each action.
LEMMA NextType == TypeOK /\ [Next]_vars => TypeOK'
<1>. SUFFICES ASSUME TypeOK, [Next]_vars PROVE TypeOK'
  OBVIOUS
<1>. USE ConstantsAssumption
<1>1. ASSUME NEW h \in Hashes, Lookup(h) PROVE TypeOK'
  <2>1. ret' \in Nat \cup {NoData}
    BY <1>1, FoundSlotType DEF Lookup
  <2>. QED
    BY <1>1, <2>1 DEF Lookup, TypeOK, Growing
<1>2. ASSUME NEW h \in Hashes, Remove(h) PROVE TypeOK'
  <2>1. CASE ~ Found(tab, h)
    BY <1>2, <2>1 DEF Remove, TypeOK, Growing
  <2>2. CASE Found(tab, h)
    <3>. DEFINE s == FoundSlot(tab, h)
                b == Home(tab, h)
    <3>1. s \in Slots(tab) /\ b \in Slots(tab) /\ tab.data[s] \in Nat
      <4>1. h \in Nat
        OBVIOUS
      <4>2. b \in Slots(tab)
        BY <4>1, TypeOKFacts DEF Home
      <4>. QED
        BY <2>2, <4>1, <4>2, FoundSlotType
    <3>2. PICK bits \in ShiftBit(Clamp(tab, s - b)) :
            tab' = [tab EXCEPT !.hash[s] = 0, !.fwd[b] = Xor(tab.fwd[b], bits)]
      BY <1>2, <2>2, <3>1, TypeOKFacts DEF Remove, Good, IsTable, Slots
    <3>3. bits \in SUBSET Nat
      <4>1. Clamp(tab, s - b) \in Nat
        BY <3>1, TypeOKFacts DEF Slots
      <4>. QED BY <4>1, ShiftBitType
    <3>4. Xor(tab.fwd[b], bits) \in SUBSET Nat
      BY <3>1, <3>3, TypeOKFacts DEF Xor, Good, IsTable
    <3>5. Good(tab')
      BY <3>1, <3>2, <3>4, TypeOKFacts, StoreGood
    <3>6. tab'.mask = tab.mask /\ tab'.size = tab.size
      BY <3>2, TypeOKFacts DEF Good, IsTable
    <3>7. pc = "idle" /\ ret' \in Nat /\ UNCHANGED <<pc, req, job, dest, old, i>>
      BY <1>2, <2>2, <3>1 DEF Remove
    <3>. QED
      BY <3>5, <3>6, <3>7 DEF TypeOK, Growing, Good, Slots
  <2>. QED BY <2>1, <2>2
<1>3. ASSUME NEW h \in Hashes, NEW d \in Data, Add(h, d) PROVE TypeOK'
  BY <1>3 DEF Add, TypeOK, Growing
<1>4. CASE FindIdentical
  <2>1. PICK k \in 0 .. BucketSize - 1 :
          Placed(tab, Clamp(tab, Home(tab, job.hash) + k))
    BY <1>4 DEF FindIdentical
  <2>2. Clamp(tab, Home(tab, job.hash) + k) \in Slots(tab)
    BY TypeOKFacts
  <2>. QED
    BY <1>4, <2>1, <2>2, TypeOKFacts, PlacedType DEF FindIdentical
<1>5. CASE FindEmpty
  <2>1. dest' \in Slots(tab)
    BY <1>5, TypeOKFacts DEF FindEmpty
  <2>. QED
    BY <1>5, <2>1 DEF FindEmpty, TypeOK, Growing
<1>6. CASE FindEmptySwap
  <2>1. dest' \in Slots(tab)
    BY <1>6, TypeOKFacts DEF FindEmptySwap, Slots
  <2>. QED
    BY <1>6, <2>1 DEF FindEmptySwap, TypeOK, Growing
<1>7. CASE Swap
  <2>. DEFINE bk(d) == Clamp(tab, dest - d)
              sl(d, k) == Clamp(tab, bk(d) + k)
  <2>1. PICK d \in 1 .. BucketSize - 1, k \in 0 .. BucketSize - 2 :
          /\ \E gone \in ShiftBit(Clamp(tab, sl(d, k) - bk(d))),
                come \in ShiftBit(Clamp(tab, dest - bk(d))) :
               tab' = [Copied(tab, sl(d, k), dest) EXCEPT
                         !.fwd[bk(d)] = Xor(@, gone) \cup come]
          /\ dest' = sl(d, k)
    BY <1>7 DEF Swap
  <2>2. bk(d) \in Slots(tab) /\ sl(d, k) \in Slots(tab)
    BY TypeOKFacts
  <2>3. PICK gone \in ShiftBit(Clamp(tab, sl(d, k) - bk(d))),
             come \in ShiftBit(Clamp(tab, dest - bk(d))) :
          tab' = [Copied(tab, sl(d, k), dest) EXCEPT
                    !.fwd[bk(d)] = Xor(@, gone) \cup come]
    BY <2>1
  <2>4. gone \in SUBSET Nat /\ come \in SUBSET Nat
    <3>1. Clamp(tab, sl(d, k) - bk(d)) \in Nat /\ Clamp(tab, dest - bk(d)) \in Nat
      BY <2>2, TypeOKFacts DEF Slots
    <3>. QED BY <3>1, ShiftBitType
  <2>5. Good(Copied(tab, sl(d, k), dest)) /\ Copied(tab, sl(d, k), dest).fwd = tab.fwd
        /\ Copied(tab, sl(d, k), dest).mask = tab.mask
        /\ Copied(tab, sl(d, k), dest).size = tab.size
    <3>1. tab.hash[sl(d, k)] \in Nat /\ tab.data[sl(d, k)] \in Nat
      BY <2>2, TypeOKFacts DEF Good, IsTable
    <3>. HIDE DEF sl
    <3>2. Good(Copied(tab, sl(d, k), dest))
      BY <3>1, TypeOKFacts, StoreGood DEF Copied
    <3>. QED
      BY <3>2, TypeOKFacts DEF Copied, Good, IsTable
  <2>6. Xor(tab.fwd[bk(d)], gone) \cup come \in SUBSET Nat
    BY <2>2, <2>4, TypeOKFacts DEF Xor, Good, IsTable
  <2>7. tab' = [Copied(tab, sl(d, k), dest) EXCEPT
                  !.fwd[bk(d)] = Xor(tab.fwd[bk(d)], gone) \cup come]
    BY <2>3, <2>5
  <2>8. Good(tab') /\ tab'.mask = tab.mask /\ tab'.size = tab.size
    <3>. HIDE DEF bk, sl
    <3>1. bk(d) \in Slots(Copied(tab, sl(d, k), dest))
      BY <2>2, <2>5 DEF Slots
    <3>2. Good(tab')
      <4>. DEFINE t == Copied(tab, sl(d, k), dest)
                  c == bk(d)
                  F == Xor(tab.fwd[bk(d)], gone) \cup come
      <4>1. Good(t) /\ t.fwd = tab.fwd /\ c \in Slots(t) /\ F \in SUBSET Nat
        BY <2>5, <2>6, <3>1
      <4>2. tab' = [t EXCEPT !.fwd[c] = F]
        BY <2>7
      <4>. HIDE DEF t, c, F
      <4>. QED
        BY <4>1, <4>2, StoreGood
    <3>3. tab'.mask = Copied(tab, sl(d, k), dest).mask
          /\ tab'.size = Copied(tab, sl(d, k), dest).size
      BY <2>5, <2>7, SMTT(30) DEF Good, IsTable
    <3>. QED
      BY <2>5, <3>2, <3>3
  <2>9. UNCHANGED <<req, job, old, i, ret>> /\ pc = "swap" /\ pc' \in {"place", "swap"}
    BY <1>7 DEF Swap
  <2>. QED
    BY <2>1, <2>2, <2>8, <2>9 DEF TypeOK, Growing, Good, Slots
<1>8. CASE Place
  <2>. DEFINE b == Home(tab, job.hash)
  <2>1. PICK bits \in ShiftBit(Clamp(tab, dest - b)) :
          Placed([tab EXCEPT !.hash[dest] = job.hash,
                             !.fwd[b] = tab.fwd[b] \cup bits], dest)
    BY <1>8, TypeOKFacts DEF Place, Good, IsTable, Slots
  <2>2. bits \in SUBSET Nat
    <3>1. Clamp(tab, dest - b) \in Nat
      BY TypeOKFacts DEF Slots
    <3>. QED BY <3>1, ShiftBitType
  <2>3. tab.fwd[b] \cup bits \in SUBSET Nat
    BY <2>2, TypeOKFacts DEF Good, IsTable
  <2>. DEFINE t == [tab EXCEPT !.hash[dest] = job.hash,
                               !.fwd[b] = tab.fwd[b] \cup bits]
  <2>4. Good(t) /\ t.mask = tab.mask /\ t.size = tab.size
    <3>1. Good(t)
      BY <2>3, TypeOKFacts, StoreGood
    <3>. QED BY <3>1, TypeOKFacts DEF Good, IsTable
  <2>5. dest \in Slots(t)
    BY <2>4, TypeOKFacts DEF Slots
  <2>. HIDE DEF t
  <2>. QED
    BY <1>8, <2>1, <2>4, <2>5, PlacedType DEF Place, t
<1>9. CASE Grow
  <2>. DEFINE ht == IF Growing THEN old ELSE tab
              n  == 2 * ht.size
  <2>1. /\ IsTable(ht) /\ ht.mask \in Nat /\ ht.size \in Nat
        /\ ht.size = tab.size /\ ht.size >= ht.mask + 1
    BY DEF TypeOK, IsTable
  <2>2. tab.size >= BucketSize /\ tab.mask + 1 = tab.size /\ tab.size > 0
    BY DEF TypeOK
  <2>3. old' = [ht EXCEPT !.size = n] /\ tab' = Alloc(n) /\ i' = 0
    BY <1>9 DEF Grow, Doubled
  <2>4. n \in Nat /\ n >= BucketSize /\ n > ht.mask + 1 /\ n > tab.mask + 1 /\ n > 0
    BY <2>1, <2>2
  <2>5. Good(tab') /\ tab'.size = n
    BY <2>3, <2>4, AllocGood
  <2>6. IsTable(old') /\ old'.mask = ht.mask /\ old'.size = n
    BY <2>1, <2>3, <2>4 DEF IsTable, Slots
  <2>7. pc' = "rehash" /\ UNCHANGED <<req, job, dest, ret>>
    BY <1>9 DEF Grow
  <2>8. dest' \in Slots(tab')
    BY <2>4, <2>5, <2>7 DEF TypeOK, Good, Slots
  <2>. HIDE DEF ht, n
  <2>. QED
    BY <2>1, <2>3, <2>4, <2>5, <2>6, <2>7, <2>8 DEF TypeOK, Growing, Good
<1>10. CASE Rehash
  <2>1. Growing
    BY <1>10 DEF Rehash, TypeOK
  <2>2. CASE i' = i + 1 /\ UNCHANGED <<pc, job>>
    BY <1>10, <2>1, <2>2 DEF Rehash, TypeOK, Growing, IsTable
  <2>3. CASE /\ pc' = "find" /\ UNCHANGED i
             /\ \E h \in IF i \in Slots(old) THEN {old.hash[i]} ELSE Beyond :
                \E d \in IF i \in Slots(old) THEN {old.data[i]} ELSE Data :
                   job' = [hash |-> h, data |-> d]
    <3>1. job' \in [hash : Nat, data : Nat]
      BY <2>1, <2>3 DEF TypeOK, IsTable
    <3>. QED
      BY <1>10, <2>1, <2>3, <3>1 DEF Rehash, TypeOK, Growing
  <2>. QED
    BY <1>10, <2>2, <2>3 DEF Rehash
<1>11. CASE Grown
  <2>1. old' = NoTable /\ ~ Growing'
    BY <1>11 DEF Grown, Growing, NoTable, Alloc
  <2>. QED
    BY <1>11, <2>1 DEF Grown, TypeOK
<1>12. CASE UNCHANGED vars
  BY <1>12 DEF vars, TypeOK, Growing
<1>. QED
  BY <1>1, <1>2, <1>3, <1>4, <1>5, <1>6, <1>7, <1>8, <1>9, <1>10, <1>11, <1>12
     DEF Next, Step

\* The types hold in every reachable state, for tables, bitmaps and shifts of
\* any width and whatever lies in memory after a table: in particular the loop
\* of HTABLE_REHASH stays below the doubled size, every slot number is a slot
\* of the table in use, and no operation ends while the table is growing.
THEOREM TypeCorrect == Spec => []TypeOK
  BY InitType, NextType, PTL DEF Spec

-----------------------------------------------------------------------------
(* Bitmaps and entries agree *)

\* Clamping a slot number plus or minus at most a table wraps once around its end.
LEMMA ClampWraps ==
  ASSUME NEW t, t.mask \in Nat, NEW x \in Int,
         - (t.mask + 1) <= x, x <= 2 * t.mask + 1
  PROVE  Clamp(t, x) = IF x < 0 THEN x + t.mask + 1
                       ELSE IF x > t.mask THEN x - (t.mask + 1) ELSE x
<1>. DEFINE n == t.mask + 1
<1>1. n \in Nat \ {0} /\ x \in (- n) .. 2 * n - 1
  OBVIOUS
<1>2. x % n = IF x < 0 THEN x + n ELSE IF x >= n THEN x - n ELSE x
  BY <1>1, ModWraps
<1>. QED
  BY <1>2 DEF Clamp

\* Going from a slot to another and back, around the end of the table or not.
LEMMA SlotAt ==
  ASSUME NEW t, t.mask \in Nat, NEW b \in Slots(t), NEW k \in Slots(t)
  PROVE  /\ Clamp(t, b + k) \in Slots(t)
         /\ Clamp(t, Clamp(t, b + k) - b) = k
<1>1. Clamp(t, b + k) = IF b + k > t.mask THEN b + k - (t.mask + 1) ELSE b + k
  BY ClampWraps DEF Slots
<1>2. Clamp(t, b + k) \in Slots(t)
  BY <1>1 DEF Slots
<1>. DEFINE s == Clamp(t, b + k)
<1>3. Clamp(t, s - b) = IF s - b < 0 THEN s - b + t.mask + 1 ELSE s - b
  <2>. HIDE DEF s
  <2>1. s \in Slots(t)
    BY <1>2 DEF s
  <2>. QED
    BY <2>1, ClampWraps DEF Slots
<1>. QED
  BY <1>1, <1>2, <1>3 DEF Slots

\* The offset of a slot from a bucket is the number that leads from one to the
\* other.
LEMMA OffsetOf ==
  ASSUME NEW t, t.mask \in Nat, NEW b \in Slots(t), NEW s \in Slots(t)
  PROVE  /\ Clamp(t, s - b) \in Slots(t)
         /\ Clamp(t, b + Clamp(t, s - b)) = s
<1>1. Clamp(t, s - b) = IF s - b < 0 THEN s - b + t.mask + 1 ELSE s - b
  BY ClampWraps DEF Slots
<1>2. Clamp(t, s - b) \in Slots(t)
  BY <1>1 DEF Slots
<1>. DEFINE k == Clamp(t, s - b)
<1>3. Clamp(t, b + k) = IF b + k > t.mask THEN b + k - (t.mask + 1) ELSE b + k
  <2>. HIDE DEF k
  <2>1. k \in Slots(t)
    BY <1>2 DEF k
  <2>. QED
    BY <2>1, ClampWraps DEF Slots
<1>. QED
  BY <1>1, <1>2, <1>3 DEF Slots

\* A bucket d slots before a slot.
LEMMA SlotBefore ==
  ASSUME NEW t, t.mask \in Nat, NEW s \in Slots(t), NEW d \in Slots(t)
  PROVE  /\ Clamp(t, s - d) \in Slots(t)
         /\ Clamp(t, s - Clamp(t, s - d)) = d
         /\ Clamp(t, Clamp(t, s - d) + d) = s
<1>. DEFINE b == Clamp(t, s - d)
<1>1. b = IF s - d < 0 THEN s - d + t.mask + 1 ELSE s - d
  BY ClampWraps DEF Slots
<1>2. b \in Slots(t)
  BY <1>1 DEF Slots
<1>3. /\ Clamp(t, s - b) = IF s - b < 0 THEN s - b + t.mask + 1 ELSE s - b
      /\ Clamp(t, b + d) = IF b + d > t.mask THEN b + d - (t.mask + 1) ELSE b + d
  <2>. HIDE DEF b
  <2>. QED
    BY <1>2, ClampWraps DEF Slots
<1>4. Clamp(t, s - b) = d /\ Clamp(t, b + d) = s
  <2>. HIDE DEF b
  <2>. QED BY <1>1, <1>2, <1>3 DEF Slots
<1>. QED
  BY <1>2, <1>4

\* A slot the swap loop takes to be in the bucket is within its reach.  (The
\* converse fails for a bucket that wraps.)
LEMMA InBucketReach ==
  ASSUME NEW t, t.mask \in Nat, t.mask + 1 >= BucketSize,
         NEW h \in Nat, NEW s \in Slots(t), InBucket(t, h, s)
  PROVE  Clamp(t, s - Home(t, h)) < BucketSize
<1>. DEFINE b == Home(t, h)
<1>1. b \in Slots(t)
  BY ClampRange DEF Home
<1>2. /\ Clamp(t, s - b) = IF s - b < 0 THEN s - b + t.mask + 1 ELSE s - b
      /\ Clamp(t, b + BucketSize) = IF b + BucketSize > t.mask
                                    THEN b + BucketSize - (t.mask + 1)
                                    ELSE b + BucketSize
  <2>. HIDE DEF b
  <2>. QED
    BY <1>1, ClampWraps, ConstantsAssumption DEF Slots
<1>. QED
  BY <1>1, <1>2, ConstantsAssumption DEF InBucket, Slots

\* FwdSound and Reachable of a table whose slots in st are not to be counted.
FwdOK(t, st) ==
  \A b \in Slots(t) : \A k \in t.fwd[b] :
    /\ k < BucketSize
    /\ Clamp(t, b + k) \notin st
    /\ t.hash[Clamp(t, b + k)] # Empty
    /\ Home(t, t.hash[Clamp(t, b + k)]) = b
ReachOK(t, st) ==
  \A s \in Slots(t) \ st :
    t.hash[s] # Empty =>
      Clamp(t, s - Home(t, t.hash[s])) \in t.fwd[Home(t, t.hash[s])]

\* The bitmaps and entries of a new table agree: there are none.
LEMMA AllocOK ==
  ASSUME NEW n \in Nat, n >= BucketSize
  PROVE  FwdOK(Alloc(n), {}) /\ ReachOK(Alloc(n), {})
  BY ConstantsAssumption DEF Alloc, FwdOK, ReachOK, Slots

\* What the invariants say of a table depends on neither its data nor its size.
LEMMA SameOK ==
  ASSUME NEW t, NEW u, u.mask = t.mask, u.hash = t.hash, u.fwd = t.fwd, NEW st
  PROVE  /\ FwdOK(t, st) => FwdOK(u, st)
         /\ ReachOK(t, st) => ReachOK(u, st)
  BY DEF FwdOK, ReachOK, Slots, Clamp, Home

\* A free slot can be set aside: no bitmap leads to it.
LEMMA SetAsideOK ==
  ASSUME NEW t, NEW s, t.hash[s] = 0, FwdOK(t, {}), ReachOK(t, {})
  PROVE  FwdOK(t, {s}) /\ ReachOK(t, {s})
  BY DEF FwdOK, ReachOK

\* A bit of a bitmap that is within the bucket is the offset of a slot.
LEMMA BitIsOffset ==
  ASSUME NEW t, Good(t), NEW b \in Slots(t), NEW k \in t.fwd[b], k < BucketSize
  PROVE  k \in Slots(t)
<1>1. t.fwd \in [Slots(t) -> SUBSET Nat]
  BY DEF Good, IsTable
<1>2. k \in Nat
  BY <1>1
<1>3. t.mask \in Nat /\ BucketSize \in Nat /\ BucketSize <= t.mask + 1
  BY ConstantsAssumption DEF Good
<1>. QED
  BY <1>2, <1>3 DEF Slots

\* The entry of bucket b at offset k moves to the free slot dst at offset d.
LEMMA MoveOK ==
  ASSUME NEW t, Good(t), NEW dst \in Slots(t),
         FwdOK(t, {dst}), ReachOK(t, {dst}),
         NEW b \in Slots(t), NEW k \in t.fwd[b], NEW d \in Slots(t),
         d < BucketSize, k < d, Clamp(t, b + d) = dst, NEW s, s = Clamp(t, b + k),
         NEW u, u.mask = t.mask,
         u.hash = [t.hash EXCEPT ![dst] = t.hash[s]],
         u.fwd = [t.fwd EXCEPT ![b] = (t.fwd[b] \ {k}) \cup {d}]
  PROVE  s \in Slots(t) /\ FwdOK(u, {s}) /\ ReachOK(u, {s})
<1>0. /\ t.mask \in Nat /\ BucketSize <= t.mask + 1 /\ BucketSize \in Nat
      /\ t.hash \in [Slots(t) -> Nat] /\ t.fwd \in [Slots(t) -> SUBSET Nat]
      /\ Slots(u) = Slots(t) /\ \A x : Clamp(u, x) = Clamp(t, x)
      /\ \A x : Home(u, x) = Home(t, x)
  BY ConstantsAssumption DEF Good, IsTable, Slots, Clamp, Home
<1>1. k \in Slots(t) /\ d # k
  <2>1. k \in Nat
    BY <1>0
  <2>. QED
    BY <1>0, <2>1 DEF Slots
<1>2. s \in Slots(t) /\ t.hash[s] # 0 /\ Home(t, t.hash[s]) = b /\ s # dst
  BY <1>0, <1>1, SlotAt DEF FwdOK
<1>3. ASSUME NEW c \in Slots(t), NEW j \in u.fwd[c]
      PROVE  /\ j < BucketSize
             /\ Clamp(t, c + j) # s
             /\ u.hash[Clamp(t, c + j)] # 0
             /\ Home(t, u.hash[Clamp(t, c + j)]) = c
  <2>1. CASE c = b /\ j = d
    BY <1>0, <1>2, <2>1
  <2>2. CASE j \in t.fwd[c] /\ ~ (c = b /\ j = k)
    <3>1. /\ j < BucketSize /\ Clamp(t, c + j) # dst
          /\ t.hash[Clamp(t, c + j)] # 0 /\ Home(t, t.hash[Clamp(t, c + j)]) = c
      BY <2>2 DEF FwdOK
    <3>2. j \in Slots(t)
      BY <2>2, <3>1, BitIsOffset
    <3>3. Clamp(t, c + j) \in Slots(t) /\ Clamp(t, Clamp(t, c + j) - c) = j
      BY <1>0, <3>2, SlotAt
    <3>4. Clamp(t, s - b) = k
      BY <1>0, <1>1, SlotAt
    <3>5. Clamp(t, c + j) # s
      BY <1>2, <2>2, <3>1, <3>3, <3>4
    <3>. QED
      BY <1>0, <3>1, <3>3, <3>5
  <2>. QED
    BY <1>0, <2>1, <2>2
<1>4. ASSUME NEW x \in Slots(t), x # s, u.hash[x] # 0
      PROVE  Clamp(t, x - Home(t, u.hash[x])) \in u.fwd[Home(t, u.hash[x])]
  <2>1. CASE x = dst
    <3>1. Clamp(t, x - b) = d
      BY <1>0, <2>1, SlotAt
    <3>. QED
      BY <1>0, <1>2, <2>1, <3>1
  <2>2. CASE x # dst
    <3>. DEFINE c == Home(t, t.hash[x])
    <3>1. u.hash[x] = t.hash[x] /\ t.hash[x] \in Nat
      BY <1>0, <1>4, <2>2
    <3>2. c \in Slots(t)
      BY <1>0, <3>1, ClampRange DEF Home
    <3>3. Clamp(t, x - c) \in t.fwd[c]
      BY <1>4, <2>2, <3>1 DEF ReachOK
    <3>4. Clamp(t, c + Clamp(t, x - c)) = x
      BY <1>0, <3>2, OffsetOf
    <3>5. ~ (c = b /\ Clamp(t, x - c) = k)
      BY <1>4, <3>4
    <3>. QED
      BY <1>0, <3>1, <3>2, <3>3, <3>5
  <2>. QED
    BY <2>1, <2>2
<1>. QED
  BY <1>0, <1>2, <1>3, <1>4 DEF FwdOK, ReachOK

\* The entry being added is placed in the free slot dst, in reach of its home.
LEMMA PlaceOK ==
  ASSUME NEW t, Good(t), NEW dst \in Slots(t),
         FwdOK(t, {dst}), ReachOK(t, {dst}),
         NEW h \in Nat \ {0}, Clamp(t, dst - Home(t, h)) < BucketSize,
         NEW u, u.mask = t.mask,
         u.hash = [t.hash EXCEPT ![dst] = h],
         u.fwd = [t.fwd EXCEPT ![Home(t, h)] =
                    @ \cup {Clamp(t, dst - Home(t, h))}]
  PROVE  FwdOK(u, {}) /\ ReachOK(u, {})
<1>. DEFINE b == Home(t, h)
            d == Clamp(t, dst - b)
<1>0. /\ t.mask \in Nat
      /\ t.hash \in [Slots(t) -> Nat] /\ t.fwd \in [Slots(t) -> SUBSET Nat]
      /\ Slots(u) = Slots(t) /\ \A x : Clamp(u, x) = Clamp(t, x)
      /\ \A x : Home(u, x) = Home(t, x)
  BY DEF Good, IsTable, Slots, Clamp, Home
<1>1. b \in Slots(t)
  BY <1>0, ClampRange DEF Home
<1>2. d \in Slots(t) /\ Clamp(t, b + d) = dst /\ d < BucketSize
  <2>. HIDE DEF b
  <2>1. d \in Slots(t) /\ Clamp(t, b + d) = dst
    BY <1>0, <1>1, OffsetOf
  <2>. QED
    BY <2>1 DEF b
<1>3. u.fwd = [t.fwd EXCEPT ![b] = t.fwd[b] \cup {d}]
  BY <1>0, <1>1
<1>. HIDE DEF d
<1>4. ASSUME NEW c \in Slots(t), NEW j \in u.fwd[c]
      PROVE  /\ j < BucketSize
             /\ u.hash[Clamp(t, c + j)] # 0
             /\ Home(t, u.hash[Clamp(t, c + j)]) = c
  <2>1. CASE c = b /\ j = d
    BY <1>0, <1>2, <2>1
  <2>2. CASE j \in t.fwd[c]
    <3>1. /\ j < BucketSize /\ Clamp(t, c + j) # dst
          /\ t.hash[Clamp(t, c + j)] # 0 /\ Home(t, t.hash[Clamp(t, c + j)]) = c
      BY <2>2 DEF FwdOK
    <3>2. j \in Nat
      BY <1>0, <2>2
    <3>3. Clamp(t, c + j) \in Slots(t)
      <4>1. c + j \in Int
        BY <3>2 DEF Slots
      <4>. QED BY <1>0, <4>1, ClampRange
    <3>. QED
      BY <1>0, <3>1, <3>3
  <2>. QED
    BY <1>0, <1>1, <1>3, <2>1, <2>2
<1>5. ASSUME NEW x \in Slots(t), u.hash[x] # 0
      PROVE  Clamp(t, x - Home(t, u.hash[x])) \in u.fwd[Home(t, u.hash[x])]
  <2>1. CASE x = dst
    BY <1>0, <1>1, <1>3, <2>1 DEF d
  <2>2. CASE x # dst
    <3>. DEFINE c == Home(t, t.hash[x])
    <3>1. u.hash[x] = t.hash[x] /\ t.hash[x] \in Nat
      BY <1>0, <1>5, <2>2
    <3>2. c \in Slots(t)
      BY <1>0, <3>1, ClampRange DEF Home
    <3>3. Clamp(t, x - c) \in t.fwd[c]
      BY <1>5, <2>2, <3>1 DEF ReachOK
    <3>. QED
      BY <1>0, <1>1, <1>3, <3>1, <3>2, <3>3
  <2>. QED
    BY <2>1, <2>2
<1>. QED
  BY <1>0, <1>4, <1>5 DEF FwdOK, ReachOK

\* A lookup that finds a hash has followed a bit of its home bucket to it.
LEMMA FoundAt ==
  ASSUME TypeOK, NEW h \in Nat, Found(tab, h)
  PROVE  \E k \in tab.fwd[Home(tab, h)] :
           /\ FoundSlot(tab, h) = Clamp(tab, Home(tab, h) + k)
           /\ tab.hash[FoundSlot(tab, h)] = h
<1>1. Home(tab, h) \in Slots(tab)
  BY TypeOKFacts DEF Home
<1>2. Matches(tab, h) \in SUBSET Nat /\ Matches(tab, h) # {}
  BY <1>1, TypeOKFacts DEF Matches, Found, Good, IsTable
<1>3. PICK k \in Matches(tab, h) : \A j \in Matches(tab, h) : k <= j
  BY <1>2, LeastExists
<1>. DEFINE c == CHOOSE x \in Matches(tab, h) : \A y \in Matches(tab, h) : x <= y
<1>4. c \in Matches(tab, h)
  BY <1>3
<1>5. FoundSlot(tab, h) = Clamp(tab, Home(tab, h) + c)
  BY DEF FoundSlot
<1>. HIDE DEF c
<1>. QED
  BY <1>4, <1>5 DEF Matches

\* The entry of bucket b at offset k is removed.
LEMMA RemoveOK ==
  ASSUME NEW t, Good(t), FwdOK(t, {}), ReachOK(t, {}),
         NEW b \in Slots(t), NEW k \in t.fwd[b], NEW s, s = Clamp(t, b + k),
         NEW u, u.mask = t.mask,
         u.hash = [t.hash EXCEPT ![s] = 0],
         u.fwd = [t.fwd EXCEPT ![b] = t.fwd[b] \ {k}]
  PROVE  FwdOK(u, {}) /\ ReachOK(u, {})
<1>0. /\ t.mask \in Nat /\ BucketSize <= t.mask + 1 /\ BucketSize \in Nat
      /\ t.hash \in [Slots(t) -> Nat] /\ t.fwd \in [Slots(t) -> SUBSET Nat]
      /\ Slots(u) = Slots(t) /\ \A x : Clamp(u, x) = Clamp(t, x)
      /\ \A x : Home(u, x) = Home(t, x)
  BY ConstantsAssumption DEF Good, IsTable, Slots, Clamp, Home
<1>1. k \in Slots(t)
  <2>1. k < BucketSize
    BY DEF FwdOK
  <2>. QED
    BY <2>1, BitIsOffset
<1>2. s \in Slots(t) /\ Home(t, t.hash[s]) = b /\ Clamp(t, s - b) = k
  BY <1>0, <1>1, SlotAt DEF FwdOK
<1>3. ASSUME NEW c \in Slots(t), NEW j \in u.fwd[c]
      PROVE  /\ j < BucketSize
             /\ u.hash[Clamp(t, c + j)] # 0
             /\ Home(t, u.hash[Clamp(t, c + j)]) = c
  <2>1. j \in t.fwd[c] /\ ~ (c = b /\ j = k)
    BY <1>0
  <2>2. /\ j < BucketSize
        /\ t.hash[Clamp(t, c + j)] # 0 /\ Home(t, t.hash[Clamp(t, c + j)]) = c
    BY <2>1 DEF FwdOK
  <2>3. j \in Slots(t)
    BY <2>1, <2>2, BitIsOffset
  <2>4. Clamp(t, c + j) \in Slots(t) /\ Clamp(t, Clamp(t, c + j) - c) = j
    BY <1>0, <2>3, SlotAt
  <2>5. Clamp(t, c + j) # s
    BY <1>2, <2>1, <2>2, <2>4
  <2>. QED
    BY <1>0, <2>2, <2>4, <2>5
<1>4. ASSUME NEW x \in Slots(t), u.hash[x] # 0
      PROVE  Clamp(t, x - Home(t, u.hash[x])) \in u.fwd[Home(t, u.hash[x])]
  <2>. DEFINE c == Home(t, t.hash[x])
  <2>1. x # s /\ u.hash[x] = t.hash[x] /\ t.hash[x] \in Nat
    BY <1>0, <1>2, <1>4
  <2>2. c \in Slots(t)
    BY <1>0, <2>1, ClampRange DEF Home
  <2>3. Clamp(t, x - c) \in t.fwd[c]
    BY <1>4, <2>1 DEF ReachOK
  <2>4. Clamp(t, c + Clamp(t, x - c)) = x
    BY <1>0, <2>2, OffsetOf
  <2>5. ~ (c = b /\ Clamp(t, x - c) = k)
    BY <2>1, <2>4
  <2>. QED
    BY <1>0, <2>1, <2>2, <2>3, <2>5
<1>. QED
  BY <1>0, <1>3, <1>4 DEF FwdOK, ReachOK

\* The inductive invariant: every hash in progress is a real one, and the slot
\* an entry is about to be placed in is within its bucket's reach.
JobReal ==
  pc # "idle" => req.hash # Empty /\ (pc # "rehash" => job.hash # Empty)
PlaceInReach ==
  pc = "place" => Clamp(tab, dest - Home(tab, job.hash)) < BucketSize

IInv ==
  /\ TypeOK
  /\ JobReal
  /\ PlaceInReach
  /\ FwdOK(tab, Stale)
  /\ ReachOK(tab, Stale)

\* How the program is built and used: bitmaps no wider than the 1u shifted
\* into them, keys whose hash is not zero.
NarrowBitmap == BucketSize <= UintBits
ProperUse == Empty \notin Hashes

\* The inductive invariant holds of the initial table.
LEMMA InitIInv == ASSUME ProperUse PROVE Init => IInv
<1>. SUFFICES ASSUME Init PROVE IInv
  OBVIOUS
<1>1. TypeOK
  BY InitType
<1>2. FwdOK(tab, {}) /\ ReachOK(tab, {})
  BY AllocOK, ConstantsAssumption DEF Init
<1>. QED
  BY <1>1, <1>2 DEF Init, IInv, JobReal, PlaceInReach, Stale

\* A bit within the bitmap is the one 1u is shifted to.
LEMMA ShiftBitExact ==
  ASSUME NarrowBitmap, NEW n \in Nat, n < BucketSize
  PROVE  ShiftBit(n) = {{n}}
  BY ConstantsAssumption DEF ShiftBit, NarrowBitmap

\* Every step keeps the inductive invariant: one proof step for each action.
LEMMA NextIInv ==
  ASSUME NarrowBitmap, ProperUse PROVE IInv /\ [Next]_vars => IInv'
<1>. SUFFICES ASSUME IInv, [Next]_vars PROVE IInv'
  OBVIOUS
<1>. USE ConstantsAssumption
<1>0. TypeOK /\ TypeOK'
  BY NextType DEF IInv
<1>t. Good(tab) /\ tab.mask \in Nat /\ BucketSize <= tab.mask + 1
      /\ tab.fwd \in [Slots(tab) -> SUBSET Nat] /\ tab.hash \in [Slots(tab) -> Nat]
      /\ dest \in Slots(tab)
  BY <1>0, TypeOKFacts DEF Good, IsTable
<1>1. ASSUME NEW h \in Hashes, Lookup(h) PROVE IInv'
  BY <1>0, <1>1 DEF Lookup, IInv, JobReal, PlaceInReach, Stale
<1>2. ASSUME NEW h \in Hashes, Remove(h) PROVE IInv'
  <2>1. CASE ~ Found(tab, h)
    BY <1>0, <1>2, <2>1 DEF Remove, IInv, JobReal, PlaceInReach, Stale
  <2>2. CASE Found(tab, h)
    <3>. DEFINE b == Home(tab, h)
                s == FoundSlot(tab, h)
    <3>1. h \in Nat /\ b \in Slots(tab)
      <4>1. h \in Nat
        OBVIOUS
      <4>. QED
        BY <1>0, <4>1, TypeOKFacts DEF Home
    <3>2. PICK k \in tab.fwd[b] : s = Clamp(tab, b + k) /\ tab.hash[s] = h
      BY <1>0, <2>2, <3>1, FoundAt
    <3>3. FwdOK(tab, {}) /\ ReachOK(tab, {})
      BY <1>2 DEF Remove, IInv, Stale
    <3>4. k \in Slots(tab) /\ k < BucketSize
      <4>1. k \in Nat /\ k < BucketSize
        BY <1>t, <3>1, <3>3 DEF FwdOK
      <4>. QED
        BY <1>t, <4>1 DEF Slots
    <3>5. s \in Slots(tab) /\ Clamp(tab, s - b) = k
      BY <1>t, <3>1, <3>2, <3>4, SlotAt
    <3>6. ShiftBit(k) = {{k}}
      BY <3>4, ShiftBitExact DEF Slots
    <3>7. tab' = [tab EXCEPT !.hash[s] = 0, !.fwd[b] = Xor(tab.fwd[b], {k})]
      BY <1>2, <2>2, <3>1, <3>5, <3>6, <1>t DEF Remove, Good, IsTable
    <3>8. Xor(tab.fwd[b], {k}) = tab.fwd[b] \ {k}
      BY <3>2 DEF Xor
    <3>9. /\ tab'.mask = tab.mask
          /\ tab'.hash = [tab.hash EXCEPT ![s] = 0]
          /\ tab'.fwd = [tab.fwd EXCEPT ![b] = tab.fwd[b] \ {k}]
      BY <1>t, <3>7, <3>8 DEF Good, IsTable
    <3>10. FwdOK(tab', {}) /\ ReachOK(tab', {})
      <4>. HIDE DEF b, s
      <4>. QED
        BY <1>t, <3>1, <3>2, <3>3, <3>9, RemoveOK
    <3>. QED
      BY <1>0, <1>2, <2>2, <3>10 DEF Remove, IInv, JobReal, PlaceInReach, Stale
  <2>. QED BY <2>1, <2>2
<1>3. ASSUME NEW h \in Hashes, NEW d \in Data, Add(h, d) PROVE IInv'
  BY <1>0, <1>3 DEF Add, IInv, JobReal, PlaceInReach, Stale, ProperUse
<1>h. Home(tab, job.hash) \in Slots(tab) /\ job.hash \in Nat
  BY <1>0, TypeOKFacts
<1>4. CASE FindIdentical
  <2>1. PICK k \in 0 .. BucketSize - 1 :
          Placed(tab, Clamp(tab, Home(tab, job.hash) + k))
    BY <1>4 DEF FindIdentical
  <2>2. tab'.mask = tab.mask /\ tab'.hash = tab.hash /\ tab'.fwd = tab.fwd
    BY <1>t, <2>1 DEF Placed, Good, IsTable
  <2>3. FwdOK(tab', {}) /\ ReachOK(tab', {})
    BY <1>4, <2>2, SameOK DEF FindIdentical, IInv, Stale
  <2>. QED
    BY <1>0, <1>4, <2>1, <2>3
       DEF FindIdentical, Placed, IInv, JobReal, PlaceInReach, Stale
<1>5. CASE FindEmpty
  <2>1. PICK k \in 0 .. BucketSize - 1 :
          /\ dest' = Clamp(tab, Home(tab, job.hash) + k)
          /\ tab.hash[dest'] = 0
    BY <1>5 DEF FindEmpty
  <2>2. FwdOK(tab, {dest'}) /\ ReachOK(tab, {dest'})
    BY <1>5, <2>1, SetAsideOK DEF FindEmpty, IInv, Stale
  <2>3. Clamp(tab, dest' - Home(tab, job.hash)) = k
    <3>1. k \in Slots(tab)
      BY <1>t DEF Slots
    <3>2. tab.mask \in Nat
      BY <1>t
    <3>3. Clamp(tab, Clamp(tab, Home(tab, job.hash) + k) - Home(tab, job.hash)) = k
      BY <1>h, <3>1, <3>2, SlotAt
    <3>. QED BY <2>1, <3>3
  <2>4. pc' = "place" /\ UNCHANGED <<req, job, tab>> /\ pc = "find"
    BY <1>5 DEF FindEmpty
  <2>5. k < BucketSize
    OBVIOUS
  <2>6. PlaceInReach'
    BY <2>3, <2>4, <2>5 DEF PlaceInReach
  <2>. QED
    BY <1>0, <2>2, <2>4, <2>6 DEF IInv, JobReal, Stale
<1>6. CASE FindEmptySwap
  <2>1. PICK k \in BucketSize .. tab.mask :
          /\ dest' = Clamp(tab, Home(tab, job.hash) + k)
          /\ StopsAt(tab, job.hash, k)
    BY <1>6 DEF FindEmptySwap
  <2>2. tab.hash[dest'] = 0
    BY <1>t, <2>1 DEF StopsAt
  <2>3. FwdOK(tab, {dest'}) /\ ReachOK(tab, {dest'})
    BY <1>6, <2>2, SetAsideOK DEF FindEmptySwap, IInv, Stale
  <2>. QED
    BY <1>0, <1>6, <2>3
       DEF FindEmptySwap, IInv, JobReal, PlaceInReach, Stale
<1>7. CASE Swap
  <2>1. PICK d \in 1 .. BucketSize - 1, k \in 0 .. BucketSize - 2 :
          LET b == Clamp(tab, dest - d)
              s == Clamp(tab, b + k)
          IN  /\ SwapsWith(tab, dest, d, k)
              /\ \E gone \in ShiftBit(Clamp(tab, s - b)),
                    come \in ShiftBit(Clamp(tab, dest - b)) :
                   tab' = [Copied(tab, s, dest) EXCEPT
                             !.fwd[b] = Xor(@, gone) \cup come]
              /\ dest' = s
              /\ pc' = IF InBucket(tab, job.hash, s) THEN "place" ELSE "swap"
    BY <1>7 DEF Swap
  <2>2. PICK b, s :
          /\ b = Clamp(tab, dest - d) /\ s = Clamp(tab, b + k)
          /\ SwapsWith(tab, dest, d, k)
          /\ \E gone \in ShiftBit(Clamp(tab, s - b)),
                come \in ShiftBit(Clamp(tab, dest - b)) :
               tab' = [Copied(tab, s, dest) EXCEPT
                         !.fwd[b] = Xor(@, gone) \cup come]
          /\ dest' = s
          /\ pc' = IF InBucket(tab, job.hash, s) THEN "place" ELSE "swap"
    BY <2>1
  <2>3. d \in Slots(tab) /\ k \in Slots(tab) /\ k \in tab.fwd[b] /\ k < d
        /\ d < BucketSize /\ k < BucketSize /\ d \in Nat /\ k \in Nat
    <3>1. k \in tab.fwd[b] /\ k < d
      BY <2>2 DEF SwapsWith
    <3>2. d \in 0 .. tab.mask /\ k \in 0 .. tab.mask
      BY <1>t
    <3>. QED
      BY <3>1, <3>2 DEF Slots
  <2>4. b \in Slots(tab) /\ Clamp(tab, dest - b) = d /\ Clamp(tab, b + d) = dest
    BY <1>t, <2>2, <2>3, SlotBefore
  <2>5. s \in Slots(tab) /\ Clamp(tab, s - b) = k
    BY <1>t, <2>2, <2>3, <2>4, SlotAt
  <2>6. ShiftBit(k) = {{k}} /\ ShiftBit(d) = {{d}}
    BY <2>3, ShiftBitExact
  <2>7. tab' = [Copied(tab, s, dest) EXCEPT !.fwd[b] = Xor(@, {k}) \cup {d}]
    <3>1. PICK gone \in ShiftBit(Clamp(tab, s - b)),
               come \in ShiftBit(Clamp(tab, dest - b)) :
            tab' = [Copied(tab, s, dest) EXCEPT !.fwd[b] = Xor(@, gone) \cup come]
      BY <2>2
    <3>2. gone = {k} /\ come = {d}
      BY <2>4, <2>5, <2>6
    <3>. QED
      BY <3>1, <3>2
  <2>8. /\ tab'.mask = tab.mask
        /\ tab'.hash = [tab.hash EXCEPT ![dest] = tab.hash[s]]
        /\ tab'.fwd = [tab.fwd EXCEPT ![b] = Xor(tab.fwd[b], {k}) \cup {d}]
    BY <1>t, <2>4, <2>7 DEF Copied, Good, IsTable
  <2>9. Xor(tab.fwd[b], {k}) \cup {d} = (tab.fwd[b] \ {k}) \cup {d}
    BY <2>3 DEF Xor
  <2>10. FwdOK(tab, {dest}) /\ ReachOK(tab, {dest}) /\ pc = "swap"
         /\ UNCHANGED <<req, job>>
    BY <1>7 DEF Swap, IInv, Stale
  <2>11. FwdOK(tab', {s}) /\ ReachOK(tab', {s})
    <3>1. tab'.fwd = [tab.fwd EXCEPT ![b] = (tab.fwd[b] \ {k}) \cup {d}]
      BY <2>8, <2>9
    <3>2. s = Clamp(tab, b + k)
      BY <2>2
    <3>. QED
      BY <1>t, <2>3, <2>4, <2>8, <2>10, <3>1, <3>2, MoveOK, SMTT(30)
  <2>12. PlaceInReach'
    <3>1. SUFFICES ASSUME pc' = "place"
                   PROVE  Clamp(tab', s - Home(tab', job.hash)) < BucketSize
      BY <2>2, <2>10 DEF PlaceInReach
    <3>2. InBucket(tab, job.hash, s)
      BY <2>2, <3>1
    <3>3. Clamp(tab, s - Home(tab, job.hash)) < BucketSize
      BY <1>t, <1>h, <2>5, <3>2, InBucketReach
    <3>. QED
      BY <2>8, <3>3 DEF Clamp, Home
  <2>13. JobReal'
    BY <2>2, <2>10 DEF IInv, JobReal
  <2>14. Stale' = {s}
    BY <2>2 DEF Stale
  <2>. QED
    BY <1>0, <2>11, <2>12, <2>13, <2>14 DEF IInv
<1>8. CASE Place
  <2>. DEFINE b == Home(tab, job.hash)
              d == Clamp(tab, dest - b)
  <2>1. PICK bits \in ShiftBit(d) :
          Placed([tab EXCEPT !.hash[dest] = job.hash, !.fwd[b] = @ \cup bits], dest)
    BY <1>8 DEF Place
  <2>2. pc = "place" /\ d < BucketSize /\ job.hash # 0
        /\ FwdOK(tab, {dest}) /\ ReachOK(tab, {dest})
    BY <1>8 DEF Place, IInv, PlaceInReach, JobReal, Stale
  <2>3. bits = {d}
    <3>1. d \in Slots(tab)
      BY <1>t, <1>h, OffsetOf
    <3>2. d \in Nat
      BY <3>1 DEF Slots
    <3>. QED BY <2>1, <2>2, <3>2, ShiftBitExact
  <2>4. /\ tab'.mask = tab.mask
        /\ tab'.hash = [tab.hash EXCEPT ![dest] = job.hash]
        /\ tab'.fwd = [tab.fwd EXCEPT ![b] = @ \cup {d}]
    <3>. HIDE DEF b, d
    <3>. QED
      BY <1>t, <2>1, <2>3 DEF Placed, Good, IsTable
  <2>5. FwdOK(tab', {}) /\ ReachOK(tab', {})
    BY <1>t, <1>h, <2>2, <2>4, PlaceOK
  <2>6. pc' \in {"idle", "rehash"} /\ (pc' = "rehash" => req' = req)
    BY <2>1 DEF Placed
  <2>. QED
    BY <1>0, <2>2, <2>5, <2>6 DEF IInv, JobReal, PlaceInReach, Stale
<1>9. CASE Grow
  <2>1. FwdOK(tab', {}) /\ ReachOK(tab', {})
    <3>1. PICK n : tab' = Alloc(n) /\ n \in Nat /\ n >= BucketSize
      BY <1>0, <1>9 DEF Grow, Doubled, TypeOK, IsTable
    <3>. QED BY <3>1, AllocOK
  <2>. QED
    BY <1>0, <1>9, <2>1 DEF Grow, NoSlot, IInv, JobReal, PlaceInReach, Stale
<1>10. CASE Rehash
  BY <1>0, <1>10 DEF Rehash, IInv, JobReal, PlaceInReach, Stale
<1>11. CASE Grown
  BY <1>0, <1>11 DEF Grown, IInv, JobReal, PlaceInReach, Stale
<1>12. CASE UNCHANGED vars
  BY <1>0, <1>12 DEF vars, IInv, JobReal, PlaceInReach, Stale
<1>. QED
  BY <1>1, <1>2, <1>3, <1>4, <1>5, <1>6, <1>7, <1>8, <1>9, <1>10, <1>11, <1>12
     DEF Next, Step

LEMMA Invariance ==
  ASSUME NarrowBitmap, ProperUse
  PROVE  Spec => []IInv
<1>1. Init => IInv
  BY InitIInv
<1>2. IInv /\ [Next]_vars => IInv'
  BY NextIInv
<1>. QED
  BY <1>1, <1>2, PTL DEF Spec

\* Every entry is led to by a bit of its home bucket, in every reachable state:
\* through any number of swaps and growths, also when the growth reads slots that
\* are not there (htable_swap_free, hopscotch_grow and hopscotch_remove, htable.c).
THEOREM EntriesFound ==
  ASSUME NarrowBitmap, ProperUse
  PROVE  Spec => []Reachable
<1>1. IInv => Reachable
  BY DEF IInv, ReachOK, Reachable
<1>. QED
  BY <1>1, Invariance, PTL

\* Every bit of a bitmap leads to an entry of its own bucket, never to a free slot
\* or to one that is being vacated: a walk over the bits, which looks no further,
\* meets no other bucket's entry (HTABLE_SEARCH_SLOTS, htable.c).
THEOREM BitsLeadHome ==
  ASSUME NarrowBitmap, ProperUse
  PROVE  Spec => []FwdSound
<1>1. IInv => FwdSound
  BY DEF IInv, FwdOK, FwdSound
<1>. QED
  BY <1>1, Invariance, PTL
=============================================================================

------------------------- MODULE HopscotchMapProofs -------------------------
(***************************************************************************)
(* Theorems about HopscotchTable as its callers see it: it never holds a   *)
(* hash twice, and it implements HashMap.  They hold for tables, bitmaps   *)
(* and sets of hashes of any size, for callers that remove nothing.        *)
(***************************************************************************)
EXTENDS HopscotchTableProofs

USE DEF Empty

\* The callers do not use HTABLE_REMOVE, as the program does not.
NoRemoval == ~ WithRemove

-----------------------------------------------------------------------------
(* What a table holds *)

\* In these definitions st are slots that do not count.

\* An entry with hash h and data d.
Holds(t, st, h, d) ==
  \E s \in Slots(t) \ st : t.hash[s] = h /\ t.data[s] = d

Lacks(t, st, h) ==
  \A s \in Slots(t) \ st : t.hash[s] # h

UniqueOK(t, st) ==
  \A s, x \in Slots(t) \ st :
    t.hash[s] # Empty /\ t.hash[s] = t.hash[x] => s = x

\* What HTABLE_LOOKUP returns.
DataOf(t, h) ==
  IF Found(t, h) THEN t.data[FoundSlot(t, h)] ELSE NoData

\* A lookup comes to the entry there is.
LEMMA EntryFound ==
  ASSUME NEW t, Good(t), NEW st, FwdOK(t, st), ReachOK(t, st), UniqueOK(t, st),
         NEW s \in Slots(t) \ st, t.hash[s] # 0
  PROVE  Found(t, t.hash[s]) /\ FoundSlot(t, t.hash[s]) = s
<1>. DEFINE h == t.hash[s]
            b == Home(t, h)
            e == Clamp(t, s - b)
<1>0. /\ t.mask \in Nat /\ t.hash \in [Slots(t) -> Nat]
      /\ t.fwd \in [Slots(t) -> SUBSET Nat] /\ h \in Nat
  BY DEF Good, IsTable
<1>1. b \in Slots(t)
  BY <1>0, ClampRange DEF Home
<1>2. e \in t.fwd[b] /\ Clamp(t, b + e) = s
  <2>1. e \in t.fwd[b]
    BY DEF ReachOK
  <2>2. Clamp(t, b + e) = s
    <3>. HIDE DEF b
    <3>. QED BY <1>0, <1>1, OffsetOf
  <2>. QED BY <2>1, <2>2
<1>. HIDE DEF e
<1>3. e \in Matches(t, h) /\ Matches(t, h) \in SUBSET Nat
  BY <1>0, <1>1, <1>2 DEF Matches
<1>4. PICK k \in Matches(t, h) : \A j \in Matches(t, h) : k <= j
  BY <1>3, LeastExists
<1>. DEFINE c == CHOOSE x \in Matches(t, h) : \A y \in Matches(t, h) : x <= y
<1>5. c \in Matches(t, h)
  BY <1>4
<1>6. FoundSlot(t, h) = Clamp(t, b + c)
  BY DEF FoundSlot
<1>. HIDE DEF c
<1>7. c \in t.fwd[b] /\ t.hash[Clamp(t, b + c)] = h
  BY <1>5 DEF Matches
<1>8. Clamp(t, b + c) \in Slots(t) \ st
  <2>1. b + c \in Int
    BY <1>0, <1>1, <1>7 DEF Slots
  <2>2. Clamp(t, b + c) \notin st
    BY <1>1, <1>7 DEF FwdOK
  <2>. QED
    BY <1>0, <2>1, <2>2, ClampRange
<1>9. Clamp(t, b + c) = s
  BY <1>7, <1>8 DEF UniqueOK
<1>. QED
  BY <1>3, <1>6, <1>9 DEF Found

\* A lookup invents nothing.
LEMMA FoundEntry ==
  ASSUME NEW t, Good(t), NEW st, FwdOK(t, st), NEW h \in Nat, Found(t, h)
  PROVE  ~ Lacks(t, st, h)
<1>. DEFINE b == Home(t, h)
<1>0. t.mask \in Nat /\ t.fwd \in [Slots(t) -> SUBSET Nat]
  BY DEF Good, IsTable
<1>1. b \in Slots(t)
  BY <1>0, ClampRange DEF Home
<1>2. PICK k \in t.fwd[b] : t.hash[Clamp(t, b + k)] = h
  BY DEF Found, Matches
<1>3. b + k \in Int
  BY <1>0, <1>1 DEF Slots
<1>4. Clamp(t, b + k) \in Slots(t) /\ Clamp(t, b + k) \notin st
  BY <1>0, <1>1, <1>3, ClampRange DEF FwdOK
<1>. QED
  BY <1>2, <1>4 DEF Lacks

\* What a lookup returns, told by the entries.
LEMMA DataIs ==
  ASSUME NEW t, Good(t), NEW st, FwdOK(t, st), ReachOK(t, st), UniqueOK(t, st),
         NEW h \in Nat \ {0}
  PROVE  /\ \A d : Holds(t, st, h, d) => Found(t, h) /\ DataOf(t, h) = d
         /\ Lacks(t, st, h) => ~ Found(t, h) /\ DataOf(t, h) = NoData
<1>1. ASSUME NEW d, Holds(t, st, h, d)
      PROVE  Found(t, h) /\ DataOf(t, h) = d
  <2>1. PICK s \in Slots(t) \ st : t.hash[s] = h /\ t.data[s] = d
    BY <1>1 DEF Holds
  <2>2. Found(t, h) /\ FoundSlot(t, h) = s
    BY <2>1, EntryFound
  <2>. QED
    BY <2>1, <2>2 DEF DataOf
<1>2. Lacks(t, st, h) => ~ Found(t, h) /\ DataOf(t, h) = NoData
  <2>1. Lacks(t, st, h) => ~ Found(t, h)
    BY FoundEntry
  <2>. QED
    BY <2>1 DEF DataOf
<1>. QED
  BY <1>1, <1>2

\* A hash is either absent or there with some data.
LEMMA LacksOrHolds ==
  ASSUME NEW t, NEW st, NEW h
  PROVE  Lacks(t, st, h) \/ \E s \in Slots(t) \ st :
                              t.hash[s] = h /\ Holds(t, st, h, t.data[s])
  BY DEF Lacks, Holds

\* Two tables with the same entries answer every lookup alike.
LEMMA SameEntries ==
  ASSUME NEW t, Good(t), NEW st, FwdOK(t, st), ReachOK(t, st), UniqueOK(t, st),
         NEW u, Good(u), NEW su, FwdOK(u, su), ReachOK(u, su), UniqueOK(u, su),
         NEW h \in Nat \ {0},
         \A d : Holds(u, su, h, d) <=> Holds(t, st, h, d)
  PROVE  DataOf(u, h) = DataOf(t, h)
<1>1. CASE Lacks(t, st, h)
  <2>1. Lacks(u, su, h)
    BY <1>1, LacksOrHolds DEF Holds, Lacks
  <2>. QED
    BY <1>1, <2>1, DataIs
<1>2. CASE \E d : Holds(t, st, h, d)
  BY <1>2, DataIs
<1>. QED
  BY <1>1, <1>2, LacksOrHolds

\* A lookup does not depend on the field that HTABLE_GROW doubles.
LEMMA SizeApart ==
  ASSUME NEW t, NEW u, u.mask = t.mask, u.hash = t.hash, u.fwd = t.fwd,
         u.data = t.data, NEW h
  PROVE  /\ Found(u, h) <=> Found(t, h)
         /\ DataOf(u, h) = DataOf(t, h)
<1>1. Matches(u, h) = Matches(t, h) /\ \A x : Clamp(u, x) = Clamp(t, x)
      /\ Home(u, h) = Home(t, h)
  BY DEF Matches, Home, Clamp
<1>2. FoundSlot(u, h) = FoundSlot(t, h)
  BY <1>1 DEF FoundSlot
<1>. QED
  BY <1>1, <1>2 DEF Found, DataOf

-----------------------------------------------------------------------------
(* What the steps that write do to the table in use *)

\* WALK_FOUND_IDENTICAL: the slot that has the hash gets the data.
LEMMA IdenticalEffect ==
  ASSUME IInv, FindIdentical
  PROVE  \E s \in Slots(tab) :
           /\ tab.hash[s] = job.hash
           /\ tab'.mask = tab.mask /\ tab'.hash = tab.hash /\ tab'.fwd = tab.fwd
           /\ tab'.data = [tab.data EXCEPT ![s] = job.data]
<1>0. TypeOK /\ Good(tab)
  BY TypeOKFacts DEF IInv
<1>1. PICK k \in 0 .. BucketSize - 1 :
        LET s == Clamp(tab, Home(tab, job.hash) + k)
        IN  /\ StopsAt(tab, job.hash, k)
            /\ tab.hash[s] # Empty
            /\ Placed(tab, s)
  BY DEF FindIdentical
<1>. DEFINE s == Clamp(tab, Home(tab, job.hash) + k)
<1>2. s \in Slots(tab)
  <2>1. Home(tab, job.hash) + k \in Int
    BY <1>0, TypeOKFacts, ConstantsAssumption DEF Slots
  <2>. QED
    BY <1>0, <2>1, TypeOKFacts
<1>3. tab.hash[s] = job.hash
  BY <1>1 DEF StopsAt
<1>4. tab' = [tab EXCEPT !.data[s] = job.data]
  BY <1>1 DEF Placed
<1>. HIDE DEF s
<1>. QED
  BY <1>0, <1>2, <1>3, <1>4 DEF Good, IsTable

\* The slot and the bit an entry is placed with.
LEMMA PlaceEffect ==
  ASSUME NarrowBitmap, IInv, Place
  PROVE  LET b == Home(tab, job.hash)
             d == Clamp(tab, dest - b)
         IN  /\ tab'.mask = tab.mask
             /\ tab'.hash = [tab.hash EXCEPT ![dest] = job.hash]
             /\ tab'.fwd = [tab.fwd EXCEPT ![b] = @ \cup {d}]
             /\ tab'.data = [tab.data EXCEPT ![dest] = job.data]
<1>. DEFINE b == Home(tab, job.hash)
            d == Clamp(tab, dest - b)
<1>0. /\ TypeOK /\ Good(tab) /\ tab.mask \in Nat /\ dest \in Slots(tab)
      /\ b \in Slots(tab)
  BY TypeOKFacts DEF IInv, Good
<1>1. PICK bits \in ShiftBit(d) :
        Placed([tab EXCEPT !.hash[dest] = job.hash, !.fwd[b] = @ \cup bits], dest)
  BY DEF Place
<1>2. bits = {d}
  <2>1. d < BucketSize
    BY DEF Place, IInv, PlaceInReach
  <2>2. d \in Slots(tab)
    <3>. HIDE DEF b
    <3>. QED BY <1>0, OffsetOf
  <2>3. d \in Nat
    BY <2>2 DEF Slots
  <2>. QED BY <1>1, <2>1, <2>3, ShiftBitExact
<1>. HIDE DEF b, d
<1>3. /\ tab'.mask = tab.mask
      /\ tab'.hash = [tab.hash EXCEPT ![dest] = job.hash]
      /\ tab'.fwd = [tab.fwd EXCEPT ![b] = @ \cup {d}]
      /\ tab'.data = [tab.data EXCEPT ![dest] = job.data]
  BY <1>0, <1>1, <1>2 DEF Placed, Good, IsTable
<1>. QED
  BY <1>3 DEF b, d

\* The entry of bucket b at offset k moves to dest, which is at offset d.
SwapMoves(b, s, d, k) ==
  /\ b = Clamp(tab, dest - d) /\ s = Clamp(tab, b + k) /\ dest = Clamp(tab, b + d)
  /\ k \in tab.fwd[b] /\ k < d /\ d < BucketSize
  /\ s # dest /\ tab.hash[s] # 0
  /\ tab'.mask = tab.mask
  /\ tab'.hash = [tab.hash EXCEPT ![dest] = tab.hash[s]]
  /\ tab'.fwd = [tab.fwd EXCEPT ![b] = (tab.fwd[b] \ {k}) \cup {d}]
  /\ tab'.data = [tab.data EXCEPT ![dest] = tab.data[s]]
  /\ dest' = s
  /\ pc' = IF InBucket(tab, job.hash, s) THEN "place" ELSE "swap"

LEMMA SwapEffect ==
  ASSUME NarrowBitmap, IInv, Swap
  PROVE  \E b, s, d, k \in Slots(tab) : SwapMoves(b, s, d, k)
<1>t. /\ TypeOK /\ Good(tab) /\ tab.mask \in Nat /\ BucketSize <= tab.mask + 1
      /\ tab.fwd \in [Slots(tab) -> SUBSET Nat] /\ tab.hash \in [Slots(tab) -> Nat]
      /\ dest \in Slots(tab) /\ BucketSize \in Nat
  BY TypeOKFacts, ConstantsAssumption DEF IInv, Good, IsTable
<1>1. PICK d \in 1 .. BucketSize - 1, k \in 0 .. BucketSize - 2 :
        LET b == Clamp(tab, dest - d)
            s == Clamp(tab, b + k)
        IN  /\ SwapsWith(tab, dest, d, k)
            /\ \E gone \in ShiftBit(Clamp(tab, s - b)),
                  come \in ShiftBit(Clamp(tab, dest - b)) :
                 tab' = [Copied(tab, s, dest) EXCEPT
                           !.fwd[b] = Xor(@, gone) \cup come]
            /\ dest' = s
            /\ pc' = IF InBucket(tab, job.hash, s) THEN "place" ELSE "swap"
  BY DEF Swap
<1>. DEFINE b == Clamp(tab, dest - d)
            s == Clamp(tab, b + k)
<1>2. PICK gone \in ShiftBit(Clamp(tab, s - b)),
           come \in ShiftBit(Clamp(tab, dest - b)) :
        tab' = [Copied(tab, s, dest) EXCEPT !.fwd[b] = Xor(@, gone) \cup come]
  BY <1>1
<1>3. /\ d \in Slots(tab) /\ k \in Slots(tab) /\ k \in tab.fwd[b] /\ k < d
      /\ d < BucketSize /\ k < BucketSize /\ d \in Nat /\ k \in Nat
  <2>1. k \in tab.fwd[b] /\ k < d
    BY <1>1 DEF SwapsWith
  <2>2. d \in 0 .. tab.mask /\ k \in 0 .. tab.mask
    BY <1>t
  <2>. QED
    BY <1>t, <2>1, <2>2 DEF Slots
<1>4. /\ dest' = s /\ pc' = IF InBucket(tab, job.hash, s) THEN "place" ELSE "swap"
  BY <1>1
<1>5. b \in Slots(tab) /\ Clamp(tab, dest - b) = d /\ Clamp(tab, b + d) = dest
  <2>1. tab.mask \in Nat /\ dest \in Slots(tab) /\ d \in Slots(tab)
    BY <1>t, <1>3
  <2>. QED BY <2>1, SlotBefore
<1>. HIDE DEF b
<1>6. s \in Slots(tab) /\ Clamp(tab, s - b) = k
  BY <1>t, <1>3, <1>5, SlotAt
<1>7. FwdOK(tab, {dest})
  BY DEF Swap, IInv, Stale
<1>8. s # dest /\ tab.hash[s] # 0
  BY <1>3, <1>5, <1>7 DEF FwdOK
<1>. HIDE DEF s
<1>9. gone = {k} /\ come = {d}
  BY <1>2, <1>3, <1>5, <1>6, ShiftBitExact
<1>10. tab' = [Copied(tab, s, dest) EXCEPT
                 !.fwd[b] = Xor(tab.fwd[b], {k}) \cup {d}]
  <2>1. Copied(tab, s, dest).fwd = tab.fwd
    BY <1>t DEF Copied, Good, IsTable
  <2>. QED
    BY <1>2, <1>9, <2>1
<1>11. Xor(tab.fwd[b], {k}) \cup {d} = (tab.fwd[b] \ {k}) \cup {d}
  BY <1>3 DEF Xor
<1>12. /\ tab'.mask = tab.mask
       /\ tab'.hash = [tab.hash EXCEPT ![dest] = tab.hash[s]]
       /\ tab'.fwd = [tab.fwd EXCEPT ![b] = (tab.fwd[b] \ {k}) \cup {d}]
       /\ tab'.data = [tab.data EXCEPT ![dest] = tab.data[s]]
  BY <1>t, <1>5, <1>10, <1>11 DEF Copied, Good, IsTable
<1>13. b = Clamp(tab, dest - d) /\ s = Clamp(tab, b + k) /\ dest = Clamp(tab, b + d)
  BY <1>5 DEF b, s
<1>. QED
  BY <1>3, <1>4, <1>5, <1>6, <1>8, <1>12, <1>13 DEF SwapMoves

-----------------------------------------------------------------------------
(* No hash is there twice *)

\* Between a bucket and an entry of its own no slot is free.
NoGap(t) ==
  \A b \in Slots(t) : \A k \in t.fwd[b] : \A n \in 0 .. k - 1 :
    t.hash[Clamp(t, b + n)] # Empty

\* No slot is free between the home bucket of h and slot.
Scanned(t, h, slot) ==
  \A n \in 0 .. Clamp(t, slot - Home(t, h)) - 1 :
    t.hash[Clamp(t, Home(t, h) + n)] # Empty

\* The bucket of h goes around the end of the table.
BucketWraps(t, h) == Home(t, h) + BucketSize > t.mask

\* What a scan from h's home bucket that stops at a free slot has found out.  If
\* it stops within the bucket, entries of the bucket that are further on are ruled
\* out because no slot is free before them.
LEMMA ScanSays ==
  ASSUME NEW t, Good(t), FwdOK(t, {}), ReachOK(t, {}), NEW h \in Nat \ {0},
         NEW k \in Slots(t), StopsAt(t, h, k),
         t.hash[Clamp(t, Home(t, h) + k)] = 0,
         NoGap(t) \/ k >= BucketSize
  PROVE  /\ Lacks(t, {}, h)
         /\ Clamp(t, Clamp(t, Home(t, h) + k) - Home(t, h)) = k
         /\ Scanned(t, h, Clamp(t, Home(t, h) + k))
<1>. DEFINE b == Home(t, h)
            at(n) == t.hash[Clamp(t, b + n)]
<1>0. /\ t.mask \in Nat /\ k \in Nat /\ BucketSize \in Nat
      /\ t.hash \in [Slots(t) -> Nat] /\ t.fwd \in [Slots(t) -> SUBSET Nat]
  BY ConstantsAssumption DEF Good, IsTable, Slots
<1>1. b \in Slots(t)
  BY <1>0, ClampRange DEF Home
<1>2. \A n \in 0 .. k - 1 : at(n) # 0 /\ (n < BucketSize => at(n) # h)
  BY DEF StopsAt
<1>3. Clamp(t, Clamp(t, b + k) - b) = k
  <2>. HIDE DEF b
  <2>. QED BY <1>0, <1>1, SlotAt
<1>4. ASSUME NEW s \in Slots(t), t.hash[s] = h PROVE FALSE
  <2>. DEFINE e == Clamp(t, s - b)
  <2>1. e \in t.fwd[b]
    BY <1>4 DEF ReachOK
  <2>2. Clamp(t, b + e) = s /\ e \in Slots(t)
    <3>. HIDE DEF b
    <3>. QED BY <1>0, <1>1, OffsetOf
  <2>. HIDE DEF e
  <2>3. e \in Nat /\ e < BucketSize /\ at(e) = h
    BY <1>1, <1>4, <2>1, <2>2 DEF FwdOK, Slots
  <2>4. CASE e < k
    BY <1>0, <1>2, <2>3, <2>4
  <2>5. CASE e = k
    BY <2>3, <2>5
  <2>6. CASE k < e
    <3>1. k \in 0 .. e - 1 /\ ~ (k >= BucketSize)
      BY <1>0, <2>3, <2>6
    <3>. QED
      BY <1>1, <2>1, <3>1 DEF NoGap
  <2>. QED
    BY <1>0, <2>3, <2>4, <2>5, <2>6
<1>5. Lacks(t, {}, h)
  BY <1>4 DEF Lacks
<1>. QED
  BY <1>2, <1>3, <1>5 DEF Scanned

\* The offsets from bucket h0 along a stretch of slots that starts there.
LEMMA ScanBack ==
  ASSUME NEW t, t.mask \in Nat, NEW h0 \in Slots(t), NEW o \in Slots(t),
         NEW d \in Slots(t), d <= o
  PROVE  Clamp(t, Clamp(t, h0 + o) - d) = Clamp(t, h0 + (o - d))
<1>. DEFINE x == Clamp(t, h0 + o)
<1>1. x = IF h0 + o > t.mask THEN h0 + o - (t.mask + 1) ELSE h0 + o
  BY ClampWraps DEF Slots
<1>2. Clamp(t, h0 + (o - d)) = IF h0 + (o - d) > t.mask
                               THEN h0 + (o - d) - (t.mask + 1) ELSE h0 + (o - d)
  BY ClampWraps DEF Slots
<1>3. Clamp(t, x - d) = IF x - d < 0 THEN x - d + t.mask + 1 ELSE x - d
  <2>. HIDE DEF x
  <2>1. x \in Slots(t)
    BY <1>1 DEF Slots
  <2>. QED
    BY <2>1, ClampWraps DEF Slots
<1>. QED
  BY <1>1, <1>2, <1>3 DEF Slots

LEMMA ScanOn ==
  ASSUME NEW t, t.mask \in Nat, NEW h0 \in Slots(t), NEW m \in Slots(t),
         NEW n \in Slots(t), m + n <= t.mask
  PROVE  Clamp(t, Clamp(t, h0 + m) + n) = Clamp(t, h0 + (m + n))
<1>. DEFINE x == Clamp(t, h0 + m)
<1>1. x = IF h0 + m > t.mask THEN h0 + m - (t.mask + 1) ELSE h0 + m
  BY ClampWraps DEF Slots
<1>2. Clamp(t, h0 + (m + n)) = IF h0 + (m + n) > t.mask
                               THEN h0 + (m + n) - (t.mask + 1) ELSE h0 + (m + n)
  BY ClampWraps DEF Slots
<1>3. Clamp(t, x + n) = IF x + n > t.mask THEN x + n - (t.mask + 1) ELSE x + n
  <2>. HIDE DEF x
  <2>1. x \in Slots(t)
    BY <1>1 DEF Slots
  <2>. QED
    BY <2>1, ClampWraps DEF Slots
<1>. QED
  BY <1>1, <1>2, <1>3 DEF Slots

\* A swap takes the free slot back along the stretch that was scanned.
LEMMA SwapBack ==
  ASSUME NEW t, t.mask \in Nat, NEW h0 \in Slots(t), NEW dst \in Slots(t),
         NEW d \in Slots(t), NEW k \in Slots(t), k < d,
         d <= Clamp(t, dst - h0)
  PROVE  LET o == Clamp(t, dst - h0)
             b == Clamp(t, dst - d)
         IN  /\ o \in Slots(t)
             /\ Clamp(t, Clamp(t, b + k) - h0) = o - (d - k)
             /\ \A n \in 0 .. d - 1 : Clamp(t, b + n) = Clamp(t, h0 + (o - d + n))
<1>. DEFINE o == Clamp(t, dst - h0)
            b == Clamp(t, dst - d)
<1>1. o \in Slots(t) /\ Clamp(t, h0 + o) = dst
  BY OffsetOf
<1>. HIDE DEF o
<1>2. b = Clamp(t, h0 + (o - d))
  <2>1. d <= o
    BY DEF o
  <2>2. Clamp(t, Clamp(t, h0 + o) - d) = Clamp(t, h0 + (o - d))
    BY <1>1, <2>1, ScanBack
  <2>. QED
    BY <1>1, <2>2
<1>. HIDE DEF b
<1>3. ASSUME NEW n \in 0 .. d - 1
      PROVE  Clamp(t, b + n) = Clamp(t, h0 + (o - d + n)) /\ o - d + n \in Slots(t)
  <2>. DEFINE m == o - d
  <2>1. m \in Slots(t) /\ n \in Slots(t) /\ m + n <= t.mask
    BY <1>1 DEF Slots, o
  <2>. HIDE DEF m
  <2>2. Clamp(t, Clamp(t, h0 + m) + n) = Clamp(t, h0 + (m + n))
    BY <2>1, ScanOn
  <2>3. m + n \in Slots(t)
    BY <2>1 DEF Slots
  <2>. QED
    BY <1>2, <2>2, <2>3 DEF m
<1>4. k \in 0 .. d - 1
  BY DEF Slots
<1>5. Clamp(t, b + k) = Clamp(t, h0 + (o - d + k)) /\ o - d + k \in Slots(t)
  BY <1>3, <1>4
<1>6. Clamp(t, Clamp(t, b + k) - h0) = o - d + k
  <2>. DEFINE m == o - d + k
  <2>1. m \in Slots(t) /\ Clamp(t, b + k) = Clamp(t, h0 + m)
    BY <1>5
  <2>. HIDE DEF m
  <2>2. Clamp(t, Clamp(t, h0 + m) - h0) = m
    BY <2>1, SlotAt
  <2>. QED
    BY <2>1, <2>2 DEF m
<1>7. o - d + k = o - (d - k)
  BY <1>1 DEF Slots
<1>. QED
  BY <1>1, <1>3, <1>6, <1>7 DEF o, b

\* The swap loop ends as soon as the free slot is in a bucket that does not wrap,
\* and never for one that does.
LEMMA InBucketWhen ==
  ASSUME NEW t, t.mask \in Nat, BucketSize <= t.mask + 1, NEW h \in Nat,
         NEW s \in Slots(t)
  PROVE  InBucket(t, h, s) <=> /\ ~ BucketWraps(t, h)
                               /\ Clamp(t, s - Home(t, h)) < BucketSize
<1>. DEFINE b == Home(t, h)
<1>1. b \in Slots(t) /\ BucketSize \in Nat \ {0}
  BY ClampRange, ConstantsAssumption DEF Home
<1>. HIDE DEF b
<1>2. Clamp(t, s - b) = IF s - b < 0 THEN s - b + t.mask + 1 ELSE s - b
  BY <1>1, ClampWraps DEF Slots
<1>3. Clamp(t, b + BucketSize) = IF b + BucketSize > t.mask
                                 THEN b + BucketSize - (t.mask + 1)
                                 ELSE b + BucketSize
  BY <1>1, ClampWraps DEF Slots
<1>4. (/\ s >= b /\ s < Clamp(t, b + BucketSize))
      <=> /\ ~ (b + BucketSize > t.mask) /\ Clamp(t, s - b) < BucketSize
  BY <1>1, <1>2, <1>3 DEF Slots
<1>. QED
  BY <1>4 DEF InBucket, BucketWraps, b

\* An entry joins bucket c at offset d: no slot before it is free, and no slot
\* becomes free.
LEMMA NoGapKept ==
  ASSUME NEW t, Good(t), NoGap(t), NEW u, u.mask = t.mask,
         NEW c \in Slots(t), NEW d \in Slots(t),
         \A b \in Slots(t) : \A k \in u.fwd[b] : k \in t.fwd[b] \/ (b = c /\ k = d),
         \A s \in Slots(t) : t.hash[s] # 0 => u.hash[s] # 0,
         \A n \in 0 .. d - 1 : u.hash[Clamp(t, c + n)] # 0
  PROVE  NoGap(u)
<1>0. /\ t.mask \in Nat /\ t.fwd \in [Slots(t) -> SUBSET Nat]
      /\ Slots(u) = Slots(t) /\ \A x : Clamp(u, x) = Clamp(t, x)
  BY DEF Good, IsTable, Slots, Clamp
<1>. SUFFICES ASSUME NEW b \in Slots(t), NEW k \in u.fwd[b], NEW n \in 0 .. k - 1
              PROVE  u.hash[Clamp(t, b + n)] # 0
  BY <1>0 DEF NoGap
<1>1. CASE b = c /\ k = d
  BY <1>1
<1>2. CASE k \in t.fwd[b]
  <2>1. t.hash[Clamp(t, b + n)] # 0
    BY <1>2 DEF NoGap
  <2>2. b + n \in Int
    BY <1>0, <1>2 DEF Slots
  <2>3. Clamp(t, b + n) \in Slots(t)
    BY <1>0, <2>2, ClampRange
  <2>. QED
    BY <2>1, <2>3
<1>. QED
  BY <1>1, <1>2

\* The inductive invariant, on top of IInv: the hash in progress is in no slot,
\* and no slot is free before the one it is going to, nor before any entry of
\* any bucket.  Only a swap loop for a bucket that wraps leaves gaps: it goes on
\* until no entry can be swapped, and the table is given up for a larger one.
HeldOnce == UniqueOK(tab, Stale)
NotThere == pc \in {"swap", "place"} => Lacks(tab, Stale, job.hash)
PlaceScan == pc = "place" => Scanned(tab, job.hash, dest)
SwapScan ==
  pc = "swap" => \/ BucketWraps(tab, job.hash)
                 \/ /\ Clamp(tab, dest - Home(tab, job.hash)) >= BucketSize
                    /\ Scanned(tab, job.hash, dest)
Gapless == NoGap(tab) \/ (pc = "swap" /\ BucketWraps(tab, job.hash))

UInv == HeldOnce /\ NotThere /\ PlaceScan /\ SwapScan /\ Gapless

LEMMA InitUInv == Init => UInv
<1>. SUFFICES ASSUME Init PROVE UInv
  OBVIOUS
<1>1. \A b \in Slots(tab) : tab.hash[b] = 0 /\ tab.fwd[b] = {}
  BY DEF Init, Alloc, Slots
<1>. QED
  BY <1>1 DEF Init, UInv, HeldOnce, UniqueOK, NotThere, PlaceScan, SwapScan,
              Gapless, NoGap

\* The swap loop: an entry moves into the free slot.
LEMMA SwapUInv ==
  ASSUME NarrowBitmap, IInv, UInv, Swap PROVE UInv'
<1>0. /\ TypeOK /\ Good(tab) /\ tab.mask \in Nat /\ BucketSize <= tab.mask + 1
      /\ BucketSize \in Nat /\ tab.hash \in [Slots(tab) -> Nat]
      /\ tab.fwd \in [Slots(tab) -> SUBSET Nat]
      /\ dest \in Slots(tab) /\ job.hash \in Nat /\ Home(tab, job.hash) \in Slots(tab)
      /\ UNCHANGED job /\ pc = "swap"
  BY TypeOKFacts, ConstantsAssumption DEF IInv, Good, IsTable, Swap
<1>1. PICK b, s, d, k \in Slots(tab) : SwapMoves(b, s, d, k)
  BY SwapEffect
<1>2. /\ Slots(tab') = Slots(tab) /\ \A x : Clamp(tab', x) = Clamp(tab, x)
      /\ \A x : Home(tab', x) = Home(tab, x)
      /\ BucketWraps(tab', job.hash) <=> BucketWraps(tab, job.hash)
  BY <1>1 DEF SwapMoves, Slots, Clamp, Home, BucketWraps
<1>3. Stale = {dest} /\ Stale' = {s} /\ pc' \in {"place", "swap"}
  BY <1>0, <1>1 DEF SwapMoves, Stale
<1>4. HeldOnce' /\ NotThere'
  <2>1. /\ tab'.hash = [tab.hash EXCEPT ![dest] = tab.hash[s]]
        /\ s # dest /\ job' = job
    BY <1>0, <1>1 DEF SwapMoves
  <2>2. UniqueOK(tab, {dest}) /\ Lacks(tab, {dest}, job.hash)
    BY <1>0, <1>3 DEF UInv, HeldOnce, NotThere
  <2>3. \A x \in Slots(tab) \ {s} :
          \E y \in Slots(tab) \ {dest} : /\ tab'.hash[x] = tab.hash[y]
                                        /\ y = IF x = dest THEN s ELSE x
    BY <1>0, <2>1
  <2>4. UniqueOK(tab', {s})
    BY <1>2, <2>2, <2>3 DEF UniqueOK
  <2>5. Lacks(tab', {s}, job.hash)
    BY <1>2, <2>2, <2>3 DEF Lacks
  <2>. QED
    BY <1>3, <2>1, <2>4, <2>5 DEF HeldOnce, NotThere
<1>5. \A x \in Slots(tab) : tab.hash[x] # 0 => tab'.hash[x] # 0
  BY <1>0, <1>1 DEF SwapMoves
<1>6. pc' = "place" <=> /\ ~ BucketWraps(tab, job.hash)
                        /\ Clamp(tab, s - Home(tab, job.hash)) < BucketSize
  BY <1>0, <1>1, InBucketWhen DEF SwapMoves
<1>7. CASE BucketWraps(tab, job.hash)
  BY <1>0, <1>2, <1>3, <1>4, <1>6, <1>7 DEF UInv, PlaceScan, SwapScan, Gapless
<1>8. CASE ~ BucketWraps(tab, job.hash)
  <2>. DEFINE h0 == Home(tab, job.hash)
              o  == Clamp(tab, dest - h0)
              p  == Clamp(tab, s - h0)
  <2>1. o >= BucketSize /\ Scanned(tab, job.hash, dest) /\ NoGap(tab)
    BY <1>0, <1>8 DEF UInv, SwapScan, Gapless
  <2>2. d \in Nat /\ k \in Nat /\ k < d /\ d < BucketSize
    BY <1>1 DEF SwapMoves, Slots
  <2>3. /\ o \in Slots(tab) /\ p = o - (d - k)
        /\ \A n \in 0 .. d - 1 : Clamp(tab, b + n) = Clamp(tab, h0 + (o - d + n))
    <3>1. b = Clamp(tab, dest - d) /\ s = Clamp(tab, b + k)
      BY <1>1 DEF SwapMoves
    <3>2. h0 \in Slots(tab)
      BY <1>0
    <3>. HIDE DEF h0
    <3>3. d <= o
      <4>1. o \in Slots(tab)
        BY <1>0, <3>2, OffsetOf
      <4>. QED
        BY <1>0, <2>1, <2>2, <4>1 DEF Slots
    <3>. HIDE DEF o
    <3>4. /\ o \in Slots(tab) /\ Clamp(tab, Clamp(tab, b + k) - h0) = o - (d - k)
          /\ \A n \in 0 .. d - 1 : Clamp(tab, b + n) = Clamp(tab, h0 + (o - d + n))
      <4>1. d <= Clamp(tab, dest - h0)
        BY <3>3 DEF o
      <4>2. LET e == Clamp(tab, dest - h0)
                c == Clamp(tab, dest - d)
            IN  /\ e \in Slots(tab)
                /\ Clamp(tab, Clamp(tab, c + k) - h0) = e - (d - k)
                /\ \A n \in 0 .. d - 1 : Clamp(tab, c + n) = Clamp(tab, h0 + (e - d + n))
        BY <1>0, <2>2, <3>2, <4>1, SwapBack
      <4>. QED
        BY <3>1, <4>2 DEF o
    <3>. QED
      BY <3>1, <3>4
  <2>. HIDE DEF o, p
  <2>4. o \in Nat /\ p \in Nat /\ p < o
    <3>1. o \in 0 .. tab.mask /\ p = o - (d - k)
      BY <2>3 DEF Slots
    <3>2. o >= BucketSize /\ BucketSize \in Nat
      BY <1>0, <2>1
    <3>. QED
      BY <2>2, <3>1, <3>2
  <2>5. \A n \in 0 .. o - 1 : tab'.hash[Clamp(tab, h0 + n)] # 0
    <3>1. \A n \in 0 .. o - 1 : tab.hash[Clamp(tab, h0 + n)] # 0
      BY <2>1 DEF Scanned, o
    <3>2. \A n \in 0 .. o - 1 : Clamp(tab, h0 + n) \in Slots(tab)
      <4>1. \A n \in 0 .. o - 1 : h0 + n \in Int
        BY <1>0, <2>4 DEF Slots
      <4>. QED
        BY <1>0, <4>1, ClampRange
    <3>. QED
      BY <1>5, <3>1, <3>2
  <2>6. Scanned(tab', job'.hash, dest')
    <3>1. dest' = s /\ Clamp(tab', dest' - Home(tab', job'.hash)) = p
      BY <1>0, <1>1, <1>2 DEF SwapMoves, p
    <3>. QED
      BY <1>0, <1>2, <2>4, <2>5, <3>1 DEF Scanned
  <2>7. SwapScan'
    <3>1. pc' = "swap" => p >= BucketSize
      BY <1>0, <1>3, <1>6, <1>8, <2>4 DEF p
    <3>2. Clamp(tab', dest' - Home(tab', job'.hash)) = p
      BY <1>0, <1>1, <1>2 DEF SwapMoves, p
    <3>. QED
      BY <2>6, <3>1, <3>2 DEF SwapScan
  <2>8. NoGap(tab')
    <3>1. \A n \in 0 .. d - 1 : tab'.hash[Clamp(tab, b + n)] # 0
      <4>. SUFFICES ASSUME NEW n \in 0 .. d - 1
                    PROVE  tab'.hash[Clamp(tab, b + n)] # 0
        OBVIOUS
      <4>1. o - d + n \in 0 .. o - 1
        BY <1>0, <2>1, <2>2, <2>4
      <4>. QED
        BY <2>3, <2>5, <4>1
    <3>2. /\ \A c \in Slots(tab) : \A j \in tab'.fwd[c] :
               j \in tab.fwd[c] \/ (c = b /\ j = d)
          /\ tab'.mask = tab.mask
      <4>1. /\ tab'.fwd = [tab.fwd EXCEPT ![b] = (tab.fwd[b] \ {k}) \cup {d}]
            /\ tab'.mask = tab.mask
        BY <1>1 DEF SwapMoves
      <4>. QED BY <1>0, <4>1
    <3>. QED
      BY <1>0, <1>5, <2>1, <3>1, <3>2, NoGapKept
  <2>. QED
    BY <1>4, <2>6, <2>7, <2>8 DEF UInv, PlaceScan, Gapless
<1>. QED
  BY <1>7, <1>8

\* The entry goes to the slot found for it.
LEMMA PlaceUInv ==
  ASSUME NarrowBitmap, IInv, UInv, Place PROVE UInv'
<1>. DEFINE b == Home(tab, job.hash)
            d == Clamp(tab, dest - b)
<1>0. /\ TypeOK /\ Good(tab) /\ tab.mask \in Nat /\ tab.hash \in [Slots(tab) -> Nat]
      /\ tab.fwd \in [Slots(tab) -> SUBSET Nat]
      /\ dest \in Slots(tab) /\ b \in Slots(tab) /\ pc = "place" /\ job.hash # 0
  BY TypeOKFacts DEF IInv, JobReal, Good, IsTable, Place
<1>1. /\ tab'.mask = tab.mask
      /\ tab'.hash = [tab.hash EXCEPT ![dest] = job.hash]
      /\ tab'.fwd = [tab.fwd EXCEPT ![b] = @ \cup {d}]
  BY PlaceEffect
<1>2. pc' \in {"idle", "rehash"}
  BY DEF Place, Placed
<1>3. /\ Slots(tab') = Slots(tab) /\ Stale = {dest} /\ Stale' = {}
  BY <1>0, <1>1, <1>2 DEF Slots, Stale
<1>4. HeldOnce'
  BY <1>0, <1>1, <1>3 DEF UInv, HeldOnce, NotThere, UniqueOK, Lacks
<1>5. d \in Slots(tab)
  <2>. HIDE DEF b
  <2>. QED BY <1>0, OffsetOf
<1>6. \A x \in Slots(tab) : tab.hash[x] # 0 => tab'.hash[x] # 0
  BY <1>0, <1>1
<1>7. \A n \in 0 .. d - 1 : tab'.hash[Clamp(tab, b + n)] # 0
  <2>. SUFFICES ASSUME NEW n \in 0 .. d - 1
                PROVE  tab'.hash[Clamp(tab, b + n)] # 0
    OBVIOUS
  <2>1. tab.hash[Clamp(tab, b + n)] # 0
    BY <1>0 DEF UInv, PlaceScan, Scanned
  <2>. HIDE DEF d
  <2>2. b + n \in Int
    BY <1>0, <1>5 DEF Slots
  <2>3. Clamp(tab, b + n) \in Slots(tab)
    BY <1>0, <2>2, ClampRange
  <2>. QED
    BY <1>6, <2>1, <2>3
<1>8. \A c \in Slots(tab) : \A j \in tab'.fwd[c] :
        j \in tab.fwd[c] \/ (c = b /\ j = d)
  BY <1>0, <1>1
<1>9. NoGap(tab)
  BY <1>0 DEF UInv, Gapless
<1>. HIDE DEF b, d
<1>10. NoGap(tab')
  <2>1. Good(tab) /\ b \in Slots(tab) /\ tab'.mask = tab.mask
    BY <1>0, <1>1
  <2>. QED
    BY <2>1, <1>5, <1>6, <1>7, <1>8, <1>9, NoGapKept
<1>. QED
  BY <1>2, <1>4, <1>10 DEF UInv, NotThere, PlaceScan, SwapScan, Gapless

\* A step between the scans, that leaves entries and bitmaps alone.
LEMMA QuietUInv ==
  ASSUME UInv, pc \in {"idle", "find", "rehash"}, pc' \in {"idle", "find", "rehash"},
         tab'.mask = tab.mask, tab'.hash = tab.hash, tab'.fwd = tab.fwd
  PROVE  UInv'
<1>1. NoGap(tab) /\ UniqueOK(tab, {})
  BY DEF UInv, Gapless, HeldOnce, Stale
<1>2. NoGap(tab') /\ UniqueOK(tab', {})
  BY <1>1 DEF NoGap, UniqueOK, Slots, Clamp
<1>. QED
  BY <1>2 DEF UInv, HeldOnce, NotThere, PlaceScan, SwapScan, Gapless, Stale

\* Every step of an operation keeps the invariant: one proof step for each action.
LEMMA StepUInv ==
  ASSUME NarrowBitmap, IInv, UInv, Step PROVE UInv'
<1>0. /\ TypeOK /\ Good(tab) /\ tab.mask \in Nat /\ BucketSize <= tab.mask + 1
      /\ BucketSize \in Nat \ {0} /\ Home(tab, job.hash) \in Slots(tab)
      /\ job.hash \in Nat
  BY TypeOKFacts, ConstantsAssumption DEF IInv, Good
<1>1. CASE FindIdentical
  <2>1. tab'.mask = tab.mask /\ tab'.hash = tab.hash /\ tab'.fwd = tab.fwd
    BY <1>1, IdenticalEffect
  <2>2. pc = "find" /\ pc' \in {"idle", "rehash"}
    BY <1>1 DEF FindIdentical, Placed
  <2>. QED
    BY <2>1, <2>2, QuietUInv
<1>2. ASSUME NEW k \in Slots(tab), pc = "find", UNCHANGED <<tab, job>>,
             StopsAt(tab, job.hash, k),
             dest' = Clamp(tab, Home(tab, job.hash) + k), tab.hash[dest'] = 0,
             \/ k < BucketSize /\ pc' = "place"
             \/ k >= BucketSize /\ pc' = "swap"
      PROVE  UInv'
  <2>1. /\ FwdOK(tab, {}) /\ ReachOK(tab, {}) /\ job.hash \in Nat \ {0}
        /\ UniqueOK(tab, {}) /\ NoGap(tab)
    BY <1>0, <1>2 DEF IInv, UInv, HeldOnce, Gapless, Stale, JobReal
  <2>2. /\ Lacks(tab, {}, job.hash)
        /\ Clamp(tab, dest' - Home(tab, job.hash)) = k
        /\ Scanned(tab, job.hash, dest')
    BY <1>0, <1>2, <2>1, ScanSays
  <2>3. Lacks(tab, {dest'}, job.hash) /\ UniqueOK(tab, {dest'})
    BY <2>1, <2>2 DEF Lacks, UniqueOK
  <2>4. tab' = tab /\ job' = job /\ Stale' = {dest'}
    BY <1>2 DEF Stale
  <2>. QED
    BY <1>2, <2>1, <2>2, <2>3, <2>4
       DEF UInv, HeldOnce, NotThere, PlaceScan, SwapScan, Gapless
<1>3. CASE FindEmpty
  <2>1. PICK k \in 0 .. BucketSize - 1 :
          /\ StopsAt(tab, job.hash, k)
          /\ dest' = Clamp(tab, Home(tab, job.hash) + k)
          /\ tab.hash[dest'] = 0
    BY <1>3 DEF FindEmpty
  <2>2. k \in Slots(tab) /\ k < BucketSize
    BY <1>0 DEF Slots
  <2>. QED
    BY <1>2, <1>3, <2>1, <2>2 DEF FindEmpty
<1>4. CASE FindEmptySwap
  <2>1. PICK k \in BucketSize .. tab.mask :
          /\ StopsAt(tab, job.hash, k)
          /\ dest' = Clamp(tab, Home(tab, job.hash) + k)
    BY <1>4 DEF FindEmptySwap
  <2>2. k \in Slots(tab) /\ k >= BucketSize
    BY <1>0 DEF Slots
  <2>3. tab.hash[dest'] = 0
    BY <1>0, <2>1, <2>2 DEF StopsAt
  <2>. QED
    BY <1>2, <1>4, <2>1, <2>2, <2>3 DEF FindEmptySwap
<1>5. CASE Swap
  BY <1>5, SwapUInv
<1>6. CASE Place
  BY <1>6, PlaceUInv
<1>7. CASE Grow
  <2>1. \A b \in Slots(tab') : tab'.hash[b] = 0 /\ tab'.fwd[b] = {}
    BY <1>7 DEF Grow, Alloc, Slots
  <2>2. pc' = "rehash" /\ NoGap(tab') /\ UniqueOK(tab', {})
    BY <1>7, <2>1 DEF Grow, NoGap, UniqueOK
  <2>. QED
    BY <2>2 DEF UInv, HeldOnce, NotThere, PlaceScan, SwapScan, Gapless, Stale
<1>8. CASE Rehash
  <2>1. pc = "rehash" /\ pc' \in {"rehash", "find"} /\ tab' = tab
    BY <1>8 DEF Rehash
  <2>. QED BY <2>1, QuietUInv
<1>9. CASE Grown
  <2>1. pc = "rehash" /\ pc' = "find" /\ tab' = tab
    BY <1>9 DEF Grown
  <2>. QED BY <2>1, QuietUInv
<1>. QED
  BY <1>1, <1>3, <1>4, <1>5, <1>6, <1>7, <1>8, <1>9 DEF Step

LEMMA NextUInv ==
  ASSUME NarrowBitmap, NoRemoval
  PROVE  IInv /\ UInv /\ [Next]_vars => UInv'
<1>. SUFFICES ASSUME IInv, UInv, [Next]_vars PROVE UInv'
  OBVIOUS
<1>1. ASSUME NEW h \in Hashes, Lookup(h) PROVE UInv'
  BY <1>1, QuietUInv DEF Lookup
<1>2. ASSUME NEW h \in Hashes, Remove(h) PROVE UInv'
  BY <1>2 DEF Remove, NoRemoval
<1>3. ASSUME NEW h \in Hashes, NEW d \in Data, Add(h, d) PROVE UInv'
  BY <1>3, QuietUInv DEF Add
<1>4. CASE Step
  BY <1>4, StepUInv
<1>5. CASE UNCHANGED vars
  BY <1>5 DEF vars, UInv, HeldOnce, NotThere, PlaceScan, SwapScan, Gapless, Stale
<1>. QED
  BY <1>1, <1>2, <1>3, <1>4, <1>5 DEF Next

LEMMA InvarianceU ==
  ASSUME NarrowBitmap, ProperUse, NoRemoval
  PROVE  Spec => [](IInv /\ UInv)
<1>1. Init => IInv /\ UInv
  BY InitIInv, InitUInv
<1>2. IInv /\ UInv /\ [Next]_vars => IInv' /\ UInv'
  BY NextIInv, NextUInv
<1>. QED
  BY <1>1, <1>2, PTL DEF Spec

\* No hash is in two slots, in any reachable state: the scan of HTABLE_FIND_SLOT
\* stops at a free slot only where the hash cannot be farther on, whatever swaps
\* and growths went before and whatever a growth read past the old table's end
\* (htable_find_slot and htable_add_hash, htable.c).
THEOREM HashesUnique ==
  ASSUME NarrowBitmap, ProperUse, NoRemoval
  PROVE  Spec => []Unique
<1>1. IInv /\ UInv => Unique
  BY DEF UInv, HeldOnce, UniqueOK, Unique
<1>. QED
  BY <1>1, InvarianceU, PTL

-----------------------------------------------------------------------------
(* The table is a map *)

\* The memory past the end of a table reads as free slots.
CleanBeyond == Beyond \subseteq {Empty}

\* What the table in use holds before and after a step: the same; or, for h0,
\* now d0.
SameHeld ==
  \A h \in Nat \ {0} : \A d : Holds(tab', Stale', h, d) <=> Holds(tab, Stale, h, d)
NowHeld(h0, d0) ==
  \A h \in Nat \ {0} : \A d :
    Holds(tab', Stale', h, d) <=> IF h = h0 THEN d = d0 ELSE Holds(tab, Stale, h, d)

\* The searches change nothing, and a swap only where an entry is.
LEMMA SearchHeld ==
  ASSUME NarrowBitmap, IInv, FindEmpty \/ FindEmptySwap \/ Swap
  PROVE  SameHeld
<1>0. /\ Good(tab) /\ tab.hash \in [Slots(tab) -> Nat] /\ dest \in Slots(tab)
      /\ tab.data \in [Slots(tab) -> Nat]
  BY TypeOKFacts DEF IInv, Good, IsTable
<1>1. CASE Swap
  <2>1. PICK b, s, d, k \in Slots(tab) : SwapMoves(b, s, d, k)
    BY <1>1, SwapEffect
  <2>2. /\ tab'.mask = tab.mask /\ s # dest
        /\ tab'.hash = [tab.hash EXCEPT ![dest] = tab.hash[s]]
        /\ tab'.data = [tab.data EXCEPT ![dest] = tab.data[s]]
    BY <2>1 DEF SwapMoves
  <2>3. Stale = {dest} /\ Stale' = {s}
    BY <1>1, <2>1 DEF Stale, Swap, SwapMoves
  <2>4. Slots(tab') = Slots(tab)
    BY <2>2 DEF Slots
  <2>5. \A x \in Slots(tab) \ {s} : \E y \in Slots(tab) \ {dest} :
          tab'.hash[x] = tab.hash[y] /\ tab'.data[x] = tab.data[y]
    <3>. TAKE x \in Slots(tab) \ {s}
    <3>1. CASE x = dest
      BY <1>0, <2>2, <3>1
    <3>2. CASE x # dest
      BY <1>0, <2>2, <3>2
    <3>. QED BY <3>1, <3>2
  <2>6. \A y \in Slots(tab) \ {dest} : \E x \in Slots(tab) \ {s} :
          tab'.hash[x] = tab.hash[y] /\ tab'.data[x] = tab.data[y]
    <3>. TAKE y \in Slots(tab) \ {dest}
    <3>1. CASE y = s
      BY <1>0, <2>2, <3>1
    <3>2. CASE y # s
      BY <1>0, <2>2, <3>2
    <3>. QED BY <3>1, <3>2
  <2>7. ASSUME NEW h, NEW d0
        PROVE  Holds(tab', {s}, h, d0) <=> Holds(tab, {dest}, h, d0)
    BY <2>4, <2>5, <2>6 DEF Holds
  <2>. QED
    BY <2>3, <2>7 DEF SameHeld
<1>2. CASE FindEmpty \/ FindEmptySwap
  <2>1. Stale = {} /\ Stale' = {dest'} /\ tab' = tab
    BY <1>2 DEF Stale, FindEmpty, FindEmptySwap
  <2>2. tab.hash[dest'] = 0
    BY <1>2, ConstantsAssumption DEF FindEmpty, FindEmptySwap, StopsAt
  <2>. QED
    BY <2>1, <2>2 DEF SameHeld, Holds
<1>. QED
  BY <1>1, <1>2

\* What is found or placed holds the data of the job.
LEMMA StoreHeld ==
  ASSUME NarrowBitmap, IInv, UInv, FindIdentical \/ Place
  PROVE  NowHeld(job.hash, job.data)
<1>0. /\ Good(tab) /\ tab.hash \in [Slots(tab) -> Nat] /\ dest \in Slots(tab)
      /\ tab.data \in [Slots(tab) -> Nat]
  BY TypeOKFacts DEF IInv, Good, IsTable
<1>1. Stale' = {}
  BY DEF FindIdentical, Place, Placed, Stale
<1>2. CASE FindIdentical
  <2>1. PICK s \in Slots(tab) :
          /\ tab.hash[s] = job.hash
          /\ tab'.mask = tab.mask /\ tab'.hash = tab.hash
          /\ tab'.data = [tab.data EXCEPT ![s] = job.data]
    BY <1>2, IdenticalEffect
  <2>2. Stale = {} /\ UniqueOK(tab, {}) /\ job.hash # 0
    BY <1>2 DEF FindIdentical, Stale, UInv, HeldOnce, IInv, JobReal
  <2>3. Slots(tab') = Slots(tab)
    BY <2>1 DEF Slots
  <2>4. \A x \in Slots(tab) : tab.hash[x] = job.hash <=> x = s
    BY <2>1, <2>2 DEF UniqueOK
  <2>5. ASSUME NEW h \in Nat \ {0}, NEW d
        PROVE  Holds(tab', {}, h, d) <=>
                 IF h = job.hash THEN d = job.data ELSE Holds(tab, {}, h, d)
    <3>1. CASE h = job.hash
      BY <1>0, <2>1, <2>3, <2>4, <3>1 DEF Holds
    <3>2. CASE h # job.hash
      BY <1>0, <2>1, <2>3, <2>4, <3>2 DEF Holds
    <3>. QED BY <3>1, <3>2
  <2>. QED
    BY <1>1, <2>2, <2>5 DEF NowHeld
<1>3. CASE Place
  <2>1. /\ tab'.mask = tab.mask
        /\ tab'.hash = [tab.hash EXCEPT ![dest] = job.hash]
        /\ tab'.data = [tab.data EXCEPT ![dest] = job.data]
    BY <1>3, PlaceEffect
  <2>2. Stale = {dest} /\ Lacks(tab, {dest}, job.hash)
    BY <1>3 DEF Place, Stale, UInv, NotThere
  <2>3. Slots(tab') = Slots(tab)
    BY <2>1 DEF Slots
  <2>4. ASSUME NEW h \in Nat \ {0}, NEW d
        PROVE  Holds(tab', {}, h, d) <=>
                 IF h = job.hash THEN d = job.data ELSE Holds(tab, {dest}, h, d)
    <3>1. CASE h = job.hash
      BY <1>0, <2>1, <2>2, <2>3, <3>1 DEF Holds, Lacks
    <3>2. CASE h # job.hash
      BY <1>0, <2>1, <2>3, <3>2 DEF Holds
    <3>. QED BY <3>1, <3>2
  <2>. QED
    BY <1>1, <2>2, <2>4 DEF NowHeld
<1>. QED
  BY <1>2, <1>3

\* The inductive invariant, on top of IInv and UInv.  While the table grows, a
\* lookup in the old table comes to each of its entries; what is behind HTABLE_REHASH
\* is in the new table, which holds nothing else; and the job is the entry it is at.
\* Without growth the job is what the caller asked for.
JobAsked == ~ Growing /\ pc # "idle" => job = req
StaleMoved ==
  pc \in {"swap", "place"} =>
    tab.hash[dest] = 0 \/ Holds(tab, {dest}, tab.hash[dest], tab.data[dest])
OldAnswers ==
  Growing =>
    /\ \A s \in Slots(old) :
         old.hash[s] # 0 => /\ Found(old, old.hash[s])
                            /\ DataOf(old, old.hash[s]) = old.data[s]
    /\ \A h \in Nat \ {0} : Found(old, h) => ~ Lacks(old, {}, h)
CopiedSoFar ==
  Growing => \A s \in Slots(old) :
    s < i /\ old.hash[s] # 0 => Holds(tab, Stale, old.hash[s], old.data[s])
OnlyCopies ==
  Growing => \A x \in Slots(tab) \ Stale :
    tab.hash[x] # 0 => Holds(old, {}, tab.hash[x], tab.data[x])
JobIsEntry ==
  Growing /\ pc # "rehash" =>
    i \in Slots(old) /\ job.hash = old.hash[i] /\ job.data = old.data[i]

MInv == JobAsked /\ StaleMoved /\ OldAnswers /\ CopiedSoFar /\ OnlyCopies /\ JobIsEntry

LEMMA InitMInv == Init => MInv
<1>1. Init => ~ Growing /\ pc = "idle"
  BY DEF Init, Growing, NoTable, Alloc
<1>. QED
  BY <1>1 DEF MInv, JobAsked, StaleMoved, OldAnswers, CopiedSoFar, OnlyCopies,
              JobIsEntry

\* An entry is copied, or found to have been copied before: equal hashes in the
\* old table have equal data.
LEMMA StoreMInv ==
  ASSUME NarrowBitmap, IInv, UInv, MInv, FindIdentical \/ Place
  PROVE  MInv'
<1>0. /\ NowHeld(job.hash, job.data) /\ UNCHANGED <<req, job, old>>
      /\ pc \in {"find", "place"}
      /\ IF Growing THEN pc' = "rehash" /\ i' = i + 1 ELSE pc' = "idle"
  BY StoreHeld DEF FindIdentical, Place, Placed
<1>1. CASE ~ Growing
  BY <1>0, <1>1 DEF MInv, JobAsked, StaleMoved, OldAnswers, CopiedSoFar, OnlyCopies,
                    JobIsEntry, Growing
<1>2. CASE Growing
  <2>1. /\ Growing' /\ i \in Nat /\ old.mask \in Nat
        /\ old.hash \in [Slots(old) -> Nat] /\ old.data \in [Slots(old) -> Nat]
        /\ tab'.hash \in [Slots(tab') -> Nat] /\ Slots(old) \subseteq Int
    <3>1. TypeOK /\ TypeOK' /\ Growing'
      BY <1>0, <1>2, NextType DEF IInv, Next, Step, Growing
    <3>2. i \in Nat /\ old.mask \in Nat /\ IsTable(old)
      BY <1>2, <3>1 DEF TypeOK
    <3>3. IsTable(tab')
      BY <3>1 DEF TypeOK, IsTable, Slots
    <3>. QED
      BY <3>1, <3>2, <3>3 DEF IsTable, Slots
  <2>2. OldAnswers'
    BY <1>0, <1>2, <2>1 DEF MInv, OldAnswers
  <2>3. i \in Slots(old) /\ job.hash = old.hash[i] /\ job.data = old.data[i]
        /\ job.hash # 0
    BY <1>0, <1>2 DEF MInv, JobIsEntry, IInv, JobReal
  <2>4. CopiedSoFar'
    <3>. SUFFICES ASSUME NEW s \in Slots(old), s < i + 1, old.hash[s] # 0
                  PROVE  Holds(tab', Stale', old.hash[s], old.data[s])
      BY <1>0, <1>2 DEF CopiedSoFar
    <3>1. old.hash[s] \in Nat \ {0} /\ s \in Int
      BY <2>1
    <3>2. CASE old.hash[s] = job.hash
      <4>1. old.data[s] = job.data
        BY <1>2, <2>3, <3>2 DEF MInv, OldAnswers
      <4>. QED
        BY <1>0, <3>1, <3>2, <4>1 DEF NowHeld
    <3>3. CASE old.hash[s] # job.hash
      <4>1. s < i
        BY <2>1, <2>3, <3>1, <3>3
      <4>2. Holds(tab, Stale, old.hash[s], old.data[s])
        BY <1>2, <4>1 DEF MInv, CopiedSoFar
      <4>. QED
        BY <1>0, <3>1, <3>3, <4>2 DEF NowHeld
    <3>. QED BY <3>2, <3>3
  <2>5. OnlyCopies'
    <3>. SUFFICES ASSUME NEW x \in Slots(tab') \ Stale', tab'.hash[x] # 0
                  PROVE  Holds(old, {}, tab'.hash[x], tab'.data[x])
      BY <1>0, <2>1 DEF OnlyCopies
    <3>. DEFINE h == tab'.hash[x]
                d == tab'.data[x]
    <3>1. h \in Nat \ {0} /\ Holds(tab', Stale', h, d)
      BY <2>1 DEF Holds
    <3>2. CASE h = job.hash
      <4>1. d = job.data
        BY <1>0, <3>1, <3>2 DEF NowHeld
      <4>. QED
        BY <2>3, <3>2, <4>1 DEF Holds
    <3>3. CASE h # job.hash
      <4>1. Holds(tab, Stale, h, d)
        BY <1>0, <3>1, <3>3 DEF NowHeld
      <4>2. PICK y \in Slots(tab) \ Stale : tab.hash[y] = h /\ tab.data[y] = d
        BY <4>1 DEF Holds
      <4>. QED
        BY <1>2, <3>1, <4>2 DEF MInv, OnlyCopies
    <3>. QED BY <3>2, <3>3
  <2>. QED
    BY <1>0, <1>2, <2>1, <2>2, <2>4, <2>5
       DEF MInv, JobAsked, StaleMoved, JobIsEntry
<1>. QED
  BY <1>1, <1>2

\* While an entry is being placed the table is not known to hold more or less.
LEMMA SearchMInv ==
  ASSUME NarrowBitmap, IInv, MInv, FindEmpty \/ FindEmptySwap \/ Swap
  PROVE  MInv'
<1>0. /\ SameHeld /\ UNCHANGED <<req, job, old, i>>
      /\ pc \in {"find", "swap"} /\ pc' \in {"swap", "place"}
  BY SearchHeld DEF FindEmpty, FindEmptySwap, Swap
<1>1. Growing' <=> Growing
  BY <1>0 DEF Growing
<1>2. JobAsked' /\ OldAnswers' /\ JobIsEntry'
  BY <1>0, <1>1 DEF MInv, JobAsked, OldAnswers, JobIsEntry
<1>3. StaleMoved'
  <2>1. CASE Swap
    <3>1. PICK b, s, d, k \in Slots(tab) : SwapMoves(b, s, d, k)
      BY <2>1, SwapEffect
    <3>2. /\ dest \in Slots(tab) /\ dest # s /\ dest' = s
          /\ tab.hash \in [Slots(tab) -> Nat] /\ tab.data \in [Slots(tab) -> Nat]
          /\ tab'.hash = [tab.hash EXCEPT ![dest] = tab.hash[s]]
          /\ tab'.data = [tab.data EXCEPT ![dest] = tab.data[s]]
          /\ Slots(tab') = Slots(tab)
      BY <3>1, TypeOKFacts DEF SwapMoves, IInv, Good, IsTable, Slots
    <3>3. /\ tab'.hash[dest] = tab'.hash[s] /\ tab'.data[dest] = tab'.data[s]
      BY <3>1, <3>2
    <3>. QED
      BY <3>2, <3>3 DEF StaleMoved, Holds
  <2>2. CASE FindEmpty \/ FindEmptySwap
    BY <2>2, ConstantsAssumption
       DEF FindEmpty, FindEmptySwap, StopsAt, StaleMoved
  <2>. QED BY <2>1, <2>2
<1>4. CASE ~ Growing
  BY <1>1, <1>2, <1>3, <1>4 DEF MInv, CopiedSoFar, OnlyCopies
<1>5. CASE Growing
  <2>1. /\ old.hash \in [Slots(old) -> Nat] /\ tab'.hash \in [Slots(tab') -> Nat]
    <3>1. TypeOK /\ TypeOK'
      BY NextType DEF IInv, Next, Step
    <3>. QED
      BY <1>5, <3>1 DEF TypeOK, IsTable
  <2>2. CopiedSoFar'
    BY <1>0, <1>5, <2>1 DEF MInv, CopiedSoFar, SameHeld
  <2>3. OnlyCopies'
    <3>. SUFFICES ASSUME NEW x \in Slots(tab') \ Stale', tab'.hash[x] # 0
                  PROVE  Holds(old, {}, tab'.hash[x], tab'.data[x])
      BY <1>0 DEF OnlyCopies
    <3>1. tab'.hash[x] \in Nat \ {0} /\ Holds(tab', Stale', tab'.hash[x], tab'.data[x])
      BY <2>1 DEF Holds
    <3>2. Holds(tab, Stale, tab'.hash[x], tab'.data[x])
      BY <1>0, <3>1 DEF SameHeld
    <3>3. PICK y \in Slots(tab) \ Stale :
            tab.hash[y] = tab'.hash[x] /\ tab.data[y] = tab'.data[x]
      BY <3>2 DEF Holds
    <3>. QED
      BY <1>5, <3>1, <3>3 DEF MInv, OnlyCopies
  <2>. QED
    BY <1>2, <1>3, <2>2, <2>3 DEF MInv
<1>. QED
  BY <1>4, <1>5

\* The table the callers see answers for each entry it has, and only for those,
\* while an entry is set aside, too.
LEMMA CurrentAnswers ==
  ASSUME IInv, UInv, MInv
  PROVE  /\ \A s \in Slots(Current) :
              Current.hash[s] # 0 =>
                /\ Found(Current, Current.hash[s])
                /\ DataOf(Current, Current.hash[s]) = Current.data[s]
         /\ \A h \in Nat \ {0} : Found(Current, h) => ~ Lacks(Current, {}, h)
<1>1. CASE Growing
  BY <1>1 DEF MInv, OldAnswers, Current
<1>2. CASE ~ Growing
  <2>0. /\ Current = tab /\ Good(tab) /\ tab.hash \in [Slots(tab) -> Nat]
        /\ FwdOK(tab, Stale) /\ ReachOK(tab, Stale) /\ UniqueOK(tab, Stale)
    BY <1>2, TypeOKFacts DEF Current, IInv, UInv, HeldOnce, Good, IsTable
  <2>1. ASSUME NEW s \in Slots(tab), tab.hash[s] # 0
        PROVE  Found(tab, tab.hash[s]) /\ DataOf(tab, tab.hash[s]) = tab.data[s]
    <3>1. Holds(tab, Stale, tab.hash[s], tab.data[s])
      BY <2>1 DEF MInv, StaleMoved, Stale, Holds
    <3>2. tab.hash[s] \in Nat \ {0}
      BY <2>0, <2>1
    <3>. QED
      BY <2>0, <3>1, <3>2, DataIs
  <2>2. ASSUME NEW h \in Nat \ {0}, Found(tab, h) PROVE ~ Lacks(tab, {}, h)
    <3>1. ~ Lacks(tab, Stale, h)
      BY <2>0, <2>2, FoundEntry
    <3>. QED
      BY <3>1 DEF Lacks
  <2>. QED
    BY <2>0, <2>1, <2>2
<1>. QED
  BY <1>1, <1>2

\* HTABLE_GROW sets the table the callers see aside, whole, and allocates another.
LEMMA GrowMInv ==
  ASSUME IInv, UInv, MInv, Grow
  PROVE  /\ MInv' /\ pc' # "idle" /\ ret' = ret
         /\ \A h \in Nat \ {0} : DataOf(Current, h)' = DataOf(Current, h)
<1>1. PICK n : old' = [Current EXCEPT !.size = n] /\ tab' = Alloc(n)
                /\ n = 2 * Current.size
  BY DEF Grow, Doubled, Current
<1>2. IsTable(Current) /\ Current.size \in Nat \ {0}
  <2>1. CASE Growing
    BY <2>1 DEF IInv, TypeOK, IsTable, Current, Growing
  <2>2. CASE ~ Growing
    BY <2>2, ConstantsAssumption DEF IInv, TypeOK, IsTable, Current
  <2>. QED BY <2>1, <2>2
<1>3. /\ old'.mask = Current.mask /\ old'.hash = Current.hash
      /\ old'.fwd = Current.fwd /\ old'.data = Current.data /\ old'.size = n
  BY <1>1, <1>2 DEF IsTable
<1>4. Growing' /\ Current' = old' /\ Slots(old') = Slots(Current)
  BY <1>1, <1>2, <1>3 DEF Growing, Current, Slots
<1>5. /\ i' = 0 /\ pc' = "rehash" /\ ret' = ret
  BY DEF Grow
<1>6. \A h : /\ Found(old', h) <=> Found(Current, h)
             /\ DataOf(old', h) = DataOf(Current, h)
  BY <1>3, SizeApart
<1>7. OldAnswers'
  <2>1. \A s \in Slots(old') : old'.hash[s] # 0 =>
          Found(old', old'.hash[s]) /\ DataOf(old', old'.hash[s]) = old'.data[s]
    BY <1>3, <1>4, <1>6, CurrentAnswers
  <2>2. \A h \in Nat \ {0} : Found(old', h) => ~ Lacks(old', {}, h)
    BY <1>3, <1>4, <1>6, CurrentAnswers DEF Lacks
  <2>. QED
    BY <2>1, <2>2 DEF OldAnswers
<1>8. CopiedSoFar'
  BY <1>4, <1>5, <1>2 DEF CopiedSoFar, Slots
<1>9. OnlyCopies'
  BY <1>1 DEF OnlyCopies, Alloc, Slots
<1>. QED
  BY <1>4, <1>5, <1>6, <1>7, <1>8, <1>9
     DEF MInv, JobAsked, StaleMoved, JobIsEntry

\* HTABLE_REHASH passes a free slot, or takes up an entry; behind the old table's
\* end it finds free slots only.
LEMMA RehashMInv ==
  ASSUME CleanBeyond, IInv, MInv, Rehash
  PROVE  MInv'
<1>0. /\ Growing /\ pc = "rehash" /\ Stale = {} /\ Stale' = {}
      /\ UNCHANGED <<req, tab, old>> /\ Growing' /\ pc' \in {"rehash", "find"}
  BY DEF Rehash, IInv, TypeOK, Growing, Stale
<1>1. i \in Nat /\ Slots(old) \subseteq Int
  BY <1>0 DEF IInv, TypeOK, Slots
<1>2. JobAsked' /\ StaleMoved' /\ OldAnswers' /\ OnlyCopies'
  BY <1>0 DEF MInv, JobAsked, StaleMoved, OldAnswers, OnlyCopies
<1>3. PICK h \in IF i \in Slots(old) THEN {old.hash[i]} ELSE Beyond,
           d \in IF i \in Slots(old) THEN {old.data[i]} ELSE Data :
        IF h = Empty
        THEN i' = i + 1 /\ UNCHANGED <<pc, job>>
        ELSE pc' = "find" /\ job' = [hash |-> h, data |-> d] /\ UNCHANGED i
  BY DEF Rehash
<1>4. CASE h = 0
  <2>1. i' = i + 1 /\ pc' = "rehash"
    BY <1>0, <1>3, <1>4
  <2>2. \A s \in Slots(old) : s < i + 1 /\ old.hash[s] # 0 => s < i
    BY <1>1, <1>3, <1>4
  <2>3. CopiedSoFar'
    BY <1>0, <2>1, <2>2 DEF MInv, CopiedSoFar
  <2>. QED
    BY <1>2, <2>1, <2>3 DEF MInv, JobIsEntry
<1>5. CASE h # 0
  <2>1. i \in Slots(old)
    BY <1>3, <1>5 DEF CleanBeyond
  <2>2. i' = i /\ job' = [hash |-> old.hash[i], data |-> old.data[i]]
    BY <1>3, <1>5, <2>1
  <2>3. CopiedSoFar'
    BY <1>0, <2>2 DEF MInv, CopiedSoFar
  <2>. QED
    BY <1>0, <1>2, <2>1, <2>2, <2>3 DEF MInv, JobIsEntry
<1>. QED
  BY <1>4, <1>5

\* When HTABLE_REHASH is through, the new table answers as the old one did.
LEMMA GrownMInv ==
  ASSUME IInv, UInv, MInv, Grown
  PROVE  /\ MInv' /\ pc' # "idle" /\ ret' = ret
         /\ \A h \in Nat \ {0} : DataOf(Current, h)' = DataOf(Current, h)
<1>0. /\ Growing /\ pc = "rehash" /\ pc' = "find" /\ Stale = {} /\ ~ Growing'
      /\ i = old.size /\ tab' = tab /\ job' = req /\ req' = req /\ ret' = ret
  BY DEF Grown, IInv, TypeOK, Growing, Stale, NoTable, Alloc
<1>1. Current = old /\ Current' = tab
  BY <1>0 DEF Current
<1>2. /\ Good(tab) /\ FwdOK(tab, {}) /\ ReachOK(tab, {}) /\ UniqueOK(tab, {})
      /\ tab.hash \in [Slots(tab) -> Nat] /\ old.hash \in [Slots(old) -> Nat]
      /\ \A s \in Slots(old) : s < i
  <2>1. IsTable(old) /\ old.mask \in Nat /\ i > old.mask
    BY <1>0 DEF IInv, TypeOK
  <2>2. old.hash \in [Slots(old) -> Nat] /\ \A s \in Slots(old) : s < i
    BY <1>0, <2>1 DEF IsTable, Slots
  <2>3. Good(tab) /\ tab.hash \in [Slots(tab) -> Nat]
    BY TypeOKFacts DEF IInv, Good, IsTable
  <2>4. FwdOK(tab, {}) /\ ReachOK(tab, {}) /\ UniqueOK(tab, {})
    BY <1>0 DEF IInv, UInv, HeldOnce
  <2>. QED
    BY <2>2, <2>3, <2>4
<1>3. ASSUME NEW h \in Nat \ {0} PROVE DataOf(tab, h) = DataOf(old, h)
  <2>1. CASE Lacks(old, {}, h)
    <3>1. ~ Found(old, h)
      BY <1>0, <2>1 DEF MInv, OldAnswers
    <3>2. Lacks(tab, {}, h)
      BY <1>0, <2>1 DEF MInv, OnlyCopies, Lacks, Holds
    <3>. QED
      BY <1>2, <3>1, <3>2, DataIs DEF DataOf
  <2>2. CASE ~ Lacks(old, {}, h)
    <3>1. PICK s \in Slots(old) : old.hash[s] = h
      BY <2>2 DEF Lacks
    <3>2. Holds(tab, {}, h, old.data[s])
      BY <1>0, <1>2, <3>1 DEF MInv, CopiedSoFar
    <3>3. DataOf(old, h) = old.data[s]
      BY <1>0, <3>1 DEF MInv, OldAnswers
    <3>. QED
      BY <1>2, <3>2, <3>3, DataIs
  <2>. QED BY <2>1, <2>2
<1>4. MInv'
  BY <1>0 DEF MInv, JobAsked, StaleMoved, OldAnswers, CopiedSoFar, OnlyCopies,
              JobIsEntry
<1>. QED
  BY <1>0, <1>1, <1>3, <1>4

LEMMA StepMInv ==
  ASSUME NarrowBitmap, CleanBeyond, IInv, UInv, MInv, Step
  PROVE  MInv'
  BY StoreMInv, SearchMInv, GrowMInv, RehashMInv, GrownMInv DEF Step

\* What a step of HTABLE_ADD changes of what the callers can look up: nothing, or,
\* when it returns, the data of the hash that was added.
LEMMA StepMap ==
  ASSUME NarrowBitmap, ProperUse, CleanBeyond, IInv, UInv, MInv, Step
  PROVE  \/ /\ pc' # "idle" /\ ret' = ret
            /\ \A h \in Nat \ {0} : DataOf(Current, h)' = DataOf(Current, h)
         \/ /\ pc' = "idle" /\ ret' = req.data
            /\ \A h \in Nat \ {0} :
                 DataOf(Current, h)' =
                   IF h = req.hash THEN req.data ELSE DataOf(Current, h)
<1>0. IInv' /\ UInv'
  BY NextIInv, StepUInv DEF Next
<1>1. /\ Good(tab) /\ FwdOK(tab, Stale) /\ ReachOK(tab, Stale) /\ UniqueOK(tab, Stale)
      /\ Good(tab') /\ FwdOK(tab', Stale') /\ ReachOK(tab', Stale')
      /\ UniqueOK(tab', Stale')
  <2>1. IInv /\ UInv => /\ Good(tab) /\ FwdOK(tab, Stale) /\ ReachOK(tab, Stale)
                        /\ UniqueOK(tab, Stale)
    BY TypeOKFacts DEF IInv, UInv, HeldOnce
  <2>2. /\ FwdOK(tab', Stale') /\ ReachOK(tab', Stale') /\ UniqueOK(tab', Stale')
    BY <1>0 DEF IInv, UInv, HeldOnce
  <2>3. Good(tab')
    BY <1>0 DEF IInv, TypeOK, Good, IsTable, Slots
  <2>. QED BY <2>1, <2>2, <2>3
<1>2. CASE Growing /\ (FindIdentical \/ Place \/ FindEmpty \/ FindEmptySwap \/ Swap)
  <2>1. old' = old /\ pc' # "idle" /\ ret' = ret
    BY <1>2 DEF FindIdentical, Place, Placed, FindEmpty, FindEmptySwap, Swap
  <2>2. Current' = Current
    BY <1>2, <2>1 DEF Current, Growing
  <2>. QED
    BY <2>1, <2>2
<1>3. CASE ~ Growing /\ (FindEmpty \/ FindEmptySwap \/ Swap)
  <2>1. SameHeld /\ old' = old /\ pc' # "idle" /\ ret' = ret
    BY <1>3, SearchHeld DEF FindEmpty, FindEmptySwap, Swap
  <2>2. Current = tab /\ Current' = tab'
    BY <1>3, <2>1 DEF Current, Growing
  <2>3. \A h \in Nat \ {0} : DataOf(tab', h) = DataOf(tab, h)
    BY <1>1, <2>1, SameEntries DEF SameHeld
  <2>. QED
    BY <2>1, <2>2, <2>3
<1>4. CASE ~ Growing /\ (FindIdentical \/ Place)
  <2>1. /\ NowHeld(job.hash, job.data) /\ old' = old /\ pc' = "idle"
        /\ ret' = job.data /\ job = req
    BY <1>4, StoreHeld DEF FindIdentical, Place, Placed, MInv, JobAsked
  <2>2. Current = tab /\ Current' = tab'
    BY <1>4, <2>1 DEF Current, Growing
  <2>3. ASSUME NEW h \in Nat \ {0}
        PROVE  DataOf(tab', h) = IF h = req.hash THEN req.data ELSE DataOf(tab, h)
    <3>1. CASE h = req.hash
      <4>1. Holds(tab', Stale', h, req.data)
        BY <2>1, <3>1 DEF NowHeld
      <4>. QED
        BY <1>1, <3>1, <4>1, DataIs
    <3>2. CASE h # req.hash
      <4>1. \A d : Holds(tab', Stale', h, d) <=> Holds(tab, Stale, h, d)
        BY <2>1, <3>2 DEF NowHeld
      <4>2. DataOf(tab', h) = DataOf(tab, h)
        BY <1>1, <4>1, SameEntries
      <4>. QED
        BY <3>2, <4>2
    <3>. QED BY <3>1, <3>2
  <2>. QED
    BY <2>1, <2>2, <2>3
<1>5. CASE Grow
  BY <1>5, GrowMInv
<1>6. CASE Rehash
  <2>1. Growing /\ UNCHANGED <<tab, old, ret>> /\ pc' # "idle"
    BY <1>6 DEF Rehash, IInv, TypeOK
  <2>2. Current' = Current
    BY <2>1 DEF Current, Growing
  <2>. QED
    BY <2>1, <2>2
<1>7. CASE Grown
  BY <1>7, GrownMInv
<1>. QED
  BY <1>2, <1>3, <1>4, <1>5, <1>6, <1>7 DEF Step

\* A call finds the table not growing, and an Add makes the job what it asks for.
LEMMA CallMInv ==
  ASSUME IInv, MInv, NEW h, NEW d, Lookup(h) \/ Add(h, d)
  PROVE  MInv'
<1>1. ~ Growing /\ ~ Growing' /\ pc' \in {"idle", "find"}
      /\ (pc' # "idle" => job' = req')
  BY DEF Lookup, Add, IInv, TypeOK, Growing
<1>. QED
  BY <1>1 DEF MInv, JobAsked, StaleMoved, OldAnswers, CopiedSoFar, OnlyCopies,
              JobIsEntry

\* The callers store and look up what they may.
ReqOK == pc # "idle" => req.hash \in Hashes /\ req.data \in Data

LEMMA NextMInv ==
  ASSUME NarrowBitmap, CleanBeyond, NoRemoval
  PROVE  IInv /\ UInv /\ MInv /\ ReqOK /\ [Next]_vars => MInv' /\ ReqOK'
<1>. SUFFICES ASSUME IInv, UInv, MInv, ReqOK, [Next]_vars PROVE MInv' /\ ReqOK'
  OBVIOUS
<1>1. ASSUME NEW h \in Hashes, Lookup(h) PROVE MInv' /\ ReqOK'
  BY <1>1, CallMInv DEF Lookup, ReqOK
<1>2. ASSUME NEW h \in Hashes, Remove(h) PROVE MInv' /\ ReqOK'
  BY <1>2 DEF Remove, NoRemoval
<1>3. ASSUME NEW h \in Hashes, NEW d \in Data, Add(h, d) PROVE MInv' /\ ReqOK'
  BY <1>3, CallMInv DEF Add, ReqOK
<1>4. CASE Step
  <2>1. req' = req /\ pc # "idle"
    BY <1>4 DEF Step, FindIdentical, FindEmpty, FindEmptySwap, Swap, Place, Placed,
                Grow, NoSlot, Rehash, Grown
  <2>. QED
    BY <1>4, <2>1, StepMInv DEF ReqOK
<1>5. CASE UNCHANGED vars
  BY <1>5 DEF vars, MInv, JobAsked, StaleMoved, OldAnswers, CopiedSoFar, OnlyCopies,
              JobIsEntry, ReqOK, Growing, Stale
<1>. QED
  BY <1>1, <1>2, <1>3, <1>4, <1>5 DEF Next

\* The map that Refines says the table is.
MapOf == [h \in Hashes |-> DataOf(Current, h)]

LEMMA InitMap == Init => Map!MapInit
<1>. SUFFICES ASSUME Init PROVE Map!MapInit
  OBVIOUS
<1>1. Current = Alloc(DefaultSize) /\ ret = NoData
  BY DEF Init, Current, Growing, NoTable, Alloc
<1>2. \A h \in Nat : ~ Found(Current, h)
  <2>. SUFFICES ASSUME NEW h \in Nat PROVE Matches(Current, h) = {}
    BY DEF Found
  <2>1. DefaultSize \in Nat \ {0} /\ Alloc(DefaultSize).mask \in Nat
    BY ConstantsAssumption DEF Alloc
  <2>2. Home(Current, h) \in Slots(Current)
    BY <1>1, <2>1, ClampRange DEF Home
  <2>3. Current.fwd[Home(Current, h)] = {}
    <3>1. \A b \in Slots(Alloc(DefaultSize)) : Alloc(DefaultSize).fwd[b] = {}
      BY DEF Alloc, Slots
    <3>. QED BY <1>1, <2>2, <3>1
  <2>. QED
    BY <2>3 DEF Matches
<1>. QED
  BY <1>1, <1>2, ConstantsAssumption DEF Map!MapInit

\* Every step of the table is a step of the map, or leaves it alone.
LEMMA NextMap ==
  ASSUME NarrowBitmap, ProperUse, CleanBeyond, NoRemoval,
         IInv, UInv, MInv, ReqOK, [Next]_vars
  PROVE  [Map!MapNext]_(Map!mapVars)
<1>. USE ConstantsAssumption
<1>0. \A h \in Hashes : h \in Nat \ {0}
  BY DEF ProperUse
<1>1. ASSUME NEW h \in Hashes, Lookup(h) PROVE Map!MapLookup(h)
  <2>1. tab' = tab /\ old' = old /\ Current' = Current /\ Current = tab
    BY <1>1 DEF Lookup, Current, Growing, IInv, TypeOK
  <2>2. ret' = DataOf(Current, h)
    BY <1>1, <2>1 DEF Lookup, DataOf
  <2>. QED
    BY <2>1, <2>2 DEF Map!MapLookup, DataOf
<1>2. ASSUME NEW h \in Hashes, Remove(h) PROVE FALSE
  BY <1>2 DEF Remove, NoRemoval
<1>3. ASSUME NEW h \in Hashes, NEW d \in Data, Add(h, d)
      PROVE  UNCHANGED Map!mapVars
  <2>1. Current' = Current /\ ret' = ret
    BY <1>3 DEF Add, Current, Growing
  <2>. QED
    BY <2>1 DEF Map!mapVars
<1>4. CASE Step
  <2>1. CASE /\ ret' = ret
             /\ \A h \in Nat \ {0} : DataOf(Current, h)' = DataOf(Current, h)
    <3>1. MapOf' = MapOf /\ ret' = ret
      BY <1>0, <2>1 DEF MapOf
    <3>. QED
      BY <3>1 DEF MapOf, DataOf, Map!mapVars
  <2>2. CASE /\ ret' = req.data
             /\ \A h \in Nat \ {0} :
                  DataOf(Current, h)' =
                    IF h = req.hash THEN req.data ELSE DataOf(Current, h)
    <3>1. req.hash \in Hashes /\ req.data \in Data
      BY <1>4 DEF ReqOK, Step, FindIdentical, FindEmpty, FindEmptySwap, Swap, Place,
                  Placed, Grow, NoSlot, Rehash, Grown
    <3>2. MapOf' = [MapOf EXCEPT ![req.hash] = req.data]
      BY <1>0, <2>2 DEF MapOf
    <3>3. Map!MapAdd(req.hash, req.data)
      BY <2>2, <3>2 DEF MapOf, DataOf, Map!MapAdd
    <3>. QED
      BY <3>1, <3>3 DEF Map!MapNext
  <2>. QED
    BY <1>4, <2>1, <2>2, StepMap
<1>5. CASE UNCHANGED vars
  BY <1>5 DEF vars, Map!mapVars, Current, Growing
<1>. QED
  BY <1>1, <1>2, <1>3, <1>4, <1>5 DEF Next, Map!MapNext

\* The table implements the map of HashMap: every lookup returns what was last
\* added for its hash, and NULL for a hash that was never added; swaps, growths and
\* copies neither lose, invent nor mix up entries (the comments of htable.h on add
\* and lookup).  What is assumed is what the runs HopscotchWideFwd and
\* HopscotchOverread show to be needed.
THEOREM TableIsMap ==
  ASSUME NarrowBitmap, ProperUse, NoRemoval, CleanBeyond
  PROVE  Spec => Refines
<1>. DEFINE Inv == IInv /\ UInv /\ MInv /\ ReqOK
<1>1. Init => Inv
  BY InitIInv, InitUInv, InitMInv DEF Init, ReqOK
<1>2. Inv /\ [Next]_vars => Inv'
  BY NextIInv, NextUInv, NextMInv
<1>3. Init => Map!MapInit
  BY InitMap
<1>4. Inv /\ [Next]_vars => [Map!MapNext]_(Map!mapVars)
  BY NextMap
<1>. HIDE DEF Inv
<1>. QED
  BY <1>1, <1>2, <1>3, <1>4, PTL DEF Spec, Refines, Map!MapSpec
=============================================================================

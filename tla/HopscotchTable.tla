--------------------------- MODULE HopscotchTable ---------------------------
(***************************************************************************)
(* The hopscotch hash table of htable.h and htable.c, as the program       *)
(* instantiates it for its EID dictionary (eid_map in primary-block.h: no  *)
(* HTABLE_FIXED, so the table grows).                                      *)
(*                                                                         *)
(* A table is an array of slots.  Each slot holds a hash (Empty when the   *)
(* slot is free), some data, and a forward bitmap: bit k of the bitmap of  *)
(* slot b says that slot b + k holds an entry whose hash leads to b.  A    *)
(* bitmap is modelled by the set of its bits.                              *)
(*                                                                         *)
(* Lookup and Remove are one step each.  Add is the loop of HTABLE_ADD,    *)
(* with the swap loop of HTABLE_ADD_HASH and the two loops of HTABLE_GROW  *)
(* and HTABLE_REHASH taken one iteration at a time, so that every table    *)
(* the loops pass through is a state of the model.                         *)
(***************************************************************************)
EXTENDS Integers

CONSTANTS
  Hashes,       \* values of HTABLE_HASH_KEY for the keys the callers use
  Data,         \* values of HTABLE_DATA_TYPE the callers store
  NoData,       \* NULL
  DefaultSize,  \* HTABLE_DEFAULT_SIZE
  BucketSize,   \* HTABLE_BUCKET_SIZE, the number of bits of a htable_fwd_t
  UintBits,     \* number of bits of the "1u" that is shifted to make a bit
  Beyond,       \* hash words the memory past the end of a table may hold
  WithRemove,   \* whether the callers use HTABLE_REMOVE
  MaxSize       \* bound of the model: the largest table HTABLE_GROW allocates

\* A slot whose hash is zero is free.
Empty == 0

ASSUME ConstantsAssumption ==
  /\ Hashes \subseteq Nat
  /\ Data \subseteq Nat
  /\ NoData \notin Nat
  /\ BucketSize \in Nat \ {0}
  /\ UintBits \in Nat \ {0}
  /\ DefaultSize \in Nat /\ DefaultSize >= BucketSize
  /\ Beyond \subseteq Nat
  /\ WithRemove \in BOOLEAN
  /\ MaxSize \in Nat

VARIABLES
  pc,     \* where the operation in progress is
  req,    \* the hash and data of the HTABLE_ADD in progress
  job,    \* the hash and data HTABLE_ADD_HASH is placing
  dest,   \* dest.slot of HTABLE_ADD_HASH
  tab,    \* the table HTABLE_ADD_HASH works on (nht while growing)
  old,    \* ht of HTABLE_GROW, NoTable when the table is not growing
  i,      \* loop counter of HTABLE_REHASH
  ret     \* what the last completed operation returned

vars == <<pc, req, job, dest, tab, old, i, ret>>

-----------------------------------------------------------------------------
(* Tables *)

(* Variants of the definitions below, each with a slip a change of the code  *)
(* could make.  The model does not use them: they show which property        *)
(* notices the slip.                                                         *)
AllocWideMask(n) ==     \* the mask is the size, not one less
  [ size |-> n, mask |-> n,
    hash |-> [s \in 0 .. n |-> Empty],
    fwd  |-> [s \in 0 .. n |-> {}],
    data |-> [s \in 0 .. n |-> 0] ]
XorAsOr(A, B) ==        \* |= for ^=: the old bit stays
  A \cup B
XorAll(A, B) ==         \* = 0 for ^=: all bits go
  {}
StopsAtFree(t, h, k) == \* does not look for an identical hash
  LET at(n) == t.hash[(h + n) % (t.mask + 1)]
  IN  at(k) = Empty /\ \A n \in 0 .. k - 1 : at(n) # Empty
InBucketOpen(t, h, slot) == \* drops the upper end of the bucket
  slot >= h % (t.mask + 1)
DoubledNot(n) == n      \* grows into a table of the same size
CopiedHash(t, from, to) == \* leaves the data behind
  [t EXCEPT !.hash[to] = t.hash[from]]

\* HTABLE_ALLOC: the new table's slots are zeroed.
Alloc(n) ==
  [ size |-> n,
    mask |-> n - 1,
    hash |-> [s \in 0 .. n - 1 |-> Empty],
    fwd  |-> [s \in 0 .. n - 1 |-> {}],
    data |-> [s \in 0 .. n - 1 |-> 0] ]

NoTable == Alloc(0)
Growing == old.size # 0

\* HTABLE_CLAMP: ANDing with mask, one less than a power of two.
Clamp(t, x) == x % (t.mask + 1)

Home(t, h) == Clamp(t, h)

\* The slots that were allocated for t.  HTABLE_GROW doubles t.size before it
\* is done with t, so t.size may be larger than their number.
Slots(t) == 0 .. t.mask

Xor(A, B) == (A \ B) \cup (B \ A)

\* The bits "1u << n" may set: shifting by the width of the type or more is
\* undefined.  A shift instruction that takes the count modulo the width sets
\* a lower bit, a compiler that folds the shift may set none.
ShiftBit(n) == IF n < UintBits THEN {{n}} ELSE {{n % UintBits}, {}}

\* HTABLE_SEARCH_SLOTS: the bits of the home bucket that lead to h.
Matches(t, h) ==
  {k \in t.fwd[Home(t, h)] : t.hash[Clamp(t, Home(t, h) + k)] = h}

Found(t, h) == Matches(t, h) # {}

\* The bits are tried from the lowest.
FoundSlot(t, h) ==
  Clamp(t, Home(t, h) + CHOOSE k \in Matches(t, h) :
                          \A j \in Matches(t, h) : k <= j)

\* HTABLE_FIND_SLOT: the scan from the home bucket stops after k slots.
StopsAt(t, h, k) ==
  LET at(n) == t.hash[Clamp(t, Home(t, h) + n)]
  IN  /\ at(k) \in IF k < BucketSize THEN {Empty, h} ELSE {Empty}
      /\ \A n \in 0 .. k - 1 :
            at(n) \notin IF n < BucketSize THEN {Empty, h} ELSE {Empty}

\* HTABLE_FIND_SWAP: the bucket d slots before slot has its lowest bit, k, on
\* an entry nearer to it than slot; buckets farther from slot are tried first.
SwapsWith(t, slot, d, k) ==
  /\ d \in 1 .. BucketSize - 1
  /\ k \in t.fwd[Clamp(t, slot - d)] /\ k < d
  /\ \A n \in t.fwd[Clamp(t, slot - d)] : k <= n
  /\ \A e \in d + 1 .. BucketSize - 1 :
        \A n \in t.fwd[Clamp(t, slot - e)] : n >= e

CanSwap(t, slot) ==
  \E d \in 1 .. BucketSize - 1 : \E k \in 0 .. d - 1 : SwapsWith(t, slot, d, k)

\* The condition that ends the swap loop of HTABLE_ADD_HASH.
InBucket(t, h, slot) ==
  /\ slot >= Home(t, h)
  /\ slot < Clamp(t, Home(t, h) + BucketSize)

-----------------------------------------------------------------------------
Init ==
  /\ pc = "idle"
  /\ req = [hash |-> Empty, data |-> 0]
  /\ job = req
  /\ dest = 0
  /\ tab = Alloc(DefaultSize)
  /\ old = NoTable
  /\ i = 0
  /\ ret = NoData

(* HTABLE_LOOKUP *)
Lookup(h) ==
  /\ pc = "idle"
  /\ ret' = IF Found(tab, h) THEN tab.data[FoundSlot(tab, h)] ELSE NoData
  /\ UNCHANGED <<pc, req, job, dest, tab, old, i>>

(* HTABLE_REMOVE *)
Remove(h) ==
  /\ pc = "idle"
  /\ WithRemove
  /\ IF Found(tab, h)
     THEN LET s == FoundSlot(tab, h)
              b == Home(tab, h)
          IN  \E bits \in ShiftBit(Clamp(tab, s - b)) :
                /\ tab' = [tab EXCEPT !.hash[s] = Empty,
                                      !.fwd[b] = Xor(@, bits)]
                /\ ret' = tab.data[s]
     ELSE ret' = NoData /\ UNCHANGED tab
  /\ UNCHANGED <<pc, req, job, dest, old, i>>

(* HTABLE_ADD, called to store d for h. *)
Add(h, d) ==
  /\ pc = "idle"
  /\ pc' = "find"
  /\ req' = [hash |-> h, data |-> d]
  /\ job' = req'
  /\ UNCHANGED <<dest, tab, old, i, ret>>

\* HTABLE_ADD_HASH has returned the data of a slot: the caller stores its data
\* there.  HTABLE_REHASH goes on to its next slot, HTABLE_ADD returns.
Placed(t, slot) ==
  /\ tab' = [t EXCEPT !.data[slot] = job.data]
  /\ IF Growing
     THEN pc' = "rehash" /\ i' = i + 1 /\ UNCHANGED ret
     ELSE pc' = "idle" /\ ret' = job.data /\ UNCHANGED i
  /\ UNCHANGED <<req, job, dest, old>>

\* WALK_FOUND_IDENTICAL
FindIdentical ==
  /\ pc = "find"
  /\ \E k \in 0 .. BucketSize - 1 :
        LET s == Clamp(tab, Home(tab, job.hash) + k)
        IN  /\ StopsAt(tab, job.hash, k)
            /\ tab.hash[s] # Empty
            /\ Placed(tab, s)

\* WALK_FOUND_EMPTY
FindEmpty ==
  /\ pc = "find"
  /\ \E k \in 0 .. BucketSize - 1 :
        LET s == Clamp(tab, Home(tab, job.hash) + k)
        IN  /\ StopsAt(tab, job.hash, k)
            /\ tab.hash[s] = Empty
            /\ dest' = s
  /\ pc' = "place"
  /\ UNCHANGED <<req, job, tab, old, i, ret>>

\* WALK_FOUND_EMPTY_SWAP
FindEmptySwap ==
  /\ pc = "find"
  /\ \E k \in BucketSize .. tab.mask :
        /\ StopsAt(tab, job.hash, k)
        /\ dest' = Clamp(tab, Home(tab, job.hash) + k)
  /\ pc' = "swap"
  /\ UNCHANGED <<req, job, tab, old, i, ret>>

\* "Copy the swap slot forward."
Copied(t, from, to) ==
  [t EXCEPT !.hash[to] = t.hash[from], !.data[to] = t.data[from]]

\* One turn of the swap loop: the entry moves into dest.slot and its old slot
\* becomes dest.slot.  The hash left behind there is stale.
Swap ==
  /\ pc = "swap"
  /\ \E d \in 1 .. BucketSize - 1, k \in 0 .. BucketSize - 2 :
        LET b == Clamp(tab, dest - d)
            s == Clamp(tab, b + k)
        IN  /\ SwapsWith(tab, dest, d, k)
            /\ \E gone \in ShiftBit(Clamp(tab, s - b)),
                  come \in ShiftBit(Clamp(tab, dest - b)) :
                 tab' = [Copied(tab, s, dest) EXCEPT
                           !.fwd[b] = Xor(@, gone) \cup come]
            /\ dest' = s
            /\ pc' = IF InBucket(tab, job.hash, s) THEN "place" ELSE "swap"
  /\ UNCHANGED <<req, job, old, i, ret>>

\* "Mark slot as taken. Associate slot with hash bucket."
Place ==
  /\ pc = "place"
  /\ LET b == Home(tab, job.hash)
     IN  \E bits \in ShiftBit(Clamp(tab, dest - b)) :
           Placed([tab EXCEPT !.hash[dest] = job.hash,
                              !.fwd[b] = @ \cup bits], dest)

\* HTABLE_ADD_HASH returns NULL: no slot is free, or none can be swapped
\* closer.
NoSlot ==
  \/ pc = "find" /\ \A k \in 0 .. tab.mask : ~ StopsAt(tab, job.hash, k)
  \/ pc = "swap" /\ ~ CanSwap(tab, dest)

\* ht->size *= 2
Doubled(n) == 2 * n

\* A turn of the loop of HTABLE_GROW, entered from HTABLE_ADD or again after
\* HTABLE_REHASH failed: ht->size is doubled in place and a table of that size
\* is allocated, or the last one reallocated.
Grow ==
  /\ NoSlot
  /\ LET ht == IF Growing THEN old ELSE tab
         n  == Doubled(ht.size)
     IN  /\ n <= MaxSize
         /\ old' = [ht EXCEPT !.size = n]
         /\ tab' = Alloc(n)
  /\ i' = 0
  /\ pc' = "rehash"
  /\ UNCHANGED <<req, job, dest, ret>>

\* A turn of the loop of HTABLE_REHASH.  Its bound is the doubled size, so the
\* second half of its turns, and more when the size was doubled twice, read
\* past the slots that were allocated.
Rehash ==
  /\ pc = "rehash"
  /\ i < old.size
  /\ \E h \in IF i \in Slots(old) THEN {old.hash[i]} ELSE Beyond :
     \E d \in IF i \in Slots(old) THEN {old.data[i]} ELSE Data :
        IF h = Empty
        THEN i' = i + 1 /\ UNCHANGED <<pc, job>>
        ELSE pc' = "find" /\ job' = [hash |-> h, data |-> d] /\ UNCHANGED i
  /\ UNCHANGED <<req, dest, tab, old, ret>>

\* HTABLE_REHASH returns true: the old table is freed and HTABLE_ADD tries
\* again in the new one.
Grown ==
  /\ pc = "rehash"
  /\ i = old.size
  /\ old' = NoTable
  /\ job' = req
  /\ pc' = "find"
  /\ UNCHANGED <<req, dest, tab, i, ret>>

\* The steps of an operation in progress.
Step ==
  \/ FindIdentical
  \/ FindEmpty
  \/ FindEmptySwap
  \/ Swap
  \/ Place
  \/ Grow
  \/ Rehash
  \/ Grown

Next ==
  \/ \E h \in Hashes :
       \/ Lookup(h)
       \/ Remove(h)
       \/ \E d \in Data : Add(h, d)
  \/ Step

Spec == Init /\ [][Next]_vars

\* An operation that was called runs on: the program has one thread and the
\* loops wait for nothing.
FairSpec == Spec /\ WF_vars(Step)

-----------------------------------------------------------------------------
(* Properties *)

IsTable(t) ==
  t \in [ size : Nat,
          mask : {t.mask},
          hash : [Slots(t) -> Nat],
          fwd  : [Slots(t) -> SUBSET Nat],
          data : [Slots(t) -> Nat] ]

\* The type invariant.  The table in use has the size its mask says; the table
\* being rehashed has been doubled at least once, to the size of the new one.
TypeOK ==
  /\ pc \in {"idle", "find", "swap", "place", "rehash"}
  /\ req \in [hash : Nat, data : Nat]
  /\ job \in [hash : Nat, data : Nat]
  /\ tab.mask \in Nat /\ tab.size = tab.mask + 1 /\ tab.size >= BucketSize
  /\ IsTable(tab)
  /\ Growing => /\ old.mask \in Nat /\ IsTable(old)
                /\ old.size = tab.size /\ old.size > old.mask + 1
                /\ i <= old.size /\ (pc # "rehash" => i < old.size)
  /\ ~ Growing => old = NoTable
  /\ pc = "idle" => ~ Growing
  /\ pc = "rehash" => Growing
  /\ dest \in Slots(tab)
  /\ i \in Nat
  /\ ret \in Nat \cup {NoData}

\* While an entry is being swapped into its bucket, dest.slot is either free
\* or holds the hash of an entry that has just moved away.
Stale == IF pc \in {"swap", "place"} THEN {dest} ELSE {}

\* Every bit of a forward bitmap leads to an entry of its own bucket, within
\* the bucket's reach, and never to the slot that is being vacated
\* (HTABLE_SEARCH_SLOTS follows the bits without asking whose they are).
FwdSound ==
  \A b \in Slots(tab) : \A k \in tab.fwd[b] :
    LET s == Clamp(tab, b + k)
    IN  /\ k < BucketSize
        /\ s \notin Stale
        /\ tab.hash[s] # Empty
        /\ Home(tab, tab.hash[s]) = b

\* Every entry is led to by a bit of its home bucket: however often entries
\* are swapped, a lookup that starts at the home bucket finds them.
Reachable ==
  \A s \in Slots(tab) \ Stale :
    tab.hash[s] # Empty =>
      LET b == Home(tab, tab.hash[s])
      IN  Clamp(tab, s - b) \in tab.fwd[b]

\* No hash is in two slots: an Add of a hash the table holds finds its slot
\* (WALK_FOUND_IDENTICAL) wherever swaps have moved it.
Unique ==
  \A s, t \in Slots(tab) \ Stale :
    tab.hash[s] # Empty /\ tab.hash[s] = tab.hash[t] => s = t

\* The table the callers see: during a growth it is still the old one.
Current == IF Growing THEN old ELSE tab

Map == INSTANCE HashMap WITH
  map <- [h \in Hashes |-> IF Found(Current, h)
                           THEN Current.data[FoundSlot(Current, h)]
                           ELSE NoData]

\* The table is a map: every Lookup returns what was last stored for its hash,
\* and NULL for a hash that was never added; swapping, growing and rehashing
\* neither lose, invent nor mix up entries.
Refines == Map!MapSpec

\* Every Add returns: the swap loop ends, and growing ends with room for the
\* entry.
AddReturns == pc = "find" ~> pc = "idle"
=============================================================================

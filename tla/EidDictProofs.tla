---------------------------- MODULE EidDictProofs ----------------------------
(***************************************************************************)
(* Theorems about EidDict, for EIDs and strings of any number and length,  *)
(* and hash tables of any size.  They rest on what is proved of the table  *)
(* in HopscotchMapProofs: the dictionary uses the table's lemmas about     *)
(* single steps, not its specification, for the offsets it stores are not  *)
(* bounded by a set of data.                                               *)
(***************************************************************************)
EXTENDS EidDict, HopscotchMapProofs

USE DEF Empty

\* No two strings that are put in the dictionary have the same hash (eid_map
\* compares hashes only).
NoCollisions == \A s, r \in Strings : HashOf[s] = HashOf[r] => s = r

-----------------------------------------------------------------------------
(* The parts the dictionary is made of *)

\* The table keeps its invariants through the calls of add_eid, whatever offsets
\* are stored, and through its own steps.
LEMMA TableKept ==
  ASSUME NarrowBitmap, ProperUse, CleanBeyond, IInv, UInv, MInv,
         \/ \E h \in Hashes : Lookup(h) \/ \E d \in Nat : Add(h, d)
         \/ Step
         \/ UNCHANGED vars
  PROVE  IInv' /\ UInv' /\ MInv'
<1>1. ASSUME NEW h \in Hashes, Lookup(h) PROVE IInv' /\ UInv' /\ MInv'
  <2>1. IInv'
    BY <1>1, NextIInv DEF Next
  <2>2. UInv'
    BY <1>1, QuietUInv DEF Lookup
  <2>. QED
    BY <1>1, <2>1, <2>2, CallMInv
<1>2. ASSUME NEW h \in Hashes, NEW d \in Nat, Add(h, d) PROVE IInv' /\ UInv' /\ MInv'
  <2>1. h \in Nat \ {0}
    BY ConstantsAssumption DEF ProperUse
  <2>2. TypeOK'
    BY <1>2, <2>1 DEF Add, IInv, TypeOK, Growing
  <2>3. IInv'
    BY <1>2, <2>1, <2>2 DEF Add, IInv, JobReal, PlaceInReach, Stale
  <2>4. UInv'
    BY <1>2, QuietUInv DEF Add
  <2>. QED
    BY <1>2, <2>3, <2>4, CallMInv
<1>3. CASE Step
  BY <1>3, NextIInv, StepUInv, StepMInv DEF Next
<1>4. CASE UNCHANGED vars
  <2>1. IInv'
    BY <1>4, NextIInv
  <2>. QED
    BY <1>4, <2>1 DEF vars, UInv, HeldOnce, NotThere, PlaceScan, SwapScan, Gapless,
       MInv, JobAsked, StaleMoved, OldAnswers, CopiedSoFar, OnlyCopies, JobIsEntry,
       Growing, Stale
<1>. QED
  BY <1>1, <1>2, <1>3, <1>4

\* strbuf_append makes the room it writes to.
LEMMA AppendedFits ==
  ASSUME NEW sb \in [pos : Nat, cap : Nat], Fits(sb), NEW n \in Nat
  PROVE  /\ Appended(sb, n) \in [pos : Nat, cap : Nat] /\ Fits(Appended(sb, n))
         /\ Appended(sb, n).pos = sb.pos + n
  BY DEF Appended, Expect, Fits

\* So do strbuf_append and strbuf_finish, one after the other.
LEMMA TerminatedFits ==
  ASSUME NEW sb \in [pos : Nat, cap : Nat], Fits(sb), NEW s \in Strings
  PROVE  /\ Terminated(sb, s) \in [pos : Nat, cap : Nat] /\ Fits(Terminated(sb, s))
         /\ Terminated(sb, s).pos = sb.pos + LenOf[s] + 1
<1>1. LenOf[s] \in Nat
  BY DictAssumption
<1>. DEFINE b == Appended(sb, LenOf[s])
<1>2. b \in [pos : Nat, cap : Nat] /\ Fits(b) /\ b.pos = sb.pos + LenOf[s]
  BY <1>1, AppendedFits
<1>3. Terminated(sb, s) = Appended(b, 1)
  BY DEF Terminated, Finished
<1>. HIDE DEF b
<1>4. /\ Appended(b, 1) \in [pos : Nat, cap : Nat] /\ Fits(Appended(b, 1))
      /\ Appended(b, 1).pos = b.pos + 1
  BY <1>2, AppendedFits
<1>. QED
  BY <1>2, <1>3, <1>4

EidRec == [ given : [Parts -> Strings], got : [Parts -> Nat \cup {NoData}] ]

\* A part that is pending has a string.
LEMMA GivenType ==
  ASSUME eids \in Seq(EidRec), NEW p \in Parts, Pending(p)
  PROVE  Last \in 1 .. Len(eids) /\ Given(p) \in Strings
<1>1. Last \in 1 .. Len(eids) /\ eids[Last] \in EidRec
  BY DEF Pending, Last
<1>. QED
  BY <1>1 DEF Given, EidRec

\* An offset is filled in.
LEMMA GotFacts ==
  ASSUME eids \in Seq(EidRec), NEW p \in Parts, Pending(p), NEW pos \in Nat,
         Got(p, pos)
  PROVE  /\ eids' \in Seq(EidRec) /\ Len(eids') = Len(eids)
         /\ Given(p) \in Strings
         /\ \A n \in 1 .. Len(eids) : eids'[n].given = eids[n].given
         /\ \A n \in 1 .. Len(eids) : \A q \in Parts :
              eids'[n].got[q] = IF n = Last /\ q = p THEN pos ELSE eids[n].got[q]
<1>1. Last \in 1 .. Len(eids) /\ eids[Last] \in EidRec
  BY DEF Pending, Last
<1>2. [eids[Last] EXCEPT !.got[p] = pos] \in EidRec
  BY <1>1 DEF EidRec
<1>3. eids' = [eids EXCEPT ![Last] = [eids[Last] EXCEPT !.got[p] = pos]]
  BY <1>1 DEF Got
<1>. HIDE DEF EidRec
<1>4. eids' \in Seq(EidRec) /\ Len(eids') = Len(eids)
  BY <1>1, <1>2, <1>3
<1>5. /\ \A n \in 1 .. Len(eids) : n # Last => eids'[n] = eids[n]
      /\ eids'[Last] = [eids[Last] EXCEPT !.got[p] = pos]
  BY <1>1, <1>3
<1>. USE DEF EidRec
<1>6. /\ eids'[Last].given = eids[Last].given /\ Given(p) \in Strings
      /\ \A q \in Parts :
           eids'[Last].got[q] = IF q = p THEN pos ELSE eids[Last].got[q]
  BY <1>1, <1>5 DEF Given
<1>. QED
  BY <1>4, <1>5, <1>6

-----------------------------------------------------------------------------
(* The inductive invariant *)

\* What the table answers for string s.
Answer(s) == DataOf(Current, HashOf[s])

NotHeld(s) == \A o \in DOMAIN held : held[o] # s

DictTypes ==
  /\ buf \in [pos : Nat, cap : Nat] /\ Fits(buf)
  /\ DOMAIN held \subseteq 0 .. buf.pos - 1
  /\ held \in [DOMAIN held -> Strings]
  /\ eids \in Seq(EidRec) /\ Last <= MaxEids
  /\ adding \in Parts \cup {NoData}

\* The table is busy only for a string that the dictionary does not hold yet, with
\* the offset that the string is going to have; and returns it when it is done.
AddingNew ==
  /\ adding = NoData => pc = "idle"
  /\ adding # NoData => /\ Pending(adding) /\ NotHeld(Given(adding))
                        /\ req = [hash |-> HashOf[Given(adding)], data |-> buf.pos]
                        /\ pc = "idle" => ret = buf.pos

\* The table answers for each string of the buffer with its offset, and for no
\* other string, except one that it has returned for and that is about to be
\* appended.
TableTellsOffsets ==
  \A s \in Strings :
    /\ \A o \in DOMAIN held : held[o] = s => Answer(s) = o
    /\ NotHeld(s) =>
         Answer(s) = IF adding # NoData /\ pc = "idle" /\ s = Given(adding)
                     THEN buf.pos ELSE NoData

\* The string that ends the buffer.
LastString == buf.pos = 0 \/ \E o \in DOMAIN held : End(o) = buf.pos

DictIInv ==
  /\ IInv /\ UInv /\ MInv
  /\ DictTypes /\ AddingNew /\ TableTellsOffsets
  /\ LastString /\ WalkVisitsAll /\ FieldsNameTheirStrings

LEMMA DictInitIInv == ASSUME ProperUse PROVE DictInit => DictIInv
<1>. SUFFICES ASSUME DictInit PROVE DictIInv
  OBVIOUS
<1>1. IInv /\ UInv /\ MInv
  BY InitIInv, InitUInv, InitMInv DEF DictInit
<1>2. /\ held = << >> /\ eids = << >> /\ buf.pos = 0 /\ adding = NoData /\ pc = "idle"
  BY DEF DictInit, Init, NewBuf
<1>3. DOMAIN held = {} /\ Len(eids) = 0
  BY <1>2
<1>4. DictTypes
  <2>1. buf \in [pos : Nat, cap : Nat] /\ Fits(buf)
    BY DictAssumption DEF DictInit, NewBuf, Fits
  <2>2. eids \in Seq(EidRec) /\ Last <= MaxEids
    BY <1>2, <1>3, DictAssumption DEF Last
  <2>3. held \in [DOMAIN held -> Strings]
    BY <1>2, <1>3
  <2>. QED
    BY <1>2, <1>3, <2>1, <2>2, <2>3 DEF DictTypes
<1>5. \A s \in Strings : Answer(s) = NoData
  <2>1. Map!MapInit
    BY InitMap DEF DictInit
  <2>2. \A s \in Strings : HashOf[s] \in Hashes
    BY DictAssumption
  <2>3. \A h \in Hashes : DataOf(Current, h) = NoData
    BY <2>1 DEF Map!MapInit, DataOf
  <2>. QED
    BY <2>2, <2>3 DEF Answer
<1>6. AddingNew /\ TableTellsOffsets
  BY <1>2, <1>3, <1>5 DEF AddingNew, TableTellsOffsets
<1>7. LastString /\ WalkVisitsAll
  BY <1>2, <1>3 DEF LastString, WalkVisitsAll
<1>8. FieldsNameTheirStrings
  BY <1>3 DEF FieldsNameTheirStrings, Last
<1>. QED
  BY <1>1, <1>4, <1>6, <1>7, <1>8 DEF DictIInv

-----------------------------------------------------------------------------
(* The steps *)

\* What the invariant says while no string is being added: the table answers for
\* exactly the strings that are held.
LEMMA KnownHeld ==
  ASSUME DictIInv, adding = NoData, NEW s \in Strings
  PROVE  /\ HashOf[s] \in Hashes /\ HashOf[s] \in Nat
         /\ pc = "idle" /\ Current = tab
         /\ Found(tab, HashOf[s]) =>
              ~ NotHeld(s) /\ DataOf(tab, HashOf[s]) \in DOMAIN held
              /\ held[DataOf(tab, HashOf[s])] = s
         /\ ~ Found(tab, HashOf[s]) => NotHeld(s)
<1>1. HashOf[s] \in Hashes /\ HashOf[s] \in Nat /\ NoData \notin Nat
  BY DictAssumption, ConstantsAssumption
<1>2. pc = "idle" /\ Current = tab
  BY DEF DictIInv, AddingNew, IInv, TypeOK, Current, Growing
<1>3. Answer(s) = DataOf(tab, HashOf[s])
  BY <1>2 DEF Answer
<1>4. NotHeld(s) => Answer(s) = NoData
  BY DEF DictIInv, TableTellsOffsets
<1>5. \A o \in DOMAIN held : held[o] = s => Answer(s) = o /\ o \in Nat
  BY DEF DictIInv, TableTellsOffsets, DictTypes
<1>6. Found(tab, HashOf[s]) => DataOf(tab, HashOf[s]) \in Nat
  BY <1>1, FoundSlotType DEF DictIInv, IInv, DataOf
<1>7. ~ Found(tab, HashOf[s]) => DataOf(tab, HashOf[s]) = NoData
  BY DEF DataOf
<1>. QED
  BY <1>1, <1>2, <1>3, <1>4, <1>5, <1>6, <1>7 DEF NotHeld

LEMMA AddEidIInv ==
  ASSUME NarrowBitmap, ProperUse, CleanBeyond, DictIInv,
         NEW scheme \in Strings, NEW ssp \in Strings, AddEid(scheme, ssp)
  PROVE  DictIInv'
<1>. DEFINE e == [ given |-> [p \in Parts |-> IF p = "scheme" THEN scheme ELSE ssp],
                   got   |-> [p \in Parts |-> NoData] ]
<1>1. UNCHANGED <<vars, buf, held, adding>> /\ eids' = Append(eids, e) /\ Last < MaxEids
  BY DEF AddEid
<1>2. eids \in Seq(EidRec) /\ e \in EidRec /\ MaxEids \in Nat
  BY DictAssumption DEF DictIInv, DictTypes, EidRec
<1>3. adding = NoData
  BY DEF AddEid, DictIInv, DictTypes, AddingNew
<1>4. IInv' /\ UInv' /\ MInv'
  BY <1>1, TableKept DEF DictIInv
<1>. HIDE DEF e
<1>5. /\ eids' \in Seq(EidRec) /\ Len(eids') = Len(eids) + 1
      /\ \A n \in 1 .. Len(eids) : eids'[n] = eids[n]
      /\ eids'[Len(eids) + 1] = e
  BY <1>1, <1>2
<1>6. DictTypes'
  BY <1>1, <1>2, <1>5 DEF DictIInv, DictTypes, Last
<1>7. AddingNew' /\ TableTellsOffsets'
  <2>1. Current' = Current /\ pc' = pc
    BY <1>1 DEF vars, Current, Growing
  <2>. QED
    BY <1>1, <1>3, <2>1 DEF DictIInv, AddingNew, TableTellsOffsets, Answer, NotHeld
<1>8. LastString' /\ WalkVisitsAll'
  BY <1>1 DEF DictIInv, LastString, WalkVisitsAll, End
<1>9. FieldsNameTheirStrings'
  <2>. SUFFICES ASSUME NEW n \in 1 .. Len(eids'), NEW p \in Parts,
                       eids'[n].got[p] # NoData
                PROVE  LET o == eids'[n].got[p]
                       IN  o \in DOMAIN held /\ held[o] = eids'[n].given[p]
    BY <1>1 DEF FieldsNameTheirStrings, Last
  <2>1. CASE n \in 1 .. Len(eids)
    BY <1>5, <2>1 DEF DictIInv, FieldsNameTheirStrings, Last
  <2>2. CASE n = Len(eids) + 1
    BY <1>5, <2>2 DEF e
  <2>3. Len(eids) \in Nat
    BY <1>2
  <2>. QED
    BY <1>5, <2>1, <2>2, <2>3
<1>. QED
  BY <1>4, <1>6, <1>7, <1>8, <1>9 DEF DictIInv

LEMMA ReuseIInv ==
  ASSUME NarrowBitmap, ProperUse, CleanBeyond, DictIInv,
         NEW p \in Parts, Reuse(p)
  PROVE  /\ DictIInv' /\ ret' \in DOMAIN held /\ held[ret'] = Given(p)
<1>1. /\ Pending(p) /\ adding = NoData /\ Found(tab, HashOf[Given(p)])
      /\ Lookup(HashOf[Given(p)]) /\ Got(p, ret') /\ UNCHANGED <<buf, held, adding>>
  BY DEF Reuse, Known
<1>2. eids \in Seq(EidRec) /\ Given(p) \in Strings
  BY <1>1, GivenType DEF DictIInv, DictTypes
<1>3. HashOf[Given(p)] \in Hashes /\ Current = tab
  BY <1>1, <1>2, KnownHeld
<1>4. ret' = DataOf(tab, HashOf[Given(p)])
  BY <1>1 DEF Lookup, DataOf
<1>5. ret' \in DOMAIN held /\ held[ret'] = Given(p)
  BY <1>1, <1>2, <1>4, KnownHeld
<1>6. IInv' /\ UInv' /\ MInv'
  BY <1>1, <1>3, TableKept DEF DictIInv
<1>7. ret' \in Nat
  BY <1>5 DEF DictIInv, DictTypes
<1>8. /\ eids' \in Seq(EidRec) /\ Len(eids') = Len(eids)
      /\ \A n \in 1 .. Len(eids) : eids'[n].given = eids[n].given
      /\ \A n \in 1 .. Len(eids) : \A q \in Parts :
           eids'[n].got[q] = IF n = Last /\ q = p THEN ret' ELSE eids[n].got[q]
  BY <1>1, <1>2, <1>7, GotFacts
<1>9. DictTypes'
  BY <1>1, <1>8 DEF DictIInv, DictTypes, Last
<1>10. AddingNew' /\ TableTellsOffsets'
  <2>1. Current' = Current /\ pc' = pc
    BY <1>1 DEF Lookup, Current, Growing
  <2>. QED
    BY <1>1, <2>1 DEF DictIInv, AddingNew, TableTellsOffsets, Answer, NotHeld
<1>11. LastString' /\ WalkVisitsAll'
  BY <1>1 DEF DictIInv, LastString, WalkVisitsAll, End
<1>12. FieldsNameTheirStrings'
  BY <1>1, <1>5, <1>8 DEF DictIInv, FieldsNameTheirStrings, Last, Given
<1>. QED
  BY <1>5, <1>6, <1>9, <1>10, <1>11, <1>12 DEF DictIInv

LEMMA InternIInv ==
  ASSUME NarrowBitmap, ProperUse, CleanBeyond, DictIInv,
         NEW p \in Parts, Intern(p)
  PROVE  DictIInv'
<1>1. /\ Pending(p) /\ adding = NoData /\ ~ Found(tab, HashOf[Given(p)])
      /\ Add(HashOf[Given(p)], buf.pos) /\ adding' = p /\ UNCHANGED <<buf, held, eids>>
  BY DEF Intern, Known
<1>2. Given(p) \in Strings /\ buf.pos \in Nat /\ p # NoData
  BY <1>1, GivenType, DictAssumption DEF DictIInv, DictTypes
<1>3. HashOf[Given(p)] \in Hashes /\ NotHeld(Given(p))
  BY <1>1, <1>2, KnownHeld
<1>4. IInv' /\ UInv' /\ MInv'
  BY <1>1, <1>2, <1>3, TableKept DEF DictIInv
<1>5. DictTypes'
  BY <1>1 DEF DictIInv, DictTypes, Last
<1>6. pc' = "find" /\ Current' = Current /\ Given(p)' = Given(p) /\ Pending(p)'
      /\ req' = [hash |-> HashOf[Given(p)], data |-> buf.pos]
  BY <1>1 DEF Add, Current, Growing, Given, Pending, Last
<1>7. AddingNew'
  BY <1>1, <1>2, <1>3, <1>6 DEF AddingNew, NotHeld
<1>8. TableTellsOffsets'
  BY <1>1, <1>6 DEF DictIInv, TableTellsOffsets, Answer, NotHeld
<1>9. LastString' /\ WalkVisitsAll' /\ FieldsNameTheirStrings'
  BY <1>1 DEF DictIInv, LastString, WalkVisitsAll, End, FieldsNameTheirStrings, Last
<1>. QED
  BY <1>4, <1>5, <1>7, <1>8, <1>9 DEF DictIInv

\* A step of the table answers for no other string than before, but, when it is the
\* last of its operation, for the one that is being added.
LEMMA TableStepIInv ==
  ASSUME NarrowBitmap, ProperUse, CleanBeyond, NoCollisions, DictIInv, TableStep
  PROVE  DictIInv'
<1>1. Step /\ UNCHANGED <<buf, held, eids, adding>> /\ req' = req /\ pc # "idle"
  BY DEF TableStep, dictVars, Step, FindIdentical, FindEmpty, FindEmptySwap, Swap,
         Place, Placed, Grow, NoSlot, Rehash, Grown
<1>2. IInv' /\ UInv' /\ MInv'
  BY <1>1, TableKept DEF DictIInv
<1>3. /\ adding # NoData /\ adding \in Parts /\ Pending(adding)
      /\ NotHeld(Given(adding)) /\ Given(adding) \in Strings
      /\ req = [hash |-> HashOf[Given(adding)], data |-> buf.pos]
  BY <1>1, GivenType DEF DictIInv, DictTypes, AddingNew
<1>4. Given(adding)' = Given(adding) /\ Pending(adding)'
  BY <1>1, <1>3 DEF Given, Pending, Last
<1>5. \A s \in Strings : HashOf[s] \in Nat \ {0}
  BY DictAssumption, ConstantsAssumption DEF ProperUse
<1>6. AddingNew' /\ TableTellsOffsets'
  <2>1. \/ /\ pc' # "idle"
           /\ \A s \in Strings : Answer(s)' = Answer(s)
        \/ /\ pc' = "idle" /\ ret' = req.data
           /\ \A s \in Strings :
                Answer(s)' = IF HashOf[s] = req.hash THEN req.data ELSE Answer(s)
    BY <1>1, <1>5, StepMap DEF DictIInv, Answer
  <2>2. CASE /\ pc' # "idle" /\ \A s \in Strings : Answer(s)' = Answer(s)
    BY <1>1, <1>3, <1>4, <2>2
       DEF DictIInv, AddingNew, TableTellsOffsets, NotHeld
  <2>3. CASE /\ pc' = "idle" /\ ret' = req.data
             /\ \A s \in Strings :
                  Answer(s)' = IF HashOf[s] = req.hash THEN req.data ELSE Answer(s)
    <3>1. AddingNew'
      BY <1>1, <1>3, <1>4, <2>3 DEF AddingNew, NotHeld
    <3>2. \A s \in Strings :
            Answer(s)' = IF s = Given(adding) THEN buf.pos ELSE Answer(s)
      BY <1>3, <2>3 DEF NoCollisions
    <3>3. \A s \in Strings : /\ \A o \in DOMAIN held : held[o] = s => Answer(s) = o
                             /\ NotHeld(s) => Answer(s) = NoData
      BY <1>1 DEF DictIInv, TableTellsOffsets
    <3>4. TableTellsOffsets'
      BY <1>1, <1>3, <1>4, <2>3, <3>2, <3>3 DEF TableTellsOffsets, NotHeld
    <3>. QED
      BY <3>1, <3>4
  <2>. QED
    BY <2>1, <2>2, <2>3
<1>7. DictTypes'
  BY <1>1 DEF DictIInv, DictTypes, Last
<1>8. LastString' /\ WalkVisitsAll' /\ FieldsNameTheirStrings'
  BY <1>1 DEF DictIInv, LastString, WalkVisitsAll, End, FieldsNameTheirStrings, Last
<1>. QED
  BY <1>2, <1>6, <1>7, <1>8 DEF DictIInv

\* What appending a string adds to what the buffer holds.
LEMMA AppendEffect ==
  ASSUME DictIInv, NEW p \in Parts, AppendString(p)
  PROVE  /\ Pending(p) /\ NotHeld(Given(p)) /\ Given(p) \in Strings
         /\ ret = buf.pos /\ buf.pos \in Nat /\ buf.pos \notin DOMAIN held
         /\ buf' \in [pos : Nat, cap : Nat] /\ Fits(buf')
         /\ buf'.pos = buf.pos + LenOf[Given(p)] + 1 /\ buf'.pos > buf.pos
         /\ DOMAIN held' = DOMAIN held \cup {buf.pos}
         /\ held'[buf.pos] = Given(p) /\ \A o \in DOMAIN held : held'[o] = held[o]
<1>1. /\ adding = p /\ pc = "idle" /\ buf' = Terminated(buf, Given(p))
      /\ held' = [o \in DOMAIN held \cup {buf.pos} |->
                    IF o = buf.pos THEN Given(p) ELSE held[o]]
      /\ p # NoData
  BY DictAssumption DEF AppendString
<1>2. /\ Pending(p) /\ NotHeld(Given(p)) /\ Given(p) \in Strings /\ ret = buf.pos
  BY <1>1, GivenType DEF DictIInv, DictTypes, AddingNew
<1>3. /\ buf \in [pos : Nat, cap : Nat] /\ Fits(buf) /\ buf.pos \in Nat
      /\ buf.pos \notin DOMAIN held /\ LenOf[Given(p)] \in Nat
  BY <1>2, DictAssumption DEF DictIInv, DictTypes
<1>4. /\ buf' \in [pos : Nat, cap : Nat] /\ Fits(buf')
      /\ buf'.pos = buf.pos + LenOf[Given(p)] + 1
  BY <1>1, <1>2, <1>3, TerminatedFits
<1>. QED
  BY <1>1, <1>2, <1>3, <1>4

LEMMA AppendIInv ==
  ASSUME NarrowBitmap, ProperUse, CleanBeyond, DictIInv,
         NEW p \in Parts, AppendString(p)
  PROVE  DictIInv'
<1>1. /\ adding = p /\ pc = "idle" /\ Got(p, ret) /\ adding' = NoData
      /\ UNCHANGED vars /\ p # NoData
  BY DictAssumption DEF AppendString
<1>2. /\ Pending(p) /\ NotHeld(Given(p)) /\ Given(p) \in Strings
      /\ ret = buf.pos /\ buf.pos \in Nat /\ buf.pos \notin DOMAIN held
      /\ buf' \in [pos : Nat, cap : Nat] /\ Fits(buf')
      /\ buf'.pos = buf.pos + LenOf[Given(p)] + 1 /\ buf'.pos > buf.pos
      /\ DOMAIN held' = DOMAIN held \cup {buf.pos}
      /\ held'[buf.pos] = Given(p) /\ \A o \in DOMAIN held : held'[o] = held[o]
  BY AppendEffect
<1>3. IInv' /\ UInv' /\ MInv'
  BY <1>1, TableKept DEF DictIInv
<1>4. /\ eids' \in Seq(EidRec) /\ Len(eids') = Len(eids)
      /\ \A n \in 1 .. Len(eids) : eids'[n].given = eids[n].given
      /\ \A n \in 1 .. Len(eids) : \A q \in Parts :
           eids'[n].got[q] = IF n = Last /\ q = p THEN buf.pos ELSE eids[n].got[q]
  BY <1>1, <1>2, GotFacts DEF DictIInv, DictTypes
<1>5. DictTypes'
  <2>1. DOMAIN held' \subseteq 0 .. buf'.pos - 1
    <3>1. DOMAIN held \subseteq 0 .. buf.pos - 1 /\ buf'.pos \in Nat
      BY <1>2 DEF DictIInv, DictTypes
    <3>. QED
      BY <1>2, <3>1
  <2>2. held' \in [DOMAIN held' -> Strings]
    <3>1. held' = [o \in DOMAIN held \cup {buf.pos} |->
                     IF o = buf.pos THEN Given(p) ELSE held[o]]
      BY DEF AppendString
    <3>2. \A o \in DOMAIN held : held[o] \in Strings
      BY DEF DictIInv, DictTypes
    <3>. QED
      BY <1>2, <3>1, <3>2
  <2>. QED
    BY <1>1, <1>2, <1>4, <2>1, <2>2 DEF DictIInv, DictTypes, Last
<1>6. AddingNew' /\ TableTellsOffsets'
  <2>1. Current' = Current /\ pc' = pc
    BY <1>1 DEF vars, Current, Growing
  <2>2. \A s \in Strings : Answer(s)' = Answer(s)
    BY <2>1 DEF Answer
  <2>3. \A s \in Strings :
          /\ \A o \in DOMAIN held : held[o] = s => Answer(s) = o
          /\ NotHeld(s) => Answer(s) = IF s = Given(p) THEN buf.pos ELSE NoData
    BY <1>1 DEF DictIInv, TableTellsOffsets
  <2>4. TableTellsOffsets'
    <3>. SUFFICES ASSUME NEW s \in Strings
                  PROVE  /\ \A o \in DOMAIN held' : held'[o] = s => Answer(s) = o
                         /\ NotHeld(s)' => Answer(s) = NoData
      BY <1>1, <2>2 DEF TableTellsOffsets
    <3>1. \A o \in DOMAIN held' : held'[o] = s => Answer(s) = o
      BY <1>2, <2>3
    <3>2. NotHeld(s)' => NotHeld(s) /\ s # Given(p)
      BY <1>2 DEF NotHeld
    <3>. QED
      BY <2>3, <3>1, <3>2
  <2>. QED
    BY <1>1, <2>1, <2>4 DEF AddingNew
<1>7. LastString' /\ WalkVisitsAll'
  <2>1. \A o \in DOMAIN held : End(o)' = End(o)
    BY <1>2 DEF End
  <2>2. PICK q : q = buf.pos
    OBVIOUS
  <2>3. DOMAIN held' = DOMAIN held \cup {q} /\ End(q)' = buf'.pos
    BY <1>2, <2>2 DEF End
  <2>4. LastString'
    BY <2>3 DEF LastString
  <2>5. ASSUME NEW o \in DOMAIN held'
        PROVE  End(o)' = buf'.pos \/ End(o)' \in DOMAIN held'
    BY <2>1, <2>2, <2>3 DEF DictIInv, WalkVisitsAll
  <2>6. ASSUME NEW o \in DOMAIN held'
        PROVE  o = 0 \/ \E x \in DOMAIN held' : End(x)' = o
    <3>1. CASE o = q
      BY <2>1, <2>2, <2>3, <3>1 DEF DictIInv, LastString
    <3>2. CASE o \in DOMAIN held
      BY <2>1, <2>3, <3>2 DEF DictIInv, WalkVisitsAll
    <3>. QED BY <2>3, <3>1, <3>2
  <2>7. buf'.pos # 0 /\ DOMAIN held' # {}
    BY <1>2
  <2>. QED
    BY <2>4, <2>5, <2>6, <2>7 DEF WalkVisitsAll
<1>8. FieldsNameTheirStrings'
  BY <1>2, <1>4 DEF DictIInv, FieldsNameTheirStrings, Last, Given
<1>. QED
  BY <1>3, <1>5, <1>6, <1>7, <1>8 DEF DictIInv

\* Every step keeps the invariant: one proof step for each action.
LEMMA DictNextIInv ==
  ASSUME NarrowBitmap, ProperUse, CleanBeyond, NoCollisions
  PROVE  DictIInv /\ [DictNext]_<<vars, dictVars>> => DictIInv'
<1>. SUFFICES ASSUME DictIInv, [DictNext]_<<vars, dictVars>> PROVE DictIInv'
  OBVIOUS
<1>1. ASSUME NEW scheme \in Strings, NEW ssp \in Strings, AddEid(scheme, ssp)
      PROVE  DictIInv'
  BY <1>1, AddEidIInv
<1>2. ASSUME NEW p \in Parts, Reuse(p) PROVE DictIInv'
  BY <1>2, ReuseIInv
<1>3. ASSUME NEW p \in Parts, Intern(p) PROVE DictIInv'
  BY <1>3, InternIInv
<1>4. ASSUME NEW p \in Parts, AppendString(p) PROVE DictIInv'
  BY <1>4, AppendIInv
<1>5. CASE TableStep
  BY <1>5, TableStepIInv
<1>6. CASE UNCHANGED <<vars, dictVars>>
  <2>1. IInv' /\ UInv' /\ MInv'
    BY <1>6, TableKept DEF DictIInv
  <2>2. Current' = Current /\ pc' = pc /\ UNCHANGED <<buf, held, eids, adding, req, ret>>
    BY <1>6 DEF vars, dictVars, Current, Growing
  <2>. QED
    BY <2>1, <2>2
       DEF DictIInv, DictTypes, AddingNew, TableTellsOffsets, Answer, NotHeld,
           LastString, WalkVisitsAll, End, FieldsNameTheirStrings, Last, Given, Pending
<1>. QED
  BY <1>1, <1>2, <1>3, <1>4, <1>5, <1>6 DEF DictNext, Done

LEMMA DictInvariance ==
  ASSUME NarrowBitmap, ProperUse, CleanBeyond, NoCollisions
  PROVE  DictSpec => []DictIInv
<1>1. DictInit => DictIInv
  BY DictInitIInv
<1>2. DictIInv /\ [DictNext]_<<vars, dictVars>> => DictIInv'
  BY DictNextIInv
<1>. QED
  BY <1>1, <1>2, PTL DEF DictSpec

-----------------------------------------------------------------------------
(* The theorems *)

\* The types hold in every reachable state: nothing is written outside the buffer's
\* allocation (strbuf_expect, strbuf.c), and strings begin where bytes are.
THEOREM DictTypeCorrect ==
  ASSUME NarrowBitmap, ProperUse, CleanBeyond, NoCollisions
  PROVE  DictSpec => []DictTypeOK
<1>1. DictIInv => DictTypeOK
  <2>. SUFFICES ASSUME DictIInv PROVE DictTypeOK
    OBVIOUS
  <2>1. \A n \in 1 .. Last : eids[n] \in EidRec
    BY DEF DictIInv, DictTypes, Last
  <2>. QED
    BY <2>1 DEF DictIInv, DictTypes, IInv, DictTypeOK, EidRec
<1>. QED
  BY <1>1, DictInvariance, PTL

\* Every offset that is written into a field of the block leads to the string that
\* was given for the field (add_eid and primary_block_add_eid, primary-block.c).
THEOREM FieldsNamed ==
  ASSUME NarrowBitmap, ProperUse, CleanBeyond, NoCollisions
  PROVE  DictSpec => []FieldsNameTheirStrings
<1>1. DictIInv => FieldsNameTheirStrings
  BY DEF DictIInv
<1>. QED
  BY <1>1, DictInvariance, PTL

\* No string is in the dictionary twice: the table tells the offset of every string
\* that is there (add_eid, primary-block.c, and test_add_eid).
THEOREM StringsStoredOnce ==
  ASSUME NarrowBitmap, ProperUse, CleanBeyond, NoCollisions
  PROVE  DictSpec => []StoredOnce
<1>1. DictIInv => StoredOnce
  <2>. SUFFICES ASSUME DictIInv,
                       NEW o \in DOMAIN held, NEW q \in DOMAIN held, held[o] = held[q]
                PROVE  o = q
    BY DEF StoredOnce
  <2>1. held[o] \in Strings
    BY DEF DictIInv, DictTypes
  <2>. QED
    BY <2>1 DEF DictIInv, TableTellsOffsets
<1>. QED
  BY <1>1, DictInvariance, PTL

\* The strings lie end to end, from the start of the buffer to its end: the walk of
\* serialize_eids (primary-block.c) meets every one of them.
THEOREM WalkComplete ==
  ASSUME NarrowBitmap, ProperUse, CleanBeyond, NoCollisions
  PROVE  DictSpec => []WalkVisitsAll
<1>1. DictIInv => WalkVisitsAll
  BY DEF DictIInv
<1>. QED
  BY <1>1, DictInvariance, PTL

\* Every step of the dictionary is a step of EidIntern, or changes nothing there:
\* finding a string and appending one fill a field in; the table's own steps, and
\* the one that starts them, are hidden.
LEMMA DictNextIntern ==
  ASSUME NarrowBitmap, ProperUse, CleanBeyond, NoCollisions,
         DictIInv, [DictNext]_<<vars, dictVars>>
  PROVE  [Promised!InternNext]_(Promised!internVars)
<1>. DEFINE D == [pos |-> buf.pos, held |-> held]
<1>1. ASSUME NEW scheme \in Strings, NEW ssp \in Strings, AddEid(scheme, ssp)
      PROVE  Promised!AddEid(scheme, ssp)
  BY <1>1 DEF AddEid, Promised!AddEid, Pending, Promised!Pending, Last, Promised!Last,
              Parts, Promised!Parts
<1>2. ASSUME NEW p \in Parts, Reuse(p) PROVE Promised!Fill(p)
  <2>1. /\ DictIInv' /\ ret' \in DOMAIN held /\ held[ret'] = Given(p)
        /\ Pending(p) /\ Got(p, ret') /\ UNCHANGED <<buf, held>>
    BY <1>2, ReuseIInv DEF Reuse
  <2>2. \A o \in DOMAIN held : held[o] = Given(p) => o = ret'
    <3>1. Given(p) \in Strings
      BY <2>1, GivenType DEF DictIInv, DictTypes
    <3>. QED
      BY <2>1, <3>1 DEF DictIInv, TableTellsOffsets
  <2>3. (CHOOSE o \in DOMAIN held : held[o] = Given(p)) = ret'
    BY <2>1, <2>2
  <2>4. Promised!Given(p) = Given(p) /\ Promised!Pending(p) /\ Promised!Last = Last
    BY <2>1 DEF Given, Promised!Given, Pending, Promised!Pending, Last, Promised!Last
  <2>5. Promised!Interned(D, Given(p)) = D
    BY <2>1 DEF Promised!Interned, Promised!Holds
  <2>6. D' = D
    BY <2>1
  <2>7. Promised!OffsetIn(D', Given(p)) = ret'
    BY <2>3, <2>6 DEF Promised!OffsetIn
  <2>. QED
    BY <2>1, <2>4, <2>5, <2>6, <2>7 DEF Promised!Fill, Got
<1>3. ASSUME NEW p \in Parts, Intern(p) PROVE UNCHANGED Promised!internVars
  BY <1>3 DEF Intern, Promised!internVars
<1>4. ASSUME NEW p \in Parts, AppendString(p) PROVE Promised!Fill(p)
  <2>1. /\ Pending(p) /\ NotHeld(Given(p)) /\ ret = buf.pos
        /\ buf'.pos = buf.pos + LenOf[Given(p)] + 1
        /\ DOMAIN held' = DOMAIN held \cup {buf.pos}
        /\ held'[buf.pos] = Given(p) /\ \A o \in DOMAIN held : held'[o] = held[o]
    BY <1>4, AppendEffect
  <2>2. /\ held' = [o \in DOMAIN held \cup {buf.pos} |->
                      IF o = buf.pos THEN Given(p) ELSE held[o]]
        /\ Got(p, ret)
    BY <1>4 DEF AppendString
  <2>3. Promised!Given(p) = Given(p) /\ Promised!Pending(p) /\ Promised!Last = Last
    BY <2>1 DEF Given, Promised!Given, Pending, Promised!Pending, Last, Promised!Last
  <2>4. D' = Promised!AppendedString(D, Given(p))
    BY <2>1, <2>2 DEF Promised!AppendedString
  <2>5. ~ Promised!Holds(D, Given(p))
    BY <2>1 DEF Promised!Holds, NotHeld
  <2>6. \A o \in DOMAIN held' : held'[o] = Given(p) <=> o = buf.pos
    BY <2>1 DEF NotHeld
  <2>7. Promised!OffsetIn(D', Given(p)) = ret
    BY <2>1, <2>6 DEF Promised!OffsetIn
  <2>. QED
    BY <2>2, <2>3, <2>4, <2>5, <2>7 DEF Promised!Fill, Promised!Interned, Got
<1>5. CASE TableStep \/ Done \/ UNCHANGED <<vars, dictVars>>
  BY <1>5 DEF TableStep, Done, dictVars, Promised!internVars
<1>. QED
  BY <1>1, <1>2, <1>3, <1>4, <1>5
     DEF DictNext, Promised!InternNext, Parts, Promised!Parts

\* The dictionary implements EidIntern: as long as no two strings share a hash, the
\* offsets of every EID are those of a dictionary that compares the strings, whatever
\* the order of the two calls of add_eid and whatever the table and the buffer do
\* meanwhile (primary_block_add_eid, primary-block.c).
THEOREM DictImplements ==
  ASSUME NarrowBitmap, ProperUse, CleanBeyond, NoCollisions
  PROVE  DictSpec => Implements
<1>1. DictInit => Promised!InternInit
  BY DEF DictInit, NewBuf, Promised!InternInit, Promised!EmptyDict
<1>2. DictIInv /\ [DictNext]_<<vars, dictVars>>
        => [Promised!InternNext]_(Promised!internVars)
  BY DictNextIntern
<1>. QED
  BY <1>1, <1>2, DictInvariance, PTL DEF DictSpec, Implements, Promised!InternSpec
=============================================================================

------------------------------ MODULE EidDict ------------------------------
(***************************************************************************)
(* The dictionary of a primary block (primary-block.c): each EID of the    *)
(* bundle is a scheme and a scheme-specific part (ssp), each a string of   *)
(* the dictionary's buffer, written as its offset there.  The hash table   *)
(* eid_map finds the strings already in the buffer.                        *)
(*                                                                         *)
(* The module composes HopscotchTable, whose Add it calls and whose steps  *)
(* it interleaves with its own, and StrBuf.  Offsets are the table's data. *)
(***************************************************************************)
EXTENDS HopscotchTable, StrBuf, Sequences

CONSTANTS
  Strings,   \* the schemes and ssps of the EIDs given to the program
  HashOf,    \* fnv, a function from Strings to Hashes
  LenOf,     \* strlen, a function from Strings to Nat
  InitCap,   \* the capacity eid_buf starts with
  MaxEids    \* bound of the model: the number of EIDs added

Parts == {"scheme", "ssp"}

ASSUME DictAssumption ==
  /\ NoData \notin Parts
  /\ HashOf \in [Strings -> Hashes]
  /\ LenOf \in [Strings -> Nat]
  /\ InitCap \in Nat \ {0}
  /\ MaxEids \in Nat

VARIABLES
  buf,     \* eid_buf, as a StrBuf
  held,    \* what it holds: a function from offsets to strings
  eids,    \* the EIDs added: the strings given for each and the offsets got
  adding   \* the part whose add_eid is in HTABLE_ADD, NoData when none

dictVars == <<buf, held, eids, adding>>

-----------------------------------------------------------------------------
(* A slip the properties notice; the model does not use it. *)
KnownNever(p) == FALSE        \* add_eid without its lookup

DictInit ==
  /\ Init
  /\ buf = NewBuf(InitCap)
  /\ held = << >>
  /\ eids = << >>
  /\ adding = NoData

\* The EID whose parts are being added, and the string of its part p.
Last == Len(eids)
Given(p) == eids[Last].given[p]
Pending(p) == Last > 0 /\ eids[Last].got[p] = NoData

Got(p, pos) == eids' = [eids EXCEPT ![Last].got[p] = pos]

(* primary_block_add_eid, called for "scheme:ssp".  A string without a colon *)
(* is refused before anything changes.                                       *)
AddEid(scheme, ssp) ==
  /\ \A p \in Parts : ~ Pending(p)
  /\ Last < MaxEids
  /\ eids' = Append(eids,
               [ given |-> [p \in Parts |-> IF p = "scheme" THEN scheme ELSE ssp],
                 got   |-> [p \in Parts |-> NoData] ])
  /\ UNCHANGED <<vars, buf, held, adding>>

\* Both calls of add_eid are in one initializer list: the compiler chooses
\* which of them comes first.  The map finds a string by its hash alone.
Known(p) == Found(tab, HashOf[Given(p)])

\* add_eid finds the string.
Reuse(p) ==
  /\ Pending(p) /\ adding = NoData
  /\ Known(p)
  /\ Lookup(HashOf[Given(p)])
  /\ Got(p, ret')
  /\ UNCHANGED <<buf, held, adding>>

\* add_eid does not find it: eid_map_add makes a slot for the position the
\* string is going to have.
Intern(p) ==
  /\ Pending(p) /\ adding = NoData
  /\ ~ Known(p)
  /\ Add(HashOf[Given(p)], buf.pos)
  /\ adding' = p
  /\ UNCHANGED <<buf, held, eids>>

TableStep ==
  /\ Step
  /\ UNCHANGED dictVars

\* The string and its terminator after the string appended to sb.
Terminated(sb, s) == Finished(Appended(sb, LenOf[s]))

\* eid_map_add has returned: the string is appended, and the position that was
\* stored for it returned.
AppendString(p) ==
  /\ adding = p /\ pc = "idle"
  /\ buf' = Terminated(buf, Given(p))
  /\ held' = [o \in DOMAIN held \cup {buf.pos} |->
                IF o = buf.pos THEN Given(p) ELSE held[o]]
  /\ Got(p, ret)
  /\ adding' = NoData
  /\ UNCHANGED vars

\* The command line has no more EIDs.
Done ==
  /\ Last = MaxEids
  /\ \A p \in Parts : ~ Pending(p)
  /\ UNCHANGED <<vars, dictVars>>

DictNext ==
  \/ \E scheme, ssp \in Strings : AddEid(scheme, ssp)
  \/ \E p \in Parts : Reuse(p) \/ Intern(p) \/ AppendString(p)
  \/ TableStep
  \/ Done

DictSpec == DictInit /\ [][DictNext]_<<vars, dictVars>>

\* The program runs on to the end of its command line.
FairDictSpec ==
  /\ DictSpec
  /\ WF_<<vars, dictVars>>(TableStep \/ \E p \in Parts :
                             Reuse(p) \/ Intern(p) \/ AppendString(p))

-----------------------------------------------------------------------------
(* Properties *)

\* The end of the string at offset o, its terminator included.
End(o) == o + LenOf[held[o]] + 1

\* The type invariant.  What the buffer holds lies within its allocation.
DictTypeOK ==
  /\ TypeOK
  /\ buf \in [pos : Nat, cap : Nat] /\ Fits(buf)
  /\ DOMAIN held \subseteq 0 .. buf.pos - 1
  /\ held \in [DOMAIN held -> Strings]
  /\ Last <= MaxEids
  /\ \A n \in 1 .. Last :
        eids[n] \in [ given : [Parts -> Strings],
                      got   : [Parts -> Nat \cup {NoData}] ]
  /\ adding \in Parts \cup {NoData}

\* Every offset written into a field of the block is the offset of the string
\* given for that field: whatever the order of the two calls, and whatever the
\* table did meanwhile, two EIDs share bytes only where they are equal.
FieldsNameTheirStrings ==
  \A n \in 1 .. Last, p \in Parts :
    LET o == eids[n].got[p]
    IN  o # NoData => o \in DOMAIN held /\ held[o] = eids[n].given[p]

\* test_add_eid, test_primary_block_add_eid: a string that was added before
\* gets the offset it had, so no string is in the dictionary twice.
StoredOnce ==
  \A o, q \in DOMAIN held : held[o] = held[q] => o = q

\* The strings lie end to end from offset 0 to the end of the buffer: the walk
\* of serialize_eids, from each terminator to the next string, visits exactly
\* the strings that were added.
WalkVisitsAll ==
  /\ \A o \in DOMAIN held : End(o) = buf.pos \/ End(o) \in DOMAIN held
  /\ \A o \in DOMAIN held : o = 0 \/ \E q \in DOMAIN held : End(q) = o
  /\ buf.pos = 0 <=> DOMAIN held = {}

Promised == INSTANCE EidIntern WITH
  dict  <- [pos |-> buf.pos, held |-> held],
  Unset <- NoData

\* As long as no two strings share a hash, the dictionary behaves as if it
\* compared the strings themselves: hash table, order of the two calls and
\* growth of the buffer are invisible to the EIDs.
Implements == Promised!InternSpec

\* Every field that was asked for gets an offset.
FieldsFilled ==
  \A p \in Parts : Pending(p) ~> ~ Pending(p)
=============================================================================

----------------------------- MODULE EidIntern -----------------------------
(***************************************************************************)
(* What the dictionary of a primary block promises: every string of an EID *)
(* is stored once, the strings lie one after the other in the order they   *)
(* first came, and each EID gets the offsets of its two strings.           *)
(*                                                                         *)
(* EidDict, with its hash table, implements this specification.            *)
(***************************************************************************)
EXTENDS EidStrings, Sequences

CONSTANTS
  MaxEids,  \* bound of the model: the number of EIDs added
  Unset     \* no offset yet

VARIABLES
  dict,     \* the dictionary
  eids      \* the EIDs added: the strings given for each and the offsets got

internVars == <<dict, eids>>

Parts == {"scheme", "ssp"}

-----------------------------------------------------------------------------
Last == Len(eids)
Given(p) == eids[Last].given[p]
Pending(p) == Last > 0 /\ eids[Last].got[p] = Unset

InternInit == dict = EmptyDict /\ eids = << >>

AddEid(scheme, ssp) ==
  /\ \A p \in Parts : ~ Pending(p)
  /\ Last < MaxEids
  /\ eids' = Append(eids,
               [ given |-> [p \in Parts |-> IF p = "scheme" THEN scheme ELSE ssp],
                 got   |-> [p \in Parts |-> Unset] ])
  /\ UNCHANGED dict

Fill(p) ==
  /\ Pending(p)
  /\ dict' = Interned(dict, Given(p))
  /\ eids' = [eids EXCEPT ![Last].got[p] = OffsetIn(dict', Given(p))]

InternNext ==
  \/ \E scheme, ssp \in Strings : AddEid(scheme, ssp)
  \/ \E p \in Parts : Fill(p)

InternSpec == InternInit /\ [][InternNext]_internVars
=============================================================================

----------------------------- MODULE EidStrings -----------------------------
(***************************************************************************)
(* The strings of a dictionary as its reader sees them.  A dictionary is a *)
(* record: pos is its length in bytes, held a function from offsets to the *)
(* strings that begin there.                                               *)
(***************************************************************************)
EXTENDS Naturals

CONSTANTS
  Strings,  \* the schemes and ssps of the EIDs given to the program
  LenOf     \* strlen, a function from Strings to Nat

ASSUME StringsAssumption == LenOf \in [Strings -> Nat]

EmptyDict == [pos |-> 0, held |-> << >>]

Holds(d, s) == \E o \in DOMAIN d.held : d.held[o] = s

OffsetIn(d, s) == CHOOSE o \in DOMAIN d.held : d.held[o] = s

\* A string is put, with its terminator, behind those the dictionary holds.
AppendedString(d, s) ==
  [ pos  |-> d.pos + LenOf[s] + 1,
    held |-> [o \in DOMAIN d.held \cup {d.pos} |->
                IF o = d.pos THEN s ELSE d.held[o]] ]

\* The dictionary after add_eid was asked for the offset of s.
Interned(d, s) == IF Holds(d, s) THEN d ELSE AppendedString(d, s)
=============================================================================

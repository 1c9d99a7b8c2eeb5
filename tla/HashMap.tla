------------------------------ MODULE HashMap ------------------------------
(***************************************************************************)
(* What the comments of htable.h promise of the table: a finite map from   *)
(* hashes to data, changed and read by one operation at a time.            *)
(*                                                                         *)
(* HopscotchTable implements this specification (its property Refines).    *)
(***************************************************************************)
EXTENDS Integers

CONSTANTS
  Hashes,   \* hashes of the keys the callers use
  Data,     \* values of HTABLE_DATA_TYPE the callers store
  NoData    \* the NULL that Lookup and Remove return for an absent key

VARIABLES
  map,      \* the data held for each hash, NoData where there is none
  ret       \* the data the last completed operation handed to its caller

mapVars == <<map, ret>>

MapInit ==
  /\ map = [h \in Hashes |-> NoData]
  /\ ret = NoData

\* "Add data for key": a key already present has its data overwritten.
MapAdd(h, d) ==
  /\ map' = [map EXCEPT ![h] = d]
  /\ ret' = d

\* "Lookup data for key. Return NULL if no data matches key."
MapLookup(h) ==
  /\ ret' = map[h]
  /\ UNCHANGED map

\* "Remove data for key. Return NULL if no data matches key."
MapRemove(h) ==
  /\ ret' = map[h]
  /\ map' = [map EXCEPT ![h] = NoData]

MapNext ==
  \E h \in Hashes :
    \/ \E d \in Data : MapAdd(h, d)
    \/ MapLookup(h)
    \/ MapRemove(h)

MapSpec == MapInit /\ [][MapNext]_mapVars
=============================================================================

----------------------------- MODULE MCEidDict -----------------------------
(* Instances of EidDict for TLC: four strings, one of them empty as in the  *)
(* EID "dtn:", and their hashes.                                            *)
EXTENDS EidDict

MCStrings == {"dtn", "ipn", "none", ""}

MCLenOf ==
  [s \in MCStrings |->
     CASE s = "" -> 0 [] s = "none" -> 4 [] OTHER -> 3]

\* All different; three of them meet in one bucket of the default table.
MCHashOf ==
  [s \in MCStrings |->
     CASE s = "dtn" -> 1 [] s = "ipn" -> 2 [] s = "none" -> 5 [] s = "" -> 9]

\* More offsets than strings can have when each is stored six times.
MCOffsets == 0 .. 99
=============================================================================

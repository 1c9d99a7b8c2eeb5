--------------------------- MODULE CommandEffects ---------------------------
(***************************************************************************)
(* What commands, one after the other, may do to files: each empties some, *)
(* and then, if it gets that far, fills the one it emptied last with the   *)
(* beginning of a document, or of the block that the text in a file it has *)
(* not emptied describes.                                                  *)
(***************************************************************************)
EXTENDS Sequences, Naturals

CONSTANTS
  Places,      \* where bytes may be
  NoFile,      \* the contents of a file that does not exist
  Documents,   \* the documents a command makes, a function of the command
  Compiled     \* the block of each text that describes one

VARIABLES
  files,     \* what is in each place
  cmd,       \* the command that runs, or "none"
  emptied,   \* the places it has emptied
  target     \* the last of them

vars == <<files, cmd, emptied, target>>

Idle == cmd' = "none" /\ emptied' = {} /\ target' = "none"

Init == cmd = "none" /\ emptied = {} /\ target = "none"

Empty(p) ==
  /\ files' = [files EXCEPT ![p] = << >>]
  /\ emptied' = emptied \cup {p}
  /\ target' = p

Begin(c, p) == cmd = "none" /\ cmd' = c /\ Empty(p)

EmptyNext(p) == cmd # "none" /\ cmd' = cmd /\ Empty(p)

\* What the command may write.
Outputs ==
  IF cmd \in DOMAIN Documents THEN Documents[cmd]
  ELSE {Compiled[files[p]] : p \in {q \in Places \ emptied : files[q] \in DOMAIN Compiled}}

Fill ==
  /\ cmd # "none"
  /\ \E bytes \in Outputs : \E n \in 0 .. Len(bytes) :
        files' = [files EXCEPT ![target] = SubSeq(bytes, 1, n)]
  /\ Idle

Stop == cmd # "none" /\ Idle /\ UNCHANGED files

Next ==
  \/ \E c \in DOMAIN Documents \cup {"compile"}, p \in Places : Begin(c, p)
  \/ \E p \in Places : EmptyNext(p)
  \/ Fill
  \/ Stop

Spec == Init /\ [][Next]_vars
=============================================================================

------------------------------ MODULE Collect -------------------------------
(***************************************************************************)
(* collect of util.c, by which the compile command reads its input: the    *)
(* file is read a chunk at a time into a StrBuf until feof says that its   *)
(* end was met.  The stream is the C library's: fread fills the chunk,     *)
(* unless the file ends first (which sets the end-of-file indicator) or    *)
(* reading fails (which sets the error indicator).                         *)
(***************************************************************************)
EXTENDS StrBuf, Sequences

CONSTANTS
  Files,     \* contents the input file may have, sequences of bytes
  Chunk,     \* BUFSIZ
  InitCap    \* the capacity the buffer starts with

ASSUME CollectAssumption ==
  /\ Files \subseteq Seq(Nat)
  /\ Chunk \in Nat \ {0}
  /\ InitCap \in Nat \ {0}

VARIABLES
  pc,       \* where collect is
  file,     \* what the file holds
  at,       \* how many bytes of it have been read
  eof,      \* the end-of-file indicator
  next,     \* the bytes fread has put into the chunk
  buf,      \* the buffer, as a StrBuf
  content   \* the bytes in it

vars == <<pc, file, at, eof, next, buf, content>>

-----------------------------------------------------------------------------
(* Slips the properties notice; the model does not use them. *)
AtEndShort == eof \/ (at > 0 /\ Len(next) < Chunk)   \* a short count ends the loop
AtEndUnread == eof /\ next # << >>                   \* nothing read, no end

Init ==
  /\ pc = "test"
  /\ file \in Files
  /\ at = 0 /\ eof = FALSE /\ next = << >>
  /\ buf = NewBuf(InitCap)
  /\ content = << >>

\* feof(stream)
AtEnd == eof

\* while (!feof(stream))
Test ==
  /\ pc = "test"
  /\ pc' = IF AtEnd THEN "done" ELSE "read"
  /\ UNCHANGED <<file, at, eof, next, buf, content>>

\* The end of the file is met when fewer bytes are left than asked for: a file
\* of whole chunks needs one more fread, which returns nothing.
MeetsEnd(n) == at + n > Len(file)

\* fread, which returns the number of bytes it has put into the chunk.
Read ==
  /\ pc = "read"
  /\ next' = SubSeq(file, at + 1, IF MeetsEnd(Chunk) THEN Len(file) ELSE at + Chunk)
  /\ at' = at + Len(next')
  /\ eof' = MeetsEnd(Chunk)
  /\ pc' = "append"
  /\ UNCHANGED <<file, buf, content>>

\* fread fails, at once or after some bytes: it returns their number, and the
\* end of the file is not met.  It may fail again when it is called again, but
\* not behind the end of the file.
ReadFails ==
  /\ pc = "read" /\ ~ eof
  /\ \E n \in 0 .. Chunk - 1 :
        /\ at + n <= Len(file)
        /\ next' = SubSeq(file, at + 1, at + n)
        /\ at' = at + n
  /\ pc' = "append"
  /\ UNCHANGED <<file, eof, buf, content>>

\* strbuf_append
AppendChunk ==
  /\ pc = "append"
  /\ buf' = Appended(buf, Len(next))
  /\ content' = SubSeq(content, 1, buf.pos) \o next
  /\ pc' = "test"
  /\ UNCHANGED <<file, at, eof, next>>

\* collect has returned.
Returned == pc = "done" /\ UNCHANGED vars

Next == Test \/ Read \/ ReadFails \/ AppendChunk \/ Returned

Spec == Init /\ [][Next]_vars

\* The loop waits for nothing but the file, and a file answers every fread.
FairSpec == Spec /\ WF_vars(Test \/ Read \/ ReadFails \/ AppendChunk)

-----------------------------------------------------------------------------
(* Properties *)

\* The type invariant.  The bytes in use are in the allocation, and are those
\* that were appended.
TypeOK ==
  /\ pc \in {"test", "read", "append", "done"}
  /\ file \in Files
  /\ at \in 0 .. Len(file)
  /\ eof \in BOOLEAN
  /\ Len(next) <= Chunk
  /\ buf \in [pos : Nat, cap : Nat] /\ Fits(buf)
  /\ buf.pos = Len(content)

\* "Read an entire file into the given buffer": when collect returns, the
\* buffer holds the bytes of the file and no others, whether its length is a
\* multiple of the chunk or not, and though reading failed for a while.
Whole == pc = "done" => content = file

\* collect returns.
Returns == <>(pc = "done")
=============================================================================

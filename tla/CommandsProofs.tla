--------------------------- MODULE CommandsProofs ---------------------------
(***************************************************************************)
(* Theorems about Commands: what commands leave in files, that compile     *)
(* reads the whole of its input and keeps it, and that commands do nothing *)
(* but what CommandEffects allows.                                         *)
(***************************************************************************)
EXTENDS Commands, SequenceTheorems, TLAPS

allVars == <<vars, procVars>>

AllCommands == DOMAIN Documents \cup {"compile"}
IsOpened(p) == \E n \in DOMAIN opened : opened[n] = p

\* The variables of the session have their types.
ProcTypes ==
  /\ files \in [Places -> Files \cup {NoFile}]
  /\ files["pipe"] \in Files
  /\ before \in [Places -> Files \cup {NoFile}]
  /\ cmd \in AllCommands \cup {"none"}
  /\ argc \in 0 .. MaxOptions
  /\ in \in Paths \cup {"pipe"}
  /\ out \in Places
  /\ opened \in Seq(Paths)
  /\ status \in {"ok", "failed", "killed", "running"}
  /\ runs \in Nat

\* What a process has done to the files until it writes.
Running ==
  /\ cmd \in AllCommands
  /\ status = "running"
  /\ Len(opened) <= argc
  /\ \A p \in Paths : files[p] = IF IsOpened(p) THEN << >> ELSE before[p]
  /\ files[in] # NoFile
  /\ files[out] = << >>
  /\ out = StdOut(cmd) \/ (out \in Paths /\ IsOpened(out))

\* The reader at work: what it has read and put into the buffer is the beginning
\* of the file, and the end is met no sooner than all of it is read.
Reading ==
  /\ cmd = "compile"
  /\ file = files[in]
  /\ at \in 0 .. Len(file) /\ eof \in BOOLEAN
  /\ next \in Seq(Nat) /\ Len(next) <= Chunk
  /\ buf \in [pos : Nat, cap : Nat] /\ Fits(buf) /\ buf.pos = Len(content)
  /\ pc # "append" => content = SubSeq(file, 1, at)
  /\ pc = "append" =>
       /\ Len(next) <= at
       /\ content = SubSeq(file, 1, at - Len(next))
       /\ next = SubSeq(file, at - Len(next) + 1, at)
  /\ eof => at = Len(file)
  /\ pc = "done" => eof

IInv ==
  /\ ProcTypes
  /\ \/ pc = "idle" /\ cmd = "none" /\ FailureLeaves
     \/ pc = "options" /\ Running
     \/ pc \in {"test", "read", "append", "done"} /\ Running /\ Reading

-----------------------------------------------------------------------------
(* What the steps have in common *)

\* The bytes written reach a file that is empty: it holds them afterwards, or
\* their beginning (strbuf_write, block_write behind fopen with "w").
LEMMA PutFills ==
  ASSUME ProcTypes, Running, NEW bytes \in Files, NEW part \in Beginnings(bytes)
  PROVE  /\ part \in Files
         /\ [files EXCEPT ![out] = part \o SubSeq(@, Len(part) + 1, Len(@))]
              = [files EXCEPT ![out] = part]
PROOF
  <1>1. part \in Files /\ part \in Seq(Nat)
    BY CommandsAssumption, CollectAssumption DEF Beginnings
  <1>2. files[out] = << >> /\ Len(<< >>) = 0
    BY DEF Running
  <1>3. Len(part) \in Nat
    BY <1>1
  <1>4. SubSeq(<< >>, Len(part) + 1, 0) = << >>
    BY <1>3, SubSeqEmpty
  <1>5. part \o << >> = part
    BY <1>1, ConcatEmptySeq
  <1> QED
    BY <1>1, <1>2, <1>4, <1>5

\* A process that ends leaves the session as it should be, if its last step has
\* kept the types of the files and, where it fails, has not touched them.
LEMMA ExitKeeps ==
  ASSUME ProcTypes, Running, NEW s \in {"ok", "failed", "killed"}, Exit(s),
         files' \in [Places -> Files \cup {NoFile}], files'["pipe"] \in Files,
         s = "failed" => files' = files
  PROVE  IInv'
PROOF
  <1>1. ProcTypes'
    BY CommandsAssumption DEF ProcTypes, Exit, AllCommands, Places
  <1>2. FailureLeaves'
    BY DEF Running, Exit, FailureLeaves, IsOpened
  <1> QED
    BY <1>1, <1>2 DEF IInv, Exit

\* A command is none of the places where nothing is a file; no other is "none".
LEMMA NamesDiffer ==
  /\ AllCommands = {"primary", "extension", "compile"}
  /\ "pipe" \notin Paths /\ "terminal" \notin Paths
  /\ << >> \in Files
PROOF
  BY CommandsAssumption DEF AllCommands

-----------------------------------------------------------------------------
(* A command begins *)

LEMMA InitHolds == SessionInit => IInv
PROOF
  <1> SUFFICES ASSUME SessionInit PROVE IInv
    OBVIOUS
  <1>1. files \in [Places -> Files \cup {NoFile}] /\ files["pipe"] \in Files
    BY CommandsAssumption DEF SessionInit
  <1>2. opened \in Seq(Paths) /\ runs \in Nat
    BY DEF SessionInit
  <1>3. ProcTypes
    BY <1>1, <1>2, CommandsAssumption DEF ProcTypes, SessionInit, Places
  <1> QED
    BY <1>3 DEF IInv, SessionInit, FailureLeaves

LEMMA RunStep ==
  ASSUME IInv, NEW c \in AllCommands, Run(c)
  PROVE  IInv'
PROOF
  <1>1. ProcTypes /\ pc = "idle"
    BY DEF IInv, Run, Begin
  <1>2. StdOut(c) \in {"pipe", "terminal"}
    BY DEF StdOut
  <1>3. files' \in [Places -> Files \cup {NoFile}] /\ files'["pipe"] \in Files
    BY <1>1, <1>2, NamesDiffer DEF ProcTypes, Run, Places
  <1>4. ProcTypes'
    BY <1>1, <1>2, <1>3, CommandsAssumption DEF ProcTypes, Run, Begin, Places
  <1>5. \A p \in Paths : files'[p] = files[p]
    BY <1>1, <1>2, NamesDiffer DEF Run, ProcTypes, Places
  <1>6. files'[out'] = << >> /\ files'[in'] # NoFile
    <2>1. files'[out'] = << >>
      BY <1>1, <1>2 DEF Run, ProcTypes, Places
    <2>2. files'["pipe"] \in Files /\ in' = "pipe"
      BY <1>3 DEF Run
    <2> QED
      BY <2>1, <2>2, CommandsAssumption
  <1>7. Running'
    BY <1>4, <1>5, <1>6, CommandsAssumption DEF Running, IsOpened, Run, Begin
  <1> QED
    BY <1>4, <1>7 DEF IInv, Run

LEMMA NoCommandStep ==
  ASSUME IInv, NoCommand
  PROVE  IInv'
PROOF
  <1>1. ProcTypes /\ pc = "idle" /\ cmd = "none"
    BY NamesDiffer DEF IInv, NoCommand, Begin, Running
  <1>2. ProcTypes'
    BY <1>1 DEF ProcTypes, NoCommand, Begin
  <1>3. FailureLeaves'
    BY DEF FailureLeaves, NoCommand, Begin
  <1> QED
    BY <1>1, <1>2, <1>3 DEF IInv, NoCommand, vars

-----------------------------------------------------------------------------
(* The options *)

LEMMA InOptions ==
  ASSUME IInv, pc = "options"
  PROVE  ProcTypes /\ Running
PROOF
  BY DEF IInv

LEMMA PlainOptionStep ==
  ASSUME IInv, PlainOption
  PROVE  IInv'
PROOF
  <1>1. ProcTypes /\ Running /\ pc = "options"
    BY InOptions DEF PlainOption, Option
  <1>2. ProcTypes'
    BY <1>1, CommandsAssumption DEF ProcTypes, PlainOption, Option, Taken
  <1>3. Running'
    <2>1. Len(opened) \in Nat
      BY <1>1 DEF ProcTypes
    <2> QED
      BY <1>1, <2>1 DEF ProcTypes, Running, IsOpened, PlainOption, Option, Taken
  <1> QED
    BY <1>1, <1>2, <1>3 DEF IInv, PlainOption, Taken, vars

\* "-h", and options that cannot be taken.
LEMMA EndingOptionStep ==
  ASSUME IInv, Option, NEW s \in {"ok", "failed"}, Exit(s), UNCHANGED files
  PROVE  IInv'
PROOF
  <1>1. ProcTypes /\ Running
    BY InOptions DEF Option
  <1> QED
    BY <1>1, ExitKeeps DEF ProcTypes

LEMMA OpenInStep ==
  ASSUME IInv, NEW p \in Paths, OpenIn(p)
  PROVE  IInv'
PROOF
  <1>1. ProcTypes /\ Running /\ pc = "options" /\ Option
    BY InOptions DEF OpenIn, Option
  <1>2. CASE /\ files[p] # NoFile
             /\ in' = p
             /\ Taken
             /\ UNCHANGED <<files, out, opened>>
    <2>1. ProcTypes'
      BY <1>1, <1>2, CommandsAssumption DEF ProcTypes, Option, Taken
    <2>2. Len(opened) \in Nat
      BY <1>1 DEF ProcTypes
    <2>3. Running'
      BY <1>1, <1>2, <2>2 DEF ProcTypes, Running, IsOpened, Option, Taken
    <2> QED
      BY <1>1, <1>2, <2>1, <2>3 DEF IInv, Taken, vars
  <1>3. CASE Exit("failed") /\ UNCHANGED files
    BY <1>1, <1>3, EndingOptionStep
  <1> QED
    BY <1>2, <1>3 DEF OpenIn

LEMMA OpenOutStep ==
  ASSUME IInv, NEW p \in Paths, OpenOut(p)
  PROVE  IInv'
PROOF
  <1>1. ProcTypes /\ Running /\ pc = "options" /\ Option
    BY InOptions DEF OpenOut, Option
  <1>2. CASE /\ files' = [files EXCEPT ![p] = Truncated(@)]
             /\ out' = NowOut(p)
             /\ opened' = Append(opened, p)
             /\ Taken
             /\ UNCHANGED in
    <2>1. files' = [files EXCEPT ![p] = << >>] /\ out' = p
      BY <1>2 DEF Truncated, NowOut
    <2>2. /\ opened' \in Seq(Paths)
          /\ Len(opened) \in Nat /\ Len(opened') = Len(opened) + 1
      BY <1>1, <1>2, AppendProperties DEF ProcTypes
    <2>3. \A q : IsOpened(q)' <=> IsOpened(q) \/ q = p
      <3>1. DOMAIN opened = 1 .. Len(opened) /\ DOMAIN opened' = 1 .. Len(opened) + 1
        BY <1>1, <2>2 DEF ProcTypes
      <3>2. /\ \A n \in DOMAIN opened : opened'[n] = opened[n]
            /\ opened'[Len(opened) + 1] = p
        BY <1>1, <1>2, <3>1, AppendProperties DEF ProcTypes
      <3> QED
        BY <2>2, <3>1, <3>2 DEF IsOpened
    <2>4. files' \in [Places -> Files \cup {NoFile}] /\ files'["pipe"] \in Files
      BY <1>1, <2>1, NamesDiffer DEF ProcTypes, Places
    <2>5. ProcTypes'
      BY <1>1, <1>2, <2>1, <2>2, <2>4, CommandsAssumption
      DEF ProcTypes, Option, Taken, Places
    <2>6. \A q \in Paths : files'[q] = IF IsOpened(q)' THEN << >> ELSE before'[q]
      BY <1>1, <1>2, <2>1, <2>3 DEF Running, ProcTypes, Taken, Places
    <2>7. files'[in'] # NoFile /\ files'[out'] = << >>
      BY <1>1, <1>2, <2>1, CommandsAssumption DEF Running, ProcTypes, Places
    <2>8. Running'
      BY <1>1, <1>2, <2>1, <2>2, <2>3, <2>6, <2>7 DEF Running, ProcTypes, Option, Taken
    <2> QED
      BY <1>1, <1>2, <2>5, <2>8 DEF IInv, Taken, vars
  <1>3. CASE Exit("failed") /\ UNCHANGED files
    BY <1>1, <1>3, EndingOptionStep
  <1> QED
    BY <1>2, <1>3 DEF OpenOut

-----------------------------------------------------------------------------
(* The input is read *)

LEMMA CollectingStep ==
  ASSUME IInv, Collecting
  PROVE  IInv'
PROOF
  <1>1. ProcTypes /\ Running /\ pc = "options" /\ cmd = "compile"
    BY InOptions DEF Collecting
  <1>2. ProcTypes' /\ Running'
    BY <1>1 DEF ProcTypes, Running, IsOpened, Collecting, procVars
  <1>3. files[in] \in Seq(Nat)
    BY <1>1, CollectAssumption DEF ProcTypes, Running, Places
  <1>4. content' = SubSeq(file', 1, at') /\ Len(content') = 0
    BY <1>1, <1>3, SubSeqEmpty DEF Collecting, Reader
  <1>5. next' \in Seq(Nat) /\ Len(next') <= Chunk /\ Len(file') \in Nat
    BY <1>3, CollectAssumption DEF Collecting, Reader
  <1>6. buf' \in [pos : Nat, cap : Nat] /\ Fits(buf)' /\ buf'.pos = Len(content')
    BY <1>4, CollectAssumption DEF Collecting, Reader, NewBuf, Fits
  <1>7. /\ cmd' = "compile" /\ file' = files'[in'] /\ pc' = "test"
        /\ at' = 0 /\ eof' \in BOOLEAN /\ ~ eof'
    BY <1>1 DEF Collecting, Reader, procVars
  <1>8. Reading'
    BY <1>4, <1>5, <1>6, <1>7 DEF Reading
  <1> QED
    BY <1>1, <1>2, <1>8 DEF IInv, Collecting

LEMMA InReader ==
  ASSUME IInv, pc \in {"test", "read", "append", "done"}
  PROVE  /\ ProcTypes /\ Running /\ Reading
         /\ file \in Seq(Nat) /\ file \in Files /\ Len(file) \in Nat
PROOF
  <1>1. ProcTypes /\ Running /\ Reading
    BY DEF IInv
  <1> QED
    BY <1>1, CollectAssumption DEF ProcTypes, Running, Reading, Places

LEMMA TestStep ==
  ASSUME IInv, Test, UNCHANGED procVars
  PROVE  IInv'
PROOF
  <1>1. ProcTypes /\ Running /\ Reading /\ pc = "test"
    BY InReader DEF Test
  <1>2. ProcTypes' /\ Running'
    BY <1>1 DEF ProcTypes, Running, IsOpened, procVars
  <1>3. Reading'
    BY <1>1 DEF Reading, Test, AtEnd, procVars, Fits
  <1> QED
    BY <1>2, <1>3 DEF IInv, Test

\* What fread has put into the chunk is the part of the file from where the one
\* before it stopped.
LEMMA ReadPart ==
  ASSUME IInv, pc = "read", UNCHANGED <<file, buf, content, procVars>>,
         NEW n \in Nat, n <= Chunk, at + n <= Len(file),
         next' = SubSeq(file, at + 1, at + n), at' = at + n,
         eof' \in BOOLEAN, eof' => at' = Len(file), pc' = "append"
  PROVE  IInv'
PROOF
  <1>1. ProcTypes /\ Running /\ Reading /\ file \in Seq(Nat) /\ Len(file) \in Nat
    BY InReader
  <1>2. ProcTypes' /\ Running'
    BY <1>1 DEF ProcTypes, Running, IsOpened, procVars
  <1>3. at \in Nat
    BY <1>1 DEF Reading
  <1>4. next' \in Seq(Nat) /\ Len(next') = n
    <2>1. \A i \in at + 1 .. at + n : file[i] \in Nat
      BY <1>1, <1>3
    <2> QED
      BY <1>3, <2>1, SubSeqProperties
  <1>5. at' - Len(next') = at
    BY <1>3, <1>4
  <1>6. content' = SubSeq(file', 1, at' - Len(next'))
    <2>1. content = SubSeq(file, 1, at)
      BY <1>1 DEF Reading
    <2> QED
      BY <1>5, <2>1
  <1>7. buf' \in [pos : Nat, cap : Nat] /\ Fits(buf)' /\ buf'.pos = Len(content')
    BY <1>1 DEF Reading, Fits
  <1>8. Reading'
    BY <1>1, <1>3, <1>4, <1>5, <1>6, <1>7 DEF Reading, procVars
  <1> QED
    BY <1>2, <1>8 DEF IInv

LEMMA ReadStep ==
  ASSUME IInv, Read, UNCHANGED procVars
  PROVE  IInv'
PROOF
  <1>1. /\ Reading /\ pc = "read" /\ file \in Seq(Nat) /\ Len(file) \in Nat
        /\ at \in Nat /\ at <= Len(file)
    BY InReader DEF Read, Reading
  <1> DEFINE n == IF MeetsEnd(Chunk) THEN Len(file) - at ELSE Chunk
  <1>2. /\ n \in Nat /\ n <= Chunk /\ at + n <= Len(file)
        /\ MeetsEnd(Chunk) \in BOOLEAN
        /\ MeetsEnd(Chunk) => at + n = Len(file)
        /\ at + n = IF MeetsEnd(Chunk) THEN Len(file) ELSE at + Chunk
    BY <1>1, CollectAssumption DEF MeetsEnd
  <1>3. next' = SubSeq(file, at + 1, at + n)
    BY <1>2 DEF Read
  <1>4. Len(next') = n
    <2>1. \A i \in at + 1 .. at + n : file[i] \in Nat
      BY <1>1, <1>2
    <2> QED
      BY <1>1, <1>2, <1>3, <2>1, SubSeqProperties
  <1>5. at' = at + n /\ eof' = MeetsEnd(Chunk)
    BY <1>4 DEF Read
  <1> HIDE DEF n
  <1> QED
    BY <1>1, <1>2, <1>3, <1>5, ReadPart DEF Read

LEMMA ReadFailsStep ==
  ASSUME IInv, ReadFails, UNCHANGED procVars
  PROVE  IInv'
PROOF
  <1>1. PICK n \in 0 .. Chunk - 1 :
             at + n <= Len(file) /\ next' = SubSeq(file, at + 1, at + n) /\ at' = at + n
    BY DEF ReadFails
  <1>2. n \in Nat /\ n <= Chunk
    BY CollectAssumption
  <1>3. eof' \in BOOLEAN /\ ~ eof'
    BY InReader DEF ReadFails, Reading
  <1> QED
    BY <1>1, <1>2, <1>3, ReadPart DEF ReadFails

\* strbuf_append makes the room it needs.
LEMMA AppendFits ==
  ASSUME NEW sb \in [pos : Nat, cap : Nat], Fits(sb), NEW n \in Nat
  PROVE  /\ Appended(sb, n) \in [pos : Nat, cap : Nat]
         /\ Fits(Appended(sb, n))
         /\ Appended(sb, n).pos = sb.pos + n
PROOF
  <1>1. CASE sb.pos + n > sb.cap
    <2>1. Expect(sb, n) = [sb EXCEPT !.cap = sb.cap + n]
      BY <1>1 DEF Expect
    <2>2. Expect(sb, n) = [pos |-> sb.pos, cap |-> sb.cap + n]
      BY <2>1
    <2>3. Appended(sb, n) = [pos |-> sb.pos + n, cap |-> sb.cap + n]
      BY <2>2 DEF Appended
    <2> QED
      BY <2>3 DEF Fits
  <1>2. CASE ~ (sb.pos + n > sb.cap)
    <2>1. Appended(sb, n) = [pos |-> sb.pos + n, cap |-> sb.cap]
      BY <1>2 DEF Appended, Expect
    <2> QED
      BY <1>2, <2>1 DEF Fits
  <1> QED
    BY <1>1, <1>2

LEMMA AppendChunkStep ==
  ASSUME IInv, AppendChunk, UNCHANGED procVars
  PROVE  IInv'
PROOF
  <1>1. /\ ProcTypes /\ Running /\ Reading /\ pc = "append"
        /\ file \in Seq(Nat) /\ Len(file) \in Nat
    BY InReader DEF AppendChunk
  <1>2. ProcTypes' /\ Running'
    BY <1>1 DEF ProcTypes, Running, IsOpened, procVars
  <1> DEFINE from == at - Len(next)
  <1>3. /\ at \in Nat /\ at <= Len(file) /\ Len(next) \in Nat /\ from \in Nat /\ from <= at
        /\ content = SubSeq(file, 1, from) /\ next = SubSeq(file, from + 1, at)
    BY <1>1 DEF Reading
  <1> HIDE DEF from
  <1>4. content \in Seq(Nat) /\ Len(content) = from
    <2>1. \A i \in 1 .. from : file[i] \in Nat
      BY <1>1, <1>3
    <2> QED
      BY <1>3, <2>1, SubSeqProperties
  <1>5. content' = SubSeq(file, 1, at)
    <2>1. SubSeq(content, 1, buf.pos) = content
      BY <1>1, <1>4, SubSeqFull DEF Reading
    <2>2. content' = content \o next
      BY <2>1 DEF AppendChunk
    <2>3. SubSeq(file, 1, from) \o SubSeq(file, from + 1, at) = SubSeq(file, 1, at)
      <3>1. 1 \in 1 .. Len(file) + 1 /\ from \in 1 - 1 .. Len(file) /\ at \in from .. Len(file)
        BY <1>1, <1>3
      <3> QED
        BY <1>1, <3>1, ConcatAdjacentSubSeq
    <2> QED
      BY <1>3, <2>2, <2>3
  <1>6. Len(content') = at
    <2>1. \A i \in 1 .. at : file[i] \in Nat
      BY <1>1, <1>3
    <2> QED
      BY <1>3, <1>5, <2>1, SubSeqProperties
  <1>7. buf' \in [pos : Nat, cap : Nat] /\ Fits(buf)' /\ buf'.pos = at
    <2>1. buf \in [pos : Nat, cap : Nat] /\ buf.pos <= buf.cap /\ buf.pos = from
      BY <1>1, <1>4 DEF Reading, Fits
    <2>2. from + Len(next) = at
      BY <1>1, <1>3 DEF from, Reading
    <2>3. buf' = Appended(buf, Len(next))
      BY DEF AppendChunk
    <2>4. buf' \in [pos : Nat, cap : Nat] /\ Fits(buf') /\ buf'.pos = buf.pos + Len(next)
      BY <1>3, <2>1, <2>3, AppendFits DEF Fits
    <2> QED
      BY <2>1, <2>2, <2>4 DEF Fits
  <1>8. Reading'
    BY <1>1, <1>5, <1>6, <1>7 DEF Reading, AppendChunk, procVars
  <1> QED
    BY <1>2, <1>8 DEF IInv, AppendChunk

-----------------------------------------------------------------------------
(* Bytes are written, or the process ends without that *)

LEMMA PutStep ==
  ASSUME ProcTypes, Running, NEW bytes \in Files, Put(bytes)
  PROVE  IInv'
PROOF
  <1>1. PICK part \in Beginnings(bytes) :
             files' = [files EXCEPT ![out] = part \o SubSeq(@, Len(part) + 1, Len(@))]
    BY DEF Put
  <1>2. part \in Files /\ files' = [files EXCEPT ![out] = part]
    BY <1>1, PutFills
  <1>3. files' \in [Places -> Files \cup {NoFile}] /\ files'["pipe"] \in Files
    BY <1>2 DEF ProcTypes, Places
  <1>4. PICK s \in {"ok", "killed"} : Exit(s)
    BY DEF Put
  <1> QED
    BY <1>3, <1>4, ExitKeeps

LEMMA SerializeStep ==
  ASSUME IInv, Serialize
  PROVE  IInv'
PROOF
  <1>1. ProcTypes /\ Running
    BY InOptions DEF Serialize
  <1>2. PICK bytes \in Documents[cmd] : cmd \in DOMAIN Documents /\ Put(bytes)
    BY DEF Serialize
  <1> QED
    BY <1>1, <1>2, PutStep, CommandsAssumption

LEMMA WriteStep ==
  ASSUME IInv, Write
  PROVE  IInv'
PROOF
  <1>1. ProcTypes /\ Running
    BY InReader DEF Write
  <1> QED
    BY <1>1, PutStep, CommandsAssumption DEF Write

LEMMA RejectStep ==
  ASSUME IInv, Reject
  PROVE  IInv'
PROOF
  <1>1. ProcTypes /\ Running
    BY InReader DEF Reject
  <1> QED
    BY <1>1, ExitKeeps DEF Reject, ProcTypes

LEMMA KillStep ==
  ASSUME IInv, Kill
  PROVE  IInv'
PROOF
  <1>1. ProcTypes /\ Running
    BY DEF IInv, Kill
  <1> QED
    BY <1>1, ExitKeeps DEF Kill, ProcTypes

LEMMA StandStill ==
  ASSUME IInv, UNCHANGED allVars
  PROVE  IInv'
PROOF
  <1>1. ProcTypes' <=> ProcTypes
    BY DEF ProcTypes, allVars, procVars
  <1>2. Running' <=> Running
    BY DEF Running, IsOpened, allVars, procVars
  <1>3. Reading' <=> Reading
    BY DEF Reading, Fits, allVars, vars, procVars
  <1>4. FailureLeaves' <=> FailureLeaves
    BY DEF FailureLeaves, allVars, vars, procVars
  <1> QED
    BY <1>1, <1>2, <1>3, <1>4 DEF IInv, allVars, vars, procVars

-----------------------------------------------------------------------------
(* The theorems *)

LEMMA Inductive == IInv /\ [SessionNext]_allVars => IInv'
PROOF
  <1> SUFFICES ASSUME IInv, [SessionNext]_allVars PROVE IInv'
    OBVIOUS
  <1>1. CASE NoCommand
    BY <1>1, NoCommandStep
  <1>2. CASE \E c \in DOMAIN Documents \cup {"compile"} : Run(c)
    BY <1>2, RunStep DEF AllCommands
  <1>3. CASE PlainOption
    BY <1>3, PlainOptionStep
  <1>4. CASE HelpOption
    BY <1>4, EndingOptionStep DEF HelpOption
  <1>5. CASE BadOption
    BY <1>5, EndingOptionStep DEF BadOption
  <1>6. CASE \E p \in Paths : OpenIn(p) \/ OpenOut(p)
    BY <1>6, OpenInStep, OpenOutStep
  <1>7. CASE Serialize
    BY <1>7, SerializeStep
  <1>8. CASE Collecting
    BY <1>8, CollectingStep
  <1>9. CASE ReadInput
    BY <1>9, TestStep, ReadStep, ReadFailsStep, AppendChunkStep DEF ReadInput
  <1>10. CASE Write
    BY <1>10, WriteStep
  <1>11. CASE Reject
    BY <1>11, RejectStep
  <1>12. CASE Kill
    BY <1>12, KillStep
  <1>13. CASE Rest \/ UNCHANGED allVars
    BY <1>13, StandStill DEF Rest, allVars
  <1> QED
    BY <1>1, <1>2, <1>3, <1>4, <1>5, <1>6, <1>7, <1>8, <1>9, <1>10, <1>11, <1>12, <1>13
    DEF SessionNext, Start, Process

LEMMA Invariance == Session => []IInv
PROOF
  BY InitHolds, Inductive, PTL DEF Session, allVars

\* The variables have their types; collect is at work in compile alone, and what
\* it has appended lies within the allocation (mkbundle.c, util.c, strbuf.c).
THEOREM SessionTypeCorrect == Session => []SessionTypeOK
PROOF
  <1>1. IInv => SessionTypeOK
    <2> SUFFICES ASSUME IInv PROVE SessionTypeOK
      OBVIOUS
    <2>1. ProcTypes /\ (pc = "idle" <=> cmd = "none") /\ (pc = "idle" \/ Len(opened) <= argc)
      BY NamesDiffer DEF IInv, Running
    <2>2. pc \in {"idle", "options"} \/ (TypeOK /\ cmd = "compile")
      BY InReader DEF IInv, Reading, TypeOK
    <2> QED
      BY <2>1, <2>2 DEF SessionTypeOK, ProcTypes, AllCommands
  <1> QED
    BY <1>1, Invariance, PTL

\* "Read an entire file into the given buffer": when compile has read its input
\* it has all of it, whatever its length and however often reading has failed
\* (collect, util.c).
THEOREM InputWhole == Session => []Whole
PROOF
  <1>1. IInv => Whole
    <2> SUFFICES ASSUME IInv, pc = "done" PROVE content = file
      BY DEF Whole
    <2>1. Reading /\ file \in Seq(Nat)
      BY InReader
    <2>2. at = Len(file) /\ content = SubSeq(file, 1, at)
      BY <2>1 DEF Reading
    <2> QED
      BY <2>1, <2>2, SubSeqFull
  <1> QED
    BY <1>1, Invariance, PTL

\* A command that fails leaves each file it has opened for output empty, and all
\* others as they were (try_open and the loops over the options, mkbundle.c).
THEOREM FailureLeavesEmpty == Session => []FailureLeaves
PROOF
  <1>1. IInv => FailureLeaves
    BY DEF IInv, FailureLeaves
  <1> QED
    BY <1>1, Invariance, PTL

\* When compile has read its input, the input is where it was, in no file that an
\* -o has named, and not where it writes.
LEMMA InputThere ==
  ASSUME IInv, pc = "done", content # << >>
  PROVE  /\ content = file /\ files[in] = content
         /\ ~ IsOpened(in) /\ in # out /\ in # "terminal"
         /\ in \in Paths => before[in] = content
PROOF
  <1>1. ProcTypes /\ Running /\ Reading /\ file \in Seq(Nat)
    BY InReader
  <1>2. at = Len(file) /\ content = SubSeq(file, 1, at)
    BY <1>1 DEF Reading
  <1>3. content = file /\ files[in] = content
    BY <1>1, <1>2, SubSeqFull DEF Reading
  <1>4. in # "terminal"
    BY <1>1, NamesDiffer DEF ProcTypes
  <1>5. ~ IsOpened(in)
    <2>1. CASE in \in Paths
      BY <1>1, <1>3, <2>1 DEF Running
    <2>2. CASE in \notin Paths
      <3>1. \A n \in DOMAIN opened : opened[n] \in Paths
        BY <1>1 DEF ProcTypes
      <3> QED
        BY <2>2, <3>1 DEF IsOpened
    <2> QED
      BY <2>1, <2>2
  <1>6. in # out
    BY <1>1, <1>3 DEF Running
  <1>7. in \in Paths => before[in] = content
    BY <1>1, <1>3, <1>5 DEF Running
  <1> QED
    BY <1>3, <1>4, <1>5, <1>6, <1>7

\* What compile writes without failing is the block of a text that is still where
\* it has read it: no -o of its own has emptied it, and it does not write there.
THEOREM InputStays == Session => InputKept
PROOF
  <1> DEFINE A == pc = "done" /\ status' = "ok" =>
                    /\ \A n \in DOMAIN opened : opened[n] # in
                    /\ in \in Paths => files'[in] = before[in] /\ before[in] = content
  <1>1. IInv /\ [SessionNext]_allVars => [A]_allVars
    <2> SUFFICES ASSUME IInv, [SessionNext]_allVars, pc = "done", status' = "ok" PROVE A
      OBVIOUS
    <2>1. ProcTypes /\ Running
      BY InReader
    <2>2. Write
      <3>1. status' # status
        BY <2>1 DEF Running
      <3>2. ~ Kill /\ ~ Reject /\ ~ ReadInput
        BY <3>1 DEF Kill, Reject, ReadInput, Exit, procVars
      <3> QED
        BY <3>1, <3>2
        DEF SessionNext, Start, Process, NoCommand, Run, Begin, Option, PlainOption,
            HelpOption, BadOption, OpenIn, OpenOut, Serialize, Collecting, Rest,
            allVars, procVars
    <2>3. content # << >> /\ Compiled[content] \in Files
      BY <2>2, CommandsAssumption DEF Write
    <2>4. PICK part \in Beginnings(Compiled[content]) :
               files' = [files EXCEPT ![out] = part \o SubSeq(@, Len(part) + 1, Len(@))]
      BY <2>2 DEF Write, Put
    <2>5. in # out => files'[in] = files[in]
      BY <2>1, <2>4 DEF ProcTypes, Places
    <2> QED
      BY <2>3, <2>5, InputThere DEF IsOpened
  <1>2. Session => [][A]_allVars
    BY <1>1, Invariance, PTL DEF Session, allVars
  <1> QED
    BY <1>2 DEF InputKept, allVars

-----------------------------------------------------------------------------
(* The refinement *)

\* What the refinement mapping makes of emptied.
Emptied == IF pc = "idle" THEN {} ELSE {opened[n] : n \in DOMAIN opened} \cup {StdOut(cmd)}

\* A process that ends without writing.
LEMMA ExitStops ==
  ASSUME IInv, pc # "idle", NEW s, Exit(s), UNCHANGED files
  PROVE  Effects!Stop
PROOF
  <1>1. cmd # "none"
    BY NamesDiffer DEF IInv, Running
  <1> QED
    BY <1>1 DEF Exit, Effects!Stop, Effects!Idle

\* Bytes the abstract specification allows fill the place emptied last.
LEMMA PutIsFill ==
  ASSUME IInv, pc # "idle", NEW bytes \in Files, Put(bytes), bytes \in Effects!Outputs
  PROVE  Effects!Fill
PROOF
  <1>1. ProcTypes /\ Running /\ cmd # "none"
    BY NamesDiffer DEF IInv, Running
  <1>2. PICK part \in Beginnings(bytes) :
             files' = [files EXCEPT ![out] = part \o SubSeq(@, Len(part) + 1, Len(@))]
    BY DEF Put
  <1>3. files' = [files EXCEPT ![out] = part]
    BY <1>1, <1>2, PutFills
  <1>4. PICK n \in 0 .. Len(bytes) : part = SubSeq(bytes, 1, n)
    BY DEF Beginnings
  <1>5. Effects!Idle
    BY DEF Put, Exit, Effects!Idle
  <1> QED
    BY <1>1, <1>3, <1>4, <1>5 DEF Effects!Fill

LEMMA StepAllowed ==
  IInv /\ IInv' /\ [SessionNext]_allVars => [Effects!Next]_(Effects!vars)
PROOF
  <1> SUFFICES ASSUME IInv, IInv', [SessionNext]_allVars
               PROVE  Effects!Next \/ UNCHANGED Effects!vars
    OBVIOUS
  <1>1. CASE NoCommand
    BY <1>1 DEF NoCommand, Begin, vars, Effects!vars
  <1>2. CASE \E c \in DOMAIN Documents \cup {"compile"} : Run(c)
    <2> PICK c \in DOMAIN Documents \cup {"compile"} : Run(c)
      BY <1>2
    <2>1. cmd = "none" /\ pc = "idle" /\ pc' = "options" /\ cmd' = c
      BY NamesDiffer DEF IInv, Running, Run, Begin
    <2>2. {opened[n] : n \in DOMAIN opened}' = {}
      BY DEF Run, Begin
    <2>3. Effects!Begin(c, StdOut(c))
      BY <2>1, <2>2 DEF Run, StdOut, Effects!Begin, Effects!Empty
    <2>4. StdOut(c) \in Places
      BY DEF StdOut, Places
    <2> QED
      BY <2>3, <2>4 DEF Effects!Next
  <1>3. CASE PlainOption
    BY <1>3 DEF PlainOption, Option, Taken, vars, Effects!vars
  <1>4. CASE HelpOption \/ BadOption
    BY <1>4, ExitStops DEF HelpOption, BadOption, Option, Effects!Next
  <1>5. CASE \E p \in Paths : OpenIn(p)
    BY <1>5, ExitStops DEF OpenIn, Option, Taken, vars, Effects!vars, Effects!Next
  <1>6. CASE \E p \in Paths : OpenOut(p)
    <2> PICK p \in Paths : OpenOut(p)
      BY <1>6
    <2>1. ProcTypes /\ pc = "options" /\ cmd \in AllCommands /\ cmd # "none"
      BY InOptions, NamesDiffer DEF OpenOut, Option, Running
    <2>2. CASE Exit("failed") /\ UNCHANGED files
      BY <2>1, <2>2, ExitStops DEF Effects!Next
    <2>3. CASE /\ files' = [files EXCEPT ![p] = Truncated(@)]
               /\ out' = NowOut(p)
               /\ opened' = Append(opened, p)
               /\ Taken
               /\ UNCHANGED in
      <3>1. {opened[n] : n \in DOMAIN opened}' = {opened[n] : n \in DOMAIN opened} \cup {p}
        <4>1. DOMAIN opened = 1 .. Len(opened) /\ Len(opened) \in Nat
          BY <2>1 DEF ProcTypes
        <4>2. opened' \in Seq(Paths) /\ Len(opened') = Len(opened) + 1
          BY <2>1, <2>3, AppendProperties DEF ProcTypes
        <4>3. DOMAIN opened' = DOMAIN opened \cup {Len(opened) + 1}
          BY <4>1, <4>2
        <4>4. /\ \A n \in DOMAIN opened : opened'[n] = opened[n]
              /\ opened'[Len(opened) + 1] = p
          BY <2>1, <2>3, <4>1, AppendProperties DEF ProcTypes
        <4> QED
          BY <4>3, <4>4
      <3>2. Effects!EmptyNext(p)
        BY <2>1, <2>3, <3>1
        DEF Truncated, NowOut, Taken, vars, Effects!EmptyNext, Effects!Empty
      <3> QED
        BY <3>2 DEF Effects!Next, Places
    <2> QED
      BY <2>2, <2>3 DEF OpenOut
  <1>7. CASE Serialize
    <2>1. PICK bytes \in Documents[cmd] : cmd \in DOMAIN Documents /\ Put(bytes)
      BY <1>7 DEF Serialize
    <2>2. bytes \in Files /\ bytes \in Effects!Outputs
      BY <2>1, CommandsAssumption DEF Effects!Outputs
    <2> QED
      BY <1>7, <2>1, <2>2, PutIsFill DEF Serialize, Effects!Next
  <1>8. CASE Collecting
    BY <1>8 DEF Collecting, procVars, Effects!vars
  <1>9. CASE ReadInput
    BY <1>9
    DEF ReadInput, Test, Read, ReadFails, AppendChunk, procVars, Effects!vars
  <1>10. CASE Write
    <2>1. ProcTypes /\ Running /\ cmd = "compile"
      BY <1>10, InReader DEF Write, Reading
    <2>2. content # << >> /\ Compiled[content] \in Files
      BY <1>10, CommandsAssumption DEF Write
    <2>3. files[in] = content /\ in \in Places \ Emptied
      BY <1>10, <2>1, <2>2, InputThere
      DEF Write, Emptied, IsOpened, StdOut, ProcTypes, Places
    <2>4. Compiled[content] \in Effects!Outputs
      BY <1>10, <2>1, <2>3, CommandsAssumption DEF Write, Emptied, Effects!Outputs
    <2> QED
      BY <1>10, <2>2, <2>4, PutIsFill DEF Write, Effects!Next
  <1>11. CASE Reject
    BY <1>11, ExitStops DEF Reject, Effects!Next
  <1>12. CASE Kill
    BY <1>12, ExitStops DEF Kill, Effects!Next
  <1>13. CASE Rest \/ UNCHANGED allVars
    BY <1>13 DEF Rest, allVars, vars, procVars, Effects!vars
  <1> QED
    BY <1>1, <1>2, <1>3, <1>4, <1>5, <1>6, <1>7, <1>8, <1>9, <1>10, <1>11, <1>12, <1>13
    DEF SessionNext, Start, Process

\* Whatever the options, and whatever goes wrong when, a command empties the
\* files it opens and then fills at most the last of them with the beginning of
\* a document of its own, or of the block of an input it has not emptied (main,
\* cmd_build_* and cmd_compile, mkbundle.c).
THEOREM Refinement == Session => Implements
PROOF
  <1>1. SessionInit => Effects!Init
    BY DEF SessionInit, Effects!Init
  <1>2. Session => Effects!Spec
    BY <1>1, Invariance, StepAllowed, PTL DEF Session, allVars, Effects!Spec
  <1> QED
    BY <1>2 DEF Implements
=============================================================================

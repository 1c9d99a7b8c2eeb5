------------------------------ MODULE Commands ------------------------------
(***************************************************************************)
(* The commands of mkbundle.c as processes that share files: main, the     *)
(* loops over the options with -h, -i and -o, and what each command does   *)
(* when they are over.  compile reads its input through collect, by the    *)
(* steps of Collect.                                                       *)
(*                                                                         *)
(* The standard output of primary and extension is a pipe, the standard    *)
(* input of compile, as in "mkbundle primary | mkbundle compile"; the      *)
(* standard output of compile is the terminal.  What is in a document or a *)
(* block is a matter of MkBundle; here both are sequences of bytes.        *)
(*                                                                         *)
(* A process may be killed at any time, fopen may fail, and the end of     *)
(* what is written may be lost: nothing looks at what fprintf and fclose   *)
(* return.                                                                 *)
(***************************************************************************)
EXTENDS Collect

CONSTANTS
  Paths,        \* the names of files
  NoFile,       \* the contents of a file that does not exist
  FirstFiles,   \* the contents a file may have before all commands
  Documents,    \* the documents primary and extension may write
  Compiled,     \* the block compile writes, for each text it accepts
  MaxOptions,   \* bound of the model: the options of a command
  MaxRuns       \* bound of the model: the commands

\* What writing bytes may leave of them.
Beginnings(bytes) == {SubSeq(bytes, 1, n) : n \in 0 .. Len(bytes)}

\* A file may hold the beginning of what it may hold.  compile accepts no text
\* that is empty: jsmn finds no token in it.
ASSUME CommandsAssumption ==
  /\ {"pipe", "terminal", "none"} \cap Paths = {}
  /\ DOMAIN Documents = {"primary", "extension"}
  /\ \A c \in DOMAIN Documents : Documents[c] \subseteq Files
  /\ \A text \in DOMAIN Compiled : Compiled[text] \in Files
  /\ << >> \in Files \ DOMAIN Compiled
  /\ \A f \in Files : Beginnings(f) \subseteq Files
  /\ FirstFiles \subseteq Files \cup {NoFile} /\ NoFile \notin Files
  /\ MaxOptions \in Nat /\ MaxRuns \in Nat

VARIABLES
  files,    \* what is in each file, in the pipe and on the terminal
  cmd,      \* the command that runs, or "none"
  argc,     \* the number of options it has seen
  in,       \* the place it reads from
  out,      \* the place it writes to
  opened,   \* the files it has opened for output
  status,   \* how the last command has ended
  before,   \* what was in the files when it began
  runs      \* the number of commands begun

procVars == <<files, cmd, argc, in, out, opened, status, before, runs>>

Places == Paths \cup {"pipe", "terminal"}
StdOut(c) == IF c = "compile" THEN "terminal" ELSE "pipe"

-----------------------------------------------------------------------------
(* Slips the properties notice; the model does not use them. *)
TruncatedNot(contents) == IF contents = NoFile THEN << >> ELSE contents \* mode "r+"
FirstOpened(p) == IF opened = << >> THEN p ELSE out                 \* the first -o counts

\* The reader of a process that has yet to read f.
Reader(f) ==
  /\ file' = f
  /\ at' = 0 /\ eof' = FALSE /\ next' = << >>
  /\ buf' = NewBuf(InitCap)
  /\ content' = << >>

SessionInit ==
  /\ pc = "idle"
  /\ file = << >> /\ at = 0 /\ eof = FALSE /\ next = << >>
  /\ buf = NewBuf(InitCap) /\ content = << >>
  /\ files \in {f \in [Places -> FirstFiles \cup {<< >>}] :
                  f["pipe"] = << >> /\ f["terminal"] = << >>}
  /\ cmd = "none" /\ argc = 0 /\ in = "pipe" /\ out = "pipe"
  /\ opened = << >> /\ status = "ok" /\ before = files
  /\ runs = 0

\* The process ends.
Exit(s) ==
  /\ pc' = "idle" /\ Reader(<< >>)
  /\ cmd' = "none" /\ argc' = 0 /\ in' = "pipe" /\ out' = "pipe"
  /\ status' = s
  /\ UNCHANGED <<opened, before, runs>>

Begin ==
  /\ pc = "idle" /\ runs < MaxRuns
  /\ runs' = runs + 1
  /\ before' = files
  /\ opened' = << >>

\* main, and the command up to its loop over the options.
Run(c) ==
  /\ Begin
  /\ pc' = "options"
  /\ cmd' = c /\ argc' = 0
  /\ in' = "pipe" /\ out' = StdOut(c)
  /\ files' = [files EXCEPT ![StdOut(c)] = << >>]
  /\ status' = "running"
  /\ UNCHANGED <<file, at, eof, next, buf, content>>

\* main without a command or with one it does not know, and cmd_help with or
\* without one it knows.
NoCommand ==
  /\ Begin
  /\ status' \in {"ok", "failed"}
  /\ UNCHANGED <<vars, files, cmd, argc, in, out>>

-----------------------------------------------------------------------------
(* A turn of the loop over the options *)

Option ==
  /\ pc = "options" /\ argc < MaxOptions
  /\ cmd \in DOMAIN Documents \cup {"compile"}

\* The option was taken; the loop goes on.
Taken == argc' = argc + 1 /\ UNCHANGED <<vars, cmd, status, before, runs>>

\* An option of the block that is built; one that handle_opt warns of.
PlainOption ==
  /\ Option
  /\ Taken
  /\ UNCHANGED <<files, in, out, opened>>

\* "-h"
HelpOption == Option /\ Exit("ok") /\ UNCHANGED files

\* DIEF: an option whose argument is missing or, but for compile, not valid.
BadOption == Option /\ Exit("failed") /\ UNCHANGED files

\* try_open(optarg, "r"), which may fail for other reasons as well
OpenIn(p) ==
  /\ Option /\ cmd = "compile"
  /\ \/ /\ files[p] # NoFile
        /\ in' = p
        /\ Taken
        /\ UNCHANGED <<files, out, opened>>
     \/ Exit("failed") /\ UNCHANGED files

\* fopen creates the file, or empties it.
Truncated(contents) == << >>

\* The stream opened before is left as it is.
NowOut(p) == p

\* try_open(optarg, "w")
OpenOut(p) ==
  /\ Option
  /\ \/ /\ files' = [files EXCEPT ![p] = Truncated(@)]
        /\ out' = NowOut(p)
        /\ opened' = Append(opened, p)
        /\ Taken
        /\ UNCHANGED in
     \/ Exit("failed") /\ UNCHANGED files

-----------------------------------------------------------------------------
(* The loop is over *)

\* What reaches the file of the bytes written, from its beginning: all of them,
\* or less.  The process ends normally either way, or it is killed while it
\* writes or, in compile, stopped by the assertion of WRITE.
Put(bytes) ==
  /\ \E part \in Beginnings(bytes) :
        files' = [files EXCEPT ![out] = part \o SubSeq(@, Len(part) + 1, Len(@))]
  /\ Exit("ok") \/ Exit("killed")

\* primary_block_serialize or ext_block_serialize
Serialize ==
  /\ pc = "options" /\ cmd \in DOMAIN Documents
  /\ \E bytes \in Documents[cmd] : Put(bytes)

\* collect begins.
Collecting ==
  /\ pc = "options" /\ cmd = "compile"
  /\ pc' = "test"
  /\ Reader(files[in])
  /\ UNCHANGED procVars

ReadInput == (Test \/ Read \/ ReadFails \/ AppendChunk) /\ UNCHANGED procVars

\* block_unserialize, and block_write
Write ==
  /\ pc = "done" /\ content \in DOMAIN Compiled
  /\ Put(Compiled[content])

\* "unable to unserialize block"
Reject ==
  /\ pc = "done" /\ content \notin DOMAIN Compiled
  /\ Exit("failed")
  /\ UNCHANGED files

Kill == pc # "idle" /\ Exit("killed") /\ UNCHANGED files

Process ==
  \/ PlainOption \/ HelpOption \/ BadOption
  \/ \E p \in Paths : OpenIn(p) \/ OpenOut(p)
  \/ Serialize
  \/ Collecting \/ ReadInput \/ Write \/ Reject

Start == NoCommand \/ \E c \in DOMAIN Documents \cup {"compile"} : Run(c)

\* Enough commands have run.
Rest == pc = "idle" /\ runs = MaxRuns /\ UNCHANGED <<vars, procVars>>

SessionNext == Start \/ Process \/ Kill \/ Rest

Session == SessionInit /\ [][SessionNext]_<<vars, procVars>>

\* A process that was begun runs on; nobody has to kill it, or to begin another.
FairSession == Session /\ WF_<<vars, procVars>>(Process)

-----------------------------------------------------------------------------
(* Properties *)

\* The type invariant.  The reader of Collect is at work only in compile.
SessionTypeOK ==
  /\ pc \in {"idle", "options"} \/ (TypeOK /\ cmd = "compile")
  /\ files \in [Places -> Files \cup {NoFile}]
  /\ cmd \in DOMAIN Documents \cup {"compile", "none"}
  /\ pc = "idle" <=> cmd = "none"
  /\ argc \in 0 .. MaxOptions
  /\ pc = "idle" \/ Len(opened) <= argc
  /\ in \in Paths \cup {"pipe"} /\ out \in Places
  /\ status \in {"ok", "failed", "killed", "running"}

\* A command that fails has written nothing, but it has emptied each file that
\* an -o before the failure named, whatever was in it: files are opened while
\* the options are read, before those that follow, and the input, are looked at.
FailureLeaves ==
  pc = "idle" /\ status = "failed" =>
    \A p \in Paths :
      files[p] = IF \E n \in DOMAIN opened : opened[n] = p THEN << >> ELSE before[p]

\* Nothing compile reads is changed before it has read it, or by it at all: what
\* it writes without failing is the block of a text that is still there.  A file
\* that is both its input and its output is empty when it is read.
InputKept ==
  [][ pc = "done" /\ status' = "ok" =>
        /\ \A n \in DOMAIN opened : opened[n] # in
        /\ in \in Paths => files'[in] = before[in] /\ before[in] = content ]_<<vars, procVars>>

\* Whatever the options, and whatever goes wrong when: a command empties the
\* files it opens and then fills at most the last of them, in one piece, with
\* a document of its own or the block of all of its input, which is not among
\* them.
Effects ==
  INSTANCE CommandEffects WITH
    emptied <- IF pc = "idle" THEN {} ELSE {opened[n] : n \in DOMAIN opened} \cup {StdOut(cmd)},
    target <- IF pc = "idle" THEN "none" ELSE out

Implements == Effects!Spec

\* Every command ends, unless the input of compile fails for ever.
EndsUnlessFailing ==
  []<><<ReadFails>>_<<vars, procVars>> \/ (pc # "idle" ~> pc = "idle")
=============================================================================

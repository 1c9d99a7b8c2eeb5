------------------------------ MODULE MkBundle ------------------------------
(***************************************************************************)
(* The commands of mkbundle.c, one after the other: primary or extension   *)
(* builds a block from the options of its command line and writes it as a  *)
(* JSON document, which a user may edit; compile reads that document       *)
(* (module Unserialize) and writes the block in binary.  The files between *)
(* the commands, and their other options, are in module Commands.          *)
(*                                                                         *)
(* Strings of the dictionary are those of EidStrings: EidDict shows that   *)
(* the hash table behind them cannot be seen.  Numbers are sets of bits,   *)
(* as in TokenParser, so that a cast is an intersection.                   *)
(***************************************************************************)
EXTENDS Unserialize, EidStrings

CONSTANTS
  Commands,     \* the commands a document is made with
  Options,      \* the options they are given, records of opt and arg
  Edits,        \* the members a user may put in place of those in the document
  MaxOptions,   \* bound of the model: the number of options given
  MaxEdited     \* bound of the model: that number, of documents that are edited

\* An argument that does not begin as it should: no digits, or no colon.
Malformed == NotNumber

ASSUME MkBundleAssumption ==
  /\ Commands \subseteq BlockTypes
  /\ MaxOptions \in Nat /\ MaxEdited \in Nat

VARIABLES
  argv,    \* the options given
  built,   \* the block the first command builds
  dict,    \* eid_buf of that block
  wrote,   \* the document the first command has written
  out      \* what compile has written, a sequence of named items

cmdVars == <<argv, built, dict, wrote, out>>

-----------------------------------------------------------------------------
(* Symbols of ui.c: the bits they stand for.  FLAG_INVALID has a bit of its  *)
(* own, which no symbol has.                                                 *)

FLAG_INVALID == {31}
PRIO_BITS == {7, 8}

PrimaryFlags ==
  { <<"bundle-is-fragment", {0}>>, <<"admin-record", {1}>>,
    <<"no-fragmentation", {2}>>, <<"custody-transfer", {3}>>,
    <<"singleton", {4}>>, <<"ack", {5}>> }
Prios == {<<"bulk", {}>>, <<"normal", {7}>>, <<"expedited", {8}>>}
Reports ==
  { <<"reception", {14}>>, <<"custody", {15}>>, <<"forwarding", {16}>>,
    <<"delivery", {17}>>, <<"deletion", {18}>> }
ExtFlags ==
  { <<"replicate", {0}>>, <<"transmit-status", {1}>>, <<"delete-bundle", {2}>>,
    <<"last-block", {3}>>, <<"discard-block", {4}>>, <<"eid-ref", {6}>> }
ExtTypes == {<<"payload", {0}>>, <<"phib", {0, 2}>>}

Knows(table, str) == \E p \in table : p[1] = str
SymParse(table, str) ==
  IF Knows(table, str) THEN (CHOOSE p \in table : p[1] = str)[2] ELSE FLAG_INVALID

-----------------------------------------------------------------------------
(* A slip the properties notice; the model does not use it. *)
PrioKept(flags, bits) == flags \cup bits                 \* without PRIO_RESET

\* (uint8_t) and (uint32_t) of a number of 64 bits
Cast32(n) == n \cap (0 .. 31)
Cast8(n)  == n \cap (0 .. 7)

\* The number n of a size_t or an int, as a set of bits; it is below 2^16 here.
Bits(n) == {b \in 0 .. 15 : (n \div 2^b) % 2 = 1}

-----------------------------------------------------------------------------
CmdInit ==
  /\ pc = "options"
  /\ \E c \in Commands : built = NewBlock(c)
  /\ dict = EmptyDict
  /\ argv = << >>
  /\ out = << >>
  /\ doc = NoDoc /\ wrote = NoDoc /\ text = << >>
  /\ par = Parser(<< >>)
  /\ block = NoBlock
  /\ symbols = {}
  /\ left = 0

\* getopt_long returns the next option, which is one of opts, and the command
\* goes on, or ends with DIEF if the argument is not valid.
Option(command, opts, o, valid) ==
  /\ pc = "options"
  /\ built.type = command
  /\ Len(argv) < MaxOptions
  /\ o.opt \in opts
  /\ argv' = Append(argv, o)
  /\ pc' = IF valid THEN "options" ELSE "died"
  /\ UNCHANGED <<doc, text, par, block, symbols, left, wrote, out>>

Field(k, v) == built' = [built EXCEPT !.fields[k] = v]

\* --version, --creation-ts, --creation-seq, --lifetime: strtoul and a cast.
\* What does not begin with digits gives 0, and ends the command.
Number(n) == IF n = Malformed THEN {} ELSE n

PrimaryNumber(o) ==
  /\ Option("primary", {"version", "creation-ts", "creation-seq", "lifetime"},
            o, o.arg # Malformed)
  /\ Field(o.opt, IF o.opt = "version" THEN Cast8(Number(o.arg)) ELSE Cast32(Number(o.arg)))
  /\ UNCHANGED dict

\* --flag and --report
PrimaryFlag(o) ==
  LET table == IF o.opt = "flag" THEN PrimaryFlags ELSE Reports
      flags == built.fields["flags"] \cup SymParse(table, o.arg)
  IN  /\ Option("primary", {"flag", "report"}, o, flags \cap FLAG_INVALID = {})
      /\ Field("flags", flags)
      /\ UNCHANGED dict

\* PRIO_RESET, then the new priority.
PrioSet(flags, bits) == (flags \ PRIO_BITS) \cup bits

Prio(o) ==
  LET flags == PrioSet(built.fields["flags"], SymParse(Prios, o.arg))
  IN  /\ Option("primary", {"prio"}, o, flags \cap FLAG_INVALID = {})
      /\ Field("flags", flags)
      /\ UNCHANGED dict

EidKeys == {"dest", "src", "report-to", "custodian"}

\* primary_block_add_eid: a string without a colon changes nothing; otherwise
\* the two strings are added in the order the compiler chose.
EidOption(o) ==
  /\ Option("primary", EidKeys, o, o.arg # Malformed)
  /\ IF o.arg = Malformed
     THEN UNCHANGED <<built, dict>>
     ELSE /\ \E schemeFirst \in BOOLEAN :
               dict' = IF schemeFirst
                       THEN Interned(Interned(dict, o.arg.scheme), o.arg.ssp)
                       ELSE Interned(Interned(dict, o.arg.ssp), o.arg.scheme)
          /\ Field(o.opt, [ scheme |-> Bits(OffsetIn(dict', o.arg.scheme)),
                            ssp    |-> Bits(OffsetIn(dict', o.arg.ssp)) ])

\* --type: a symbol, or else the number the argument begins with.
ExtType(o) ==
  LET type == IF Knows(ExtTypes, o.arg.sym) THEN SymParse(ExtTypes, o.arg.sym)
              ELSE Cast8(Number(o.arg.num))
  IN  /\ Option("extension", {"type"}, o,
                Knows(ExtTypes, o.arg.sym) \/ o.arg.num # Malformed)
      /\ Field("type", type)
      /\ UNCHANGED dict

\* --flag: the cast comes before the test of FLAG_INVALID, which never fails.
ExtFlag(o) ==
  LET flags == built.fields["flags"] \cup Cast8(SymParse(ExtFlags, o.arg))
  IN  /\ Option("extension", {"flag"}, o, flags \cap FLAG_INVALID = {})
      /\ Field("flags", flags)
      /\ UNCHANGED dict

ExtLength(o) ==
  /\ Option("extension", {"payload-length"}, o, o.arg # Malformed)
  /\ Field("payload-length", Cast32(Number(o.arg)))
  /\ UNCHANGED dict

\* ext_block_add_ref: the slot is pushed first.  The ref_count of the block is
\* left alone.
RefOption(o) ==
  LET room == Len(built.list) < RefCap
  IN  /\ Option("extension", {"ref"}, o, room /\ o.arg # Malformed)
      /\ built' = IF room
                  THEN [built EXCEPT !.list =
                          Append(@, IF o.arg = Malformed THEN ZeroEid
                                    ELSE [ scheme |-> Cast32(o.arg.scheme),
                                           ssp    |-> Cast32(o.arg.ssp) ])]
                  ELSE built
      /\ UNCHANGED dict

\* handle_opt warns of an option that is not known.  --creation is one: it
\* abbreviates two of the command's options.
UnknownOption(o) ==
  /\ Option(built.type, {"creation", "unknown"}, o, TRUE)
  /\ UNCHANGED <<built, dict>>

-----------------------------------------------------------------------------
(* The document *)

\* sdnv_len, as Sdnv has it: a byte for each seven bits.
SdnvLen(n) == IF n = {} THEN 1 ELSE Max(n) \div 7 + 1

Total(lens) ==
  LET sum[n \in 0 .. Len(lens)] == IF n = 0 THEN 0 ELSE sum[n - 1] + lens[n]
  IN  sum[Len(lens)]

Parts(e) == <<e.scheme, e.ssp>>
Eids(f) == Parts(f["dest"]) \o Parts(f["src"]) \o Parts(f["report-to"])
             \o Parts(f["custodian"])

\* A slip the properties notice: the SDNV of the dictionary's length is left out.
LengthNoSize ==
  LET f  == built.fields
      ns == Eids(f) \o <<f["creation-ts"], f["creation-seq"], f["lifetime"]>>
  IN  Total([n \in DOMAIN ns |-> SdnvLen(ns[n])]) + dict.pos

\* calc_length
calc_length ==
  LET f  == built.fields
      ns == Eids(f) \o <<f["creation-ts"], f["creation-seq"], f["lifetime"], Bits(dict.pos)>>
  IN  Total([n \in DOMAIN ns |-> SdnvLen(ns[n])]) + dict.pos

Member(k, v) == [key |-> Str(k), value |-> v]

\* A slip the properties notice: the walk passes over strings that are empty.
StringsFilled(d) ==
  LET from[pos \in DOMAIN d.held \cup {d.pos}] ==
        IF pos = d.pos THEN << >>
        ELSE (IF LenOf[d.held[pos]] = 0 THEN << >> ELSE <<d.held[pos]>>)
               \o from[pos + LenOf[d.held[pos]] + 1]
  IN  from[0]

\* serialize_eids walks the buffer from string to string.
StringsOf(d) ==
  LET from[pos \in DOMAIN d.held \cup {d.pos}] ==
        IF pos = d.pos THEN << >>
        ELSE <<d.held[pos]>> \o from[pos + LenOf[d.held[pos]] + 1]
  IN  from[0]

\* primary_block_serialize
PrimaryMembers ==
  LET f == built.fields
      num(k) == Member(k, Num(f[k]))
      eid(k) == Member(k, EidArr(f[k]))
      strs == StringsOf(dict)
  IN  << num("version"), num("flags"), Member("length", Num(Bits(calc_length))),
         eid("dest"), eid("src"), eid("report-to"), eid("custodian"),
         num("creation-ts"), num("creation-seq"), num("lifetime"),
         Member("eids-size", Num(Bits(dict.pos))),
         Member("eids", Arr([n \in DOMAIN strs |-> Str(strs[n])])) >>

\* ext_block_serialize
ExtMembers ==
  LET num(k) == Member(k, Num(built.fields[k]))
  IN  << num("type"), num("flags"), num("payload-length"), num("ref-count"),
         Member("refs", Arr([n \in DOMAIN built.list |-> EidArr(built.list[n])])) >>

\* The command line ends: the block is written as a document.
Serialize ==
  /\ pc = "options"
  /\ doc' = [ head    |-> <<Str(built.type), Obj>>,
              members |-> IF built.type = "primary" THEN PrimaryMembers ELSE ExtMembers ]
  /\ wrote' = doc'
  /\ text' = Text(doc')
  /\ pc' = "text"
  /\ UNCHANGED <<par, block, symbols, left, argv, built, dict, out>>

\* A user edits the document before compile reads it, and leaves it well-formed.
Edit ==
  /\ pc = "text" /\ doc = wrote /\ Len(argv) <= MaxEdited
  /\ \E e \in Edits, n \in DOMAIN doc.members :
        /\ doc.members[n].key = e.key
        /\ doc' = [doc EXCEPT !.members[n] = e]
  /\ text' = Text(doc')
  /\ UNCHANGED <<pc, par, block, symbols, left, cmdVars>>

-----------------------------------------------------------------------------
(* The binary form *)

\* WRITE_SDNV and WRITE: what is written, and how many bytes it takes.
Item(name, n) == [name |-> name, val |-> n, len |-> SdnvLen(n)]
Byte(name, n) == [name |-> name, val |-> n, len |-> 1]
EidItems(k, e) == <<Item(k, e.scheme), Item(k, e.ssp)>>

\* The dictionary that is written: the strings of the list, end to end.
Dictionary(list) ==
  LET after[n \in 0 .. Len(list)] ==
        IF n = 0 THEN EmptyDict ELSE AppendedString(after[n - 1], list[n])
  IN  after[Len(list)]

\* A slip the properties notice: the size of the dictionary is computed afresh.
PrimaryOutResized(b) ==
  LET f == b.fields
      num(k) == <<Item(k, f[k])>>
      eid(k) == EidItems(k, f[k])
      size == Dictionary(b.list).pos
  IN  <<Byte("version", f["version"])>> \o num("flags") \o num("length")
        \o eid("dest") \o eid("src") \o eid("report-to") \o eid("custodian")
        \o num("creation-ts") \o num("creation-seq") \o num("lifetime")
        \o <<Item("eids-size", Bits(size)), [name |-> "eids", val |-> b.list, len |-> size]>>

\* primary_block_write
PrimaryOut(b) ==
  LET f == b.fields
      num(k) == <<Item(k, f[k])>>
      eid(k) == EidItems(k, f[k])
  IN  <<Byte("version", f["version"])>> \o num("flags") \o num("length")
        \o eid("dest") \o eid("src") \o eid("report-to") \o eid("custodian")
        \o num("creation-ts") \o num("creation-seq") \o num("lifetime")
        \o num("eids-size")
        \o <<[name |-> "eids", val |-> b.list, len |-> Dictionary(b.list).pos]>>

\* ext_block_write
ExtOut(b) ==
  LET f == b.fields
      refs == FlattenSeq([n \in DOMAIN b.list |-> EidItems("refs", b.list[n])])
  IN  <<Byte("type", f["type"]), Item("flags", f["flags"])>>
        \o (IF f["ref-count"] # Zero
            THEN <<Item("ref-count", f["ref-count"])>> \o refs ELSE << >>)
        \o <<Item("payload-length", f["payload-length"])>>

\* block_write
BlockOut(b) == IF b.type = "primary" THEN PrimaryOut(b) ELSE ExtOut(b)

Write ==
  /\ pc = "accepted"
  /\ out' = BlockOut(block)
  /\ pc' = "written"
  /\ UNCHANGED <<doc, text, par, block, symbols, left, argv, built, dict, wrote>>

Compile == (Step /\ UNCHANGED cmdVars) \/ Write

\* The command has ended: with its output written, or by DIEF or DIES.
Ended == pc \in {"written", "died", "rejected"} /\ UNCHANGED <<vars, cmdVars>>

CmdNext ==
  \/ \E o \in Options :
       \/ PrimaryNumber(o) \/ PrimaryFlag(o) \/ Prio(o) \/ EidOption(o)
       \/ ExtType(o) \/ ExtFlag(o) \/ ExtLength(o) \/ RefOption(o)
       \/ UnknownOption(o)
  \/ Serialize \/ Edit
  \/ Compile
  \/ Ended

CmdSpec == CmdInit /\ [][CmdNext]_<<vars, cmdVars>>

\* compile runs on: it waits for nothing.
FairCmdSpec == CmdSpec /\ WF_<<vars, cmdVars>>(Compile)

-----------------------------------------------------------------------------
(* Properties *)

\* The values written under a name, in order, and the arguments of an option.
Written(name) ==
  FlattenSeq([n \in DOMAIN out |-> IF out[n].name = name THEN <<out[n].val>> ELSE << >>])
Args(opt) ==
  FlattenSeq([n \in DOMAIN argv |-> IF argv[n].opt = opt THEN <<argv[n].arg>> ELSE << >>])
LastArg(opt) == Args(opt)[Len(Args(opt))]
Elements(s) == {s[n] : n \in DOMAIN s}

\* The document is as it was written, and compile reads it as it was meant: no
\* string in it needs escaping.
Untouched == doc = wrote /\ AllLegible(doc)

\* No string in the document needs escaping, and parser_t has room for its tokens.
Compilable(d) == AllLegible(d) /\ Len(Tokens(d)) <= MaxTokens

\* A document compile has refused could not be compiled, and one it has written
\* had room: if no string needs escaping, nothing is compiled in part.
Judgement ==
  /\ pc = "rejected" => ~ Compilable(doc)
  /\ pc = "written" /\ AllLegible(doc) => Compilable(doc)

\* compile ends, and writes every document the other commands have written, and
\* every one that was edited and is well-formed still, but for two reasons: a
\* string that would need escaping (primary-block.c:88), and more tokens than a
\* parser_t has room for (parser.c:29).  The second makes it refuse a document;
\* the first may, or else compile reads other strings.
CompileWrites == pc = "text" ~> pc \in {"written", "rejected"} /\ Judgement

\* The length field of a primary block is the number of bytes that follow it:
\* calc_length, which computes it before the document is written, agrees with
\* what primary_block_write puts out after it was read back.
LengthCounts ==
  pc = "written" /\ block.type = "primary" /\ Untouched =>
    \E n \in DOMAIN out :
      /\ out[n].name = "length"
      /\ out[n].val = Bits(Total([x \in 1 .. Len(out) - n |-> out[n + x].len]))

\* In the block that is written, the offsets of each EID lead to the strings
\* its option gave, in the dictionary of that block, whose length is the one
\* that is written before it.
EidsLocate ==
  pc = "written" /\ block.type = "primary" /\ Untouched =>
    LET d == Dictionary(block.list)
    IN  /\ Written("eids-size") = <<Bits(d.pos)>>
        /\ \A k \in EidKeys : Args(k) # << >> =>
             \A p \in {"scheme", "ssp"} :
               \E o \in DOMAIN d.held :
                 /\ Bits(o) = Written(k)[IF p = "scheme" THEN 1 ELSE 2]
                 /\ d.held[o] = LastArg(k)[p]

\* The bits of the flags field that were asked for: those of every flag and
\* report, and of the last priority alone.
AskedFlags ==
  IF built.type = "primary"
  THEN (UNION {SymParse(PrimaryFlags, a) : a \in Elements(Args("flag"))})
         \cup (UNION {SymParse(Reports, a) : a \in Elements(Args("report"))})
         \cup (IF Args("prio") = << >> THEN {} ELSE SymParse(Prios, LastArg("prio")))
  ELSE UNION {IF Knows(ExtFlags, a) THEN SymParse(ExtFlags, a) ELSE {} :
                a \in Elements(Args("flag"))}

\* What is written is what was asked for, however often and in whatever order:
\* the flags, and of each number its last value, cut to the field's width.
AsAsked ==
  pc = "written" /\ Untouched =>
    /\ Written("flags") = <<AskedFlags>>
    /\ \A k \in {"version", "creation-ts", "creation-seq", "lifetime", "payload-length"} :
          Args(k) # << >> =>
            Written(k) = <<IF k = "version" THEN Cast8(LastArg(k)) ELSE Cast32(LastArg(k))>>

\* The names of the members a user has changed.
Edited == {k \in Keys(block.type) : Given(doc, k) # Given(wrote, k)}

\* What a user edits goes into the block as it is, and nothing else changes
\* with it: compile takes lengths and offsets from the document, and recomputes
\* none that no longer fits.  Only whether references are written is decided by
\* another member, their number.  Documents with strings that need escaping are
\* left out: compile may read other strings.
EditStays ==
  pc = "written" /\ AllLegible(doc) =>
    LET by == Edited \cup (IF "ref-count" \in Edited THEN {"refs"} ELSE {})
        rest(items) == FlattenSeq([n \in DOMAIN items |->
                         IF items[n].name \in by THEN << >> ELSE <<items[n]>>])
    IN  /\ rest(out) = rest(BlockOut(Meaning(wrote)))
        /\ out = BlockOut(Meaning(doc))

\* The type invariant of the commands.
CmdTypeOK ==
  /\ pc \in {"options", "died", "written"} \/ TypeOK
  /\ Len(argv) <= MaxOptions /\ Elements(argv) \subseteq Options
  /\ built.type \in Commands
  /\ \A k \in DOMAIN built.fields :
        built.fields[k] \in CASE KindOf[built.type][k] = "u8" -> U8
                              [] KindOf[built.type][k] = "u32" -> U32
                              [] OTHER -> [scheme : U32, ssp : U32]
  /\ Len(built.list) <= RefCap
  /\ DOMAIN dict.held \subseteq 0 .. dict.pos

\* "add an EID reference to the block": the references asked for are in the
\* block that is written.
RefsWritten ==
  pc = "written" =>
    Written("refs") = FlattenSeq([n \in DOMAIN Args("ref") |-> Parts(Args("ref")[n])])
=============================================================================

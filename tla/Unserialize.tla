---------------------------- MODULE Unserialize -----------------------------
(***************************************************************************)
(* How the compile command turns a text into a block: parser_parse (with   *)
(* jsmn, module Jsmn), block_unserialize of block.c and, for the two kinds *)
(* of block, the loops of primary_block_unserialize and                    *)
(* ext_block_unserialize with parse_eids and parse_refs.  Each turn of a   *)
(* loop is a step.                                                         *)
(*                                                                         *)
(* The two loops are alike: they differ in the keys they know and in the   *)
(* kind of value each key takes, which KindOf gives.                       *)
(***************************************************************************)
EXTENDS Jsmn

CONSTANTS
  Docs,         \* the documents compile is given the text of
  CutDocs,      \* those it is given the beginning of the text of
  Texts,        \* other texts it is given
  RefCap,       \* ALIST_CAP, the capacity of the list of references
  SchemeFirst   \* the orders of evaluation in parser_parse_eid, of BOOLEAN

ASSUME UnserializeAssumption ==
  /\ RefCap \in Nat
  /\ SchemeFirst \in (SUBSET BOOLEAN) \ {{}}

BlockTypes == {"primary", "extension"}

\* The symbols of each block type, with the kind of value they take.
PrimaryKinds ==
  [ k \in {"version", "flags", "length", "dest", "src", "report-to",
           "custodian", "creation-ts", "creation-seq", "lifetime",
           "eids-size", "eids"} |->
      CASE k = "version" -> "u8"
        [] k \in {"dest", "src", "report-to", "custodian"} -> "eid"
        [] k = "eids" -> "eids"
        [] OTHER -> "u32" ]

ExtKinds ==
  [ k \in {"type", "flags", "payload-length", "ref-count", "refs"} |->
      CASE k \in {"type", "flags"} -> "u8"
        [] k = "refs" -> "refs"
        [] OTHER -> "u32" ]

KindOf == [primary |-> PrimaryKinds, extension |-> ExtKinds]
FirstKey == [primary |-> "version", extension |-> "type"]

Keys(type) == DOMAIN KindOf[type]

\* SYM_INVALID is no symbol.
ASSUME SymbolsAssumption ==
  NotNumber \notin BlockTypes \cup Keys("primary") \cup Keys("extension")

VARIABLES
  pc,        \* where unserializing is
  doc,       \* the document the text is the text, or the beginning of the text, of
  text,      \* what compile has read
  par,       \* the parser_t, with the tokens jsmn makes of the text
  block,     \* the block: its type, fields, and list of strings or references
  symbols,   \* the symbols visited
  left       \* turns left of the loop over the elements of a list

vars == <<pc, doc, text, par, block, symbols, left>>

\* primary_block_init, ext_block_init: all fields are zero but the version.
BUNDLE_VERSION_DEFAULT == {1, 2}

NewBlock(type) ==
  [ type   |-> type,
    fields |-> [k \in {x \in Keys(type) : KindOf[type][x] \in {"u8", "u32", "eid"}} |->
                  CASE k = "version" -> BUNDLE_VERSION_DEFAULT
                    [] KindOf[type][k] = "eid" -> ZeroEid
                    [] OTHER -> Zero],
    list   |-> << >> ]

NoBlock == [type |-> NotNumber, fields |-> << >>, list |-> << >>]

-----------------------------------------------------------------------------
(* Slips the properties notice; the model does not use them. *)
GoOnAlways == pc' = "member"                           \* the error flag is not tested
RoomOne == Len(block.list) <= RefCap                   \* one too many

NoDoc == [head |-> << >>, members |-> << >>]

Init ==
  /\ pc = "text"
  /\ \/ doc \in Docs /\ text = Text(doc)
     \/ doc \in CutDocs /\ \E n \in 0 .. Len(Text(doc)) - 1 : text = SubSeq(Text(doc), 1, n)
     \/ doc = NoDoc /\ text \in Texts
  /\ par = Parser(<< >>)
  /\ block = NoBlock
  /\ symbols = {}
  /\ left = 0

\* parser_parse: "if (ret <= 0) return false;"
Parse ==
  /\ pc = "text"
  /\ \E p \in {jsmn_parse(text)} :
         IF p.error = "none" /\ p.tokens # << >>
         THEN pc' = "begin" /\ par' = Parser(SeenTokens(text, p.tokens))
         ELSE pc' = "rejected" /\ UNCHANGED par
  /\ UNCHANGED <<doc, text, block, symbols, left>>

\* block_unserialize, up to the loop over the members of the block.  A first
\* token that is no string makes a primary block, with the error flag set.
Begin ==
  /\ pc = "begin"
  /\ LET sym == ParseSym(par, BlockTypes, "primary")
     IN  IF sym.val = NotNumber
         THEN pc' = "rejected" /\ UNCHANGED <<par, block>>
         ELSE /\ block' = NewBlock(sym.val)
              /\ par' = Advance(sym.par)
              /\ pc' = IF More(sym.par) THEN "member" ELSE "rejected"
  /\ UNCHANGED <<doc, text, symbols, left>>

\* The symbol the current token gives, at the top of a turn of the loop.
Sym == ParseSym(par, Keys(block.type), FirstKey[block.type])

\* A turn of the loop for a symbol of one of these kinds.
Turn(kinds) ==
  /\ pc = "member"
  /\ More(par)
  /\ Sym.val # NotNumber
  /\ KindOf[block.type][Sym.val] \in kinds
  /\ symbols' = symbols \cup {Sym.val}

\* "if (p->error) return false;"
GoOn == pc' = IF par'.error THEN "rejected" ELSE "member"

\* A symbol whose value is assigned to a field of the block.
Assign(r) ==
  /\ block' = [block EXCEPT !.fields[Sym.val] = r.val]
  /\ par' = r.par
  /\ GoOn
  /\ UNCHANGED <<doc, text, left>>

U8Member == Turn({"u8"}) /\ Assign(ParseU8(Sym.par))

U32Member == Turn({"u32"}) /\ Assign(ParseU32(Sym.par))

\* What parser_parse_eid returns is not looked at.
EidMember ==
  /\ Turn({"eid"})
  /\ \E order \in SchemeFirst :
        Assign(ParseEid(Sym.par, block.fields[Sym.val], order))

\* parse_eids or parse_refs, up to its loop.
ListMember ==
  /\ Turn({"eids", "refs"})
  /\ IF Cur(Sym.par).type = "array"
     THEN /\ left' = Cur(Sym.par).size
          /\ par' = Advance(Sym.par)
          /\ pc' = KindOf[block.type][Sym.val]
     ELSE /\ pc' = "rejected"
          /\ par' = Sym.par
          /\ UNCHANGED left
  /\ UNCHANGED <<doc, text, block>>

\* A turn of the loop of parse_eids.
EidsTurn ==
  /\ pc = "eids" /\ left > 0
  /\ left' = left - 1
  /\ IF Cur(par).type = "string"
     THEN /\ block' = [block EXCEPT !.list = Append(@, Cur(par).val)]
          /\ par' = Advance(par)
          /\ UNCHANGED pc
     ELSE pc' = "rejected" /\ UNCHANGED <<block, par>>
  /\ UNCHANGED <<doc, text, symbols>>

\* eid_refs_push: whether there is room for one more.
Room == Len(block.list) < RefCap

\* A turn of the loop of parse_refs.  The slot is zero when it is pushed, and
\* what parser_parse_eid returns is not looked at.
RefsTurn ==
  /\ pc = "refs" /\ left > 0
  /\ left' = left - 1
  /\ IF Room
     THEN \E order \in SchemeFirst :
            LET r == ParseEid(par, ZeroEid, order)
            IN  /\ block' = [block EXCEPT !.list = Append(@, r.val)]
                /\ par' = r.par
                /\ UNCHANGED pc
     ELSE pc' = "rejected" /\ UNCHANGED <<block, par>>
  /\ UNCHANGED <<doc, text, symbols>>

\* The loop over the elements of a list is over.
ListDone ==
  /\ pc \in {"eids", "refs"} /\ left = 0
  /\ par' = par
  /\ GoOn
  /\ UNCHANGED <<doc, text, block, symbols, left>>

\* SYM_INVALID
BadMember ==
  /\ pc = "member" /\ More(par)
  /\ Sym.val = NotNumber
  /\ pc' = "rejected"
  /\ UNCHANGED <<doc, text, par, block, symbols, left>>

\* "return symbols == SYM_MASK;"
EndOfBlock ==
  /\ pc = "member" /\ ~ More(par)
  /\ pc' = IF symbols = Keys(block.type) THEN "accepted" ELSE "rejected"
  /\ UNCHANGED <<doc, text, par, block, symbols, left>>

Step ==
  \/ Parse \/ Begin
  \/ U8Member \/ U32Member \/ EidMember \/ ListMember \/ BadMember
  \/ EidsTurn \/ RefsTurn \/ ListDone
  \/ EndOfBlock

\* block_unserialize has returned.
Returned == pc \in {"accepted", "rejected"} /\ UNCHANGED vars

Next == Step \/ Returned

Spec == Init /\ [][Next]_vars

\* The loops wait for nothing.
FairSpec == Spec /\ WF_vars(Step)

-----------------------------------------------------------------------------
(* What a document means *)

IsNum(v, width) == v.type = "primitive" /\ v.val # NotNumber /\ v.val \in width
Elems(v) == {v.elems[n] : n \in DOMAIN v.elems}
IsEid(v) ==
  v.type = "array" /\ Len(v.elems) = 2 /\ \A e \in Elems(v) : IsNum(e, U32)
EidOf(v) == [scheme |-> v.elems[1].val, ssp |-> v.elems[2].val]

Fits(kind, v) ==
  CASE kind = "u8"  -> IsNum(v, U8)
    [] kind = "u32" -> IsNum(v, U32)
    [] kind = "eid" -> IsEid(v)
    [] kind = "eids" -> v.type = "array" /\ \A e \in Elems(v) : e.type = "string"
    [] kind = "refs" -> v.type = "array" /\ \A e \in Elems(v) : IsEid(e)

TypeOf(d) == d.head[1].val

HasKey(m, k) == m.key.type = "string" /\ m.key.val = k

\* The values given for key k, in order.
Given(d, k) ==
  FlattenSeq([n \in DOMAIN d.members |->
    IF HasKey(d.members[n], k) THEN <<d.members[n].value>> ELSE << >>])

\* The elements of all lists given for key k.
ListOf(d, k) ==
  FlattenSeq([n \in DOMAIN d.members |->
    IF HasKey(d.members[n], k) THEN d.members[n].value.elems ELSE << >>])

\* The document names a block type and a value, which the code takes for the
\* object without looking; it has members of all keys of that type and no
\* others, with values the keys take and no more references than there may be.
WellFormed(d) ==
  /\ Len(d.head) = 2 /\ d.head[1].type = "string" /\ TypeOf(d) \in BlockTypes
  /\ \A n \in DOMAIN d.members :
        LET m == d.members[n]
        IN  /\ m.key.type = "string" /\ m.key.val \in Keys(TypeOf(d))
            /\ Fits(KindOf[TypeOf(d)][m.key.val], m.value)
  /\ \A k \in Keys(TypeOf(d)) : Given(d, k) # << >>
  /\ TypeOf(d) = "extension" => Len(ListOf(d, "refs")) <= RefCap
  /\ Len(Tokens(d)) <= MaxTokens

\* The block a well-formed document describes: of a key that is repeated the
\* last value counts, and lists are joined.
Meaning(d) ==
  LET type == TypeOf(d)
      new  == NewBlock(type)
  IN  [ type   |-> type,
        fields |-> [k \in DOMAIN new.fields |->
                      LET vs == Given(d, k)
                          v  == vs[Len(vs)]
                      IN  IF KindOf[type][k] = "eid" THEN EidOf(v) ELSE v.val],
        list   |-> IF type = "primary"
                   THEN LET l == ListOf(d, "eids") IN [n \in DOMAIN l |-> l[n].val]
                   ELSE LET l == ListOf(d, "refs") IN [n \in DOMAIN l |-> EidOf(l[n])] ]

\* The values that ought to be EIDs and are not, at member n.
BadEids(d, n) ==
  LET m == d.members[n]
      kind == IF m.key.type = "string" /\ m.key.val \in Keys(TypeOf(d))
              THEN KindOf[TypeOf(d)][m.key.val] ELSE "none"
  IN  CASE kind = "eid" -> {v \in {m.value} : ~ IsEid(v)}
        [] kind = "refs" -> {v \in Elems(m.value) : ~ IsEid(v)}
        [] OTHER -> {}

\* Keys are read as keys: a type and one value precede them, and all are strings.
PlainKeys(d) ==
  Len(d.head) = 2 /\ \A n \in DOMAIN d.members : d.members[n].key.type = "string"

\* One of the strings in the value is a symbol.
HidesSymbol(v, syms) ==
  \E t \in Range(ValueTokens(v)) : t.type = "string" /\ t.val \in syms

\* The elements of the array come, token by token, as those of EIDs would.
ReadsAsEids(v) ==
  LET toks == Tail(ValueTokens(v))
  IN  /\ Len(toks) % 3 = 0
      /\ \A i \in DOMAIN toks :
            IF i % 3 = 1 THEN toks[i].type = "array" ELSE IsNum(toks[i], U32)

HasBadEid(d) ==
  /\ d.head # << >> /\ d.head[1].type = "string" /\ TypeOf(d) \in BlockTypes
  /\ \E n \in DOMAIN d.members : BadEids(d, n) # {}

-----------------------------------------------------------------------------
(* Properties *)

\* The type invariant: the current token is one of the document, fields hold
\* numbers of their width, and the list of references is within its capacity.
TypeOK ==
  /\ pc \in {"text", "begin", "member", "eids", "refs", "accepted", "rejected"}
  /\ par.token \in 1 .. MaxTokens /\ par.error \in BOOLEAN
  /\ pc \in {"member", "eids", "refs"} => par.token \in DOMAIN par.tokens
  /\ block = NoBlock \/
       /\ block.type \in BlockTypes
       /\ symbols \subseteq Keys(block.type)
       /\ DOMAIN block.fields = DOMAIN NewBlock(block.type).fields
       /\ \A k \in DOMAIN block.fields :
             block.fields[k] \in CASE KindOf[block.type][k] = "u8" -> U8
                                  [] KindOf[block.type][k] = "u32" -> U32
                                  [] OTHER -> [scheme : U32, ssp : U32]
       /\ block.type = "extension" =>
             Len(block.list) <= RefCap /\ \A n \in DOMAIN block.list :
                                            block.list[n] \in [scheme : U32, ssp : U32]
  /\ left \in 0 .. MaxTokens

\* The text is that of the whole document.
IsText(d) == text = Text(d)

\* The parser reads what was written, if there is room for its tokens and no
\* string needs escaping: brackets, commas and escape sequences in strings, the
\* order of the members and what they hold make no difference.
ReadBack ==
  pc \in {"begin", "rejected"} /\ IsText(doc) /\ AllLegible(doc) /\ Len(Tokens(doc)) <= MaxTokens =>
    par.tokens = Tokens(doc)

\* And only then: nothing escapes strings when they are written or unescapes
\* them when they are read, so a quote, or a backslash that begins no escape
\* sequence, changes the tokens or stops the parser.
OnlyLegible ==
  pc \in {"begin", "rejected"} /\ IsText(doc) /\ par.tokens = Tokens(doc) =>
    AllLegible(doc) /\ Len(Tokens(doc)) <= MaxTokens

\* Whatever text jsmn accepts, its tokens make a tree, and the sizes parse_eids
\* and parse_refs count by are the numbers of elements there are.
TreeShaped ==
  pc = "text" => LET p == jsmn_parse(text)
                 IN  p.error = "none" => Tree(text, p.tokens)

\* A document whose end is missing (nobody looks whether fprintf and fclose
\* wrote all of it) is not accepted, wherever it is cut: only the white space
\* at its end may be missing.
CutRejected ==
  pc = "accepted" /\ doc \in CutDocs => Len(text) >= Len(Text(doc)) - 1

\* A document is accepted if and only if it is well-formed, and then the block
\* is the one it describes: in whatever order its members come, and whatever
\* is missing, repeated, out of range, of the wrong type or beyond a limit.
\* EIDs that are none are another matter: see BadEidCaught.  So are documents
\* with more or less before the members than a type and one value: the code
\* takes tokens as they come, and keys for values.
AcceptsExactly ==
  /\ pc \in {"accepted", "rejected"} /\ IsText(doc) /\ AllLegible(doc)
  /\ Len(doc.head) = 2 /\ ~ HasBadEid(doc)
  => /\ pc = "accepted" <=> WellFormed(doc)
     /\ pc = "accepted" => block = Meaning(doc)

\* Though nobody looks at what parser_parse_eid returns, a value that is no EID
\* leads the parser to a token that is no symbol.  Three kinds of members escape:
\* the last one, those with a symbol in their value, and references that read as
\* EIDs though they are nested otherwise.
BadEidCaught ==
  pc = "accepted" /\ IsText(doc) /\ AllLegible(doc) /\ PlainKeys(doc) =>
    \A n \in DOMAIN doc.members :
      BadEids(doc, n) # {} =>
        \/ n = Len(doc.members)
        \/ HidesSymbol(doc.members[n].value, Keys(TypeOf(doc)))
        \/ ReadsAsEids(doc.members[n].value)

\* "Abort on parse error": no document with a malformed EID is accepted.
BadEidRejected == pc = "accepted" => ~ HasBadEid(doc)

\* The loops end, whatever the document holds: no value leaves the parser at
\* the same token for ever.
Ends == <>(pc \in {"accepted", "rejected"})
=============================================================================

-------------------------- MODULE UnserializeProofs --------------------------
(***************************************************************************)
(* Proofs about unserializing a block, for every document, text and order  *)
(* of evaluation, and every number of tokens and references there is room  *)
(* for.                                                                    *)
(***************************************************************************)
EXTENDS Unserialize, JsmnProofs

\* What compile is given is of some lexicon, in which what has the class of a
\* bracket is that bracket, as it is of the characters of a file.
Inputs(L) ==
  /\ Lexicon(L) /\ Marks(L)
  /\ Texts \subseteq Seq(L)
  /\ \A d \in Docs \cup CutDocs : DocumentOf(L, d)

EidRecords == [scheme : U32, ssp : U32]

-----------------------------------------------------------------------------
(* The text *)

TextIInv(L) == pc = "text" => text \in Seq(L)

LEMMA TextInit ==
  ASSUME NEW L, Inputs(L), Init
  PROVE  text \in Seq(L)
<1>1. CASE doc \in Docs /\ text = Text(doc)
  BY <1>1, TextIn DEF Inputs
<1>2. CASE doc \in CutDocs /\ \E n \in 0 .. Len(Text(doc)) - 1 : text = SubSeq(Text(doc), 1, n)
  <2>1. Text(doc) \in Seq(L)
    BY <1>2, TextIn DEF Inputs
  <2>2. PICK n \in 0 .. Len(Text(doc)) - 1 : text = SubSeq(Text(doc), 1, n)
    BY <1>2
  <2> QED BY <2>1, <2>2, SubSeqProperties
<1>3. CASE doc = NoDoc /\ text \in Texts
  BY <1>3 DEF Inputs
<1> QED BY <1>1, <1>2, <1>3 DEF Init

\* No step reads another text.
LEMMA TextReadOnce ==
  ASSUME Next
  PROVE  pc' # "text" \/ UNCHANGED vars
<1>1. CASE Parse
  BY <1>1 DEF Parse
<1>2. CASE Begin
  BY <1>2 DEF Begin
<1>3. CASE U8Member \/ U32Member \/ EidMember
  BY <1>3 DEF U8Member, U32Member, EidMember, Assign, GoOn
<1>4. CASE ListMember
  <2>1. KindOf[block.type][Sym.val] \in {"eids", "refs"}
    BY <1>4 DEF ListMember, Turn
  <2> QED BY <1>4, <2>1 DEF ListMember
<1>5. CASE BadMember \/ EidsTurn \/ RefsTurn
  BY <1>5 DEF BadMember, EidsTurn, RefsTurn
<1>6. CASE ListDone \/ EndOfBlock
  BY <1>6 DEF ListDone, GoOn, EndOfBlock
<1>7. CASE Returned
  BY <1>7 DEF Returned
<1> QED BY <1>1, <1>2, <1>3, <1>4, <1>5, <1>6, <1>7 DEF Next, Step

\* Whatever text compile is given, if jsmn accepts it, its tokens make a tree,
\* and the sizes parse_eids and parse_refs count by are the numbers of elements
\* there are.
THEOREM TreesShaped ==
  ASSUME NEW L, Inputs(L)
  PROVE  Spec => []TreeShaped
<1>1. Init => TextIInv(L)
  BY TextInit DEF TextIInv
<1>2. TextIInv(L) /\ [Next]_vars => TextIInv(L)'
  BY TextReadOnce DEF TextIInv, vars
<1>3. TextIInv(L) => TreeShaped
  BY AcceptedIsTree DEF TextIInv, TreeShaped, Inputs
<1> QED BY <1>1, <1>2, <1>3, PTL DEF Spec

-----------------------------------------------------------------------------
(* The types of the parser and the block *)

\* A parser that has tokens, with the current one among them.
ParserOK(p) ==
  /\ p = [tokens |-> p.tokens, token |-> p.token, error |-> p.error]
  /\ IsSeq(p.tokens) /\ Len(p.tokens) <= MaxTokens
  /\ p.token \in 1 .. Len(p.tokens) /\ p.error \in BOOLEAN
  /\ \A n \in 1 .. Len(p.tokens) : p.tokens[n].size \in 0 .. MaxTokens

\* Parsers the functions of parser.c make of p: with the same tokens.
SameTokens(p, q) == ParserOK(q) /\ q.tokens = p.tokens

LEMMA AdvanceOK ==
  ASSUME NEW p, ParserOK(p)
  PROVE  SameTokens(p, Advance(p))
<1>1. CASE More(p)
  <2>1. Advance(p) = [tokens |-> p.tokens, token |-> p.token + 1, error |-> p.error]
    BY <1>1 DEF Advance, ParserOK
  <2>2. p.token + 1 \in 1 .. Len(p.tokens)
    BY <1>1 DEF More, ParserOK, IsSeq
  <2> QED BY <2>1, <2>2 DEF SameTokens, ParserOK
<1>2. CASE ~ More(p)
  BY <1>2 DEF Advance, SameTokens
<1> QED BY <1>1, <1>2

LEMMA FailedOK ==
  ASSUME NEW p, ParserOK(p)
  PROVE  SameTokens(p, Failed(p))
<1>1. Failed(p) = [tokens |-> p.tokens, token |-> p.token, error |-> TRUE]
  <2> DEFINE was == p.error
  <2>1. p = [tokens |-> p.tokens, token |-> p.token, error |-> was]
    BY DEF ParserOK
  <2> HIDE DEF was
  <2>2. Failed(p) = [p EXCEPT !.error = TRUE]
    BY DEF Failed
  <2>3. DOMAIN Failed(p) = DOMAIN p
    BY <2>2
  <2>4. ASSUME NEW e PROVE [p EXCEPT !.error = e] = [tokens |-> p.tokens, token |-> p.token, error |-> e]
    BY <2>1
  <2> QED BY <2>2, <2>4
<1> QED BY <1>1 DEF SameTokens, ParserOK

LEMMA ParseSymOK ==
  ASSUME NEW p, ParserOK(p), NEW syms, NEW first \in syms
  PROVE  /\ SameTokens(p, ParseSym(p, syms, first).par)
         /\ ParseSym(p, syms, first).val \in syms \cup {NotNumber}
BY AdvanceOK, FailedOK DEF ParseSym, SameTokens

LEMMA ParseU32OK ==
  ASSUME NEW p, ParserOK(p)
  PROVE  SameTokens(p, ParseU32(p).par) /\ ParseU32(p).val \in U32
<1>1. Zero \in U32
  BY DEF Zero, U32
<1> QED BY <1>1, AdvanceOK, FailedOK DEF ParseU32, SameTokens

LEMMA ParseU8OK ==
  ASSUME NEW p, ParserOK(p)
  PROVE  SameTokens(p, ParseU8(p).par) /\ ParseU8(p).val \in U8
<1>1. Zero \in U8
  BY DEF Zero, U8
<1>2. SameTokens(p, ParseU32(p).par)
  BY ParseU32OK
<1>3. SameTokens(p, Failed(ParseU32(p).par))
  BY <1>2, FailedOK DEF SameTokens
<1> QED BY <1>1, <1>2, <1>3 DEF ParseU8

LEMMA ParseEidOK ==
  ASSUME NEW p, ParserOK(p), NEW was \in EidRecords, NEW schemeFirst
  PROVE  /\ SameTokens(p, ParseEid(p, was, schemeFirst).par)
         /\ ParseEid(p, was, schemeFirst).val \in EidRecords
<1> DEFINE one == ParseU32(Advance(p))
           two == ParseU32(one.par)
<1>1. CASE Cur(p).type # "array" \/ ~ More(p)
  BY <1>1 DEF ParseEid, SameTokens
<1>2. CASE ~ (Cur(p).type # "array" \/ ~ More(p))
  <2>1. SameTokens(p, one.par) /\ one.val \in U32
    BY AdvanceOK, ParseU32OK DEF SameTokens
  <2>2. SameTokens(p, two.par) /\ two.val \in U32
    BY <2>1, ParseU32OK DEF SameTokens
  <2>3. ParseEid(p, was, schemeFirst) =
          [val |-> IF schemeFirst THEN [scheme |-> one.val, ssp |-> two.val]
                   ELSE [scheme |-> two.val, ssp |-> one.val],
           par |-> two.par]
    BY <1>2 DEF ParseEid
  <2> HIDE DEF one, two
  <2> QED BY <2>1, <2>2, <2>3 DEF EidRecords
<1> QED BY <1>1, <1>2

\* What parser.c sees of the tokens of a text jsmn accepts.
LEMMA SeenOK ==
  ASSUME NEW L, Lexicon(L), NEW txt \in Seq(L),
         NEW ts, ts = jsmn_parse(txt).tokens, ts # << >>
  PROVE  ParserOK(Parser(SeenTokens(txt, ts)))
<1> DEFINE p    == jsmn_parse(txt)
           seen == SeenTokens(txt, ts)
<1>1. ParserInv(txt, p)
  BY ParsedInv
<1> HIDE DEF p
<1>2. ts \in Seq(JsmnToken) /\ Len(ts) <= MaxTokens /\ Counted(ts)
  BY <1>1 DEF p, ParserInv, JsmnParser
<1>3. ASSUME NEW n \in 1 .. Len(ts) PROVE ts[n].size \in 0 .. MaxTokens
  <2>1. IsFiniteSet(Inside(ts, n)) /\ Inside(ts, n) \subseteq n + 1 .. Len(ts)
    BY <1>2, InsideFinite
  <2>2. Inside(ts, n) \subseteq 1 .. Len(ts)
    BY <1>2, <2>1
  <2>3. IsFiniteSet(1 .. Len(ts)) /\ Cardinality(1 .. Len(ts)) = Len(ts)
    BY <1>2, FS_Interval
  <2>4. Cardinality(Inside(ts, n)) \in Nat /\ Cardinality(Inside(ts, n)) <= Len(ts)
    BY <2>1, <2>2, <2>3, FS_Subset, FS_CardinalityType
  <2>5. ts[n].size = Cardinality(Inside(ts, n))
    BY <1>2 DEF Counted
  <2> QED BY <1>2, <2>4, <2>5, TokensAssumption
<1>4. IsSeq(ts)
  BY <1>2, SeqIs
<1>5. IsSeq(seen) /\ Len(seen) = Len(ts)
  <2>1. seen = [n \in DOMAIN ts |-> seen[n]]
    BY DEF SeenTokens
  <2> HIDE DEF seen
  <2> QED BY <1>4, <2>1, MappedSeq
<1>6. ASSUME NEW n \in 1 .. Len(seen) PROVE seen[n].size \in 0 .. MaxTokens
  <2>1. seen[n] = Seen(txt, ts[n])
    BY <1>2, <1>5 DEF SeenTokens
  <2> HIDE DEF seen
  <2>2. seen[n].size = IF ts[n].type = "array" THEN ts[n].size ELSE 0
    BY <2>1 DEF Seen
  <2> QED BY <1>3, <1>5, <2>2, TokensAssumption
<1>7. Len(seen) \in Nat /\ Len(seen) # 0
  BY <1>2, <1>5, EmptySeq
<1> HIDE DEF seen
<1>8. Parser(seen) = [tokens |-> seen, token |-> 1, error |-> FALSE]
  BY DEF Parser
<1> QED BY <1>2, <1>5, <1>6, <1>7, <1>8 DEF ParserOK, seen

-----------------------------------------------------------------------------
(* Blocks *)

\* The type of the field a symbol of the block is assigned to.
FieldType(type, k) ==
  CASE KindOf[type][k] = "u8" -> U8
    [] KindOf[type][k] = "u32" -> U32
    [] OTHER -> EidRecords

GoodFields(type, fields) ==
  /\ DOMAIN fields = DOMAIN NewBlock(type).fields
  /\ \A k \in DOMAIN fields : fields[k] \in FieldType(type, k)

GoodList(type, list) ==
  type = "extension" => /\ Len(list) <= RefCap
                        /\ \A n \in DOMAIN list : list[n] \in EidRecords

GoodBlock(b, syms) ==
  /\ b.type \in BlockTypes
  /\ syms \subseteq Keys(b.type)
  /\ GoodFields(b.type, b.fields)
  /\ GoodList(b.type, b.list)

\* A block, of one of the types, that the loop over its members is at.
TypedBlock ==
  /\ block = [type |-> block.type, fields |-> block.fields, list |-> block.list]
  /\ IsSeq(block.list)
  /\ GoodBlock(block, symbols)

\* The types, with what the turns of the loops rely on: the list the block
\* collects is of strings in a primary block and of references in an extension
\* block.
TypeIInv ==
  /\ pc \in {"text", "begin", "member", "eids", "refs", "accepted", "rejected"}
  /\ par.token \in 1 .. MaxTokens /\ par.error \in BOOLEAN
  /\ block = NoBlock \/ GoodBlock(block, symbols)
  /\ left \in 0 .. MaxTokens
  /\ pc \in {"begin", "member", "eids", "refs", "accepted"} => ParserOK(par)
  /\ pc \in {"text", "begin"} => block = NoBlock /\ symbols = {}
  /\ pc \in {"member", "eids", "refs"} => TypedBlock
  /\ pc = "eids" => block.type = "primary"

LEMMA KindsOf ==
  ASSUME NEW type \in BlockTypes, NEW k \in Keys(type)
  PROVE  /\ k = "version" => KindOf[type][k] = "u8"
         /\ KindOf[type][k] = "eids" => type = "primary"
         /\ FirstKey[type] \in Keys(type)
<1>1. CASE type = "primary"
  BY <1>1 DEF KindOf, Keys, PrimaryKinds, FirstKey
<1>2. CASE type = "extension"
  BY <1>2 DEF KindOf, Keys, ExtKinds, FirstKey
<1> QED BY <1>1, <1>2 DEF BlockTypes

LEMMA NewBlockOK ==
  ASSUME NEW type \in BlockTypes
  PROVE  /\ GoodBlock(NewBlock(type), {})
         /\ NewBlock(type) = [type |-> type, fields |-> NewBlock(type).fields, list |-> << >>]
<1> DEFINE ks == {x \in Keys(type) : KindOf[type][x] \in {"u8", "u32", "eid"}}
           new(k) == CASE k = "version" -> BUNDLE_VERSION_DEFAULT
                       [] KindOf[type][k] = "eid" -> ZeroEid
                       [] OTHER -> Zero
           fields == [k \in ks |-> new(k)]
<1>1. NewBlock(type) = [type |-> type, fields |-> fields, list |-> << >>]
  BY DEF NewBlock
<1>2. Zero \in U8 /\ Zero \in U32 /\ BUNDLE_VERSION_DEFAULT \in U8 /\ ZeroEid \in EidRecords
  BY DEF Zero, U8, U32, BUNDLE_VERSION_DEFAULT, ZeroEid, EidRecords
<1>3. ASSUME NEW k \in ks PROVE new(k) \in FieldType(type, k)
  <2>1. k = "version" => KindOf[type][k] = "u8"
    BY KindsOf
  <2>2. KindOf[type][k] \in {"u8", "u32", "eid"}
    OBVIOUS
  <2> QED BY <1>2, <2>1, <2>2 DEF FieldType
<1> HIDE DEF new
<1>4. GoodFields(type, fields)
  <2>1. fields = NewBlock(type).fields
    BY <1>1
  <2>2. \A k \in DOMAIN fields : fields[k] \in FieldType(type, k)
    BY <1>3
  <2> QED BY <2>1, <2>2 DEF GoodFields
<1>5. GoodList(type, << >>)
  BY UnserializeAssumption DEF GoodList
<1> HIDE DEF fields
<1> QED BY <1>1, <1>4, <1>5 DEF GoodBlock

\* At the top of a turn for a symbol of the block.
LEMMA TurnOK ==
  ASSUME TypeIInv, NEW kinds, Turn(kinds)
  PROVE  /\ Sym.val \in Keys(block.type) /\ SameTokens(par, Sym.par) /\ ParserOK(par)
         /\ TypedBlock /\ GoodBlock(block, symbols')
<1>1. ParserOK(par) /\ TypedBlock
  BY DEF TypeIInv, Turn
<1>2. FirstKey[block.type] \in Keys(block.type)
  <2>1. block.type \in BlockTypes
    BY <1>1 DEF TypedBlock, GoodBlock
  <2>2. "version" \in Keys("primary") /\ "type" \in Keys("extension")
    BY DEF Keys, KindOf, PrimaryKinds, ExtKinds
  <2> QED BY <2>1, <2>2, KindsOf DEF BlockTypes
<1>3. SameTokens(par, Sym.par) /\ Sym.val \in Keys(block.type) \cup {NotNumber}
  BY <1>1, <1>2, ParseSymOK DEF Sym
<1>4. Sym.val \in Keys(block.type)
  BY <1>3 DEF Turn
<1> HIDE DEF Sym
<1>5. GoodBlock(block, symbols')
  BY <1>1, <1>4 DEF TypedBlock, GoodBlock, Turn
<1> QED BY <1>1, <1>3, <1>4, <1>5

\* What a parser with tokens contributes to the type invariant.
LEMMA ParserTypes ==
  ASSUME NEW p, ParserOK(p)
  PROVE  /\ p.token \in 1 .. MaxTokens /\ p.error \in BOOLEAN
         /\ p.token \in DOMAIN p.tokens
<1>1. DOMAIN p.tokens = 1 .. Len(p.tokens) /\ Len(p.tokens) \in Nat
  BY DEF ParserOK, IsSeq
<1> QED BY <1>1, TokensAssumption DEF ParserOK

LEMMA AssignOK ==
  ASSUME TypeIInv, NEW kinds, Turn(kinds), NEW r, Assign(r),
         SameTokens(Sym.par, r.par), r.val \in FieldType(block.type, Sym.val)
  PROVE  TypeIInv'
<1>1. /\ Sym.val \in Keys(block.type) /\ ParserOK(r.par) /\ TypedBlock
      /\ GoodBlock(block, symbols')
  BY TurnOK DEF SameTokens
<1> DEFINE k == Sym.val
           fields == [block.fields EXCEPT ![k] = r.val]
<1>2. /\ par' = r.par /\ pc' = (IF par'.error THEN "rejected" ELSE "member")
      /\ block' = [block EXCEPT !.fields = fields]
      /\ left' \in 0 .. MaxTokens
  BY DEF Assign, GoOn, TypeIInv
<1>3. r.val \in FieldType(block.type, k)
  OBVIOUS
<1> HIDE DEF k
<1>4. GoodFields(block.type, fields)
  <2>1. GoodFields(block.type, block.fields)
    BY <1>1 DEF GoodBlock
  <2>2. DOMAIN fields = DOMAIN block.fields
    OBVIOUS
  <2>3. ASSUME NEW x \in DOMAIN block.fields
        PROVE  fields[x] = IF x = k THEN r.val ELSE block.fields[x]
    OBVIOUS
  <2> HIDE DEF fields
  <2> QED BY <1>3, <2>1, <2>2, <2>3 DEF GoodFields
<1> HIDE DEF fields
<1>5. block' = [type |-> block.type, fields |-> fields, list |-> block.list]
  <2>1. block = [type |-> block.type, fields |-> block.fields, list |-> block.list]
    BY <1>1 DEF TypedBlock
  <2> QED BY <1>2, <2>1
<1>6. TypedBlock'
  BY <1>1, <1>4, <1>5 DEF TypedBlock, GoodBlock
<1>7. ParserOK(par')
  BY <1>1, <1>2
<1>8. par'.token \in 1 .. MaxTokens /\ par'.error \in BOOLEAN
  BY <1>7, ParserTypes
<1>9. pc' \in {"member", "rejected"}
  BY <1>2
<1> QED BY <1>2, <1>6, <1>7, <1>8, <1>9 DEF TypeIInv, TypedBlock

LEMMA TypeImplied == TypeIInv => TypeOK
<1> SUFFICES ASSUME TypeIInv PROVE TypeOK
  OBVIOUS
<1>1. pc \in {"member", "eids", "refs"} => par.token \in DOMAIN par.tokens
  BY ParserTypes DEF TypeIInv
<1>2. ASSUME GoodBlock(block, symbols)
      PROVE  /\ block.type \in BlockTypes
             /\ symbols \subseteq Keys(block.type)
             /\ DOMAIN block.fields = DOMAIN NewBlock(block.type).fields
             /\ \A k \in DOMAIN block.fields :
                   block.fields[k] \in CASE KindOf[block.type][k] = "u8" -> U8
                                        [] KindOf[block.type][k] = "u32" -> U32
                                        [] OTHER -> [scheme : U32, ssp : U32]
             /\ block.type = "extension" =>
                   Len(block.list) <= RefCap /\ \A n \in DOMAIN block.list :
                                                  block.list[n] \in [scheme : U32, ssp : U32]
  BY <1>2 DEF GoodBlock, GoodFields, GoodList, FieldType, EidRecords
<1> QED BY <1>1, <1>2 DEF TypeIInv, TypeOK

-----------------------------------------------------------------------------
(* One lemma for each kind of step *)

LEMMA ParseTypes ==
  ASSUME NEW L, Lexicon(L), TextIInv(L), TypeIInv, Parse
  PROVE  TypeIInv'
<1>1. /\ pc = "text" /\ block' = NoBlock /\ symbols' = {} /\ left' \in 0 .. MaxTokens
      /\ text \in Seq(L)
  BY DEF Parse, TypeIInv, TextIInv
<1> DEFINE p == jsmn_parse(text)
<1>2. IF p.error = "none" /\ p.tokens # << >>
      THEN pc' = "begin" /\ par' = Parser(SeenTokens(text, p.tokens))
      ELSE pc' = "rejected" /\ par' = par
  BY DEF Parse
<1>3. CASE p.error = "none" /\ p.tokens # << >>
  <2>1. pc' = "begin" /\ par' = Parser(SeenTokens(text, p.tokens))
    BY <1>2, <1>3
  <2>2. ParserOK(par')
    BY <1>1, <1>3, <2>1, SeenOK
  <2>3. par'.token \in 1 .. MaxTokens /\ par'.error \in BOOLEAN
    BY <2>2, ParserTypes
  <2> QED BY <1>1, <2>1, <2>2, <2>3 DEF TypeIInv
<1>4. CASE ~ (p.error = "none" /\ p.tokens # << >>)
  <2>1. pc' = "rejected" /\ par' = par
    BY <1>2, <1>4
  <2> QED BY <1>1, <2>1 DEF TypeIInv
<1> QED BY <1>3, <1>4

LEMMA BeginTypes ==
  ASSUME TypeIInv, Begin
  PROVE  TypeIInv'
<1> DEFINE sym == ParseSym(par, BlockTypes, "primary")
<1>1. /\ ParserOK(par) /\ block = NoBlock /\ symbols' = {} /\ left' \in 0 .. MaxTokens
      /\ par.token \in 1 .. MaxTokens /\ par.error \in BOOLEAN
  BY DEF Begin, TypeIInv
<1>2. SameTokens(par, sym.par) /\ sym.val \in BlockTypes \cup {NotNumber}
  BY <1>1, ParseSymOK DEF BlockTypes
<1>3. IF sym.val = NotNumber
      THEN pc' = "rejected" /\ UNCHANGED <<par, block>>
      ELSE /\ block' = NewBlock(sym.val) /\ par' = Advance(sym.par)
           /\ pc' = IF More(sym.par) THEN "member" ELSE "rejected"
  BY DEF Begin
<1> HIDE DEF sym
<1>4. CASE sym.val = NotNumber
  BY <1>1, <1>3, <1>4 DEF TypeIInv
<1>5. CASE sym.val # NotNumber
  <2>1. ParserOK(par')
    BY <1>2, <1>3, <1>5, AdvanceOK DEF SameTokens
  <2>2. par'.token \in 1 .. MaxTokens /\ par'.error \in BOOLEAN
    BY <2>1, ParserTypes
  <2>3. /\ GoodBlock(block', symbols')
        /\ block' = [type |-> block'.type, fields |-> block'.fields, list |-> << >>]
    <3>1. block' = NewBlock(sym.val) /\ sym.val \in BlockTypes
      BY <1>2, <1>3, <1>5
    <3> QED BY <1>1, <3>1, NewBlockOK
  <2>4. TypedBlock'
    <3>1. block'.list = << >>
      BY <2>3
    <3>2. IsSeq(<< >>)
      BY EmptySeq DEF IsSeq
    <3> QED BY <2>3, <3>1, <3>2 DEF TypedBlock
  <2>5. pc' \in {"member", "rejected"}
    BY <1>3, <1>5
  <2> QED BY <1>1, <2>1, <2>2, <2>4, <2>5 DEF TypeIInv, TypedBlock
<1> QED BY <1>4, <1>5

\* The field an EID is parsed into.
LEMMA EidFieldOK ==
  ASSUME TypeIInv, Turn({"eid"})
  PROVE  block.fields[Sym.val] \in EidRecords
<1>1. KindOf[block.type][Sym.val] = "eid" /\ Sym.val \in Keys(block.type) /\ TypedBlock
  BY TurnOK DEF Turn
<1>2. Sym.val \in DOMAIN NewBlock(block.type).fields
  BY <1>1 DEF NewBlock
<1>3. GoodFields(block.type, block.fields)
  BY <1>1 DEF TypedBlock, GoodBlock
<1>4. block.fields[Sym.val] \in FieldType(block.type, Sym.val)
  BY <1>2, <1>3 DEF GoodFields
<1> QED BY <1>1, <1>4 DEF FieldType

LEMMA MemberTypes ==
  ASSUME TypeIInv, U8Member \/ U32Member \/ EidMember
  PROVE  TypeIInv'
<1>1. CASE U8Member
  <2>1. Turn({"u8"}) /\ Assign(ParseU8(Sym.par))
    BY <1>1 DEF U8Member
  <2>2. ParserOK(Sym.par) /\ KindOf[block.type][Sym.val] = "u8"
    BY <2>1, TurnOK DEF SameTokens, Turn
  <2>3. SameTokens(Sym.par, ParseU8(Sym.par).par) /\ ParseU8(Sym.par).val \in U8
    BY <2>2, ParseU8OK
  <2>4. ParseU8(Sym.par).val \in FieldType(block.type, Sym.val)
    BY <2>2, <2>3 DEF FieldType
  <2> QED BY <2>1, <2>3, <2>4, AssignOK
<1>2. CASE U32Member
  <2>1. Turn({"u32"}) /\ Assign(ParseU32(Sym.par))
    BY <1>2 DEF U32Member
  <2>2. ParserOK(Sym.par) /\ KindOf[block.type][Sym.val] = "u32"
    BY <2>1, TurnOK DEF SameTokens, Turn
  <2>3. SameTokens(Sym.par, ParseU32(Sym.par).par) /\ ParseU32(Sym.par).val \in U32
    BY <2>2, ParseU32OK
  <2>4. ParseU32(Sym.par).val \in FieldType(block.type, Sym.val)
    BY <2>2, <2>3 DEF FieldType
  <2> QED BY <2>1, <2>3, <2>4, AssignOK
<1>3. CASE EidMember
  <2>1. PICK order \in SchemeFirst :
           Turn({"eid"}) /\ Assign(ParseEid(Sym.par, block.fields[Sym.val], order))
    BY <1>3 DEF EidMember
  <2>2. /\ ParserOK(Sym.par) /\ KindOf[block.type][Sym.val] = "eid"
        /\ Sym.val \in Keys(block.type) /\ TypedBlock
    BY <2>1, TurnOK DEF SameTokens, Turn
  <2>3. block.fields[Sym.val] \in EidRecords
    BY <2>1, EidFieldOK
  <2> DEFINE r == ParseEid(Sym.par, block.fields[Sym.val], order)
  <2>4. SameTokens(Sym.par, r.par) /\ r.val \in EidRecords
    BY <2>2, <2>3, ParseEidOK
  <2>5. r.val \in FieldType(block.type, Sym.val)
    BY <2>2, <2>4 DEF FieldType
  <2> QED BY <2>1, <2>4, <2>5, AssignOK
<1> QED BY <1>1, <1>2, <1>3

LEMMA ListMemberTypes ==
  ASSUME TypeIInv, ListMember
  PROVE  TypeIInv'
<1>1. /\ Sym.val \in Keys(block.type) /\ ParserOK(Sym.par) /\ TypedBlock
      /\ GoodBlock(block, symbols')
  BY TurnOK DEF ListMember, SameTokens
<1> DEFINE p == Sym.par
           kind == KindOf[block.type][Sym.val]
<1>2. /\ block' = block
      /\ IF Cur(p).type = "array"
         THEN left' = Cur(p).size /\ par' = Advance(p) /\ pc' = kind
         ELSE pc' = "rejected" /\ par' = p /\ left' = left
  BY DEF ListMember
<1>3. kind \in {"eids", "refs"} /\ (kind = "eids" => block.type = "primary")
  BY <1>1, KindsOf DEF ListMember, Turn, TypedBlock, GoodBlock
<1>4. ParserOK(p) /\ TypedBlock'
  BY <1>1, <1>2 DEF TypedBlock
<1> HIDE DEF p, kind
<1>5. ParserOK(par')
  BY <1>2, <1>4, AdvanceOK DEF SameTokens
<1>6. par'.token \in 1 .. MaxTokens /\ par'.error \in BOOLEAN
  BY <1>5, ParserTypes
<1>7. Cur(p).size \in 0 .. MaxTokens
  BY <1>4 DEF ParserOK, Cur
<1>8. left' \in 0 .. MaxTokens
  BY <1>2, <1>7 DEF TypeIInv
<1>9. pc' \in {"eids", "refs", "rejected"} /\ (pc' = "eids" => block'.type = "primary")
  BY <1>2, <1>3
<1> QED BY <1>4, <1>5, <1>6, <1>8, <1>9 DEF TypeIInv, TypedBlock

\* A string, or a reference for which there is room, is pushed to the list.
LEMMA PushedTypes ==
  ASSUME TypedBlock, NEW e, block' = [block EXCEPT !.list = Append(@, e)], symbols' = symbols,
         block.type = "extension" => Room /\ e \in EidRecords
  PROVE  TypedBlock' /\ block'.type = block.type
<1> DEFINE s == block.list
           N == Len(s)
           S == {s[n] : n \in 1 .. N} \cup {e}
<1>1. IsSeq(s) /\ GoodBlock(block, symbols)
  BY DEF TypedBlock
<1>2. s \in Seq(S)
  <2> HIDE DEF s
  <2> QED BY <1>1, SeqIn
<1>3. block' = [type |-> block.type, fields |-> block.fields, list |-> Append(s, e)]
  BY DEF TypedBlock
<1>4. GoodList(block.type, s) /\ (block.type = "extension" => N < RefCap /\ e \in EidRecords)
  BY <1>1 DEF GoodBlock, Room
<1> HIDE DEF s
<1>5. /\ Append(s, e) \in Seq(S) /\ Len(Append(s, e)) = N + 1 /\ Append(s, e)[N + 1] = e
      /\ \A n \in 1 .. N : Append(s, e)[n] = s[n]
  BY <1>2, AppendProperties
<1>6. GoodList(block.type, Append(s, e))
  <2> SUFFICES ASSUME block.type = "extension"
               PROVE  /\ Len(Append(s, e)) <= RefCap
                      /\ \A n \in DOMAIN Append(s, e) : Append(s, e)[n] \in EidRecords
    BY DEF GoodList
  <2>1. N \in Nat /\ DOMAIN s = 1 .. N /\ DOMAIN Append(s, e) = 1 .. N + 1
    BY <1>2, <1>5
  <2>2. \A n \in 1 .. N : s[n] \in EidRecords
    BY <1>4, <2>1 DEF GoodList
  <2>3. ASSUME NEW n \in 1 .. N + 1 PROVE Append(s, e)[n] \in EidRecords
    <3>1. CASE n = N + 1
      BY <1>4, <1>5, <3>1
    <3>2. CASE n # N + 1
      <4>1. n \in 1 .. N
        BY <2>1, <3>2
      <4> QED BY <1>5, <2>2, <4>1
    <3> QED BY <3>1, <3>2
  <2> QED BY <1>4, <1>5, <2>1, <2>3, UnserializeAssumption
<1>7. IsSeq(Append(s, e))
  BY <1>5, SeqIs
<1> QED BY <1>1, <1>3, <1>6, <1>7 DEF TypedBlock, GoodBlock, GoodFields, s

LEMMA EidsTurnTypes ==
  ASSUME TypeIInv, EidsTurn
  PROVE  TypeIInv'
<1>1. /\ pc = "eids" /\ ParserOK(par) /\ TypedBlock /\ block.type = "primary"
      /\ left' \in 0 .. MaxTokens /\ symbols' = symbols
  <2>1. pc = "eids" /\ left > 0 /\ left' = left - 1 /\ symbols' = symbols
    BY DEF EidsTurn
  <2>2. left \in 0 .. MaxTokens
    BY DEF TypeIInv
  <2>3. left' \in 0 .. MaxTokens
    BY <2>1, <2>2, TokensAssumption
  <2> QED BY <2>1, <2>3 DEF TypeIInv
<1>2. CASE Cur(par).type = "string"
  <2>1. /\ block' = [block EXCEPT !.list = Append(@, Cur(par).val)]
        /\ par' = Advance(par) /\ pc' = "eids"
    BY <1>1, <1>2 DEF EidsTurn
  <2>2. TypedBlock' /\ block'.type = "primary"
    BY <1>1, <2>1, PushedTypes
  <2>3. ParserOK(par')
    BY <1>1, <2>1, AdvanceOK DEF SameTokens
  <2>4. par'.token \in 1 .. MaxTokens /\ par'.error \in BOOLEAN
    BY <2>3, ParserTypes
  <2> QED BY <1>1, <2>1, <2>2, <2>3, <2>4 DEF TypeIInv, TypedBlock
<1>3. CASE Cur(par).type # "string"
  <2>1. pc' = "rejected" /\ block' = block /\ par' = par
    BY <1>3 DEF EidsTurn
  <2> QED BY <1>1, <2>1, ParserTypes DEF TypeIInv, TypedBlock
<1> QED BY <1>2, <1>3

LEMMA RefsTurnTypes ==
  ASSUME TypeIInv, RefsTurn
  PROVE  TypeIInv'
<1>1. /\ pc = "refs" /\ ParserOK(par) /\ TypedBlock
      /\ left' \in 0 .. MaxTokens /\ symbols' = symbols
  <2>1. pc = "refs" /\ left > 0 /\ left' = left - 1 /\ symbols' = symbols
    BY DEF RefsTurn
  <2>2. left \in 0 .. MaxTokens
    BY DEF TypeIInv
  <2>3. left' \in 0 .. MaxTokens
    BY <2>1, <2>2, TokensAssumption
  <2> QED BY <2>1, <2>3 DEF TypeIInv
<1>2. CASE Room
  <2>1. PICK order \in SchemeFirst :
          /\ block' = [block EXCEPT !.list = Append(@, ParseEid(par, ZeroEid, order).val)]
          /\ par' = ParseEid(par, ZeroEid, order).par
          /\ pc' = pc
    BY <1>2 DEF RefsTurn
  <2> DEFINE r == ParseEid(par, ZeroEid, order)
  <2>2. ZeroEid \in EidRecords
    BY DEF ZeroEid, Zero, EidRecords, U32
  <2>3. SameTokens(par, r.par) /\ r.val \in EidRecords
    BY <1>1, <2>2, ParseEidOK
  <2> HIDE DEF r
  <2>4. block' = [block EXCEPT !.list = Append(@, r.val)] /\ par' = r.par
    BY <2>1 DEF r
  <2>5. TypedBlock'
    BY <1>1, <1>2, <2>3, <2>4, PushedTypes
  <2>6. ParserOK(par')
    BY <2>3, <2>4 DEF SameTokens
  <2>7. par'.token \in 1 .. MaxTokens /\ par'.error \in BOOLEAN
    BY <2>6, ParserTypes
  <2> QED BY <1>1, <2>1, <2>5, <2>6, <2>7 DEF TypeIInv, TypedBlock
<1>3. CASE ~ Room
  <2>1. pc' = "rejected" /\ block' = block /\ par' = par
    BY <1>3 DEF RefsTurn
  <2> QED BY <1>1, <2>1, ParserTypes DEF TypeIInv, TypedBlock
<1> QED BY <1>2, <1>3

LEMMA OtherTypes ==
  ASSUME TypeIInv, BadMember \/ ListDone \/ EndOfBlock \/ UNCHANGED vars
  PROVE  TypeIInv'
<1>1. CASE BadMember
  BY <1>1 DEF BadMember, TypeIInv
<1>2. CASE ListDone
  <2>1. /\ pc \in {"eids", "refs"} /\ pc' \in {"member", "rejected"}
        /\ UNCHANGED <<par, block, symbols, left>>
    BY <1>2 DEF ListDone, GoOn
  <2> QED BY <2>1 DEF TypeIInv, TypedBlock
<1>3. CASE EndOfBlock
  <2>1. /\ pc = "member" /\ pc' \in {"accepted", "rejected"}
        /\ UNCHANGED <<par, block, symbols, left>>
    BY <1>3 DEF EndOfBlock
  <2> QED BY <2>1 DEF TypeIInv, TypedBlock
<1>4. CASE UNCHANGED vars
  BY <1>4 DEF vars, TypeIInv, TypedBlock
<1> QED BY <1>1, <1>2, <1>3, <1>4

LEMMA TypesInit == Init => TypeIInv
<1> SUFFICES ASSUME Init PROVE TypeIInv
  OBVIOUS
<1>1. /\ pc = "text" /\ par = Parser(<< >>) /\ block = NoBlock /\ symbols = {} /\ left = 0
  BY DEF Init
<1> QED BY <1>1, TokensAssumption DEF TypeIInv, Parser

LEMMA StepTypes ==
  ASSUME NEW L, Lexicon(L), TextIInv(L), TypeIInv, Step
  PROVE  TypeIInv'
<1>1. CASE Parse
  BY <1>1, ParseTypes
<1>2. CASE Begin
  BY <1>2, BeginTypes
<1>3. CASE U8Member \/ U32Member \/ EidMember
  BY <1>3, MemberTypes
<1>4. CASE ListMember
  BY <1>4, ListMemberTypes
<1>5. CASE EidsTurn
  BY <1>5, EidsTurnTypes
<1>6. CASE RefsTurn
  BY <1>6, RefsTurnTypes
<1>7. CASE BadMember \/ ListDone \/ EndOfBlock
  BY <1>7, OtherTypes
<1> QED BY <1>1, <1>2, <1>3, <1>4, <1>5, <1>6, <1>7 DEF Step

LEMMA TypesAlways ==
  ASSUME NEW L, Inputs(L)
  PROVE  Spec => []TypeIInv
<1>1. Init => TextIInv(L) /\ TypeIInv
  BY TextInit, TypesInit DEF TextIInv
<1>2. TextIInv(L) /\ TypeIInv /\ [Next]_vars => (TextIInv(L) /\ TypeIInv)'
  <2> SUFFICES ASSUME TextIInv(L), TypeIInv, [Next]_vars PROVE TextIInv(L)' /\ TypeIInv'
    OBVIOUS
  <2>1. TextIInv(L)'
    BY TextReadOnce DEF TextIInv, vars
  <2>2. TypeIInv'
    <3>1. CASE Step
      BY <3>1, StepTypes DEF Inputs
    <3>2. CASE UNCHANGED vars
      BY <3>2, OtherTypes
    <3> QED BY <3>1, <3>2 DEF Next, Returned
  <2> QED BY <2>1, <2>2
<1> QED BY <1>1, <1>2, PTL DEF Spec

\* Whatever compile is given, the parser's current token is one of the tokens
\* there are, every field holds a number of its width, and the list of
\* references never exceeds its capacity.
THEOREM TypeCorrect ==
  ASSUME NEW L, Inputs(L)
  PROVE  Spec => []TypeOK
<1>1. Spec => []TypeIInv
  BY TypesAlways
<1>2. TypeIInv => TypeOK
  BY TypeImplied
<1> QED BY <1>1, <1>2, PTL

-----------------------------------------------------------------------------
(* Reading back what was written *)

\* Documents are written in a lexicon without '\0'; heads and keys are strings,
\* numbers or empty containers, and values are that, or arrays of such, or
\* arrays of those.
DocumentsIn(L) ==
  /\ Unending(L) /\ Marks(L)
  /\ \A d \in Docs \cup CutDocs : DocumentOf(L, d) /\ Plain(d)

\* Any string of the document may be written, and its tokens fit.
Readable == IsText(doc) /\ AllLegible(doc) /\ Len(Tokens(doc)) <= MaxTokens

\* The tokens that were read stay what they are.
ReadIInv ==
  /\ doc \in Docs \cup CutDocs \cup {NoDoc}
  /\ pc = "text" => par.tokens = << >>
  /\ pc # "text" /\ Readable => par.tokens = Tokens(doc)

\* No step but the first reads tokens, a text or a document.
LEMMA TokensKept ==
  ASSUME TypeIInv, Next, pc # "text"
  PROVE  pc' # "text" /\ par'.tokens = par.tokens /\ UNCHANGED <<doc, text>>
<1>1. CASE Begin
  <2> DEFINE sym == ParseSym(par, BlockTypes, "primary")
  <2>1. ParserOK(par)
    BY <1>1 DEF Begin, TypeIInv
  <2>2. SameTokens(par, sym.par)
    BY <2>1, ParseSymOK DEF BlockTypes
  <2>3. /\ par' = par \/ par' = Advance(sym.par)
        /\ pc' # "text" /\ UNCHANGED <<doc, text>>
    BY <1>1 DEF Begin
  <2> HIDE DEF sym
  <2> QED BY <2>2, <2>3, AdvanceOK DEF SameTokens
<1>2. ASSUME NEW kinds, Turn(kinds), NEW r, Assign(r), SameTokens(Sym.par, r.par)
      PROVE  pc' # "text" /\ par'.tokens = par.tokens /\ UNCHANGED <<doc, text>>
  <2>1. SameTokens(par, Sym.par)
    BY <1>2, TurnOK
  <2>2. par' = r.par /\ pc' \in {"member", "rejected"} /\ UNCHANGED <<doc, text>>
    BY <1>2 DEF Assign, GoOn
  <2> QED BY <1>2, <2>1, <2>2 DEF SameTokens
<1>3. CASE U8Member
  <2>1. Turn({"u8"}) /\ Assign(ParseU8(Sym.par))
    BY <1>3 DEF U8Member
  <2>2. SameTokens(Sym.par, ParseU8(Sym.par).par)
    BY <2>1, TurnOK, ParseU8OK DEF SameTokens
  <2> QED BY <1>2, <2>1, <2>2
<1>4. CASE U32Member
  <2>1. Turn({"u32"}) /\ Assign(ParseU32(Sym.par))
    BY <1>4 DEF U32Member
  <2>2. SameTokens(Sym.par, ParseU32(Sym.par).par)
    BY <2>1, TurnOK, ParseU32OK DEF SameTokens
  <2> QED BY <1>2, <2>1, <2>2
<1>5. CASE EidMember
  <2>1. PICK order \in SchemeFirst :
           Turn({"eid"}) /\ Assign(ParseEid(Sym.par, block.fields[Sym.val], order))
    BY <1>5 DEF EidMember
  <2>2. SameTokens(Sym.par, ParseEid(Sym.par, block.fields[Sym.val], order).par)
    BY <2>1, TurnOK, EidFieldOK, ParseEidOK DEF SameTokens
  <2> QED BY <1>2, <2>1, <2>2
<1>6. CASE ListMember
  <2>1. SameTokens(par, Sym.par)
    BY <1>6, TurnOK DEF ListMember
  <2>2. KindOf[block.type][Sym.val] \in {"eids", "refs"}
    BY <1>6 DEF ListMember, Turn
  <2>3. /\ par' = Sym.par \/ par' = Advance(Sym.par)
        /\ pc' # "text" /\ UNCHANGED <<doc, text>>
    BY <1>6, <2>2 DEF ListMember
  <2> QED BY <2>1, <2>3, AdvanceOK DEF SameTokens
<1>7. CASE EidsTurn
  <2>1. ParserOK(par)
    BY <1>7 DEF EidsTurn, TypeIInv
  <2>2. (par' = par \/ par' = Advance(par)) /\ pc' # "text" /\ UNCHANGED <<doc, text>>
    BY <1>7 DEF EidsTurn
  <2> QED BY <2>1, <2>2, AdvanceOK DEF SameTokens
<1>8. CASE RefsTurn
  <2>1. ParserOK(par) /\ pc' # "text" /\ UNCHANGED <<doc, text>>
    BY <1>8 DEF RefsTurn, TypeIInv
  <2>2. par' = par \/ \E order \in SchemeFirst : par' = ParseEid(par, ZeroEid, order).par
    BY <1>8 DEF RefsTurn
  <2>3. ZeroEid \in EidRecords
    BY DEF ZeroEid, Zero, EidRecords, U32
  <2> QED BY <2>1, <2>2, <2>3, ParseEidOK DEF SameTokens
<1>9. CASE ListDone \/ BadMember \/ EndOfBlock \/ Returned
  BY <1>9 DEF ListDone, GoOn, BadMember, EndOfBlock, Returned, vars
<1>10. ~ Parse
  BY DEF Parse
<1> QED BY <1>1, <1>3, <1>4, <1>5, <1>6, <1>7, <1>8, <1>9, <1>10 DEF Next, Step

\* NoDoc is a document as well.
LEMMA DocumentHere ==
  ASSUME NEW L, DocumentsIn(L), ReadIInv
  PROVE  DocumentOf(L, doc) /\ Plain(doc) /\ Unending(L) /\ Marks(L)
<1>1. NoDoc.head = << >> /\ NoDoc.members = << >>
  BY DEF NoDoc
<1>2. IsSeq(<< >>) /\ Len(<< >>) = 0
  BY NothingIs DEF IsSeq
<1>3. DocumentOf(L, NoDoc) /\ Plain(NoDoc)
  BY <1>1, <1>2 DEF DocumentOf, Plain
<1> QED BY <1>3 DEF ReadIInv, DocumentsIn

LEMMA ParseReads ==
  ASSUME NEW L, DocumentsIn(L), ReadIInv, Parse
  PROVE  ReadIInv'
<1>1. /\ pc = "text" /\ par.tokens = << >> /\ UNCHANGED <<doc, text>>
      /\ doc \in Docs \cup CutDocs \cup {NoDoc}
  BY DEF ReadIInv, Parse
<1>2. DocumentOf(L, doc) /\ Plain(doc) /\ Unending(L) /\ Marks(L)
  BY DocumentHere
<1> DEFINE p == jsmn_parse(text)
<1>3. IF p.error = "none" /\ p.tokens # << >>
      THEN pc' = "begin" /\ par' = Parser(SeenTokens(text, p.tokens))
      ELSE pc' = "rejected" /\ par' = par
  BY DEF Parse
<1>4. ASSUME Readable PROVE p.error = "none" /\ SeenTokens(text, p.tokens) = Tokens(doc)
  <2>1. text = Text(doc) /\ AllLegible(doc) /\ Len(Tokens(doc)) <= MaxTokens
    BY <1>4 DEF Readable, IsText
  <2> QED BY <1>2, <2>1, WrittenIsRead
<1>5. Readable' => Readable
  BY <1>1 DEF Readable, IsText
<1> HIDE DEF p
<1>6. ASSUME Readable PROVE par'.tokens = Tokens(doc)
  <2>1. CASE p.tokens # << >>
    BY <1>3, <1>4, <1>6, <2>1 DEF Parser
  <2>2. CASE p.tokens = << >>
    <3>1. SeenTokens(text, << >>) = << >>
      BY DEF SeenTokens
    <3> QED BY <1>1, <1>3, <1>4, <1>6, <2>2, <3>1
  <2> QED BY <2>1, <2>2
<1>7. pc' # "text"
  BY <1>3
<1> QED BY <1>1, <1>5, <1>6, <1>7 DEF ReadIInv

\* What was written is read back: if no string needs escaping and its tokens
\* fit, the parser is given the tokens that stand for the values of the
\* document, in whatever order its members are and whatever they hold.
THEOREM DocsReadBack ==
  ASSUME NEW L, Inputs(L), NEW M, DocumentsIn(M)
  PROVE  Spec => []ReadBack
<1>1. Init => ReadIInv
  <2> SUFFICES ASSUME Init PROVE ReadIInv
    OBVIOUS
  <2>1. pc = "text" /\ par = Parser(<< >>) /\ doc \in Docs \cup CutDocs \cup {NoDoc}
    BY DEF Init
  <2> QED BY <2>1 DEF ReadIInv, Parser
<1>2. TypeIInv /\ ReadIInv /\ [Next]_vars => ReadIInv'
  <2> SUFFICES ASSUME TypeIInv, ReadIInv, [Next]_vars PROVE ReadIInv'
    OBVIOUS
  <2>1. CASE Parse
    BY <2>1, ParseReads
  <2>2. CASE Next /\ ~ Parse
    <3>1. CASE pc # "text"
      <4>1. pc' # "text" /\ par'.tokens = par.tokens /\ UNCHANGED <<doc, text>>
        BY <2>2, <3>1, TokensKept
      <4> QED BY <3>1, <4>1 DEF ReadIInv, Readable, IsText
    <3>2. CASE pc = "text"
      BY <2>2, <3>2 DEF Next, Step, Begin, U8Member, U32Member, EidMember, ListMember, BadMember,
         EidsTurn, RefsTurn, ListDone, EndOfBlock, Returned, Turn
    <3> QED BY <3>1, <3>2
  <2>3. CASE UNCHANGED vars
    BY <2>3 DEF vars, ReadIInv, Readable, IsText
  <2> QED BY <2>1, <2>2, <2>3
<1>3. ReadIInv => ReadBack
  BY DEF ReadIInv, ReadBack, Readable
<1>4. Spec => []TypeIInv
  BY TypesAlways
<1> QED BY <1>1, <1>2, <1>3, <1>4, PTL DEF Spec
-----------------------------------------------------------------------------
(* Where the tokens of a document are *)

\* What is in a sequence of sequences laid end to end, and where.
Places(seqs, f) ==
  /\ \A n \in 0 .. Len(seqs) : IsSeq(f[n]) /\ Len(f[n]) \in Nat /\ Len(f[n]) <= Len(f[Len(seqs)])
  /\ \A n \in 1 .. Len(seqs) :
       /\ Len(f[n]) = Len(f[n - 1]) + Len(seqs[n])
       /\ \A i \in 1 .. Len(seqs[n]) : f[Len(seqs)][Len(f[n - 1]) + i] = seqs[n][i]

LEMMA FlattenPlaces ==
  ASSUME NEW seqs, IsSeq(seqs), \A n \in 1 .. Len(seqs) : IsSeq(seqs[n]),
         NEW f, Flattening(seqs, f)
  PROVE  Places(seqs, f)
<1> DEFINE N == Len(seqs)
<1>1. N \in Nat /\ f[0] = << >> /\ \A n \in 1 .. N : f[n] = f[n - 1] \o seqs[n] /\ IsSeq(seqs[n])
  BY DEF IsSeq, Flattening
<1> HIDE DEF N
<1>2. ASSUME NEW n \in 0 .. N PROVE IsSeq(f[n]) /\ Len(f[n]) \in Nat
  <2> DEFINE S == {k \in 0 .. N : IsSeq(f[k])}
  <2>1. 0 \in S
    BY <1>1, NothingIs
  <2>2. ASSUME NEW k \in 0 .. N - 1, k \in S PROVE k + 1 \in S
    <3>1. k + 1 \in 1 .. N /\ (k + 1) - 1 = k
      BY <1>1
    <3>2. f[k + 1] = f[k] \o seqs[k + 1] /\ IsSeq(seqs[k + 1]) /\ IsSeq(f[k])
      BY <1>1, <2>2, <3>1
    <3>3. IsSeq(f[k] \o seqs[k + 1])
      BY <3>2, ConcatIs
    <3>4. IsSeq(f[k + 1]) /\ k + 1 \in 0 .. N
      BY <1>1, <3>1, <3>2, <3>3
    <3> QED BY <3>4
  <2> HIDE DEF S
  <2>3. 0 .. N \subseteq S
    BY <1>1, <2>1, <2>2, UpTo
  <2> QED BY <2>3 DEF S, IsSeq
<1>3. ASSUME NEW n \in 1 .. N
      PROVE  /\ Len(f[n]) = Len(f[n - 1]) + Len(seqs[n])
             /\ \A i \in 1 .. Len(f[n - 1]) : f[n][i] = f[n - 1][i]
             /\ \A i \in 1 .. Len(seqs[n]) : f[n][Len(f[n - 1]) + i] = seqs[n][i]
  <2>1. n - 1 \in 0 .. N
    BY <1>1
  <2> DEFINE s == f[n - 1]
             t == seqs[n]
  <2>2. IsSeq(s) /\ IsSeq(t) /\ f[n] = s \o t
    BY <1>1, <1>2, <2>1
  <2> HIDE DEF s, t
  <2>3. /\ Len(f[n]) = Len(s) + Len(t)
        /\ \A i \in 1 .. Len(s) : f[n][i] = s[i]
        /\ \A i \in 1 .. Len(t) : f[n][Len(s) + i] = t[i]
    BY <2>2, ConcatIs
  <2> QED BY <2>3 DEF s, t
\* What is laid stays where it is.
<1>4. ASSUME NEW n \in 0 .. N
      PROVE  Len(f[n]) <= Len(f[N]) /\ \A i \in 1 .. Len(f[n]) : f[N][i] = f[n][i]
  <2> DEFINE Stays(k) == Len(f[n]) <= Len(f[k]) /\ \A i \in 1 .. Len(f[n]) : f[k][i] = f[n][i]
             S == {j \in 0 .. N - n : Stays(n + j)}
  <2>1. 0 \in S
    <3>1. n + 0 = n /\ 0 \in 0 .. N - n
      BY <1>1
    <3>2. Stays(n)
      BY <1>2
    <3> QED BY <3>1, <3>2
  <2>2. ASSUME NEW j \in 0 .. (N - n) - 1, j \in S PROVE j + 1 \in S
    <3>1. n + j \in 0 .. N /\ n + (j + 1) \in 1 .. N /\ (n + (j + 1)) - 1 = n + j
          /\ j + 1 \in 0 .. N - n
      BY <1>1
    <3> DEFINE k == n + j
               l == n + (j + 1)
    <3>2. Stays(k)
      BY <2>2
    <3>3. l \in 1 .. N /\ l - 1 = k /\ k \in 0 .. N
      BY <3>1
    <3> HIDE DEF k, l
    <3>4. Len(f[l]) = Len(f[k]) + Len(seqs[l]) /\ \A i \in 1 .. Len(f[k]) : f[l][i] = f[k][i]
      BY <1>3, <3>3
    <3>5. Len(f[n]) \in Nat /\ Len(f[k]) \in Nat /\ Len(seqs[l]) \in Nat
      BY <1>1, <1>2, <3>3 DEF IsSeq
    <3> DEFINE a == Len(f[n])
               b == Len(f[k])
               c == Len(seqs[l])
    <3>7. Len(f[n]) <= Len(f[l])
      <4>1. a <= b /\ Len(f[l]) = b + c /\ a \in Nat /\ b \in Nat /\ c \in Nat
        BY <3>2, <3>4, <3>5
      <4> HIDE DEF a, b, c
      <4>2. a <= b + c
        BY <4>1
      <4> QED BY <4>1, <4>2 DEF a
    <3>8. ASSUME NEW i \in 1 .. Len(f[n]) PROVE f[l][i] = f[n][i]
      <4>1. i \in 1 .. Len(f[k]) /\ f[k][i] = f[n][i]
        BY <3>2, <3>5
      <4> QED BY <3>4, <4>1
    <3>6. Stays(l)
      BY <3>7, <3>8
    <3> QED BY <3>1, <3>6 DEF l
  <2> DEFINE M == N - n
  <2>3. M \in Nat /\ n + M = N
    BY <1>1
  <2>5. \A j \in 0 .. M - 1 : j \in S => j + 1 \in S
    BY <2>2
  <2> HIDE DEF S, Stays, M
  <2>6. 0 .. M \subseteq S
    BY <2>1, <2>3, <2>5, UpTo
  <2>4. M \in S
    BY <2>3, <2>6
  <2> QED BY <2>3, <2>4 DEF S, Stays
<1>5. ASSUME NEW n \in 1 .. N, NEW i \in 1 .. Len(seqs[n])
      PROVE  f[N][Len(f[n - 1]) + i] = seqs[n][i]
  <2>1. n \in 0 .. N /\ n - 1 \in 0 .. N
    BY <1>1
  <2>2. Len(f[n - 1]) \in Nat /\ Len(seqs[n]) \in Nat
    BY <1>1, <1>2, <2>1 DEF IsSeq
  <2>3. Len(f[n]) = Len(f[n - 1]) + Len(seqs[n]) /\ f[n][Len(f[n - 1]) + i] = seqs[n][i]
    BY <1>3
  <2> DEFINE a == Len(f[n - 1])
             b == Len(seqs[n])
  <2>4. a + i \in 1 .. a + b
    <3>1. a \in Nat /\ b \in Nat /\ i \in 1 .. b
      BY <2>2
    <3> HIDE DEF a, b
    <3> QED BY <3>1
  <2> QED BY <1>4, <2>1, <2>3, <2>4
<1> QED BY <1>2, <1>3, <1>4, <1>5 DEF Places, N

\* The tokens of the elements of a value, and of how many there are up to each.
ElemTokens(v) == [n \in DOMAIN v.elems |-> Shallow(v.elems[n])]
ElemsTo(v) == CHOOSE f : Flattening(ElemTokens(v), f)
ElemEnd(v, n) == Len(ElemsTo(v)[n])

LEMMA ShallowIs ==
  ASSUME NEW e, IsSeq(e.elems)
  PROVE  /\ IsSeq(Shallow(e)) /\ Len(Shallow(e)) = 1 + Len(e.elems)
         /\ Shallow(e)[1] = Tok(e)
         /\ \A i \in 1 .. Len(e.elems) : Shallow(e)[1 + i] = Tok(e.elems[i])
<1> DEFINE rest == [n \in DOMAIN e.elems |-> Tok(e.elems[n])]
           t == Tok(e)
<1>1. IsSeq(rest) /\ Len(rest) = Len(e.elems) /\ DOMAIN e.elems = 1 .. Len(e.elems)
  <2>1. rest = [n \in DOMAIN e.elems |-> rest[n]]
    OBVIOUS
  <2> HIDE DEF rest
  <2> QED BY <2>1, MappedSeq
<1>2. \A i \in 1 .. Len(e.elems) : rest[i] = Tok(e.elems[i])
  BY <1>1
<1>3. Shallow(e) = <<t>> \o rest
  BY DEF Shallow
<1> HIDE DEF rest, t
<1>4. IsSeq(<<t>>) /\ Len(<<t>>) = 1 /\ <<t>>[1] = t
  BY OneIs
<1>5. /\ IsSeq(<<t>> \o rest) /\ Len(<<t>> \o rest) = Len(<<t>>) + Len(rest)
      /\ \A i \in 1 .. Len(<<t>>) : (<<t>> \o rest)[i] = <<t>>[i]
      /\ \A i \in 1 .. Len(rest) : (<<t>> \o rest)[Len(<<t>>) + i] = rest[i]
  BY <1>1, <1>4, ConcatIs
<1>6. 1 \in 1 .. Len(<<t>>)
  BY <1>4
<1> QED BY <1>1, <1>2, <1>3, <1>4, <1>5, <1>6 DEF t

LEMMA PlainElems ==
  ASSUME NEW v, PlainValue(v)
  PROVE  /\ IsSeq(v.elems) /\ Len(v.elems) \in Nat
         /\ \A n \in 1 .. Len(v.elems) : PlainElem(v.elems[n]) /\ IsSeq(v.elems[n].elems)
         /\ v.type # "array" => v.elems = << >>
<1>1. CASE PlainLeaf(v)
  BY <1>1, NothingIs DEF PlainLeaf, IsSeq
<1>2. CASE PlainArray(v) /\ \A n \in 1 .. Len(v.elems) : PlainElem(v.elems[n])
  <2>1. ASSUME NEW e, PlainElem(e) PROVE IsSeq(e.elems)
    BY <2>1, NothingIs DEF PlainElem, PlainLeaf, PlainArray
  <2>2. IsSeq(v.elems) /\ Len(v.elems) \in Nat /\ v.type = "array"
    BY <1>2 DEF PlainArray, IsSeq
  <2> QED BY <1>2, <2>1, <2>2
<1> QED BY <1>1, <1>2 DEF PlainValue

LEMMA ElemPlaces ==
  ASSUME NEW v, PlainValue(v)
  PROVE  LET t == ValueTokens(v)
         IN  /\ IsSeq(t) /\ Len(t) = 1 + ElemEnd(v, Len(v.elems)) /\ t[1] = Tok(v)
             /\ ElemEnd(v, 0) = 0 /\ \A n \in 0 .. Len(v.elems) : ElemEnd(v, n) \in Nat
             /\ \A n \in 1 .. Len(v.elems) :
                  /\ ElemEnd(v, n) = ElemEnd(v, n - 1) + (1 + Len(v.elems[n].elems))
                  /\ ElemEnd(v, n) <= ElemEnd(v, Len(v.elems))
                  /\ t[1 + (ElemEnd(v, n - 1) + 1)] = Tok(v.elems[n])
                  /\ \A i \in 1 .. Len(v.elems[n].elems) :
                       t[1 + (ElemEnd(v, n - 1) + (1 + i))] = Tok(v.elems[n].elems[i])
<1> DEFINE seqs == ElemTokens(v)
           f == ElemsTo(v)
           N == Len(v.elems)
           x == Tok(v)
           all == FlattenSeq(seqs)
<1>1. IsSeq(v.elems) /\ N \in Nat /\ \A n \in 1 .. N : IsSeq(v.elems[n].elems)
  BY PlainElems
<1>2. IsSeq(seqs) /\ Len(seqs) = N /\ \A n \in 1 .. N : seqs[n] = Shallow(v.elems[n])
  <2>1. seqs = [n \in DOMAIN v.elems |-> seqs[n]] /\ DOMAIN v.elems = 1 .. N
    BY <1>1 DEF ElemTokens, IsSeq
  <2>2. \A n \in 1 .. N : seqs[n] = Shallow(v.elems[n])
    BY <2>1 DEF ElemTokens
  <2> HIDE DEF seqs
  <2> QED BY <1>1, <2>1, <2>2, MappedSeq
<1>3. \A n \in 1 .. N : IsSeq(seqs[n]) /\ Len(seqs[n]) = 1 + Len(v.elems[n].elems)
  BY <1>1, <1>2, ShallowIs
<1>4. ValueTokens(v) = <<x>> \o all
  BY DEF ValueTokens, ElemTokens
<1>5. Flattening(seqs, f)
  <2>1. \E g : Flattening(seqs, g)
    <3> HIDE DEF seqs
    <3> QED BY <1>2, <1>3, FlattenIs
  <2> QED BY <2>1 DEF ElemsTo
<1> HIDE DEF seqs, f
<1>6. Places(seqs, f) /\ all = f[N] /\ f[0] = << >>
  <2>1. Places(seqs, f)
    BY <1>2, <1>3, <1>5, FlattenPlaces
  <2> QED BY <1>2, <1>5, <2>1 DEF Flattening
<1>7. \A n : ElemEnd(v, n) = Len(f[n])
  BY DEF ElemEnd, f
<1> HIDE DEF N, x, all
<1>8. IsSeq(all) /\ Len(all) = Len(f[N]) /\ Len(f[N]) \in Nat
  <2>1. N \in 0 .. N
    BY <1>1
  <2> QED BY <1>2, <1>6, <2>1 DEF Places
<1>9. IsSeq(<<x>>) /\ Len(<<x>>) = 1 /\ <<x>>[1] = x
  BY OneIs
<1> DEFINE t == ValueTokens(v)
<1>10. /\ IsSeq(t) /\ Len(t) = 1 + Len(f[N]) /\ t[1] = x
       /\ \A i \in 1 .. Len(all) : t[1 + i] = all[i]
  <2>1. /\ IsSeq(<<x>> \o all) /\ Len(<<x>> \o all) = Len(<<x>>) + Len(all)
        /\ \A i \in 1 .. Len(<<x>>) : (<<x>> \o all)[i] = <<x>>[i]
        /\ \A i \in 1 .. Len(all) : (<<x>> \o all)[Len(<<x>>) + i] = all[i]
    BY <1>8, <1>9, ConcatIs
  <2>2. 1 \in 1 .. Len(<<x>>)
    BY <1>9
  <2> QED BY <1>4, <1>8, <1>9, <2>1, <2>2
<1> HIDE DEF t
<1>11. \A n \in 0 .. N : Len(f[n]) \in Nat /\ Len(f[n]) <= Len(f[N])
  BY <1>2, <1>6 DEF Places
<1>12. ASSUME NEW n \in 1 .. N
       PROVE  /\ ElemEnd(v, n) = ElemEnd(v, n - 1) + (1 + Len(v.elems[n].elems))
              /\ ElemEnd(v, n) <= ElemEnd(v, N)
              /\ t[1 + (ElemEnd(v, n - 1) + 1)] = Tok(v.elems[n])
              /\ \A i \in 1 .. Len(v.elems[n].elems) :
                   t[1 + (ElemEnd(v, n - 1) + (1 + i))] = Tok(v.elems[n].elems[i])
  <2> DEFINE e == v.elems[n]
             a == ElemEnd(v, n - 1)
             b == Len(e.elems)
  <2>1. /\ ElemEnd(v, n) = a + (1 + b) /\ \A i \in 1 .. 1 + b : all[a + i] = seqs[n][i]
    <3>1. /\ Len(f[n]) = Len(f[n - 1]) + Len(seqs[n])
          /\ \A i \in 1 .. Len(seqs[n]) : f[N][Len(f[n - 1]) + i] = seqs[n][i]
      BY <1>2, <1>6 DEF Places
    <3>2. Len(f[n]) = ElemEnd(v, n) /\ Len(f[n - 1]) = a
      BY <1>7
    <3> QED BY <1>3, <1>6, <3>1, <3>2
  <2>2. IsSeq(e.elems) /\ seqs[n] = Shallow(e)
    BY <1>1, <1>2
  <2>3. n \in 0 .. N /\ n - 1 \in 0 .. N
    BY <1>1
  <2>4. a \in Nat /\ ElemEnd(v, n) <= ElemEnd(v, N) /\ b \in Nat /\ ElemEnd(v, n) \in Nat /\ ElemEnd(v, N) \in Nat
    BY <1>7, <1>8, <1>11, <2>2, <2>3 DEF IsSeq
  <2> HIDE DEF e, a, b
  <2>5. Shallow(e)[1] = Tok(e) /\ \A i \in 1 .. b : Shallow(e)[1 + i] = Tok(e.elems[i])
    BY <2>2, ShallowIs DEF b
  <2>6. ASSUME NEW i \in 1 .. 1 + b PROVE a + i \in 1 .. Len(all)
    BY <1>7, <1>8, <2>1, <2>4
  <2>7. 1 \in 1 .. 1 + b /\ \A i \in 1 .. b : 1 + i \in 1 .. 1 + b
    BY <2>4
  <2>8. t[1 + (a + 1)] = Tok(e)
    BY <1>10, <2>1, <2>2, <2>5, <2>6, <2>7
  <2>9. \A i \in 1 .. b : t[1 + (a + (1 + i))] = Tok(e.elems[i])
    BY <1>10, <2>1, <2>2, <2>5, <2>6, <2>7
  <2> QED BY <2>1, <2>4, <2>8, <2>9 DEF e, a, b
<1>13. Len(f[0]) = 0
  BY <1>6, NothingIs
<1>14. /\ IsSeq(t) /\ Len(t) = 1 + ElemEnd(v, N) /\ t[1] = x /\ ElemEnd(v, 0) = 0
       /\ \A n \in 0 .. N : ElemEnd(v, n) \in Nat
  BY <1>7, <1>10, <1>11, <1>13
<1> QED BY <1>12, <1>14 DEF N, x, t

\* How many tokens there are up to a member, behind a head of two values.
TokensTo(d) == CHOOSE f : Flattening(MembersTokens(d.members), f)
Behind(d, n) == 2 + Len(TokensTo(d)[n])

LEMMA MemberPlaces ==
  ASSUME NEW d, Plain(d), Len(d.head) = 2
  PROVE  LET T == Tokens(d)
             N == Len(d.members)
         IN  /\ IsSeq(T) /\ Len(T) = Behind(d, N) /\ Behind(d, 0) = 2
             /\ T[1] = Tok(d.head[1])
             /\ \A n \in 0 .. N : Behind(d, n) \in Nat /\ Behind(d, n) >= 2 /\ Behind(d, n) <= Len(T)
             /\ \A n \in 1 .. N :
                  LET t == ValueTokens(d.members[n].value)
                  IN  /\ Behind(d, n) = Behind(d, n - 1) + (1 + Len(t))
                      /\ T[Behind(d, n - 1) + 1] = Tok(d.members[n].key)
                      /\ \A i \in 1 .. Len(t) : T[Behind(d, n - 1) + (1 + i)] = t[i]
<1> DEFINE seqs == MembersTokens(d.members)
           f == TokensTo(d)
           N == Len(d.members)
           head == [n \in DOMAIN d.head |-> Tok(d.head[n])]
           all == FlattenSeq(seqs)
           T == Tokens(d)
           t(n) == ValueTokens(d.members[n].value)
           key(n) == Tok(d.members[n].key)
<1>1. IsSeq(d.members) /\ N \in Nat /\ \A n \in 1 .. N : PlainValue(d.members[n].value)
  BY DEF Plain, IsSeq
<1>2. IsSeq(seqs) /\ Len(seqs) = N /\ \A n \in 1 .. N : seqs[n] = <<key(n)>> \o t(n)
  <2>1. seqs = [n \in DOMAIN d.members |-> seqs[n]] /\ DOMAIN d.members = 1 .. N
    BY <1>1 DEF MembersTokens, IsSeq
  <2>2. \A n \in 1 .. N : seqs[n] = <<key(n)>> \o t(n)
    BY <2>1 DEF MembersTokens
  <2> HIDE DEF seqs
  <2> QED BY <1>1, <2>1, <2>2, MappedSeq
<1>3. T = head \o all
  BY DEF Tokens, MembersTokens
<1>4. IsSeq(head) /\ Len(head) = 2 /\ head[1] = Tok(d.head[1])
  <2>1. IsSeq(d.head) /\ DOMAIN d.head = 1 .. 2
    BY DEF Plain, IsSeq
  <2>2. head = [n \in DOMAIN d.head |-> head[n]] /\ head[1] = Tok(d.head[1])
    BY <2>1
  <2> HIDE DEF head
  <2> QED BY <2>1, <2>2, MappedSeq
<1> HIDE DEF head, seqs, t, key
<1>5. ASSUME NEW n \in 1 .. N
      PROVE  /\ IsSeq(t(n)) /\ Len(t(n)) \in Nat /\ IsSeq(seqs[n]) /\ Len(seqs[n]) = 1 + Len(t(n))
             /\ seqs[n][1] = key(n) /\ \A i \in 1 .. Len(t(n)) : seqs[n][1 + i] = t(n)[i]
  <2> DEFINE x == key(n)
             y == t(n)
  <2>1. IsSeq(y) /\ Len(y) \in Nat
    BY <1>1, ElemPlaces DEF IsSeq, t
  <2>2. IsSeq(<<x>>) /\ Len(<<x>>) = 1 /\ <<x>>[1] = x
    BY OneIs
  <2>3. seqs[n] = <<x>> \o y
    BY <1>2
  <2> HIDE DEF x, y
  <2>4. /\ IsSeq(<<x>> \o y) /\ Len(<<x>> \o y) = Len(<<x>>) + Len(y)
        /\ \A i \in 1 .. Len(<<x>>) : (<<x>> \o y)[i] = <<x>>[i]
        /\ \A i \in 1 .. Len(y) : (<<x>> \o y)[Len(<<x>>) + i] = y[i]
    BY <2>1, <2>2, ConcatIs
  <2>5. 1 \in 1 .. Len(<<x>>)
    BY <2>2
  <2> QED BY <2>1, <2>2, <2>3, <2>4, <2>5 DEF x, y
<1>6. Flattening(seqs, f)
  <2>1. \E g : Flattening(seqs, g)
    BY <1>2, <1>5, FlattenIs
  <2> QED BY <2>1 DEF TokensTo, seqs
<1> HIDE DEF f
<1>7. Places(seqs, f) /\ all = f[N] /\ f[0] = << >> /\ Len(f[0]) = 0
  <2>1. Places(seqs, f)
    BY <1>2, <1>5, <1>6, FlattenPlaces
  <2> QED BY <1>2, <1>6, <2>1, NothingIs DEF Flattening
<1>8. \A n : Behind(d, n) = 2 + Len(f[n])
  BY DEF Behind, f
<1> HIDE DEF all, N, T
<1>9. \A n \in 0 .. N : IsSeq(f[n]) /\ Len(f[n]) \in Nat /\ Len(f[n]) <= Len(f[N])
  BY <1>2, <1>7 DEF Places
<1>10. IsSeq(all) /\ Len(all) = Len(f[N]) /\ Len(all) \in Nat
  <2>1. N \in 0 .. N
    BY <1>1
  <2> QED BY <1>7, <1>9, <2>1
<1>11. /\ IsSeq(T) /\ Len(T) = 2 + Len(all) /\ T[1] = Tok(d.head[1])
       /\ \A i \in 1 .. Len(all) : T[2 + i] = all[i]
  <2>1. /\ IsSeq(head \o all) /\ Len(head \o all) = Len(head) + Len(all)
        /\ \A i \in 1 .. Len(head) : (head \o all)[i] = head[i]
        /\ \A i \in 1 .. Len(all) : (head \o all)[Len(head) + i] = all[i]
    <3>1. IsSeq(head) /\ IsSeq(all)
      BY <1>4, <1>10
    <3> QED BY <3>1, ConcatIs
  <2>2. 1 \in 1 .. Len(head)
    BY <1>4
  <2> QED BY <1>3, <1>4, <2>1, <2>2
<1>12. ASSUME NEW n \in 0 .. N
       PROVE  Behind(d, n) \in Nat /\ Behind(d, n) >= 2 /\ Behind(d, n) <= Len(T)
  <2> DEFINE a == Len(f[n])
             b == Len(all)
  <2>1. a \in Nat /\ b \in Nat /\ a <= b /\ Behind(d, n) = 2 + a /\ Len(T) = 2 + b
    BY <1>8, <1>9, <1>10, <1>11
  <2> HIDE DEF a, b
  <2> QED BY <2>1
<1>13. ASSUME NEW n \in 1 .. N
       PROVE  /\ Behind(d, n) = Behind(d, n - 1) + (1 + Len(t(n)))
              /\ T[Behind(d, n - 1) + 1] = key(n)
              /\ \A i \in 1 .. Len(t(n)) : T[Behind(d, n - 1) + (1 + i)] = t(n)[i]
  <2> DEFINE a == Len(f[n - 1])
             b == Len(t(n))
  <2>1. n \in 0 .. N /\ n - 1 \in 0 .. N
    BY <1>1
  <2>2. /\ a \in Nat /\ Len(f[n]) = a + (1 + b) /\ b \in Nat
        /\ Len(f[n]) <= Len(all)
        /\ \A i \in 1 .. 1 + b : all[a + i] = seqs[n][i]
    <3>1. /\ Len(f[n]) = Len(f[n - 1]) + Len(seqs[n])
          /\ \A i \in 1 .. Len(seqs[n]) : f[N][Len(f[n - 1]) + i] = seqs[n][i]
      BY <1>2, <1>7 DEF Places
    <3>2. a \in Nat /\ Len(f[n]) <= Len(all) /\ Len(seqs[n]) = 1 + b /\ b \in Nat
      BY <1>5, <1>9, <1>10, <2>1
    <3> QED BY <1>7, <3>1, <3>2
  <2>3. Behind(d, n) = 2 + (a + (1 + b)) /\ Behind(d, n - 1) = 2 + a
    BY <1>8, <2>2
  <2>4. /\ seqs[n][1] = key(n) /\ \A i \in 1 .. b : seqs[n][1 + i] = t(n)[i]
    BY <1>5
  <2> HIDE DEF a, b
  <2>5. ASSUME NEW i \in 1 .. 1 + b PROVE T[2 + (a + i)] = seqs[n][i]
    <3>1. a + i \in 1 .. Len(all)
      BY <1>10, <2>2
    <3> QED BY <1>11, <2>2, <3>1
  <2>6. 1 \in 1 .. 1 + b /\ \A i \in 1 .. b : 1 + i \in 1 .. 1 + b
    BY <2>2
  <2>7. (2 + a) + 1 = 2 + (a + 1) /\ \A i \in 1 .. b : (2 + a) + (1 + i) = 2 + (a + (1 + i))
        /\ 2 + (a + (1 + b)) = (2 + a) + (1 + b)
    BY <2>2
  <2>8. T[(2 + a) + 1] = key(n)
    BY <2>4, <2>5, <2>6, <2>7
  <2>9. ASSUME NEW i \in 1 .. b PROVE T[(2 + a) + (1 + i)] = t(n)[i]
    BY <2>4, <2>5, <2>6, <2>7
  <2> QED BY <2>3, <2>7, <2>8, <2>9 DEF b
<1>14. Behind(d, 0) = 2 /\ Len(T) = Behind(d, N)
  BY <1>7, <1>8, <1>10, <1>11
<1> QED BY <1>11, <1>12, <1>13, <1>14 DEF N, T, t, key

-----------------------------------------------------------------------------
(* What the functions of parser.c read *)

\* The next token p looks at is the xth of T; behind the last it stays there.
Cursor(p, T, x) ==
  /\ IsSeq(T) /\ Len(T) > 0 /\ x \in 1 .. Len(T) + 1
  /\ p = [tokens |-> T, token |-> IF x <= Len(T) THEN x ELSE Len(T), error |-> FALSE]

LEMMA CursorAt ==
  ASSUME NEW T, NEW x, NEW p, Cursor(p, T, x)
  PROVE  /\ More(p) <=> x < Len(T)
         /\ x <= Len(T) => Cur(p) = T[x]
         /\ ~ p.error /\ p.tokens = T /\ Len(T) \in Nat /\ x \in Nat
BY DEF Cursor, More, Cur, IsSeq

LEMMA CursorAdvance ==
  ASSUME NEW T, NEW x, NEW p, Cursor(p, T, x), x <= Len(T)
  PROVE  Cursor(Advance(p), T, x + 1)
<1>1. /\ p = [tokens |-> T, token |-> x, error |-> FALSE]
      /\ x \in Nat /\ Len(T) \in Nat /\ x + 1 \in 1 .. Len(T) + 1 /\ IsSeq(T) /\ Len(T) > 0
  BY DEF Cursor, IsSeq
<1>2. CASE x < Len(T)
  <2>1. Advance(p) = [tokens |-> T, token |-> x + 1, error |-> FALSE]
    BY <1>1, <1>2 DEF Advance, More
  <2>2. x + 1 <= Len(T)
    BY <1>1, <1>2
  <2> QED BY <1>1, <2>1, <2>2 DEF Cursor
<1>3. CASE ~ x < Len(T)
  <2>1. x = Len(T) /\ ~ x + 1 <= Len(T)
    BY <1>1, <1>3
  <2>2. Advance(p) = p
    BY <1>1, <1>3 DEF Advance, More
  <2> QED BY <1>1, <2>1, <2>2 DEF Cursor
<1> QED BY <1>2, <1>3

LEMMA FailedIs ==
  ASSUME NEW p, ParserOK(p)
  PROVE  Failed(p).error = TRUE
<1> DEFINE ts == p.tokens
           n == p.token
           was == p.error
<1>1. p = [tokens |-> ts, token |-> n, error |-> was]
  BY DEF ParserOK
<1> HIDE DEF ts, n, was
<1>2. Failed(p) = [tokens |-> ts, token |-> n, error |-> TRUE]
  <2>1. ASSUME NEW e PROVE [p EXCEPT !.error = e] = [tokens |-> ts, token |-> n, error |-> e]
    BY <1>1
  <2> QED BY <2>1 DEF Failed
<1> QED BY <1>2

\* The error flag stays once it is set.
LEMMA ErrorStays ==
  ASSUME NEW p, ParserOK(p), p.error
  PROVE  /\ Advance(p).error /\ ParseU32(p).par.error /\ ParseU8(p).par.error
         /\ \A syms, first : ParseSym(p, syms, first).par.error
         /\ \A was, order : ParseEid(p, was, order).par.error
<1>1. ASSUME NEW q, ParserOK(q), q.error
      PROVE  ParserOK(Advance(q)) /\ Advance(q).error = TRUE /\ Failed(q).error = TRUE
             /\ ParserOK(Failed(q))
  <2>1. Advance(q).error = TRUE
    BY <1>1 DEF Advance, ParserOK
  <2> QED BY <1>1, <2>1, FailedIs, AdvanceOK, FailedOK DEF SameTokens
<1>2. ASSUME NEW q, ParserOK(q), q.error
      PROVE  ParserOK(ParseU32(q).par) /\ ParseU32(q).par.error = TRUE
  BY <1>1, <1>2 DEF ParseU32
<1>3. ParseU8(p).par.error = TRUE
  <2> DEFINE r == ParseU32(p)
  <2>1. ParserOK(r.par) /\ r.par.error = TRUE
    BY <1>2
  <2>2. ParseU8(p) = IF r.val \in U8 THEN r ELSE [val |-> Zero, par |-> Failed(r.par)]
    BY DEF ParseU8
  <2> HIDE DEF r
  <2>3. Failed(r.par).error = TRUE
    BY <1>1, <2>1
  <2>4. CASE r.val \in U8
    BY <2>1, <2>2, <2>4
  <2>5. CASE r.val \notin U8
    <3>1. ParseU8(p).par = Failed(r.par)
      BY <2>2, <2>5
    <3> QED BY <2>3, <3>1
  <2> QED BY <2>4, <2>5
<1>4. ASSUME NEW syms, NEW first PROVE ParseSym(p, syms, first).par.error = TRUE
  BY <1>1 DEF ParseSym
<1>5. ASSUME NEW was, NEW order PROVE ParseEid(p, was, order).par.error = TRUE
  <2> DEFINE one == ParseU32(Advance(p))
             two == ParseU32(one.par)
  <2>1. ParserOK(two.par) /\ two.par.error = TRUE
    BY <1>1, <1>2
  <2>2. ParseEid(p, was, order).par = p \/ ParseEid(p, was, order).par = two.par
    BY DEF ParseEid
  <2> HIDE DEF two
  <2> QED BY <2>1, <2>2
<1> QED BY <1>1, <1>2, <1>3, <1>4, <1>5

LEMMA TokIs ==
  ASSUME NEW v
  PROVE  /\ Tok(v).type = v.type /\ Tok(v).val = v.val /\ Tok(v).size = Len(v.elems)
         /\ \A width : IsNum(Tok(v), width) <=> IsNum(v, width)
BY DEF Tok, IsNum

LEMMA ReadsU32 ==
  ASSUME NEW T, NEW x, NEW p, Cursor(p, T, x), x <= Len(T), ParserOK(p)
  PROVE  LET r == ParseU32(p)
         IN  IF IsNum(T[x], U32) THEN r.val = T[x].val /\ Cursor(r.par, T, x + 1)
             ELSE r.par.error
<1>1. Cur(p) = T[x]
  BY CursorAt
<1>2. Cursor(Advance(p), T, x + 1)
  BY CursorAdvance
<1>3. Failed(p).error = TRUE
  BY FailedIs
<1>4. CASE IsNum(T[x], U32)
  <2>1. ParseU32(p) = [val |-> T[x].val, par |-> Advance(p)]
    BY <1>1, <1>4 DEF ParseU32, IsNum
  <2> QED BY <1>2, <1>4, <2>1
<1>5. CASE ~ IsNum(T[x], U32)
  <2>1. ParseU32(p) = [val |-> Zero, par |-> Failed(p)]
    BY <1>1, <1>5 DEF ParseU32, IsNum
  <2> QED BY <1>3, <1>5, <2>1
<1> QED BY <1>4, <1>5

LEMMA ReadsU8 ==
  ASSUME NEW T, NEW x, NEW p, Cursor(p, T, x), x <= Len(T), ParserOK(p)
  PROVE  LET r == ParseU8(p)
         IN  IF IsNum(T[x], U8) THEN r.val = T[x].val /\ Cursor(r.par, T, x + 1)
             ELSE r.par.error
<1> DEFINE r == ParseU32(p)
<1>1. IF IsNum(T[x], U32) THEN r.val = T[x].val /\ Cursor(r.par, T, x + 1) ELSE r.par.error
  BY ReadsU32
<1>2. ParserOK(r.par)
  BY ParseU32OK DEF SameTokens
<1>3. Failed(r.par).error = TRUE
  BY <1>2, FailedIs
<1>4. ParseU8(p) = IF r.val \in U8 THEN r ELSE [val |-> Zero, par |-> Failed(r.par)]
  BY DEF ParseU8
<1>5. IsNum(T[x], U8) <=> IsNum(T[x], U32) /\ T[x].val \in U8
  <2>1. U8 \subseteq U32
    BY DEF U8, U32
  <2> QED BY <2>1 DEF IsNum
<1> HIDE DEF r
<1>6. CASE r.val \in U8
  BY <1>1, <1>4, <1>5, <1>6
<1>7. CASE r.val \notin U8
  <2>1. ~ IsNum(T[x], U8)
    BY <1>1, <1>5, <1>7
  <2>2. ParseU8(p).par = Failed(r.par)
    BY <1>4, <1>7
  <2> QED BY <1>3, <2>1, <2>2
<1> QED BY <1>6, <1>7

LEMMA ReadsEid ==
  ASSUME NEW T, NEW x, NEW p, Cursor(p, T, x), x + 2 <= Len(T), ParserOK(p), NEW was,
         T[x].type = "array", IsNum(T[x + 1], U32), IsNum(T[x + 2], U32)
  PROVE  LET r == ParseEid(p, was, TRUE)
         IN  r.val = [scheme |-> T[x + 1].val, ssp |-> T[x + 2].val] /\ Cursor(r.par, T, x + 3)
<1> DEFINE q == Advance(p)
           one == ParseU32(q)
           two == ParseU32(one.par)
           r == ParseEid(p, was, TRUE)
<1>1. /\ x \in Nat /\ Len(T) \in Nat /\ x <= Len(T) /\ x + 1 <= Len(T)
      /\ (x + 1) + 1 = x + 2 /\ (x + 2) + 1 = x + 3 /\ x < Len(T)
  BY CursorAt
<1>2. Cur(p) = T[x] /\ More(p)
  BY <1>1, CursorAt
<1>3. Cursor(q, T, x + 1) /\ ParserOK(q)
  BY <1>1, CursorAdvance, AdvanceOK DEF SameTokens
<1> HIDE DEF q
<1>4. one.val = T[x + 1].val /\ Cursor(one.par, T, x + 2) /\ ParserOK(one.par)
  <2>1. ParserOK(one.par)
    BY <1>3, ParseU32OK DEF SameTokens
  <2>2. one.val = T[x + 1].val /\ Cursor(one.par, T, (x + 1) + 1)
    BY <1>1, <1>3, ReadsU32
  <2> QED BY <1>1, <2>1, <2>2
<1> HIDE DEF one
<1>5. two.val = T[x + 2].val /\ Cursor(two.par, T, (x + 2) + 1)
  BY <1>4, ReadsU32
<1> HIDE DEF two
<1>6. r = [val |-> [scheme |-> one.val, ssp |-> two.val], par |-> two.par]
  BY <1>2 DEF ParseEid, one, two, q
<1>7. Cursor(two.par, T, x + 3)
  BY <1>1, <1>5
<1> HIDE DEF r
<1>8. r.par = two.par
  BY <1>6
<1>9. r.val = [scheme |-> T[x + 1].val, ssp |-> T[x + 2].val]
  BY <1>4, <1>5, <1>6
<1> QED BY <1>7, <1>8, <1>9 DEF r

LEMMA ReadsSym ==
  ASSUME NEW T, NEW x, NEW p, Cursor(p, T, x), x <= Len(T), ParserOK(p), NEW syms, NEW first
  PROVE  LET r == ParseSym(p, syms, first)
         IN  /\ T[x].type # "string" => r.val = first /\ r.par.error
             /\ T[x].type = "string" =>
                  IF T[x].val \in syms THEN r.val = T[x].val /\ Cursor(r.par, T, x + 1)
                  ELSE r.val = NotNumber
<1>1. Cur(p) = T[x]
  BY CursorAt
<1>2. Cursor(Advance(p), T, x + 1)
  BY CursorAdvance
<1>3. Failed(p).error = TRUE
  BY FailedIs
<1> QED BY <1>1, <1>2, <1>3 DEF ParseSym

-----------------------------------------------------------------------------
(* What the first members of a document say *)

GivenParts(d, k) ==
  [n \in DOMAIN d.members |-> IF HasKey(d.members[n], k) THEN <<d.members[n].value>> ELSE << >>]
ListParts(d, k) ==
  [n \in DOMAIN d.members |-> IF HasKey(d.members[n], k) THEN d.members[n].value.elems ELSE << >>]

\* The values given for key k by the first n members, and how many elements the
\* lists given by them have.
GivenTo(d, k) == CHOOSE f : Flattening(GivenParts(d, k), f)
GivenBy(d, n, k) == GivenTo(d, k)[n]
ListTo(d, k) == CHOOSE f : Flattening(ListParts(d, k), f)
ListEnd(d, n, k) == Len(ListTo(d, k)[n])

LEMMA GivenSteps ==
  ASSUME NEW d, Plain(d), NEW k
  PROVE  /\ GivenBy(d, 0, k) = << >> /\ GivenBy(d, Len(d.members), k) = Given(d, k)
         /\ \A n \in 0 .. Len(d.members) : IsSeq(GivenBy(d, n, k))
         /\ \A n \in 1 .. Len(d.members) :
              GivenBy(d, n, k) = IF HasKey(d.members[n], k)
                                 THEN GivenBy(d, n - 1, k) \o <<d.members[n].value>>
                                 ELSE GivenBy(d, n - 1, k)
<1> DEFINE seqs == GivenParts(d, k)
           f == GivenTo(d, k)
           N == Len(d.members)
           part(n) == IF HasKey(d.members[n], k) THEN <<d.members[n].value>> ELSE << >>
<1>1. IsSeq(d.members) /\ N \in Nat /\ DOMAIN d.members = 1 .. N
  BY DEF Plain, IsSeq
<1>2. IsSeq(seqs) /\ Len(seqs) = N /\ \A n \in 1 .. N : seqs[n] = part(n)
  <2>1. seqs = [n \in DOMAIN d.members |-> seqs[n]] /\ \A n \in 1 .. N : seqs[n] = part(n)
    BY <1>1 DEF GivenParts
  <2> HIDE DEF seqs
  <2> QED BY <1>1, <2>1, MappedSeq
<1>3. \A n \in 1 .. N : IsSeq(seqs[n])
  <2> TAKE n \in 1 .. N
  <2>1. IsSeq(<<d.members[n].value>>) /\ IsSeq(<< >>)
    BY OneIs, NothingIs
  <2> QED BY <1>2, <2>1
<1>4. FlattenSeq(seqs) = Given(d, k)
  BY DEF GivenParts, Given
<1> HIDE DEF seqs
<1>5. Flattening(seqs, f)
  <2>1. \E g : Flattening(seqs, g)
    BY <1>2, <1>3, FlattenIs
  <2> QED BY <2>1 DEF GivenTo, seqs
<1> HIDE DEF f
<1>6. Places(seqs, f)
  BY <1>2, <1>3, <1>5, FlattenPlaces
<1>7. \A n : GivenBy(d, n, k) = f[n]
  BY DEF GivenBy, f
<1>8. \A n \in 0 .. N : IsSeq(f[n])
  BY <1>2, <1>6 DEF Places
<1>9. f[0] = << >> /\ f[N] = Given(d, k) /\ \A n \in 1 .. N : f[n] = f[n - 1] \o seqs[n]
  BY <1>2, <1>4, <1>5 DEF Flattening
<1>10. ASSUME NEW n \in 1 .. N
       PROVE  f[n] = IF HasKey(d.members[n], k) THEN f[n - 1] \o <<d.members[n].value>> ELSE f[n - 1]
  <2>1. n - 1 \in 0 .. N
    BY <1>1
  <2>2. IsSeq(f[n - 1])
    BY <1>8, <2>1
  <2> DEFINE s == f[n - 1]
  <2> HIDE DEF s
  <2>3. s \o << >> = s
    BY <2>2, ConcatNothing DEF s
  <2>4. f[n] = s \o part(n)
    BY <1>2, <1>9 DEF s
  <2> QED BY <2>3, <2>4 DEF s
<1> QED BY <1>7, <1>8, <1>9, <1>10

LEMMA ListSteps ==
  ASSUME NEW d, Plain(d), NEW k
  PROVE  /\ IsSeq(ListOf(d, k))
         /\ ListEnd(d, 0, k) = 0 /\ ListEnd(d, Len(d.members), k) = Len(ListOf(d, k))
         /\ \A n \in 0 .. Len(d.members) :
              ListEnd(d, n, k) \in Nat /\ ListEnd(d, n, k) <= Len(ListOf(d, k))
         /\ \A n \in 1 .. Len(d.members) :
              IF HasKey(d.members[n], k)
              THEN LET es == d.members[n].value.elems
                   IN  /\ ListEnd(d, n, k) = ListEnd(d, n - 1, k) + Len(es)
                       /\ \A i \in 1 .. Len(es) : ListOf(d, k)[ListEnd(d, n - 1, k) + i] = es[i]
              ELSE ListEnd(d, n, k) = ListEnd(d, n - 1, k)
<1> DEFINE seqs == ListParts(d, k)
           f == ListTo(d, k)
           N == Len(d.members)
           all == ListOf(d, k)
           es(n) == d.members[n].value.elems
           part(n) == IF HasKey(d.members[n], k) THEN es(n) ELSE << >>
<1>1. IsSeq(d.members) /\ N \in Nat /\ DOMAIN d.members = 1 .. N
      /\ \A n \in 1 .. N : IsSeq(es(n))
  <2>1. \A n \in 1 .. N : PlainValue(d.members[n].value)
    BY DEF Plain
  <2>2. \A n \in 1 .. N : IsSeq(es(n))
    BY <2>1, PlainElems
  <2> QED BY <2>2 DEF Plain, IsSeq
<1>2. IsSeq(seqs) /\ Len(seqs) = N /\ \A n \in 1 .. N : seqs[n] = part(n)
  <2>1. seqs = [n \in DOMAIN d.members |-> seqs[n]] /\ \A n \in 1 .. N : seqs[n] = part(n)
    BY <1>1 DEF ListParts
  <2> HIDE DEF seqs
  <2> QED BY <1>1, <2>1, MappedSeq
<1>3. \A n \in 1 .. N : IsSeq(seqs[n])
  <2> TAKE n \in 1 .. N
  <2>1. IsSeq(es(n)) /\ IsSeq(<< >>)
    BY <1>1, NothingIs
  <2> QED BY <1>2, <2>1
<1>4. FlattenSeq(seqs) = all
  BY DEF ListParts, ListOf
<1> HIDE DEF seqs
<1>5. Flattening(seqs, f)
  <2>1. \E g : Flattening(seqs, g)
    BY <1>2, <1>3, FlattenIs
  <2> QED BY <2>1 DEF ListTo, seqs
<1> HIDE DEF f, all
<1>6. Places(seqs, f) /\ f[0] = << >> /\ f[N] = all /\ Len(f[0]) = 0
  <2>1. Places(seqs, f)
    BY <1>2, <1>3, <1>5, FlattenPlaces
  <2> QED BY <1>2, <1>4, <1>5, <2>1, NothingIs DEF Flattening
<1>7. \A n : ListEnd(d, n, k) = Len(f[n])
  BY DEF ListEnd, f
<1>8. \A n \in 0 .. N : IsSeq(f[n]) /\ Len(f[n]) \in Nat /\ Len(f[n]) <= Len(all)
  BY <1>2, <1>6 DEF Places
<1>9. IsSeq(all)
  <2>1. N \in 0 .. N
    BY <1>1
  <2> QED BY <1>6, <1>8, <2>1
<1>10. ASSUME NEW n \in 1 .. N
       PROVE  IF HasKey(d.members[n], k)
              THEN /\ ListEnd(d, n, k) = ListEnd(d, n - 1, k) + Len(es(n))
                   /\ \A i \in 1 .. Len(es(n)) : all[ListEnd(d, n - 1, k) + i] = es(n)[i]
              ELSE ListEnd(d, n, k) = ListEnd(d, n - 1, k)
  <2> DEFINE a == ListEnd(d, n - 1, k)
  <2>1. /\ ListEnd(d, n, k) = a + Len(seqs[n])
        /\ \A i \in 1 .. Len(seqs[n]) : all[a + i] = seqs[n][i]
    <3>1. /\ Len(f[n]) = Len(f[n - 1]) + Len(seqs[n])
          /\ \A i \in 1 .. Len(seqs[n]) : f[N][Len(f[n - 1]) + i] = seqs[n][i]
      BY <1>2, <1>6 DEF Places
    <3>2. Len(f[n - 1]) = a /\ Len(f[n]) = ListEnd(d, n, k)
      BY <1>7
    <3> QED BY <1>6, <3>1, <3>2
  <2>2. a \in Nat
    <3>1. n - 1 \in 0 .. N
      BY <1>1
    <3> QED BY <1>7, <1>8, <3>1
  <2> HIDE DEF a
  <2>3. CASE HasKey(d.members[n], k)
    <3>1. seqs[n] = es(n)
      BY <1>2, <2>3
    <3> HIDE DEF es
    <3> QED BY <2>1, <2>3, <3>1 DEF a
  <2>4. CASE ~ HasKey(d.members[n], k)
    <3>1. Len(seqs[n]) = 0
      BY <1>2, <2>4, NothingIs
    <3> QED BY <2>1, <2>2, <2>4, <3>1 DEF a
  <2> QED BY <2>3, <2>4
<1>11. ListEnd(d, 0, k) = 0 /\ ListEnd(d, N, k) = Len(all)
       /\ \A n \in 0 .. N : ListEnd(d, n, k) \in Nat /\ ListEnd(d, n, k) <= Len(all)
  BY <1>6, <1>7, <1>8
<1> QED BY <1>9, <1>10, <1>11 DEF all

\* How many tokens there are up to an element of the value of a member.
ElemAt(d, n, j) == Behind(d, n - 1) + (2 + ElemEnd(d.members[n].value, j))

\* The elements of the value of a member are where they ought to be.
ElemsLaid(d, n) ==
  LET T == Tokens(d)
      es == d.members[n].value.elems
  IN  /\ Len(T) \in Nat
      /\ \A j \in 0 .. Len(es) : ElemAt(d, n, j) \in Nat /\ ElemAt(d, n, j) <= Len(T)
      /\ \A j \in 1 .. Len(es) :
           /\ ElemAt(d, n, j) = ElemAt(d, n, j - 1) + (1 + Len(es[j].elems))
           /\ T[ElemAt(d, n, j - 1) + 1] = Tok(es[j])
           /\ \A i \in 1 .. Len(es[j].elems) :
                T[ElemAt(d, n, j - 1) + (1 + i)] = Tok(es[j].elems[i])

LEMMA MemberHere ==
  ASSUME NEW d, Plain(d), Len(d.head) = 2, NEW n \in 1 .. Len(d.members)
  PROVE  LET T == Tokens(d)
             m == d.members[n]
             es == m.value.elems
         IN  /\ IsSeq(T) /\ Len(T) \in Nat /\ Behind(d, n - 1) \in Nat /\ Behind(d, n - 1) + 2 <= Len(T)
             /\ T[Behind(d, n - 1) + 1] = Tok(m.key) /\ T[Behind(d, n - 1) + 2] = Tok(m.value)
             /\ ElemAt(d, n, 0) = Behind(d, n - 1) + 2 /\ ElemAt(d, n, Len(es)) = Behind(d, n)
             /\ ElemsLaid(d, n)
<1> DEFINE T == Tokens(d)
           m == d.members[n]
           v == m.value
           es == v.elems
           t == ValueTokens(v)
           b == Behind(d, n - 1)
           K == Len(es)
           E(j) == ElemEnd(v, j)
<1>1. PlainValue(v)
  BY DEF Plain
<1> HIDE DEF v
<1>2. /\ IsSeq(t) /\ Len(t) = 1 + E(K) /\ t[1] = Tok(v)
      /\ E(0) = 0 /\ \A j \in 0 .. K : E(j) \in Nat
      /\ \A j \in 1 .. K :
           /\ E(j) = E(j - 1) + (1 + Len(es[j].elems))
           /\ E(j) <= E(K)
           /\ t[1 + (E(j - 1) + 1)] = Tok(es[j])
           /\ \A i \in 1 .. Len(es[j].elems) : t[1 + (E(j - 1) + (1 + i))] = Tok(es[j].elems[i])
  BY <1>1, ElemPlaces
<1>3. /\ IsSeq(es) /\ K \in Nat /\ \A j \in 1 .. K : IsSeq(es[j].elems)
  BY <1>1, PlainElems
<1>4. Len(d.members) \in Nat /\ n - 1 \in 0 .. Len(d.members) /\ n \in 0 .. Len(d.members)
  BY DEF Plain, IsSeq
<1>5. /\ IsSeq(T) /\ b \in Nat /\ Behind(d, n) \in Nat /\ Behind(d, n) <= Len(T)
      /\ Behind(d, n) = b + (1 + Len(t))
      /\ T[b + 1] = Tok(m.key)
      /\ \A i \in 1 .. Len(t) : T[b + (1 + i)] = t[i]
  BY <1>4, MemberPlaces DEF v
<1>6. \A j : ElemAt(d, n, j) = b + (2 + E(j))
  BY DEF ElemAt, v
<1>7. Len(T) \in Nat
  BY <1>5 DEF IsSeq
<1> HIDE DEF T, m, v, es, t, b, K, E
<1>8. E(K) \in Nat /\ E(0) = 0 /\ Len(t) = 1 + E(K)
  BY <1>2, <1>3
<1>9. b + 2 <= Len(T) /\ b + (2 + E(K)) = Behind(d, n) /\ b + (2 + 0) = b + 2
  BY <1>5, <1>7, <1>8
<1>10. T[b + 2] = Tok(v)
  <2>1. 1 \in 1 .. Len(t) /\ b + (1 + 1) = b + 2
    BY <1>5, <1>8
  <2> QED BY <1>2, <1>5, <2>1
<1>11. ASSUME NEW j \in 0 .. K PROVE b + (2 + E(j)) \in Nat /\ b + (2 + E(j)) <= Len(T)
  <2>1. E(j) \in Nat
    BY <1>2
  <2>2. E(j) <= E(K)
    <3>1. CASE j = 0
      BY <1>8, <3>1
    <3>2. CASE j # 0
      <4>1. j \in 1 .. K
        BY <1>3, <3>2
      <4> QED BY <1>2, <4>1
    <3> QED BY <3>1, <3>2
  <2> DEFINE e == E(j)
             last == E(K)
             all == Len(T)
  <2>3. /\ b \in Nat /\ all \in Nat /\ e \in Nat /\ last \in Nat /\ e <= last
        /\ b + (2 + last) <= all
    BY <1>5, <1>7, <1>8, <1>9, <2>1, <2>2
  <2> HIDE DEF e, last, all
  <2>4. b + (2 + e) \in Nat /\ b + (2 + e) <= all
    BY <2>3
  <2> QED BY <2>4 DEF e, all
<1>12. ASSUME NEW j \in 1 .. K
       PROVE  /\ b + (2 + E(j)) = (b + (2 + E(j - 1))) + (1 + Len(es[j].elems))
              /\ T[(b + (2 + E(j - 1))) + 1] = Tok(es[j])
              /\ \A i \in 1 .. Len(es[j].elems) :
                   T[(b + (2 + E(j - 1))) + (1 + i)] = Tok(es[j].elems[i])
  <2> DEFINE a == E(j - 1)
             c == Len(es[j].elems)
  <2>1. j - 1 \in 0 .. K
    BY <1>3
  <2>2. a \in Nat /\ c \in Nat /\ E(j) = a + (1 + c) /\ E(j) <= E(K)
    BY <1>2, <1>3, <2>1 DEF IsSeq
  <2>3. t[1 + (a + 1)] = Tok(es[j]) /\ \A i \in 1 .. c : t[1 + (a + (1 + i))] = Tok(es[j].elems[i])
    BY <1>2
  <2> HIDE DEF a, c
  <2>4. ASSUME NEW i \in 0 .. c
        PROVE  1 + (a + (1 + i)) \in 1 .. Len(t)
               /\ b + (1 + (1 + (a + (1 + i)))) = (b + (2 + a)) + (1 + i)
    BY <1>5, <1>8, <2>2
  <2>5. T[(b + (2 + a)) + 1] = Tok(es[j])
    <3>1. 0 \in 0 .. c /\ 1 + 0 = 1
      BY <2>2
    <3>2. 1 + (a + 1) \in 1 .. Len(t) /\ b + (1 + (1 + (a + 1))) = (b + (2 + a)) + 1
      BY <2>4, <3>1
    <3>3. T[b + (1 + (1 + (a + 1)))] = t[1 + (a + 1)]
      BY <1>5, <3>2
    <3> QED BY <2>3, <3>2, <3>3
  <2>6. ASSUME NEW i \in 1 .. c PROVE T[(b + (2 + a)) + (1 + i)] = Tok(es[j].elems[i])
    <3>1. i \in 0 .. c
      BY <2>2
    <3>2. 1 + (a + (1 + i)) \in 1 .. Len(t)
          /\ b + (1 + (1 + (a + (1 + i)))) = (b + (2 + a)) + (1 + i)
      BY <2>4, <3>1
    <3>3. T[b + (1 + (1 + (a + (1 + i))))] = t[1 + (a + (1 + i))]
      BY <1>5, <3>2
    <3> QED BY <2>3, <3>2, <3>3
  <2>7. b + (2 + (a + (1 + c))) = (b + (2 + a)) + (1 + c)
    BY <1>5, <2>2
  <2> QED BY <2>2, <2>5, <2>6, <2>7 DEF a, c
<1>13. ElemAt(d, n, 0) = b + 2 /\ ElemAt(d, n, K) = Behind(d, n)
  BY <1>6, <1>8, <1>9
<1>14. \A j \in 0 .. K : ElemAt(d, n, j) \in Nat /\ ElemAt(d, n, j) <= Len(T)
  BY <1>6, <1>11
<1>15. ASSUME NEW j \in 1 .. K
       PROVE  /\ ElemAt(d, n, j) = ElemAt(d, n, j - 1) + (1 + Len(es[j].elems))
              /\ T[ElemAt(d, n, j - 1) + 1] = Tok(es[j])
              /\ \A i \in 1 .. Len(es[j].elems) :
                   T[ElemAt(d, n, j - 1) + (1 + i)] = Tok(es[j].elems[i])
  BY <1>6, <1>12
<1>16. ElemsLaid(d, n)
  BY <1>7, <1>14, <1>15 DEF ElemsLaid, T, m, v, es, K
<1> QED BY <1>5, <1>7, <1>9, <1>10, <1>13, <1>16 DEF T, m, v, es, b, K

-----------------------------------------------------------------------------
(* How far unserializing is *)

\* The key of the list of a block, and what a value becomes in a field and in
\* the list.
ListKey(type) == IF type = "primary" THEN "eids" ELSE "refs"
FieldOf(type, k, v) == IF KindOf[type][k] = "eid" THEN EidOf(v) ELSE v.val
ItemOf(type, v) == IF type = "primary" THEN v.val ELSE EidOf(v)

FieldAfter(d, n, k) ==
  LET vs == GivenBy(d, n, k)
  IN  IF vs = << >> THEN NewBlock(TypeOf(d)).fields[k] ELSE FieldOf(TypeOf(d), k, vs[Len(vs)])

\* A member is as well-formed documents have it.
FitsAt(d, n) ==
  LET m == d.members[n]
  IN  /\ m.key.type = "string" /\ m.key.val \in Keys(TypeOf(d))
      /\ Fits(KindOf[TypeOf(d)][m.key.val], m.value)
FitTo(d, n) == \A i \in 1 .. n : FitsAt(d, i)

\* The block and the symbols after n members, with c items in the list.
Filled(n, c) ==
  LET type == TypeOf(doc)
  IN  /\ block.type = type
      /\ block.fields = [k \in DOMAIN NewBlock(type).fields |-> FieldAfter(doc, n, k)]
      /\ Len(block.list) = c
      /\ \A i \in 1 .. c : block.list[i] = ItemOf(type, ListOf(doc, ListKey(type))[i])
      /\ symbols = {k \in Keys(type) : GivenBy(doc, n, k) # << >>}

\* n members are done, and the loop goes on or ends.
AtMember(n) ==
  /\ pc = "member"
  /\ n \in 0 .. Len(doc.members)
  /\ Cursor(par, Tokens(doc), Behind(doc, n) + 1)
  /\ Filled(n, ListEnd(doc, n, ListKey(TypeOf(doc))))
  /\ FitTo(doc, n)

\* j elements of the list that is the value of the nth member are done.
AtElem(n, j) ==
  LET type == TypeOf(doc)
      es   == doc.members[n].value.elems
  IN  /\ pc = ListKey(type)
      /\ n \in 1 .. Len(doc.members) /\ HasKey(doc.members[n], ListKey(type))
      /\ doc.members[n].value.type = "array"
      /\ j \in 0 .. Len(es) /\ left = Len(es) - j
      /\ Cursor(par, Tokens(doc), ElemAt(doc, n, j) + 1)
      /\ Filled(n, ListEnd(doc, n - 1, ListKey(type)) + j)
      /\ FitTo(doc, n - 1)
      /\ pc = "eids" => \A i \in 1 .. j : es[i].type = "string"

\* Documents whose head the code takes for one, and that it may accept.
Known(d) ==
  /\ Plain(d) /\ Len(d.head) = 2
  /\ d.head[1].type = "string" /\ TypeOf(d) \in BlockTypes
  /\ ~ HasBadEid(d)
  /\ Len(Tokens(d)) <= MaxTokens

\* The error flag is set, and this is not forgotten.
Failing ==
  /\ par.error
  /\ (pc = "member" /\ symbols = {}) \/ pc \in {"eids", "refs"}

\* The head names no type.
Doomed == doc.head[1].type # "string" /\ Failing

Stage ==
  \/ pc = "begin" /\ Cursor(par, Tokens(doc), 1) /\ Len(Tokens(doc)) <= MaxTokens
  \/ pc = "rejected" /\ ~ WellFormed(doc)
  \/ pc = "accepted" /\ WellFormed(doc) /\ block = Meaning(doc)
  \/ Known(doc) /\ \E n : AtMember(n)
  \/ Known(doc) /\ \E n, j : AtElem(n, j)
  \/ Doomed

LEMMA SymbolKinds ==
  ASSUME NEW type \in BlockTypes
  PROVE  /\ ListKey(type) \in Keys(type) /\ KindOf[type][ListKey(type)] = ListKey(type)
         /\ FirstKey[type] \in Keys(type) /\ KindOf[type][FirstKey[type]] = "u8"
         /\ NotNumber \notin Keys(type)
         /\ \A k \in Keys(type) :
              /\ KindOf[type][k] \in {"u8", "u32", "eid", "eids", "refs"}
              /\ KindOf[type][k] \in {"eids", "refs"} <=> k = ListKey(type)
         /\ DOMAIN NewBlock(type).fields = Keys(type) \ {ListKey(type)}
<1>1. NotNumber \notin Keys(type)
  BY SymbolsAssumption DEF BlockTypes
<1>2. DOMAIN NewBlock(type).fields = {k \in Keys(type) : KindOf[type][k] \in {"u8", "u32", "eid"}}
  BY DEF NewBlock
<1>3. CASE type = "primary"
  <2>1. /\ ListKey(type) = "eids" /\ FirstKey[type] = "version" /\ KindOf[type] = PrimaryKinds
        /\ Keys(type) = DOMAIN PrimaryKinds
    BY <1>3 DEF ListKey, FirstKey, KindOf, Keys
  <2>2. /\ "eids" \in DOMAIN PrimaryKinds /\ PrimaryKinds["eids"] = "eids"
        /\ "version" \in DOMAIN PrimaryKinds /\ PrimaryKinds["version"] = "u8"
        /\ \A k \in DOMAIN PrimaryKinds :
             /\ PrimaryKinds[k] \in {"u8", "u32", "eid", "eids", "refs"}
             /\ PrimaryKinds[k] \in {"eids", "refs"} <=> k = "eids"
             /\ PrimaryKinds[k] \in {"u8", "u32", "eid"} <=> k # "eids"
    BY DEF PrimaryKinds
  <2> QED BY <1>1, <1>2, <2>1, <2>2
<1>4. CASE type = "extension"
  <2>1. /\ ListKey(type) = "refs" /\ FirstKey[type] = "type" /\ KindOf[type] = ExtKinds
        /\ Keys(type) = DOMAIN ExtKinds
    BY <1>4 DEF ListKey, FirstKey, KindOf, Keys
  <2>2. /\ "refs" \in DOMAIN ExtKinds /\ ExtKinds["refs"] = "refs"
        /\ "type" \in DOMAIN ExtKinds /\ ExtKinds["type"] = "u8"
        /\ \A k \in DOMAIN ExtKinds :
             /\ ExtKinds[k] \in {"u8", "u32", "eid", "eids", "refs"}
             /\ ExtKinds[k] \in {"eids", "refs"} <=> k = "refs"
             /\ ExtKinds[k] \in {"u8", "u32", "eid"} <=> k # "refs"
    BY DEF ExtKinds
  <2> QED BY <1>1, <1>2, <2>1, <2>2
<1> QED BY <1>3, <1>4 DEF BlockTypes

\* The key of the nth member is k.
MemberOf(d, n, k) == n \in 1 .. Len(d.members) /\ HasKey(d.members[n], k)

\* What a member adds to what the document says.
LEMMA MemberAdds ==
  ASSUME NEW d, Plain(d), NEW n, NEW k, MemberOf(d, n, k)
  PROVE  /\ GivenBy(d, n, k) # << >>
         /\ FieldAfter(d, n, k) = FieldOf(TypeOf(d), k, d.members[n].value)
         /\ \A l : l # k =>
              /\ GivenBy(d, n, l) = GivenBy(d, n - 1, l)
              /\ FieldAfter(d, n, l) = FieldAfter(d, n - 1, l)
              /\ ListEnd(d, n, l) = ListEnd(d, n - 1, l)
<1> DEFINE s == GivenBy(d, n - 1, k)
           v == d.members[n].value
<1>1. n \in 1 .. Len(d.members) /\ HasKey(d.members[n], k) /\ n - 1 \in 0 .. Len(d.members)
  BY DEF Plain, IsSeq, MemberOf
<1>2. GivenBy(d, n, k) = s \o <<v>> /\ IsSeq(s)
  BY <1>1, GivenSteps
<1> HIDE DEF s, v
<1>3. /\ IsSeq(s \o <<v>>) /\ Len(s \o <<v>>) = Len(s) + 1 /\ (s \o <<v>>)[Len(s) + 1] = v
      /\ Len(s) \in Nat
  <2>1. IsSeq(<<v>>) /\ Len(<<v>>) = 1 /\ <<v>>[1] = v /\ 1 \in 1 .. Len(<<v>>)
    BY OneIs
  <2>2. /\ IsSeq(s \o <<v>>) /\ Len(s \o <<v>>) = Len(s) + Len(<<v>>)
        /\ \A i \in 1 .. Len(<<v>>) : (s \o <<v>>)[Len(s) + i] = <<v>>[i]
    BY <1>2, <2>1, ConcatIs
  <2> QED BY <1>2, <2>1, <2>2 DEF IsSeq
<1>4. GivenBy(d, n, k) # << >>
  BY <1>2, <1>3, NothingIs
<1>5. FieldAfter(d, n, k) = FieldOf(TypeOf(d), k, v)
  BY <1>2, <1>3, <1>4 DEF FieldAfter
<1>6. ASSUME NEW l, l # k
      PROVE  /\ GivenBy(d, n, l) = GivenBy(d, n - 1, l)
             /\ ListEnd(d, n, l) = ListEnd(d, n - 1, l)
  <2>1. ~ HasKey(d.members[n], l)
    BY <1>1, <1>6 DEF HasKey
  <2> QED BY <1>1, <2>1, GivenSteps, ListSteps
<1>7. ASSUME NEW l, l # k PROVE FieldAfter(d, n, l) = FieldAfter(d, n - 1, l)
  BY <1>6, <1>7 DEF FieldAfter
<1> QED BY <1>4, <1>5, <1>6, <1>7 DEF v

\* One member that does not fit is enough.
LEMMA MisfitIsBad ==
  ASSUME NEW d, Plain(d), NEW n \in 1 .. Len(d.members), ~ FitsAt(d, n)
  PROVE  ~ WellFormed(d)
<1>1. DOMAIN d.members = 1 .. Len(d.members)
  BY DEF Plain, IsSeq
<1> QED BY <1>1 DEF FitsAt, WellFormed

\* The tokens at the top of a turn.
LEMMA TurnHere ==
  ASSUME TypeIInv, Known(doc), NEW m, AtMember(m), More(par), NEW n, n = m + 1
  PROVE  LET mem == doc.members[n]
             x == ElemAt(doc, n, 0)
         IN  /\ n \in 1 .. Len(doc.members) /\ m = n - 1
             /\ block.type = TypeOf(doc)
             /\ x <= Len(Tokens(doc)) /\ Tokens(doc)[x] = Tok(mem.value) /\ ParserOK(Sym.par)
             /\ mem.key.type # "string" => Sym.val = FirstKey[block.type] /\ Sym.par.error
             /\ mem.key.type = "string" =>
                  IF mem.key.val \in Keys(block.type)
                  THEN Sym.val = mem.key.val /\ Cursor(Sym.par, Tokens(doc), x)
                  ELSE Sym.val = NotNumber
<1> DEFINE T == Tokens(doc)
           N == Len(doc.members)
           mem == doc.members[n]
           b == Behind(doc, m)
<1>1. Plain(doc) /\ Len(doc.head) = 2 /\ N \in Nat /\ m \in 0 .. N
  BY DEF Known, AtMember, Plain, IsSeq
<1>2. /\ block.type = TypeOf(doc) /\ Cursor(par, T, b + 1) /\ ParserOK(par)
  BY DEF AtMember, Filled, TypeIInv
<1>3. n \in 1 .. N /\ m = n - 1
  <2>1. CASE m = N
    <3>1. b = Len(T)
      BY <1>1, <2>1, MemberPlaces
    <3>2. b + 1 < Len(T)
      BY <1>2, CursorAt
    <3>3. Len(T) \in Nat
      BY <1>2 DEF Cursor, IsSeq
    <3> QED BY <3>1, <3>2, <3>3
  <2>2. CASE m # N
    BY <1>1, <2>2
  <2> QED BY <2>1, <2>2
<1>4. /\ b \in Nat /\ b + 2 <= Len(T) /\ T[b + 1] = Tok(mem.key) /\ T[b + 2] = Tok(mem.value)
      /\ ElemAt(doc, n, 0) = b + 2 /\ Len(T) \in Nat
  <2>1. /\ Behind(doc, n - 1) \in Nat /\ Behind(doc, n - 1) + 2 <= Len(Tokens(doc))
        /\ Tokens(doc)[Behind(doc, n - 1) + 1] = Tok(doc.members[n].key)
        /\ Tokens(doc)[Behind(doc, n - 1) + 2] = Tok(doc.members[n].value)
        /\ ElemAt(doc, n, 0) = Behind(doc, n - 1) + 2 /\ Len(Tokens(doc)) \in Nat
    BY <1>1, <1>3, MemberHere
  <2> QED BY <1>3, <2>1
<1>5. b + 1 <= Len(T) /\ (b + 1) + 1 = b + 2
  BY <1>4
<1> DEFINE syms == Keys(block.type)
           first == FirstKey[block.type]
           r == ParseSym(par, syms, first)
<1> HIDE DEF T, b, mem, N
<1>6. /\ T[b + 1].type # "string" => r.val = first /\ r.par.error
      /\ T[b + 1].type = "string" =>
           IF T[b + 1].val \in syms THEN r.val = T[b + 1].val /\ Cursor(r.par, T, (b + 1) + 1)
           ELSE r.val = NotNumber
  <2> HIDE DEF syms, first
  <2> QED BY <1>2, <1>5, ReadsSym
<1>7. T[b + 1].type = mem.key.type /\ T[b + 1].val = mem.key.val
  BY <1>4 DEF Tok
<1>8. Sym = r
  BY DEF Sym
<1>9. ParserOK(r.par)
  <2>1. block.type \in BlockTypes
    BY <1>2 DEF Known
  <2>2. first \in syms
    BY <2>1, SymbolKinds
  <2> HIDE DEF syms, first
  <2> QED BY <1>2, <2>2, ParseSymOK DEF SameTokens
<1> HIDE DEF r
<1>10. ElemAt(doc, n, 0) <= Len(T) /\ T[ElemAt(doc, n, 0)] = Tok(mem.value)
  BY <1>4
<1>11. /\ mem.key.type # "string" => r.val = first /\ r.par.error
       /\ mem.key.type = "string" =>
            IF mem.key.val \in syms THEN r.val = mem.key.val /\ Cursor(r.par, T, ElemAt(doc, n, 0))
            ELSE r.val = NotNumber
  BY <1>4, <1>5, <1>6, <1>7
<1> QED BY <1>2, <1>3, <1>8, <1>9, <1>10, <1>11 DEF T, N, mem

\* A value of a member that fits is assigned.
LEMMA AssignHere ==
  ASSUME TypeIInv, Known(doc), NEW n \in 1 .. Len(doc.members), AtMember(n - 1),
         NEW kinds, Turn(kinds), NEW r, Assign(r),
         HasKey(doc.members[n], Sym.val), Sym.val # ListKey(TypeOf(doc)), FitsAt(doc, n),
         r.val = FieldOf(TypeOf(doc), Sym.val, doc.members[n].value),
         Cursor(r.par, Tokens(doc), Behind(doc, n) + 1)
  PROVE  AtMember(n)'
<1> DEFINE k == Sym.val
           type == TypeOf(doc)
           v == doc.members[n].value
           fs(m) == [l \in DOMAIN NewBlock(type).fields |-> FieldAfter(doc, m, l)]
<1>1. /\ block.type = type /\ block.fields = fs(n - 1)
      /\ Len(block.list) = ListEnd(doc, n - 1, ListKey(type))
      /\ \A i \in 1 .. ListEnd(doc, n - 1, ListKey(type)) :
            block.list[i] = ItemOf(type, ListOf(doc, ListKey(type))[i])
      /\ symbols = {l \in Keys(type) : GivenBy(doc, n - 1, l) # << >>}
      /\ FitTo(doc, n - 1)
  BY DEF AtMember, Filled
<1>2. Plain(doc) /\ type \in BlockTypes /\ Len(doc.members) \in Nat
  BY DEF Known, Plain, IsSeq
<1>3. k \in Keys(type) /\ TypedBlock
  BY <1>1, TurnOK
<1>4. /\ symbols' = symbols \cup {k} /\ doc' = doc /\ par' = r.par
      /\ pc' = (IF par'.error THEN "rejected" ELSE "member")
      /\ block' = [block EXCEPT !.fields[k] = r.val]
  BY DEF Turn, Assign, GoOn
<1>5. ~ r.par.error
  BY CursorAt
<1>6. /\ GivenBy(doc, n, k) # << >> /\ FieldAfter(doc, n, k) = FieldOf(type, k, v)
      /\ \A l : l # k =>
           /\ GivenBy(doc, n, l) = GivenBy(doc, n - 1, l)
           /\ FieldAfter(doc, n, l) = FieldAfter(doc, n - 1, l)
           /\ ListEnd(doc, n, l) = ListEnd(doc, n - 1, l)
  <2>1. MemberOf(doc, n, k)
    BY DEF MemberOf
  <2> QED BY <1>2, <2>1, MemberAdds
<1>7. r.val = FieldOf(type, k, v) /\ k # ListKey(type)
  OBVIOUS
<1> HIDE DEF k, v
<1>8. block'.type = type /\ block'.list = block.list
      /\ block'.fields = [block.fields EXCEPT ![k] = r.val]
  <2>1. block = [type |-> block.type, fields |-> block.fields, list |-> block.list]
    BY <1>3 DEF TypedBlock
  <2> QED BY <1>1, <1>4, <2>1
<1>9. block'.fields = fs(n)
  <2>1. [fs(n - 1) EXCEPT ![k] = r.val] = fs(n)
    <3>1. DOMAIN fs(n - 1) = DOMAIN NewBlock(type).fields
          /\ DOMAIN fs(n) = DOMAIN NewBlock(type).fields
      OBVIOUS
    <3>2. ASSUME NEW l \in DOMAIN NewBlock(type).fields
          PROVE  [fs(n - 1) EXCEPT ![k] = r.val][l] = fs(n)[l]
      BY <1>6, <1>7
    <3> QED BY <3>1, <3>2
  <2> HIDE DEF fs
  <2> QED BY <1>1, <1>8, <2>1
<1>10. symbols' = {l \in Keys(type) : GivenBy(doc, n, l) # << >>}
  BY <1>1, <1>3, <1>4, <1>6
<1>11. ListEnd(doc, n, ListKey(type)) = ListEnd(doc, n - 1, ListKey(type))
  BY <1>6, <1>7
<1>12. FitTo(doc, n)
  <2>1. \A i \in 1 .. n : i = n \/ i \in 1 .. n - 1
    BY <1>2
  <2> QED BY <1>1, <2>1 DEF FitTo
<1>13. n \in 0 .. Len(doc.members)
  BY <1>2
<1>14. pc' = "member" /\ Cursor(par', Tokens(doc), Behind(doc, n) + 1)
  BY <1>4, <1>5
<1> HIDE DEF fs
<1>15. Filled(n, ListEnd(doc, n, ListKey(type)))'
  <2>1. /\ block'.type = TypeOf(doc)
        /\ block'.fields = [l \in DOMAIN NewBlock(TypeOf(doc)).fields |-> FieldAfter(doc, n, l)]
        /\ Len(block'.list) = ListEnd(doc, n, ListKey(TypeOf(doc)))
        /\ \A i \in 1 .. ListEnd(doc, n, ListKey(TypeOf(doc))) :
             block'.list[i] = ItemOf(TypeOf(doc), ListOf(doc, ListKey(TypeOf(doc)))[i])
        /\ symbols' = {l \in Keys(TypeOf(doc)) : GivenBy(doc, n, l) # << >>}
    BY <1>1, <1>8, <1>9, <1>10, <1>11 DEF fs
  <2> QED BY <1>4, <2>1 DEF Filled
<1> QED BY <1>4, <1>12, <1>13, <1>14, <1>15 DEF AtMember

\* A member whose value is a number.
LEMMA NumberStep ==
  ASSUME TypeIInv, Known(doc), NEW m, AtMember(m), U8Member \/ U32Member
  PROVE  AtMember(m + 1)' \/ (pc' = "rejected" /\ ~ WellFormed(doc))
<1> DEFINE n == m + 1
           mem == doc.members[n]
           v == mem.value
           T == Tokens(doc)
           x == ElemAt(doc, n, 0)
           q == Sym.par
           k == Sym.val
           type == TypeOf(doc)
<1>1. PICK kind \in {"u8", "u32"} :
        /\ Turn({kind})
        /\ Assign(IF kind = "u8" THEN ParseU8(q) ELSE ParseU32(q))
  BY DEF U8Member, U32Member
<1> DEFINE r == IF kind = "u8" THEN ParseU8(q) ELSE ParseU32(q)
           width == IF kind = "u8" THEN U8 ELSE U32
<1>2. More(par) /\ k # NotNumber /\ KindOf[block.type][k] = kind /\ k \in Keys(block.type)
  BY <1>1, TurnOK DEF Turn
<1>3. /\ n \in 1 .. Len(doc.members) /\ m = n - 1 /\ block.type = type
      /\ x <= Len(T) /\ T[x] = Tok(v) /\ ParserOK(q)
      /\ mem.key.type # "string" => q.error
      /\ mem.key.type = "string" =>
           IF mem.key.val \in Keys(block.type) THEN k = mem.key.val /\ Cursor(q, T, x)
           ELSE k = NotNumber
  BY <1>2, TurnHere
<1>4. Plain(doc) /\ Len(doc.head) = 2 /\ type \in BlockTypes
  BY DEF Known
<1>5. Assign(r)
  BY <1>1
<1> HIDE DEF n, x, q, k, T, type
<1>6. CASE r.par.error /\ ~ FitsAt(doc, n)
  <2>1. pc' = "rejected"
    BY <1>5, <1>6 DEF Assign, GoOn
  <2> HIDE DEF r
  <2> QED BY <1>3, <1>4, <1>6, <2>1, MisfitIsBad
<1>7. CASE mem.key.type # "string"
  <2>1. ParseU8(q).par.error /\ ParseU32(q).par.error
    BY <1>3, <1>7, ErrorStays
  <2>2. r.par.error
    BY <2>1
  <2>3. ~ FitsAt(doc, n)
    BY <1>7 DEF FitsAt
  <2> QED BY <1>6, <2>2, <2>3
<1>8. CASE mem.key.type = "string"
  <2>1. k = mem.key.val /\ Cursor(q, T, x) /\ HasKey(mem, k)
    BY <1>2, <1>3, <1>8 DEF HasKey
  <2>2. IF IsNum(T[x], width) THEN r.val = T[x].val /\ Cursor(r.par, T, x + 1) ELSE r.par.error
    <3>1. IF IsNum(T[x], U8) THEN ParseU8(q).val = T[x].val /\ Cursor(ParseU8(q).par, T, x + 1)
          ELSE ParseU8(q).par.error
      BY <1>3, <2>1, ReadsU8
    <3>2. IF IsNum(T[x], U32) THEN ParseU32(q).val = T[x].val /\ Cursor(ParseU32(q).par, T, x + 1)
          ELSE ParseU32(q).par.error
      BY <1>3, <2>1, ReadsU32
    <3> QED BY <3>1, <3>2
  <2>3. T[x].val = v.val /\ T[x].type = v.type
    BY <1>3 DEF Tok
  <2>4. IsNum(T[x], width) <=> IsNum(v, width)
    BY <2>3 DEF IsNum
  <2>5. FitsAt(doc, n) <=> IsNum(v, width)
    <3>1. KindOf[type][mem.key.val] = kind /\ mem.key.val \in Keys(type)
      BY <1>2, <1>3, <2>1
    <3>2. Fits(kind, v) <=> IsNum(v, width)
      BY DEF Fits
    <3> HIDE DEF width
    <3> QED BY <1>8, <3>1, <3>2 DEF FitsAt, type
  <2> HIDE DEF width, r
  <2>6. CASE ~ IsNum(v, width)
    BY <1>6, <2>2, <2>4, <2>5, <2>6
  <2>7. CASE IsNum(v, width)
    <3>1. v.type = "primitive"
      BY <2>7 DEF IsNum
    <3>2. PlainValue(v)
      BY <1>3, <1>4 DEF Plain
    <3>3. v.elems = << >>
      BY <3>1, <3>2 DEF PlainValue, PlainLeaf, PlainArray
    <3>4. x = Behind(doc, n)
      BY <1>3, <1>4, <3>3, MemberHere, NothingIs DEF x
    <3>5. Cursor(r.par, T, Behind(doc, n) + 1) /\ r.val = v.val
      BY <2>2, <2>3, <2>4, <2>7, <3>4
    <3>6. KindOf[type][k] # "eid" /\ k # ListKey(type)
      BY <1>2, <1>3, <1>4, SymbolKinds
    <3>7. r.val = FieldOf(type, k, v)
      BY <3>5, <3>6 DEF FieldOf
    <3>8. FitsAt(doc, n)
      BY <2>5, <2>7
    <3>9. AtMember(n - 1)
      BY <1>3
    <3>10. AtMember(n)'
      BY <1>1, <1>3, <1>5, <2>1, <3>5, <3>6, <3>7, <3>8, <3>9, AssignHere DEF k, T, type
    <3>11. AtMember(m + 1)'
      BY <3>10 DEF n
    <3> QED BY <3>11
  <2> QED BY <2>6, <2>7
<1> QED BY <1>7, <1>8

LEMMA NumberIsLeaf ==
  ASSUME NEW v, NEW width, IsNum(v, width), PlainElem(v) \/ PlainValue(v)
  PROVE  v.elems = << >> /\ Len(v.elems) = 0
<1>1. v.type = "primitive"
  BY DEF IsNum
<1>2. v.elems = << >>
  BY <1>1 DEF PlainElem, PlainValue, PlainLeaf, PlainArray
<1> QED BY <1>2, NothingIs

LEMMA EidParts ==
  ASSUME NEW v, IsEid(v), IsSeq(v.elems)
  PROVE  v.type = "array" /\ Len(v.elems) = 2 /\ \A i \in 1 .. 2 : IsNum(v.elems[i], U32)
<1>1. v.type = "array" /\ Len(v.elems) = 2 /\ \A e \in Elems(v) : IsNum(e, U32)
  BY DEF IsEid
<1>2. \A i \in 1 .. 2 : v.elems[i] \in Elems(v)
  BY <1>1 DEF Elems, IsSeq
<1> QED BY <1>1, <1>2

\* A member whose value is an EID.
LEMMA EidStep ==
  ASSUME TypeIInv, Known(doc), SchemeFirst = {TRUE}, NEW m, AtMember(m), EidMember
  PROVE  AtMember(m + 1)'
<1> DEFINE n == m + 1
           mem == doc.members[n]
           v == mem.value
           es == v.elems
           T == Tokens(doc)
           x == ElemAt(doc, n, 0)
           q == Sym.par
           k == Sym.val
           type == TypeOf(doc)
           was == block.fields[k]
           r == ParseEid(q, was, TRUE)
<1>1. Turn({"eid"}) /\ Assign(r)
  BY DEF EidMember
<1>2. More(par) /\ k # NotNumber /\ KindOf[block.type][k] = "eid" /\ k \in Keys(block.type)
  BY <1>1, TurnOK DEF Turn
<1>3. /\ n \in 1 .. Len(doc.members) /\ m = n - 1 /\ block.type = type
      /\ x <= Len(T) /\ T[x] = Tok(v) /\ ParserOK(q)
      /\ mem.key.type # "string" => k = FirstKey[block.type]
      /\ mem.key.type = "string" =>
           IF mem.key.val \in Keys(block.type) THEN k = mem.key.val /\ Cursor(q, T, x)
           ELSE k = NotNumber
  BY <1>2, TurnHere
<1>4. Plain(doc) /\ Len(doc.head) = 2 /\ type \in BlockTypes
  BY DEF Known
<1>5. PlainValue(v) /\ IsSeq(es) /\ DOMAIN doc.members = 1 .. Len(doc.members)
  BY <1>3, <1>4, PlainElems DEF Plain, IsSeq
<1> HIDE DEF k, type
<1>6. k = mem.key.val /\ Cursor(q, T, x) /\ HasKey(mem, k) /\ k # ListKey(type)
  <2>1. KindOf[type][FirstKey[type]] = "u8" /\ KindOf[type][k] = "eid"
    BY <1>2, <1>3, <1>4, SymbolKinds
  <2>2. mem.key.type = "string"
    BY <1>3, <2>1
  <2>3. k # ListKey(type)
    BY <1>4, <2>1, SymbolKinds
  <2> QED BY <1>2, <1>3, <2>2, <2>3 DEF HasKey
<1>7. KindOf[type][mem.key.val] = "eid" /\ mem.key.val \in Keys(type) /\ mem.key.type = "string"
  BY <1>2, <1>3, <1>6 DEF HasKey
<1>8. IsEid(v)
  <2>1. BadEids(doc, n) = {}
    <3>1. ~ HasBadEid(doc) /\ doc.head[1].type = "string" /\ doc.head # << >>
      BY <1>4, NothingIs DEF Known
    <3> QED BY <1>3, <1>4, <1>5, <3>1 DEF HasBadEid, type
  <2>2. BadEids(doc, n) = {w \in {v} : ~ IsEid(w)}
    BY <1>7 DEF BadEids, type
  <2> QED BY <2>1, <2>2
<1>9. FitsAt(doc, n)
  BY <1>7, <1>8 DEF FitsAt, Fits, type
<1>10. v.type = "array" /\ Len(es) = 2 /\ IsNum(es[1], U32) /\ IsNum(es[2], U32)
  BY <1>5, <1>8, EidParts
<1>11. Len(es[1].elems) = 0 /\ Len(es[2].elems) = 0
  <2>1. v.elems # << >>
    BY <1>10, NothingIs
  <2>2. PlainElem(es[1]) /\ PlainElem(es[2])
    BY <1>5, <1>10, <2>1 DEF PlainValue, PlainLeaf
  <2> QED BY <1>10, <2>2, NumberIsLeaf
<1>12. /\ x \in Nat /\ x + 2 = Behind(doc, n) /\ x + 2 <= Len(T)
       /\ T[x + 1] = Tok(es[1]) /\ T[x + 2] = Tok(es[2])
  <2>1. /\ ElemAt(doc, n, Len(es)) = Behind(doc, n)
        /\ \A j \in 0 .. Len(es) : ElemAt(doc, n, j) \in Nat /\ ElemAt(doc, n, j) <= Len(T)
        /\ \A j \in 1 .. Len(es) :
             /\ ElemAt(doc, n, j) = ElemAt(doc, n, j - 1) + (1 + Len(es[j].elems))
             /\ T[ElemAt(doc, n, j - 1) + 1] = Tok(es[j])
    <3>1. ElemsLaid(doc, n) /\ ElemAt(doc, n, Len(es)) = Behind(doc, n)
      BY <1>3, <1>4, MemberHere
    <3> QED BY <3>1 DEF ElemsLaid
  <2> DEFINE y == ElemAt(doc, n, 1)
             z == ElemAt(doc, n, 2)
  <2>2. 1 - 1 = 0 /\ 2 - 1 = 1 /\ 1 \in 1 .. 2 /\ 2 \in 1 .. 2 /\ 0 \in 0 .. 2 /\ 2 \in 0 .. 2
    OBVIOUS
  <2>3. x \in Nat /\ z <= Len(T) /\ z = Behind(doc, n)
    BY <1>10, <2>1, <2>2
  <2>4. y = x + (1 + 0) /\ T[x + 1] = Tok(es[1])
    BY <1>10, <1>11, <2>1, <2>2
  <2>5. z = y + (1 + 0) /\ T[y + 1] = Tok(es[2])
    BY <1>10, <1>11, <2>1, <2>2
  <2> HIDE DEF x, y, z, T
  <2>6. y = x + 1 /\ z = x + 2 /\ y + 1 = x + 2
    BY <2>3, <2>4, <2>5
  <2> QED BY <2>3, <2>4, <2>5, <2>6
<1>13. T[x].type = "array" /\ IsNum(T[x + 1], U32) /\ IsNum(T[x + 2], U32)
       /\ T[x + 1].val = es[1].val /\ T[x + 2].val = es[2].val
  <2> DEFINE a == es[1]
             b == es[2]
             y == T[x + 1]
             z == T[x + 2]
  <2>1. T[x] = Tok(v) /\ y = Tok(a) /\ z = Tok(b)
    BY <1>3, <1>12
  <2>2. v.type = "array" /\ IsNum(a, U32) /\ IsNum(b, U32)
    BY <1>10
  <2> HIDE DEF a, b, y, z
  <2>3. T[x].type = "array" /\ IsNum(y, U32) /\ IsNum(z, U32) /\ y.val = a.val /\ z.val = b.val
    BY <2>1, <2>2, TokIs
  <2> QED BY <2>3 DEF a, b, y, z
<1> HIDE DEF x, T, q, was
<1>14. r.val = [scheme |-> T[x + 1].val, ssp |-> T[x + 2].val] /\ Cursor(r.par, T, x + 3)
  BY <1>3, <1>6, <1>12, <1>13, ReadsEid
<1>15. x + 3 = Behind(doc, n) + 1
  BY <1>12
<1> HIDE DEF r
<1>16. r.val = FieldOf(type, k, v)
  BY <1>6, <1>7, <1>13, <1>14 DEF FieldOf, EidOf
<1>17. Cursor(r.par, T, Behind(doc, n) + 1) /\ AtMember(n - 1)
  BY <1>3, <1>14, <1>15
<1> HIDE DEF n
<1>18. AtMember(n)'
  BY <1>1, <1>3, <1>6, <1>9, <1>16, <1>17, AssignHere DEF k, T, type
<1> QED BY <1>18 DEF n

\* A member whose value is a list, up to the loop over it.
LEMMA ListStep ==
  ASSUME TypeIInv, Known(doc), NEW m, AtMember(m), ListMember
  PROVE  AtElem(m + 1, 0)' \/ (pc' = "rejected" /\ ~ WellFormed(doc))
<1> DEFINE n == m + 1
           mem == doc.members[n]
           v == mem.value
           es == v.elems
           T == Tokens(doc)
           x == ElemAt(doc, n, 0)
           q == Sym.par
           k == Sym.val
           type == TypeOf(doc)
           done == ListEnd(doc, n - 1, ListKey(type))
<1>1. /\ Turn({"eids", "refs"}) /\ doc' = doc /\ block' = block
      /\ IF Cur(q).type = "array"
         THEN left' = Cur(q).size /\ par' = Advance(q) /\ pc' = KindOf[block.type][k]
         ELSE pc' = "rejected"
  BY DEF ListMember
<1>2. /\ More(par) /\ k # NotNumber /\ KindOf[block.type][k] \in {"eids", "refs"}
      /\ k \in Keys(block.type) /\ symbols' = symbols \cup {k}
  BY <1>1, TurnOK DEF Turn
<1>3. /\ n \in 1 .. Len(doc.members) /\ m = n - 1 /\ block.type = type
      /\ x <= Len(T) /\ T[x] = Tok(v) /\ ParserOK(q)
      /\ mem.key.type # "string" => k = FirstKey[block.type]
      /\ mem.key.type = "string" =>
           IF mem.key.val \in Keys(block.type) THEN k = mem.key.val /\ Cursor(q, T, x)
           ELSE k = NotNumber
  BY <1>2, TurnHere
<1>4. Plain(doc) /\ Len(doc.head) = 2 /\ type \in BlockTypes
  BY DEF Known
<1>5. IsSeq(es) /\ Len(es) \in Nat
  BY <1>3, <1>4, PlainElems DEF Plain, IsSeq
<1> HIDE DEF k, type, n
<1>6. /\ k = mem.key.val /\ Cursor(q, T, x) /\ HasKey(mem, k) /\ k = ListKey(type)
      /\ KindOf[type][k] = ListKey(type) /\ k \in Keys(type)
  <2>1. KindOf[type][FirstKey[type]] = "u8" /\ KindOf[type][k] \in {"eids", "refs"}
    BY <1>2, <1>3, <1>4, SymbolKinds
  <2>2. mem.key.type = "string"
    BY <1>3, <2>1
  <2>3. k = ListKey(type) /\ KindOf[type][k] = ListKey(type)
    BY <1>2, <1>3, <1>4, <2>1, SymbolKinds
  <2> QED BY <1>2, <1>3, <2>2, <2>3 DEF HasKey
<1>7. Cur(q).type = v.type /\ Cur(q).size = Len(es)
  <2>1. T[x] = Tok(v) /\ Cursor(q, T, x) /\ x <= Len(T)
    BY <1>3, <1>6
  <2> HIDE DEF v, T, x, q
  <2>2. Cur(q) = Tok(v)
    BY <2>1, CursorAt
  <2>3. Cur(q).type = v.type /\ Cur(q).size = Len(v.elems)
    BY <2>2, TokIs
  <2> QED BY <2>3 DEF v
<1>8. CASE v.type # "array"
  <2>1. pc' = "rejected"
    BY <1>1, <1>7, <1>8
  <2>2. KindOf[type][mem.key.val] \in {"eids", "refs"}
    BY <1>2, <1>3, <1>6
  <2>3. ~ FitsAt(doc, n)
    BY <1>8, <2>2 DEF FitsAt, Fits, type
  <2> QED BY <1>3, <1>4, <2>1, <2>3, MisfitIsBad
<1>9. CASE v.type = "array"
  <2>1. left' = Len(es) /\ par' = Advance(q) /\ pc' = ListKey(type)
    BY <1>1, <1>3, <1>6, <1>7, <1>9
  <2> HIDE DEF T, x, q
  <2>2. Cursor(par', T, x + 1)
    BY <1>3, <1>6, <2>1, CursorAdvance
  <2>3. /\ FitTo(doc, n - 1) /\ Filled(n - 1, done)
    BY <1>3 DEF AtMember, type
  <2>4. /\ GivenBy(doc, n, k) # << >>
        /\ \A l : l # k =>
             /\ GivenBy(doc, n, l) = GivenBy(doc, n - 1, l)
             /\ FieldAfter(doc, n, l) = FieldAfter(doc, n - 1, l)
    <3>1. MemberOf(doc, n, k)
      BY <1>3, <1>6 DEF MemberOf
    <3> QED BY <1>4, <3>1, MemberAdds
  <2>5. /\ block'.type = type
        /\ block'.fields = [l \in DOMAIN NewBlock(type).fields |-> FieldAfter(doc, n, l)]
        /\ Len(block'.list) = done
        /\ \A i \in 1 .. done : block'.list[i] = ItemOf(type, ListOf(doc, ListKey(type))[i])
        /\ symbols' = {l \in Keys(type) : GivenBy(doc, n, l) # << >>}
    <3>1. k \notin DOMAIN NewBlock(type).fields
      BY <1>4, <1>6, SymbolKinds
    <3>2. [l \in DOMAIN NewBlock(type).fields |-> FieldAfter(doc, n, l)]
            = [l \in DOMAIN NewBlock(type).fields |-> FieldAfter(doc, n - 1, l)]
      BY <2>4, <3>1
    <3>3. symbols = {l \in Keys(type) : GivenBy(doc, n - 1, l) # << >>}
      BY <2>3 DEF Filled, type
    <3>4. symbols' = {l \in Keys(type) : GivenBy(doc, n, l) # << >>}
      BY <1>2, <1>6, <2>4, <3>3
    <3>5. /\ block.type = type
          /\ block.fields = [l \in DOMAIN NewBlock(type).fields |-> FieldAfter(doc, n - 1, l)]
          /\ Len(block.list) = done
          /\ \A i \in 1 .. done : block.list[i] = ItemOf(type, ListOf(doc, ListKey(type))[i])
      BY <2>3 DEF Filled, type
    <3> HIDE DEF done
    <3> QED BY <1>1, <3>2, <3>4, <3>5
  <2>6. done \in Nat
    <3>1. n - 1 \in 0 .. Len(doc.members)
      BY <1>3 DEF AtMember
    <3> QED BY <1>4, <3>1, ListSteps
  <2>7. done + 0 = done
    <3> HIDE DEF done
    <3> QED BY <2>6
  <2>8. Filled(n, ListEnd(doc, n - 1, ListKey(TypeOf(doc))) + 0)'
    BY <1>1, <2>5, <2>7 DEF Filled, type
  <2>9. AtElem(n, 0)'
    <3>1. /\ pc' = ListKey(TypeOf(doc)) /\ n \in 1 .. Len(doc.members)
          /\ HasKey(doc.members[n], ListKey(TypeOf(doc))) /\ doc.members[n].value.type = "array"
          /\ 0 \in 0 .. Len(doc.members[n].value.elems)
          /\ left' = Len(doc.members[n].value.elems) - 0
          /\ Cursor(par', Tokens(doc), ElemAt(doc, n, 0) + 1)
          /\ FitTo(doc, n - 1)
          /\ \A i \in 1 .. 0 : doc.members[n].value.elems[i].type = "string"
      BY <1>3, <1>5, <1>6, <1>9, <2>1, <2>2, <2>3 DEF type, T, x
    <3> QED BY <1>1, <2>8, <3>1 DEF AtElem
  <2> QED BY <2>9 DEF n
<1> QED BY <1>8, <1>9

LEMMA AppendIs ==
  ASSUME NEW s, IsSeq(s), NEW e
  PROVE  /\ Len(Append(s, e)) = Len(s) + 1 /\ Append(s, e)[Len(s) + 1] = e
         /\ \A i \in 1 .. Len(s) : Append(s, e)[i] = s[i]
<1> DEFINE S == {s[i] : i \in 1 .. Len(s)} \cup {e}
<1>1. s \in Seq(S)
  BY SeqIn
<1>2. e \in S
  OBVIOUS
<1> HIDE DEF S
<1> QED BY <1>1, <1>2, AppendProperties

\* One element more is in the list of the block.
LEMMA PushedHere ==
  ASSUME TypeIInv, Known(doc), NEW n, NEW j, AtElem(n, j), j < Len(doc.members[n].value.elems),
         NEW e, e = ItemOf(TypeOf(doc), doc.members[n].value.elems[j + 1]),
         block' = [block EXCEPT !.list = Append(@, e)],
         symbols' = symbols, doc' = doc, left' = left - 1, pc' = pc,
         Cursor(par', Tokens(doc), ElemAt(doc, n, j + 1) + 1),
         pc = "eids" => doc.members[n].value.elems[j + 1].type = "string"
  PROVE  AtElem(n, j + 1)'
<1> DEFINE type == TypeOf(doc)
           es == doc.members[n].value.elems
           done == ListEnd(doc, n - 1, ListKey(type))
           all == ListOf(doc, ListKey(type))
<1>1. /\ pc = ListKey(type)
      /\ n \in 1 .. Len(doc.members) /\ HasKey(doc.members[n], ListKey(type))
      /\ doc.members[n].value.type = "array"
      /\ j \in 0 .. Len(es) /\ left = Len(es) - j
      /\ Filled(n, done + j)
      /\ FitTo(doc, n - 1)
      /\ pc = "eids" => \A i \in 1 .. j : es[i].type = "string"
  BY DEF AtElem
<1>2. /\ Plain(doc) /\ Len(es) \in Nat
  <2>1. Plain(doc)
    BY DEF Known
  <2> QED BY <1>1, <2>1, PlainElems DEF Plain, IsSeq
<1>3. done \in Nat /\ all[done + (j + 1)] = es[j + 1]
  <2>1. n - 1 \in 0 .. Len(doc.members)
    BY <1>1, <1>2 DEF Plain, IsSeq
  <2>2. done \in Nat
    BY <1>2, <2>1, ListSteps
  <2>3. \A i \in 1 .. Len(es) : all[done + i] = es[i]
    BY <1>1, <1>2, ListSteps
  <2>4. j + 1 \in 1 .. Len(es)
    BY <1>1, <1>2
  <2> QED BY <2>2, <2>3, <2>4
<1>4. /\ j + 1 \in 0 .. Len(es) /\ left' = Len(es) - (j + 1)
      /\ \A i \in 1 .. j + 1 : i = j + 1 \/ i \in 1 .. j
  <2> DEFINE K == Len(es)
  <2>1. j \in 0 .. K /\ j < K /\ left = K - j /\ left' = left - 1 /\ K \in Nat
    BY <1>1, <1>2
  <2> HIDE DEF K
  <2>2. j + 1 \in 0 .. K /\ left' = K - (j + 1)
    BY <2>1
  <2>3. \A i \in 1 .. j + 1 : i = j + 1 \/ i \in 1 .. j
    BY <2>1
  <2> QED BY <2>2, <2>3 DEF K
<1>5. pc = "eids" => \A i \in 1 .. j + 1 : es[i].type = "string"
  BY <1>1, <1>4
<1>6. TypedBlock /\ pc # "text"
  <2>1. pc = "eids" \/ pc = "refs"
    BY <1>1 DEF ListKey
  <2> QED BY <2>1 DEF TypeIInv
<1>7. /\ block'.type = block.type /\ block'.fields = block.fields
      /\ block'.list = Append(block.list, e)
  <2>1. block = [type |-> block.type, fields |-> block.fields, list |-> block.list]
    BY <1>6 DEF TypedBlock
  <2> QED BY <2>1
<1>8. /\ block.type = type
      /\ block.fields = [k \in DOMAIN NewBlock(type).fields |-> FieldAfter(doc, n, k)]
      /\ Len(block.list) = done + j
      /\ \A i \in 1 .. done + j : block.list[i] = ItemOf(type, all[i])
      /\ symbols = {k \in Keys(type) : GivenBy(doc, n, k) # << >>}
  BY <1>1 DEF Filled
<1>9. e = ItemOf(type, es[j + 1])
  OBVIOUS
<1> DEFINE s == block.list
           c == done + j
<1>10. /\ Len(Append(s, e)) = Len(s) + 1 /\ Append(s, e)[Len(s) + 1] = e
       /\ \A i \in 1 .. Len(s) : Append(s, e)[i] = s[i]
  <2>1. IsSeq(s)
    BY <1>6 DEF TypedBlock
  <2> HIDE DEF s
  <2> QED BY <2>1, AppendIs
<1>11. c \in Nat /\ c + 1 = done + (j + 1) /\ j \in Nat
  <2>1. j \in Nat
    BY <1>1
  <2> HIDE DEF done
  <2> QED BY <1>3, <2>1
<1> HIDE DEF done, all, type
<1>12. Len(Append(s, e)) = done + (j + 1)
  BY <1>8, <1>10, <1>11
<1>13. ASSUME NEW i \in 1 .. done + (j + 1) PROVE Append(s, e)[i] = ItemOf(type, all[i])
  <2> HIDE DEF es
  <2>1. CASE i = done + (j + 1)
    BY <1>3, <1>8, <1>9, <1>10, <1>11, <2>1
  <2>2. CASE i # done + (j + 1)
    <3>1. i \in 1 .. c
      <4> HIDE DEF c
      <4> QED BY <1>11, <2>2
    <3> QED BY <1>8, <1>10, <3>1
  <2> QED BY <2>1, <2>2
<1>14. Filled(n, ListEnd(doc, n - 1, ListKey(TypeOf(doc))) + (j + 1))'
  <2>1. /\ block'.type = TypeOf(doc)
        /\ block'.fields = [k \in DOMAIN NewBlock(TypeOf(doc)).fields |-> FieldAfter(doc, n, k)]
        /\ Len(block'.list) = ListEnd(doc, n - 1, ListKey(TypeOf(doc))) + (j + 1)
        /\ \A i \in 1 .. ListEnd(doc, n - 1, ListKey(TypeOf(doc))) + (j + 1) :
             block'.list[i] = ItemOf(TypeOf(doc), ListOf(doc, ListKey(TypeOf(doc)))[i])
        /\ symbols' = {k \in Keys(TypeOf(doc)) : GivenBy(doc, n, k) # << >>}
    BY <1>7, <1>8, <1>12, <1>13 DEF type, done, all
  <2> QED BY <2>1 DEF Filled
<1>15. /\ pc' = ListKey(TypeOf(doc)) /\ HasKey(doc.members[n], ListKey(TypeOf(doc)))
  BY <1>1 DEF type
<1> QED BY <1>1, <1>4, <1>5, <1>14, <1>15 DEF AtElem

\* The tokens at the top of a turn over the elements of a list.
ElemFound(n, j) ==
  LET es == doc.members[n].value.elems
      e == es[j + 1]
      T == Tokens(doc)
      x == ElemAt(doc, n, j) + 1
  IN  /\ n \in 1 .. Len(doc.members)
      /\ j < Len(es) /\ j + 1 \in 1 .. Len(es) /\ e \in Elems(doc.members[n].value)
      /\ x \in Nat /\ x <= Len(T) /\ T[x] = Tok(e) /\ Cursor(par, T, x)
      /\ PlainElem(e) /\ IsSeq(e.elems)
      /\ ElemAt(doc, n, j + 1) = x + Len(e.elems) /\ x + Len(e.elems) <= Len(T)
      /\ \A i \in 1 .. Len(e.elems) : T[x + i] = Tok(e.elems[i])

LEMMA ElemHere ==
  ASSUME Known(doc), NEW n, NEW j, AtElem(n, j), left > 0
  PROVE  ElemFound(n, j)
<1> DEFINE v == doc.members[n].value
           es == v.elems
           e == es[j + 1]
           T == Tokens(doc)
           y == ElemAt(doc, n, j)
           z == ElemAt(doc, n, j + 1)
           c == Len(e.elems)
           K == Len(es)
<1>1. /\ n \in 1 .. Len(doc.members) /\ v.type = "array"
      /\ j \in 0 .. K /\ left = K - j /\ Cursor(par, T, y + 1)
  BY DEF AtElem
<1>2. Plain(doc) /\ Len(doc.head) = 2
  BY DEF Known
<1>3. PlainValue(v)
  BY <1>1, <1>2 DEF Plain
<1>4. IsSeq(es) /\ K \in Nat /\ DOMAIN es = 1 .. K /\ \A i \in 1 .. K : IsSeq(es[i].elems)
  <2> HIDE DEF v
  <2> QED BY <1>3, PlainElems DEF IsSeq
<1>5. j < K /\ j + 1 \in 1 .. K /\ (j + 1) - 1 = j /\ j + 1 \in 0 .. K
  <2> HIDE DEF K
  <2> QED BY <1>1, <1>4
<1>6. e \in Elems(v)
  BY <1>4, <1>5 DEF Elems
<1>7. PlainElem(e)
  <2>1. es # << >>
    BY <1>4, <1>5, NothingIs
  <2> HIDE DEF v
  <2> QED BY <1>3, <1>5, <2>1 DEF PlainValue, PlainLeaf
<1>8. IsSeq(e.elems) /\ c \in Nat
  <2>1. IsSeq(e.elems)
    BY <1>4, <1>5
  <2> QED BY <2>1 DEF IsSeq
<1>9. /\ y \in Nat /\ z \in Nat /\ z <= Len(T) /\ Len(T) \in Nat
      /\ z = y + (1 + c) /\ T[y + 1] = Tok(e)
      /\ \A i \in 1 .. c : T[y + (1 + i)] = Tok(e.elems[i])
  <2>1. ElemsLaid(doc, n)
    BY <1>1, <1>2, MemberHere
  <2>2. /\ Len(T) \in Nat
        /\ \A i \in 0 .. K : ElemAt(doc, n, i) \in Nat /\ ElemAt(doc, n, i) <= Len(T)
        /\ \A l \in 1 .. K :
             /\ ElemAt(doc, n, l) = ElemAt(doc, n, l - 1) + (1 + Len(es[l].elems))
             /\ T[ElemAt(doc, n, l - 1) + 1] = Tok(es[l])
             /\ \A i \in 1 .. Len(es[l].elems) :
                  T[ElemAt(doc, n, l - 1) + (1 + i)] = Tok(es[l].elems[i])
    BY <2>1 DEF ElemsLaid
  <2> HIDE DEF T, K, es
  <2> QED BY <1>1, <1>5, <2>2
<1> HIDE DEF y, z, c, T, e, K
<1>10. y + 1 \in Nat /\ z = (y + 1) + c /\ (y + 1) + c <= Len(T) /\ y + 1 <= Len(T)
  BY <1>8, <1>9
<1>11. \A i \in 1 .. c : T[(y + 1) + i] = Tok(e.elems[i])
  <2>1. \A i \in 1 .. c : (y + 1) + i = y + (1 + i)
    BY <1>8, <1>9
  <2> QED BY <1>9, <2>1
<1> QED BY <1>1, <1>5, <1>6, <1>7, <1>8, <1>9, <1>10, <1>11 DEF ElemFound, y, z, c, T, e, K

\* A turn of the loop of parse_eids.
LEMMA EidsStep ==
  ASSUME TypeIInv, Known(doc), NEW n, NEW j, AtElem(n, j), EidsTurn
  PROVE  AtElem(n, j + 1)' \/ (pc' = "rejected" /\ ~ WellFormed(doc))
<1> DEFINE v == doc.members[n].value
           es == v.elems
           e == es[j + 1]
           T == Tokens(doc)
           x == ElemAt(doc, n, j) + 1
           z == ElemAt(doc, n, j + 1)
           type == TypeOf(doc)
<1>1. /\ pc = "eids" /\ left > 0 /\ left' = left - 1 /\ doc' = doc /\ symbols' = symbols
      /\ IF Cur(par).type = "string"
         THEN block' = [block EXCEPT !.list = Append(@, Cur(par).val)] /\ par' = Advance(par) /\ pc' = pc
         ELSE pc' = "rejected"
  BY DEF EidsTurn
<1>2. /\ n \in 1 .. Len(doc.members)
      /\ j < Len(es) /\ e \in Elems(v)
      /\ x \in Nat /\ x <= Len(T) /\ T[x] = Tok(e) /\ Cursor(par, T, x)
      /\ PlainElem(e)
      /\ z = x + Len(e.elems)
  <2>1. ElemFound(n, j)
    BY <1>1, ElemHere
  <2> QED BY <2>1 DEF ElemFound
<1>3. type = "primary" /\ HasKey(doc.members[n], "eids") /\ type \in BlockTypes
  <2>1. pc = ListKey(type) /\ HasKey(doc.members[n], ListKey(type)) /\ type \in BlockTypes
    BY DEF AtElem, Known
  <2>2. type = "primary"
    BY <1>1, <2>1 DEF ListKey
  <2> QED BY <2>1, <2>2 DEF ListKey
<1>4. Cur(par).type = e.type /\ Cur(par).val = e.val
  <2> HIDE DEF x, T, e
  <2>1. Cur(par) = T[x] /\ T[x] = Tok(e)
    BY <1>2, CursorAt
  <2> QED BY <2>1, TokIs
<1> HIDE DEF x, z, T, e
<1>5. CASE e.type # "string"
  <2>1. KindOf[type]["eids"] = "eids"
    BY <1>3, SymbolKinds DEF ListKey
  <2>2. ~ FitsAt(doc, n)
    BY <1>2, <1>3, <1>5, <2>1 DEF FitsAt, Fits, HasKey
  <2>3. Plain(doc)
    BY DEF Known
  <2> QED BY <1>1, <1>2, <1>4, <1>5, <2>2, <2>3, MisfitIsBad
<1>6. CASE e.type = "string"
  <2>1. e.elems = << >>
    BY <1>2, <1>6 DEF PlainElem, PlainLeaf, PlainArray
  <2>2. z = x
    BY <1>2, <2>1, NothingIs
  <2>3. par' = Advance(par) /\ pc' = pc
    BY <1>1, <1>4, <1>6
  <2>4. Cursor(par', T, z + 1)
    BY <1>2, <2>2, <2>3, CursorAdvance
  <2>5. block' = [block EXCEPT !.list = Append(@, e.val)]
    BY <1>1, <1>4, <1>6
  <2>6. e.val = ItemOf(type, e)
    BY <1>3 DEF ItemOf
  <2> DEFINE item == e.val
  <2>7. block' = [block EXCEPT !.list = Append(@, item)] /\ item = ItemOf(type, e)
    BY <2>5, <2>6
  <2> HIDE DEF item
  <2>8. AtElem(n, j + 1)'
    BY <1>1, <1>2, <1>6, <2>3, <2>4, <2>7, PushedHere DEF e, T, z
  <2> QED BY <2>8
<1> QED BY <1>5, <1>6

\* If no EID is bad, all values in a list of references are EIDs.
LEMMA RefsAreEids ==
  ASSUME Known(doc), NEW n \in 1 .. Len(doc.members), HasKey(doc.members[n], "refs"),
         TypeOf(doc) = "extension", NEW e \in Elems(doc.members[n].value)
  PROVE  IsEid(e)
<1>1. BadEids(doc, n) = {}
  <2>1. /\ ~ HasBadEid(doc) /\ doc.head[1].type = "string" /\ doc.head # << >>
        /\ TypeOf(doc) \in BlockTypes /\ n \in DOMAIN doc.members
    BY NothingIs DEF Known, Plain, IsSeq
  <2> QED BY <2>1 DEF HasBadEid
<1>2. KindOf["extension"]["refs"] = "refs" /\ "refs" \in Keys("extension")
  BY DEF KindOf, Keys, ExtKinds
<1>3. BadEids(doc, n) = {w \in Elems(doc.members[n].value) : ~ IsEid(w)}
  BY <1>2 DEF BadEids, HasKey
<1> QED BY <1>1, <1>3

\* A turn of the loop of parse_refs.
LEMMA RefsStep ==
  ASSUME TypeIInv, Known(doc), SchemeFirst = {TRUE}, NEW n, NEW j, AtElem(n, j), RefsTurn
  PROVE  AtElem(n, j + 1)' \/ (pc' = "rejected" /\ ~ WellFormed(doc))
<1> DEFINE v == doc.members[n].value
           es == v.elems
           e == es[j + 1]
           T == Tokens(doc)
           x == ElemAt(doc, n, j) + 1
           z == ElemAt(doc, n, j + 1)
           type == TypeOf(doc)
           r == ParseEid(par, ZeroEid, TRUE)
<1>1. /\ pc = "refs" /\ left > 0 /\ left' = left - 1 /\ doc' = doc /\ symbols' = symbols
      /\ IF Room
         THEN block' = [block EXCEPT !.list = Append(@, r.val)] /\ par' = r.par /\ pc' = pc
         ELSE pc' = "rejected"
  BY DEF RefsTurn
<1>2. /\ n \in 1 .. Len(doc.members)
      /\ j < Len(es) /\ e \in Elems(v)
      /\ x \in Nat /\ x <= Len(T) /\ T[x] = Tok(e) /\ Cursor(par, T, x)
      /\ IsSeq(e.elems)
      /\ z = x + Len(e.elems) /\ x + Len(e.elems) <= Len(T)
      /\ \A i \in 1 .. Len(e.elems) : T[x + i] = Tok(e.elems[i])
  <2>1. ElemFound(n, j)
    BY <1>1, ElemHere
  <2> QED BY <2>1 DEF ElemFound
<1>3. type = "extension" /\ HasKey(doc.members[n], "refs") /\ ListKey(type) = "refs"
  <2>1. pc = ListKey(type) /\ HasKey(doc.members[n], ListKey(type)) /\ type \in BlockTypes
    BY DEF AtElem, Known
  <2>2. type = "extension"
    BY <1>1, <2>1 DEF ListKey, BlockTypes
  <2> QED BY <2>1, <2>2 DEF ListKey
<1>4. ParserOK(par)
  BY <1>1 DEF TypeIInv
<1>5. CASE ~ Room
  <2> DEFINE done == ListEnd(doc, n - 1, "refs")
             end == ListEnd(doc, n, "refs")
             K == Len(es)
             N == Len(ListOf(doc, "refs"))
             c == Len(block.list)
  <2>1. Plain(doc) /\ j \in 0 .. K /\ c = done + j
    BY <1>3 DEF AtElem, Filled, Known
  <2>2. n \in 0 .. Len(doc.members) /\ n - 1 \in 0 .. Len(doc.members)
    <3> DEFINE M == Len(doc.members)
    <3>1. M \in Nat /\ n \in 1 .. M
      BY <1>2, <2>1 DEF Plain, IsSeq
    <3> HIDE DEF M
    <3>2. n \in 0 .. M /\ n - 1 \in 0 .. M
      BY <3>1
    <3> QED BY <3>2 DEF M
  <2>3. done \in Nat /\ end \in Nat /\ end <= N
    <3>1. \A k \in 0 .. Len(doc.members) :
            ListEnd(doc, k, "refs") \in Nat /\ ListEnd(doc, k, "refs") <= Len(ListOf(doc, "refs"))
      BY <2>1, ListSteps
    <3> QED BY <2>2, <3>1
  <2>4. end = done + K
    BY <1>2, <1>3, <2>1, ListSteps
  <2>5. IsSeq(ListOf(doc, "refs"))
    BY <2>1, ListSteps
  <2>6. N \in Nat /\ K \in Nat
    <3>1. IsSeq(es)
      BY <1>2, <2>1, PlainElems DEF Plain
    <3> QED BY <2>5, <3>1 DEF IsSeq
  <2>7. ~ c < RefCap
    BY <1>5 DEF Room
  <2>8. j < K
    BY <1>2
  <2> HIDE DEF done, end, K, N, c
  <2>9. ~ N <= RefCap
    BY <2>1, <2>3, <2>4, <2>6, <2>7, <2>8, UnserializeAssumption
  <2>10. ~ WellFormed(doc)
    BY <1>3, <2>9 DEF WellFormed, N
  <2> QED BY <1>1, <1>5, <2>10
<1>6. CASE Room
  <2>1. IsEid(e)
    BY <1>2, <1>3, RefsAreEids
  <2>2. e.type = "array" /\ Len(e.elems) = 2 /\ IsNum(e.elems[1], U32) /\ IsNum(e.elems[2], U32)
    <3> HIDE DEF e
    <3> QED BY <1>2, <2>1, EidParts
  <2>3. T[x + 1] = Tok(e.elems[1]) /\ T[x + 2] = Tok(e.elems[2]) /\ x + 2 <= Len(T) /\ z = x + 2
    <3> DEFINE c == Len(e.elems)
    <3>1. c = 2 /\ \A i \in 1 .. c : T[x + i] = Tok(e.elems[i])
      BY <1>2, <2>2
    <3>2. z = x + c /\ x + c <= Len(T)
      BY <1>2
    <3> HIDE DEF c, x, z, T, e
    <3> QED BY <3>1, <3>2
  <2> HIDE DEF x, T, z, e
  <2>4. /\ T[x].type = "array" /\ IsNum(T[x + 1], U32) /\ IsNum(T[x + 2], U32)
        /\ T[x + 1].val = e.elems[1].val /\ T[x + 2].val = e.elems[2].val
    BY <1>2, <2>2, <2>3 DEF Tok, IsNum
  <2>5. r.val = [scheme |-> T[x + 1].val, ssp |-> T[x + 2].val] /\ Cursor(r.par, T, x + 3)
    BY <1>2, <1>4, <2>3, <2>4, ReadsEid
  <2>6. z + 1 = x + 3
    BY <1>2, <2>3
  <2>7. /\ block' = [block EXCEPT !.list = Append(@, r.val)] /\ par' = r.par /\ pc' = pc
    BY <1>1, <1>6
  <2> HIDE DEF r
  <2>8. Cursor(par', T, z + 1)
    BY <2>5, <2>6, <2>7
  <2> DEFINE item == r.val
  <2>9. block' = [block EXCEPT !.list = Append(@, item)]
    BY <2>7
  <2>10. item = ItemOf(type, e)
    BY <1>3, <2>4, <2>5 DEF ItemOf, EidOf
  <2> HIDE DEF item
  <2>11. AtElem(n, j + 1)'
    BY <1>1, <1>2, <2>7, <2>8, <2>9, <2>10, PushedHere DEF e, T, z
  <2> QED BY <2>11
<1> QED BY <1>5, <1>6

\* The loop over a list is over.
LEMMA ListDoneStep ==
  ASSUME TypeIInv, Known(doc), NEW n, NEW j, AtElem(n, j), ListDone
  PROVE  AtMember(n)'
<1> DEFINE v == doc.members[n].value
           es == v.elems
           T == Tokens(doc)
           type == TypeOf(doc)
           key == ListKey(type)
           K == Len(es)
<1>1. /\ left = 0 /\ par' = par /\ doc' = doc /\ block' = block /\ symbols' = symbols
      /\ pc' = (IF par'.error THEN "rejected" ELSE "member")
  BY DEF ListDone, GoOn
<1>2. /\ pc = key /\ n \in 1 .. Len(doc.members) /\ HasKey(doc.members[n], key) /\ v.type = "array"
      /\ j \in 0 .. K /\ left = K - j
      /\ Cursor(par, T, ElemAt(doc, n, j) + 1)
      /\ Filled(n, ListEnd(doc, n - 1, key) + j)
      /\ FitTo(doc, n - 1)
      /\ pc = "eids" => \A i \in 1 .. j : es[i].type = "string"
  BY DEF AtElem
<1>3. Plain(doc) /\ Len(doc.head) = 2 /\ type \in BlockTypes
  BY DEF Known
<1>4. IsSeq(es) /\ K \in Nat /\ DOMAIN es = 1 .. K /\ n \in 0 .. Len(doc.members)
  <2>1. IsSeq(es)
    BY <1>2, <1>3, PlainElems DEF Plain
  <2> QED BY <1>2, <1>3, <2>1 DEF IsSeq, Plain
<1>5. j = K
  <2> HIDE DEF K
  <2> QED BY <1>1, <1>2, <1>4
<1>6. ~ par.error
  <2> HIDE DEF T
  <2> QED BY <1>2, CursorAt
<1>7. pc' = "member"
  BY <1>1, <1>6
<1>8. ElemAt(doc, n, K) = Behind(doc, n)
  BY <1>2, <1>3, MemberHere
<1>9. ListEnd(doc, n, key) = ListEnd(doc, n - 1, key) + K
  <2> HIDE DEF key
  <2> QED BY <1>2, <1>3, ListSteps
<1>10. FitsAt(doc, n)
  <2>1. KindOf[type][key] = key /\ key \in Keys(type)
    BY <1>3, SymbolKinds
  <2>2. Fits(key, v)
    <3>1. CASE type = "primary"
      <4>1. key = "eids"
        BY <3>1 DEF ListKey
      <4>2. \A e \in Elems(v) : e.type = "string"
        BY <1>2, <1>4, <1>5, <4>1 DEF Elems
      <4> QED BY <1>2, <4>1, <4>2 DEF Fits
    <3>2. CASE type = "extension"
      <4>1. key = "refs"
        BY <3>2 DEF ListKey
      <4>2. \A e \in Elems(v) : IsEid(e)
        BY <1>2, <3>2, <4>1, RefsAreEids
      <4> QED BY <1>2, <4>1, <4>2 DEF Fits
    <3> QED BY <1>3, <3>1, <3>2 DEF BlockTypes
  <2> HIDE DEF key
  <2> QED BY <1>2, <2>1, <2>2 DEF FitsAt, HasKey
<1>11. FitTo(doc, n)
  <2>1. \A i \in 1 .. n : i = n \/ i \in 1 .. n - 1
    BY <1>2
  <2> QED BY <1>2, <1>10, <2>1 DEF FitTo
<1>12. Cursor(par', Tokens(doc), Behind(doc, n) + 1)
  BY <1>1, <1>2, <1>5, <1>8
<1>13. Filled(n, ListEnd(doc, n, ListKey(TypeOf(doc))))
  BY <1>2, <1>5, <1>9
<1>14. Filled(n, ListEnd(doc, n, ListKey(TypeOf(doc))))'
  BY <1>1, <1>13 DEF Filled
<1> QED BY <1>1, <1>4, <1>7, <1>11, <1>12, <1>14 DEF AtMember

\* A key that is no symbol.
LEMMA BadStep ==
  ASSUME TypeIInv, Known(doc), NEW m, AtMember(m), BadMember
  PROVE  pc' = "rejected" /\ ~ WellFormed(doc)
<1> DEFINE n == m + 1
           mem == doc.members[n]
<1>1. More(par) /\ Sym.val = NotNumber /\ pc' = "rejected"
  BY DEF BadMember
<1>2. /\ n \in 1 .. Len(doc.members) /\ block.type = TypeOf(doc)
      /\ mem.key.type # "string" => Sym.val = FirstKey[block.type]
      /\ mem.key.type = "string" /\ mem.key.val \in Keys(block.type) => Sym.val = mem.key.val
  BY <1>1, TurnHere
<1>3. Plain(doc) /\ TypeOf(doc) \in BlockTypes
  BY DEF Known
<1>4. NotNumber \notin Keys(block.type) /\ FirstKey[block.type] \in Keys(block.type)
  BY <1>2, <1>3, SymbolKinds
<1>5. ~ FitsAt(doc, n)
  BY <1>1, <1>2, <1>4 DEF FitsAt
<1> HIDE DEF n
<1> QED BY <1>1, <1>2, <1>3, <1>5, MisfitIsBad

\* The block when all members are done.
LEMMA BlockMeant ==
  ASSUME TypedBlock, Known(doc), NEW n, n = Len(doc.members),
         Filled(n, ListEnd(doc, n, ListKey(TypeOf(doc)))), symbols = Keys(TypeOf(doc))
  PROVE  block = Meaning(doc)
<1> DEFINE type == TypeOf(doc)
           key == ListKey(type)
           new == NewBlock(type)
           all == ListOf(doc, key)
           list == [i \in DOMAIN all |-> ItemOf(type, all[i])]
           fields == [k \in DOMAIN new.fields |->
                        LET vs == Given(doc, k)
                            v  == vs[Len(vs)]
                        IN  IF KindOf[type][k] = "eid" THEN EidOf(v) ELSE v.val]
<1>1. Plain(doc) /\ type \in BlockTypes
  BY DEF Known
<1>2. /\ block.type = type
      /\ block.fields = [k \in DOMAIN new.fields |-> FieldAfter(doc, n, k)]
      /\ Len(block.list) = ListEnd(doc, n, key)
      /\ \A i \in 1 .. ListEnd(doc, n, key) : block.list[i] = ItemOf(type, all[i])
      /\ Keys(type) = {k \in Keys(type) : GivenBy(doc, n, k) # << >>}
  BY DEF Filled
<1>3. block = [type |-> block.type, fields |-> block.fields, list |-> block.list]
      /\ IsSeq(block.list)
  BY DEF TypedBlock
<1>4. \A k : GivenBy(doc, n, k) = Given(doc, k)
  BY <1>1, GivenSteps
<1>5. ListEnd(doc, n, key) = Len(all) /\ IsSeq(all)
  <2> HIDE DEF key
  <2> QED BY <1>1, ListSteps
<1>6. block.fields = fields
  <2>1. DOMAIN new.fields \subseteq Keys(type)
    BY <1>1, SymbolKinds
  <2>2. ASSUME NEW k \in DOMAIN new.fields PROVE FieldAfter(doc, n, k) = fields[k]
    <3>1. Given(doc, k) # << >>
      BY <1>2, <1>4, <2>1
    <3> QED BY <1>4, <3>1 DEF FieldAfter, FieldOf
  <2> HIDE DEF new
  <2> QED BY <1>2, <2>2
<1> HIDE DEF fields
<1>7. block.list = list
  <2> DEFINE s == block.list
             N == Len(all)
  <2>1. IsSeq(s) /\ Len(s) = N /\ \A i \in 1 .. N : s[i] = ItemOf(type, all[i])
    BY <1>2, <1>3, <1>5
  <2>2. N \in Nat /\ DOMAIN all = 1 .. N
    BY <1>5 DEF IsSeq
  <2> HIDE DEF s, all, type
  <2>3. s = [i \in 1 .. N |-> s[i]]
    BY <2>1, <2>2 DEF IsSeq
  <2>4. s = list
    BY <2>1, <2>2, <2>3
  <2> QED BY <2>4 DEF s
<1>8. list = IF type = "primary"
             THEN LET l == ListOf(doc, "eids") IN [i \in DOMAIN l |-> l[i].val]
             ELSE LET l == ListOf(doc, "refs") IN [i \in DOMAIN l |-> EidOf(l[i])]
  BY DEF ListKey, ItemOf
<1> HIDE DEF list
<1>9. Meaning(doc) = [type |-> type, fields |-> fields, list |-> list]
  BY <1>8 DEF Meaning, fields
<1> QED BY <1>2, <1>3, <1>6, <1>7, <1>9

\* The end of the loop over the members.
LEMMA EndStep ==
  ASSUME TypeIInv, Known(doc), NEW n, AtMember(n), EndOfBlock
  PROVE  \/ pc' = "accepted" /\ WellFormed(doc) /\ block' = Meaning(doc)
         \/ pc' = "rejected" /\ ~ WellFormed(doc)
<1> DEFINE T == Tokens(doc)
           N == Len(doc.members)
           type == TypeOf(doc)
           b == Behind(doc, n)
<1>1. /\ ~ More(par) /\ pc = "member" /\ block' = block
      /\ pc' = (IF symbols = Keys(block.type) THEN "accepted" ELSE "rejected")
  BY DEF EndOfBlock
<1>2. /\ n \in 0 .. N /\ Cursor(par, T, b + 1)
      /\ Filled(n, ListEnd(doc, n, ListKey(type))) /\ FitTo(doc, n)
  BY DEF AtMember
<1>3. /\ Plain(doc) /\ Len(doc.head) = 2 /\ doc.head[1].type = "string" /\ type \in BlockTypes
      /\ Len(Tokens(doc)) <= MaxTokens
  BY DEF Known
<1>4. N \in Nat /\ DOMAIN doc.members = 1 .. N
  BY <1>3 DEF Plain, IsSeq
<1>5. n = N
  <2> SUFFICES ASSUME n # N PROVE FALSE
    OBVIOUS
  <2> DEFINE m == n + 1
  <2>1. m \in 1 .. N /\ m - 1 = n
    <3> HIDE DEF N
    <3> QED BY <1>2, <1>4
  <2> HIDE DEF m
  <2>2. Len(T) \in Nat /\ Behind(doc, m - 1) \in Nat /\ Behind(doc, m - 1) + 2 <= Len(T)
    BY <1>3, <2>1, MemberHere
  <2>3. Len(T) \in Nat /\ b \in Nat /\ b + 2 <= Len(T)
    BY <2>1, <2>2
  <2> HIDE DEF T, b
  <2>4. ~ b + 1 < Len(T)
    BY <1>1, <1>2, CursorAt
  <2> QED BY <2>3, <2>4
<1>6. /\ block.type = type
      /\ Len(block.list) = ListEnd(doc, n, ListKey(type))
      /\ symbols = {k \in Keys(type) : GivenBy(doc, n, k) # << >>}
  BY <1>2 DEF Filled
<1>7. \A k : GivenBy(doc, n, k) = Given(doc, k)
  BY <1>3, <1>5, GivenSteps
<1>8. symbols = Keys(type) <=> \A k \in Keys(type) : Given(doc, k) # << >>
  BY <1>6, <1>7
<1>9. CASE symbols # Keys(type)
  BY <1>1, <1>6, <1>8, <1>9 DEF WellFormed
<1>10. CASE symbols = Keys(type)
  <2>1. TypedBlock
    BY <1>1 DEF TypeIInv
  <2>2. type = "extension" => Len(ListOf(doc, "refs")) <= RefCap
    <3> SUFFICES ASSUME type = "extension" PROVE Len(ListOf(doc, "refs")) <= RefCap
      OBVIOUS
    <3>1. ListKey(type) = "refs"
      BY DEF ListKey
    <3>2. Len(block.list) <= RefCap
      BY <1>6, <2>1 DEF TypedBlock, GoodBlock, GoodList
    <3>3. ListEnd(doc, N, "refs") = Len(ListOf(doc, "refs"))
      BY <1>3, ListSteps
    <3> QED BY <1>5, <1>6, <3>1, <3>2, <3>3
  <2>3. \A i \in 1 .. N : FitsAt(doc, i)
    BY <1>2, <1>5 DEF FitTo
  <2>4. WellFormed(doc)
    <3>1. \A i \in DOMAIN doc.members :
            /\ doc.members[i].key.type = "string" /\ doc.members[i].key.val \in Keys(TypeOf(doc))
            /\ Fits(KindOf[TypeOf(doc)][doc.members[i].key.val], doc.members[i].value)
      BY <1>4, <2>3 DEF FitsAt
    <3> QED BY <1>3, <1>8, <1>10, <2>2, <3>1 DEF WellFormed
  <2>5. block = Meaning(doc)
    BY <1>2, <1>5, <1>10, <2>1, BlockMeant
  <2> QED BY <1>1, <1>6, <1>10, <2>4, <2>5
<1> QED BY <1>9, <1>10

-----------------------------------------------------------------------------
(* What is accepted *)

\* Documents the code takes for blocks, and whose text all of compile is given.
Judged == IsText(doc) /\ AllLegible(doc) /\ Len(doc.head) = 2 /\ ~ HasBadEid(doc)

LEMMA NothingGiven ==
  ASSUME NEW d, Plain(d), Len(d.members) = 0
  PROVE  ~ WellFormed(d)
<1>1. \A k : Given(d, k) = << >>
  BY GivenSteps
<1>2. TypeOf(d) \in BlockTypes => ListKey(TypeOf(d)) \in Keys(TypeOf(d))
  BY SymbolKinds
<1> QED BY <1>1, <1>2 DEF WellFormed

\* What the first token gives.
LEMMA HeadRead ==
  ASSUME ParserOK(par), Plain(doc), Len(doc.head) = 2, Cursor(par, Tokens(doc), 1)
  PROVE  LET sym == ParseSym(par, BlockTypes, "primary")
         IN  /\ Behind(doc, 0) = 2 /\ 2 <= Len(Tokens(doc))
             /\ Len(Tokens(doc)) \in Nat /\ Len(doc.members) \in Nat
             /\ doc.head[1].type # "string" => sym.val = "primary" /\ sym.par.error
             /\ doc.head[1].type = "string" =>
                  IF TypeOf(doc) \in BlockTypes
                  THEN sym.val = TypeOf(doc) /\ Cursor(sym.par, Tokens(doc), 2)
                  ELSE sym.val = NotNumber
             /\ ParserOK(sym.par)
<1> DEFINE T == Tokens(doc)
           N == Len(doc.members)
           type == TypeOf(doc)
           sym == ParseSym(par, BlockTypes, "primary")
<1>1. /\ T[1] = Tok(doc.head[1]) /\ Behind(doc, 0) = 2 /\ Len(T) \in Nat /\ 2 <= Len(T) /\ N \in Nat
  <2>1. N \in Nat /\ 0 \in 0 .. N
    BY DEF Plain, IsSeq
  <2>2. /\ T[1] = Tok(doc.head[1]) /\ Behind(doc, 0) = 2 /\ IsSeq(T)
        /\ \A n \in 0 .. N : Behind(doc, n) <= Len(T)
    BY MemberPlaces
  <2> HIDE DEF T, N
  <2> QED BY <2>1, <2>2 DEF IsSeq
<1>2. /\ T[1].type # "string" => sym.val = "primary" /\ sym.par.error
      /\ T[1].type = "string" =>
           IF T[1].val \in BlockTypes THEN sym.val = T[1].val /\ Cursor(sym.par, T, 1 + 1)
           ELSE sym.val = NotNumber
      /\ ParserOK(sym.par)
  <2>1. 1 <= Len(T)
    BY <1>1
  <2>2. ParserOK(sym.par)
    BY ParseSymOK DEF SameTokens, BlockTypes
  <2> DEFINE syms == BlockTypes
             first == "primary"
             r == ParseSym(par, syms, first)
             x == 1
  <2>3. Cursor(par, T, x) /\ x <= Len(T)
    BY <2>1
  <2> HIDE DEF T, syms, first, x
  <2>4. /\ T[x].type # "string" => r.val = first /\ r.par.error
        /\ T[x].type = "string" =>
             IF T[x].val \in syms THEN r.val = T[x].val /\ Cursor(r.par, T, x + 1)
             ELSE r.val = NotNumber
    BY <2>3, ReadsSym
  <2> QED BY <2>2, <2>4 DEF syms, first, x
<1>3. T[1].type = doc.head[1].type /\ T[1].val = type
  BY <1>1 DEF Tok, TypeOf
<1> HIDE DEF T, N, sym
<1> QED BY <1>1, <1>2, <1>3 DEF type, T, N, sym

LEMMA BeginStep ==
  ASSUME TypeIInv, Plain(doc), Len(doc.head) = 2, ~ HasBadEid(doc),
         Cursor(par, Tokens(doc), 1), Len(Tokens(doc)) <= MaxTokens, Begin
  PROVE  Stage'
<1> DEFINE T == Tokens(doc)
           N == Len(doc.members)
           type == TypeOf(doc)
           sym == ParseSym(par, BlockTypes, "primary")
<1>1. /\ doc' = doc /\ symbols' = symbols
      /\ IF sym.val = NotNumber
         THEN pc' = "rejected"
         ELSE /\ block' = NewBlock(sym.val) /\ par' = Advance(sym.par)
              /\ pc' = (IF More(sym.par) THEN "member" ELSE "rejected")
  BY DEF Begin
<1>2. ParserOK(par) /\ symbols = {}
  BY DEF Begin, TypeIInv
<1>3. Behind(doc, 0) = 2 /\ Len(T) \in Nat /\ 2 <= Len(T) /\ N \in Nat
  BY <1>2, HeadRead
<1>4. /\ doc.head[1].type # "string" => sym.val = "primary" /\ sym.par.error
      /\ doc.head[1].type = "string" =>
           IF type \in BlockTypes THEN sym.val = type /\ Cursor(sym.par, T, 2)
           ELSE sym.val = NotNumber
      /\ ParserOK(sym.par)
  BY <1>2, HeadRead
<1>5. NotNumber \notin BlockTypes
  BY SymbolsAssumption
<1>6. CASE doc.head[1].type # "string"
  <2>1. sym.val # NotNumber
    BY <1>4, <1>5, <1>6 DEF BlockTypes
  <2>2. par'.error
    BY <1>1, <1>4, <1>6, <2>1, ErrorStays
  <2>3. ~ WellFormed(doc)
    BY <1>6 DEF WellFormed
  <2>4. pc' = "member" \/ pc' = "rejected"
    BY <1>1, <2>1
  <2> HIDE DEF sym
  <2> QED BY <1>1, <1>2, <1>6, <2>2, <2>3, <2>4 DEF Stage, Doomed, Failing
<1>7. CASE doc.head[1].type = "string" /\ type \notin BlockTypes
  <2>1. pc' = "rejected"
    BY <1>1, <1>4, <1>7
  <2>2. ~ WellFormed(doc)
    BY <1>7 DEF WellFormed
  <2> QED BY <1>1, <2>1, <2>2 DEF Stage
<1>8. CASE doc.head[1].type = "string" /\ type \in BlockTypes
  <2>1. sym.val = type /\ Cursor(sym.par, T, 2) /\ type # NotNumber
    BY <1>4, <1>5, <1>8
  <2> HIDE DEF sym, T
  <2>2. More(sym.par) <=> 2 < Len(T)
    BY <2>1, CursorAt
  <2>3. block' = NewBlock(type) /\ par' = Advance(sym.par)
        /\ pc' = (IF More(sym.par) THEN "member" ELSE "rejected")
    BY <1>1, <2>1
  <2>4. CASE ~ 2 < Len(T)
    <3>1. N = 0
      <4> SUFFICES ASSUME N # 0 PROVE FALSE
        OBVIOUS
      <4>1. 1 \in 1 .. N /\ 1 - 1 = 0
        BY <1>3
      <4>2. Behind(doc, 0) + 2 <= Len(Tokens(doc))
        BY <4>1, MemberHere
      <4>3. Behind(doc, 0) + 2 <= Len(T)
        BY <4>2 DEF T
      <4> QED BY <1>3, <2>4, <4>3
    <3>2. ~ WellFormed(doc)
      BY <3>1, NothingGiven
    <3> QED BY <1>1, <2>2, <2>3, <2>4, <3>2 DEF Stage
  <2>5. CASE 2 < Len(T)
    <3>1. pc' = "member"
      BY <2>2, <2>3, <2>5
    <3>2. Cursor(par', Tokens(doc), Behind(doc, 0) + 1)
      <4>1. Cursor(par', T, 2 + 1)
        BY <1>3, <2>1, <2>3, CursorAdvance
      <4> QED BY <1>3, <4>1 DEF T
    <3>3. FitTo(doc, 0)
      BY DEF FitTo
    <3>4. Known(doc)
      BY <1>8 DEF Known
    <3>5. Filled(0, ListEnd(doc, 0, ListKey(TypeOf(doc))))'
      <4>1. /\ \A k : GivenBy(doc, 0, k) = << >>
            /\ ListEnd(doc, 0, ListKey(type)) = 0
        BY GivenSteps, ListSteps
      <4>2. /\ NewBlock(type).type = type /\ NewBlock(type).list = << >>
            /\ NewBlock(type).fields = [k \in DOMAIN NewBlock(type).fields |-> NewBlock(type).fields[k]]
        BY DEF NewBlock
      <4> DEFINE new == NewBlock(type)
      <4> HIDE DEF new, type
      <4>3. /\ block' = new /\ new.type = type /\ new.list = << >>
            /\ new.fields = [k \in DOMAIN new.fields |-> new.fields[k]]
        BY <2>3, <4>2 DEF new
      <4>4. \A k : FieldAfter(doc, 0, k) = new.fields[k]
        BY <4>1 DEF FieldAfter, new, type
      <4>5. /\ block'.type = type
            /\ block'.fields = [k \in DOMAIN new.fields |-> FieldAfter(doc, 0, k)]
            /\ Len(block'.list) = 0
        BY <4>3, <4>4, NothingIs
      <4>6. symbols' = {k \in Keys(type) : GivenBy(doc, 0, k) # << >>}
        BY <1>1, <1>2, <4>1
      <4>7. \A i \in 1 .. 0 : block'.list[i] = ItemOf(type, ListOf(doc, ListKey(type))[i])
        OBVIOUS
      <4> QED BY <1>1, <4>1, <4>5, <4>6, <4>7 DEF Filled, new, type
    <3>6. AtMember(0)'
      <4>1. 0 \in 0 .. Len(doc.members)
        BY <1>3
      <4> QED BY <1>1, <3>1, <3>2, <3>3, <3>5, <4>1 DEF AtMember
    <3> QED BY <1>1, <3>4, <3>6 DEF Stage
  <2> QED BY <2>4, <2>5
<1> QED BY <1>6, <1>7, <1>8

\* A set error flag leads to rejection.
LEMMA FailingStep ==
  ASSUME TypeIInv, Failing, Next
  PROVE  pc' = "rejected" \/ Failing'
<1>1. pc # "text" /\ pc \in {"member", "eids", "refs"}
  BY DEF Failing
<1>3. par.error
  BY DEF Failing
<1>4. ParserOK(par) /\ TypedBlock
  BY <1>1 DEF TypeIInv
<1>5. CASE pc' = "rejected"
  BY <1>5
<1>6. CASE par'.error /\ pc' \in {"eids", "refs"}
  BY <1>6 DEF Failing
<1>7. Sym.par.error
  BY <1>3, <1>4, ErrorStays DEF Sym
<1>8. ASSUME NEW kinds, Turn(kinds) PROVE ParserOK(Sym.par)
  BY <1>8, TurnOK DEF SameTokens
<1>9. CASE U8Member
  <2>1. ParseU8(Sym.par).par.error
    BY <1>7, <1>8, <1>9, ErrorStays DEF U8Member
  <2> QED BY <1>5, <1>9, <2>1 DEF U8Member, Assign, GoOn
<1>10. CASE U32Member
  <2>1. ParseU32(Sym.par).par.error
    BY <1>7, <1>8, <1>10, ErrorStays DEF U32Member
  <2> QED BY <1>5, <1>10, <2>1 DEF U32Member, Assign, GoOn
<1>11. CASE EidMember
  <2>1. PICK order \in SchemeFirst :
           Turn({"eid"}) /\ Assign(ParseEid(Sym.par, block.fields[Sym.val], order))
    BY <1>11 DEF EidMember
  <2>2. ParseEid(Sym.par, block.fields[Sym.val], order).par.error
    BY <1>7, <1>8, <2>1, ErrorStays
  <2> QED BY <1>5, <2>1, <2>2 DEF Assign, GoOn
<1>12. CASE ListMember
  <2>1. Turn({"eids", "refs"})
    BY <1>12 DEF ListMember
  <2>2. Advance(Sym.par).error /\ KindOf[block.type][Sym.val] \in {"eids", "refs"}
    BY <1>7, <1>8, <2>1, ErrorStays DEF Turn
  <2> QED BY <1>5, <1>6, <1>12, <2>2 DEF ListMember
<1>13. CASE EidsTurn
  <2>1. Advance(par).error
    BY <1>3, <1>4, ErrorStays
  <2> QED BY <1>5, <1>6, <1>13, <2>1 DEF EidsTurn
<1>14. CASE RefsTurn
  <2>1. \A order : ParseEid(par, ZeroEid, order).par.error
    BY <1>3, <1>4, ErrorStays
  <2> QED BY <1>5, <1>6, <1>14, <2>1 DEF RefsTurn
<1>15. CASE ListDone \/ BadMember
  BY <1>3, <1>5, <1>15 DEF ListDone, GoOn, BadMember
<1>16. CASE EndOfBlock
  <2>1. symbols = {} /\ block.type \in BlockTypes
    BY <1>4, <1>16 DEF EndOfBlock, Failing, TypedBlock, GoodBlock
  <2>2. symbols # Keys(block.type)
    BY <2>1, SymbolKinds
  <2> QED BY <1>5, <1>16, <2>2 DEF EndOfBlock
<1>17. ~ Parse /\ ~ Begin /\ ~ Returned
  BY <1>1 DEF Parse, Begin, Returned
<1> QED BY <1>9, <1>10, <1>11, <1>12, <1>13, <1>14, <1>15, <1>16, <1>17 DEF Next, Step

\* A document without a type is never accepted.
LEMMA DoomedStep ==
  ASSUME TypeIInv, Doomed, Next
  PROVE  Stage'
<1>1. pc # "text" /\ Failing /\ doc.head[1].type # "string"
  BY DEF Doomed, Failing
<1>2. doc' = doc
  BY <1>1, TokensKept
<1>3. ~ WellFormed(doc)
  BY <1>1 DEF WellFormed
<1> QED BY <1>1, <1>2, <1>3, FailingStep DEF Stage, Doomed

\* The invariant: a document that is judged is at one of the stages.
StageIInv ==
  /\ doc \in Docs \cup CutDocs \cup {NoDoc}
  /\ pc # "text" /\ Judged => Stage

LEMMA JudgedIsPlain ==
  ASSUME NEW M, DocumentsIn(M), doc \in Docs \cup CutDocs \cup {NoDoc}, Len(doc.head) = 2
  PROVE  DocumentOf(M, doc) /\ Plain(doc)
<1>1. Len(NoDoc.head) = 0
  BY NothingIs DEF NoDoc
<1> QED BY <1>1 DEF DocumentsIn

\* What was written is parsed to its tokens, if there is room for them.
LEMMA ParseCursor ==
  ASSUME NEW M, Unending(M), Marks(M), DocumentOf(M, doc), Plain(doc), Parse,
         IsText(doc), AllLegible(doc), Len(doc.head) = 2
  PROVE  \/ pc' = "rejected" /\ ~ Len(Tokens(doc)) <= MaxTokens
         \/ pc' = "begin" /\ Cursor(par', Tokens(doc), 1) /\ Len(Tokens(doc)) <= MaxTokens
<1> DEFINE p == jsmn_parse(text)
           T == Tokens(doc)
<1>1. IF p.error = "none" /\ p.tokens # << >>
      THEN pc' = "begin" /\ par' = Parser(SeenTokens(text, p.tokens))
      ELSE pc' = "rejected"
  BY DEF Parse
<1>2. /\ p.error = "none" <=> Len(T) <= MaxTokens
      /\ p.error = "none" => SeenTokens(text, p.tokens) = T
  <2>1. text = Text(doc)
    BY DEF IsText
  <2> QED BY <2>1, WrittenIsRead
<1>3. IsSeq(T) /\ Len(T) \in Nat /\ Len(T) >= 2
  <2>1. 0 \in 0 .. Len(doc.members)
    BY DEF Plain, IsSeq
  <2>2. /\ IsSeq(T) /\ Behind(doc, 0) = 2
        /\ \A n \in 0 .. Len(doc.members) : Behind(doc, n) <= Len(T)
    BY MemberPlaces
  <2> HIDE DEF T
  <2> QED BY <2>1, <2>2 DEF IsSeq
<1> HIDE DEF p, T
<1>4. CASE p.error # "none"
  BY <1>1, <1>2, <1>4 DEF T
<1>5. CASE p.error = "none"
  <2>1. p.tokens # << >>
    <3>1. SeenTokens(text, << >>) = << >>
      BY DEF SeenTokens
    <3>2. T # << >>
      BY <1>3, NothingIs
    <3> QED BY <1>2, <1>5, <3>1, <3>2
  <2>2. pc' = "begin" /\ par' = Parser(T)
    BY <1>1, <1>2, <1>5, <2>1
  <2>3. Cursor(par', T, 1)
    <3>1. 1 <= Len(T) /\ Len(T) > 0 /\ 1 \in 1 .. Len(T) + 1
      BY <1>3
    <3> QED BY <1>3, <2>2, <3>1 DEF Cursor, Parser
  <2> QED BY <1>2, <1>5, <2>2, <2>3 DEF T
<1> QED BY <1>4, <1>5

LEMMA ParseStep ==
  ASSUME NEW M, DocumentsIn(M), StageIInv, Parse
  PROVE  StageIInv'
<1>1. UNCHANGED <<doc, text>> /\ doc \in Docs \cup CutDocs \cup {NoDoc}
  BY DEF Parse, StageIInv
<1> SUFFICES ASSUME Judged PROVE Stage'
  BY <1>1 DEF StageIInv, Judged, IsText
<1>2. \/ pc' = "rejected" /\ ~ Len(Tokens(doc)) <= MaxTokens
      \/ pc' = "begin" /\ Cursor(par', Tokens(doc), 1) /\ Len(Tokens(doc)) <= MaxTokens
  <2>1. DocumentOf(M, doc) /\ Plain(doc) /\ Unending(M) /\ Marks(M)
    BY <1>1, JudgedIsPlain DEF Judged, DocumentsIn
  <2> QED BY <2>1, ParseCursor DEF Judged
<1>3. Len(Tokens(doc)) <= MaxTokens \/ ~ WellFormed(doc)
  BY DEF WellFormed
<1> QED BY <1>1, <1>2, <1>3 DEF Stage

\* A step of the loops leads from one stage to another.
LEMMA StageStep ==
  ASSUME TypeIInv, Plain(doc), SchemeFirst = {TRUE}, Judged, Stage, pc # "text", Next
  PROVE  Stage'
<1>1. Plain(doc) /\ Len(doc.head) = 2 /\ ~ HasBadEid(doc)
  BY DEF Judged
<1>2. doc' = doc /\ pc' # "text"
  BY TokensKept
<1>3. CASE pc = "begin"
  <2>1. Cursor(par, Tokens(doc), 1) /\ Len(Tokens(doc)) <= MaxTokens
    BY <1>3 DEF Stage, AtMember, AtElem, ListKey, Doomed, Failing
  <2>2. Begin
    BY <1>3 DEF Next, Step, Parse, U8Member, U32Member, EidMember, ListMember, BadMember,
       EidsTurn, RefsTurn, ListDone, EndOfBlock, Returned, Turn
  <2> QED BY <1>1, <2>1, <2>2, BeginStep
<1>4. CASE pc \in {"accepted", "rejected"}
  <2>1. UNCHANGED <<pc, doc, block>>
    BY <1>4 DEF Next, Step, Parse, Begin, U8Member, U32Member, EidMember, ListMember, BadMember,
       EidsTurn, RefsTurn, ListDone, EndOfBlock, Returned, Turn, vars
  <2>2. \/ pc = "rejected" /\ ~ WellFormed(doc)
        \/ pc = "accepted" /\ WellFormed(doc) /\ block = Meaning(doc)
    BY <1>4 DEF Stage, AtMember, AtElem, ListKey, Doomed, Failing
  <2> QED BY <2>1, <2>2 DEF Stage
<1>5. CASE Doomed
  BY <1>5, DoomedStep
<1>6. ASSUME Known(doc), NEW m, AtMember(m) PROVE Stage'
  <2>1. pc = "member"
    BY <1>6 DEF AtMember
  <2>2. U8Member \/ U32Member \/ EidMember \/ ListMember \/ BadMember \/ EndOfBlock
    BY <2>1 DEF Next, Step, Parse, Begin, EidsTurn, RefsTurn, ListDone, Returned
  <2>3. Known(doc)'
    BY <1>2, <1>6
  <2>4. CASE U8Member \/ U32Member
    <3>1. AtMember(m + 1)' \/ (pc' = "rejected" /\ ~ WellFormed(doc))
      BY <1>6, <2>4, NumberStep
    <3> QED BY <1>2, <2>3, <3>1 DEF Stage
  <2>5. CASE EidMember
    <3>1. AtMember(m + 1)'
      BY <1>6, <2>5, EidStep
    <3> QED BY <2>3, <3>1 DEF Stage
  <2>6. CASE ListMember
    <3>1. AtElem(m + 1, 0)' \/ (pc' = "rejected" /\ ~ WellFormed(doc))
      BY <1>6, <2>6, ListStep
    <3> QED BY <1>2, <2>3, <3>1 DEF Stage
  <2>7. CASE BadMember
    BY <1>2, <1>6, <2>7, BadStep DEF Stage
  <2>8. CASE EndOfBlock
    <3>1. \/ pc' = "accepted" /\ WellFormed(doc) /\ block' = Meaning(doc)
          \/ pc' = "rejected" /\ ~ WellFormed(doc)
      BY <1>6, <2>8, EndStep
    <3> QED BY <1>2, <3>1 DEF Stage
  <2> QED BY <2>2, <2>4, <2>5, <2>6, <2>7, <2>8
<1>7. ASSUME Known(doc), NEW n, NEW j, AtElem(n, j) PROVE Stage'
  <2>1. pc \in {"eids", "refs"}
    BY <1>7 DEF AtElem, ListKey
  <2>2. EidsTurn \/ RefsTurn \/ ListDone
    BY <2>1 DEF Next, Step, Parse, Begin, U8Member, U32Member, EidMember, ListMember, BadMember,
       EndOfBlock, Returned, Turn
  <2>3. Known(doc)'
    BY <1>2, <1>7
  <2>4. CASE EidsTurn
    <3>1. AtElem(n, j + 1)' \/ (pc' = "rejected" /\ ~ WellFormed(doc))
      BY <1>7, <2>4, EidsStep
    <3> QED BY <1>2, <2>3, <3>1 DEF Stage
  <2>5. CASE RefsTurn
    <3>1. AtElem(n, j + 1)' \/ (pc' = "rejected" /\ ~ WellFormed(doc))
      BY <1>7, <2>5, RefsStep
    <3> QED BY <1>2, <2>3, <3>1 DEF Stage
  <2>6. CASE ListDone
    <3>1. AtMember(n)'
      BY <1>7, <2>6, ListDoneStep
    <3> QED BY <2>3, <3>1 DEF Stage
  <2> QED BY <2>2, <2>4, <2>5, <2>6
<1> QED BY <1>3, <1>4, <1>5, <1>6, <1>7 DEF Stage

\* Of the documents with a head of two values and no value that ought to be an
\* EID and is none, the code accepts the well-formed ones and no others, and
\* makes of each the block it describes: in whatever order its members come,
\* whatever is repeated, missing, out of range or of the wrong type, and
\* whatever there is room for.  The scheme is parsed before the rest.
THEOREM DocsAcceptedExactly ==
  ASSUME NEW L, Inputs(L), NEW M, DocumentsIn(M), SchemeFirst = {TRUE}
  PROVE  Spec => []AcceptsExactly
<1>1. Init => StageIInv
  BY DEF Init, StageIInv
<1>2. TypeIInv /\ StageIInv /\ [Next]_vars => StageIInv'
  <2> SUFFICES ASSUME TypeIInv, StageIInv, [Next]_vars PROVE StageIInv'
    OBVIOUS
  <2>1. CASE Parse
    BY <2>1, ParseStep
  <2>2. CASE Next /\ ~ Parse
    <3>1. pc # "text"
      BY <2>2 DEF Next, Step, Begin, U8Member, U32Member, EidMember, ListMember, BadMember,
         EidsTurn, RefsTurn, ListDone, EndOfBlock, Returned, Turn
    <3>2. UNCHANGED <<doc, text>>
      BY <2>2, <3>1, TokensKept
    <3>3. ASSUME Judged PROVE Stage'
      <4>1. Plain(doc) /\ Stage
        BY <3>1, <3>3, JudgedIsPlain DEF StageIInv, Judged
      <4> QED BY <2>2, <3>1, <3>3, <4>1, StageStep
    <3> QED BY <3>2, <3>3 DEF StageIInv, Judged, IsText
  <2>3. CASE UNCHANGED vars
    <3>1. UNCHANGED <<pc, doc, text, par, block, symbols, left>>
      BY <2>3 DEF vars
    <3>2. \A n, c : Filled(n, c)' <=> Filled(n, c)
      BY <3>1 DEF Filled
    <3>3. \A n : AtMember(n)' <=> AtMember(n)
      BY <3>1, <3>2 DEF AtMember
    <3>4. \A n, j : AtElem(n, j)' <=> AtElem(n, j)
      BY <3>1, <3>2 DEF AtElem
    <3>5. Stage' <=> Stage
      BY <3>1, <3>3, <3>4 DEF Stage, Doomed, Failing
    <3> QED BY <3>1, <3>5 DEF StageIInv, Judged, IsText
  <2> QED BY <2>1, <2>2, <2>3
<1>3. StageIInv => AcceptsExactly
  <2> SUFFICES ASSUME StageIInv, pc \in {"accepted", "rejected"}, Judged
               PROVE  (pc = "accepted" <=> WellFormed(doc)) /\ (pc = "accepted" => block = Meaning(doc))
    BY DEF AcceptsExactly, Judged
  <2>1. \/ pc = "rejected" /\ ~ WellFormed(doc)
        \/ pc = "accepted" /\ WellFormed(doc) /\ block = Meaning(doc)
    BY DEF StageIInv, Stage, AtMember, AtElem, ListKey, Doomed, Failing
  <2> QED BY <2>1
<1>4. Spec => []TypeIInv
  BY TypesAlways
<1> QED BY <1>1, <1>2, <1>3, <1>4, PTL DEF Spec

-----------------------------------------------------------------------------
(* Malformed EIDs: where the keys are, and what is between them *)

\* Where the key of the nth member is.
KeyAt(d, n) == Behind(d, n - 1) + 1

\* The key and the value of a member that is not the last are where they ought
\* to be.
MemberLaid(d, n) ==
  LET T == Tokens(d)
      t == ValueTokens(d.members[n].value)
  IN  /\ n \in 1 .. Len(d.members) /\ n + 1 \in 1 .. Len(d.members) /\ Len(T) \in Nat
      /\ KeyAt(d, n) \in Nat /\ KeyAt(d, n + 1) \in Nat /\ KeyAt(d, n) >= 1
      /\ IsSeq(t) /\ Len(t) \in Nat /\ Len(t) >= 1
      /\ KeyAt(d, n + 1) = KeyAt(d, n) + (1 + Len(t)) /\ KeyAt(d, n + 1) < Len(T)
      /\ T[KeyAt(d, n)] = Tok(d.members[n].key)
      /\ T[KeyAt(d, n + 1)] = Tok(d.members[n + 1].key)
      /\ t[1] = Tok(d.members[n].value)
      /\ \A i \in 1 .. Len(t) : T[KeyAt(d, n) + i] = t[i]

LEMMA KeyPlaces ==
  ASSUME NEW d, Plain(d), Len(d.head) = 2, NEW n \in 1 .. Len(d.members) - 1
  PROVE  MemberLaid(d, n)
<1> DEFINE T == Tokens(d)
           N == Len(d.members)
           v == d.members[n].value
           t == ValueTokens(v)
           b == Behind(d, n - 1)
           c == Behind(d, n)
<1>1. /\ N \in Nat /\ n \in 1 .. N /\ n + 1 \in 1 .. N /\ (n + 1) - 1 = n
      /\ n - 1 \in 0 .. N /\ n \in 0 .. N /\ PlainValue(v)
  <2>1. N \in Nat /\ n \in 1 .. N - 1
    BY DEF Plain, IsSeq
  <2>2. n \in 1 .. N
    BY <2>1
  <2>3. PlainValue(v)
    BY <2>2 DEF Plain
  <2> HIDE DEF N, v
  <2> QED BY <2>1, <2>3
<1> HIDE DEF v
<1>2. /\ IsSeq(T) /\ b \in Nat /\ c \in Nat /\ c = b + (1 + Len(t))
      /\ T[b + 1] = Tok(d.members[n].key)
      /\ \A i \in 1 .. Len(t) : T[b + (1 + i)] = t[i]
  <2>1. n \in 1 .. Len(d.members) /\ n - 1 \in 0 .. Len(d.members) /\ n \in 0 .. Len(d.members)
    BY <1>1
  <2>2. /\ IsSeq(Tokens(d)) /\ \A k \in 0 .. Len(d.members) : Behind(d, k) \in Nat
        /\ \A k \in 1 .. Len(d.members) :
             LET s == ValueTokens(d.members[k].value)
             IN  /\ Behind(d, k) = Behind(d, k - 1) + (1 + Len(s))
                 /\ Tokens(d)[Behind(d, k - 1) + 1] = Tok(d.members[k].key)
                 /\ \A i \in 1 .. Len(s) : Tokens(d)[Behind(d, k - 1) + (1 + i)] = s[i]
    <3> HIDE DEF T, N, t, b, c
    <3>1. IsSeq(Tokens(d)) /\ \A k \in 0 .. Len(d.members) : Behind(d, k) \in Nat
      BY MemberPlaces
    <3>2. \A k \in 1 .. Len(d.members) :
             LET s == ValueTokens(d.members[k].value)
             IN  /\ Behind(d, k) = Behind(d, k - 1) + (1 + Len(s))
                 /\ Tokens(d)[Behind(d, k - 1) + 1] = Tok(d.members[k].key)
                 /\ \A i \in 1 .. Len(s) : Tokens(d)[Behind(d, k - 1) + (1 + i)] = s[i]
      BY MemberPlaces
    <3> QED BY <3>1, <3>2
  <2>3. t = ValueTokens(d.members[n].value)
    BY DEF v
  <2>4. IsSeq(T) /\ b \in Nat /\ c \in Nat
    BY <2>1, <2>2
  <2>5. c = b + (1 + Len(t)) /\ T[b + 1] = Tok(d.members[n].key)
    BY <2>1, <2>2, <2>3
  <2>6. \A i \in 1 .. Len(t) : T[b + (1 + i)] = t[i]
    BY <2>1, <2>2, <2>3
  <2> HIDE DEF T, b, c, t
  <2> QED BY <2>4, <2>5, <2>6
<1>3. Behind(d, (n + 1) - 1) + 2 <= Len(T) /\ T[Behind(d, (n + 1) - 1) + 1] = Tok(d.members[n + 1].key)
  BY <1>1, MemberHere
<1>4. KeyAt(d, n) = b + 1 /\ KeyAt(d, n + 1) = c + 1
  BY <1>1 DEF KeyAt
<1>5. IsSeq(t) /\ t[1] = Tok(v) /\ Len(t) = 1 + ElemEnd(v, Len(v.elems))
      /\ ElemEnd(v, Len(v.elems)) \in Nat
  <2>1. Len(v.elems) \in Nat
    BY <1>1, PlainElems
  <2>2. Len(v.elems) \in 0 .. Len(v.elems)
    BY <2>1
  <2> HIDE DEF t
  <2>3. IsSeq(t) /\ t[1] = Tok(v) /\ Len(t) = 1 + ElemEnd(v, Len(v.elems))
        /\ \A j \in 0 .. Len(v.elems) : ElemEnd(v, j) \in Nat
    BY <1>1, ElemPlaces DEF t
  <2> QED BY <2>2, <2>3
<1>6. Len(T) \in Nat
  BY <1>2 DEF IsSeq
<1>7. c + 2 <= Len(T) /\ T[c + 1] = Tok(d.members[n + 1].key)
  BY <1>1, <1>3
<1> HIDE DEF T, N, t, b, c
<1>8. /\ Len(t) \in Nat /\ Len(t) >= 1
      /\ c + 1 = (b + 1) + (1 + Len(t)) /\ c + 1 < Len(T) /\ b + 1 \in Nat /\ c + 1 \in Nat
      /\ b + 1 >= 1
  <2> DEFINE e == ElemEnd(v, Len(v.elems))
  <2>1. e \in Nat /\ Len(t) = 1 + e
    BY <1>5
  <2> HIDE DEF e
  <2> QED BY <1>2, <1>6, <1>7, <2>1
<1>9. ASSUME NEW i \in 1 .. Len(t) PROVE T[(b + 1) + i] = t[i]
  <2>1. (b + 1) + i = b + (1 + i)
    BY <1>2, <1>8
  <2> QED BY <1>2, <2>1
<1> QED BY <1>1, <1>2, <1>4, <1>5, <1>6, <1>7, <1>8, <1>9 DEF MemberLaid, T, N, t, v

\* The elements of an array are among the tokens of the value it is in.
LEMMA ArrayInside ==
  ASSUME NEW v, PlainValue(v), NEW i \in 1 .. Len(ValueTokens(v))
  PROVE  ValueTokens(v)[i].size \in Nat /\ i + ValueTokens(v)[i].size <= Len(ValueTokens(v))
<1> DEFINE t == ValueTokens(v)
           es == v.elems
           K == Len(es)
           E(j) == ElemEnd(v, j)
           L(j) == Len(es[j].elems)
<1>1. /\ IsSeq(t) /\ Len(t) = 1 + E(K) /\ t[1] = Tok(v)
      /\ E(0) = 0 /\ \A j \in 0 .. K : E(j) \in Nat
      /\ \A j \in 1 .. K :
           /\ E(j) = E(j - 1) + (1 + L(j))
           /\ E(j) <= E(K)
           /\ t[1 + (E(j - 1) + 1)] = Tok(es[j])
           /\ \A k \in 1 .. L(j) : t[1 + (E(j - 1) + (1 + k))] = Tok(es[j].elems[k])
  BY ElemPlaces
<1>2. K \in Nat /\ \A j \in 1 .. K : L(j) \in Nat /\ PlainElem(es[j])
  <2>1. \A j \in 1 .. K : IsSeq(es[j].elems) /\ PlainElem(es[j])
    BY PlainElems
  <2> QED BY <2>1, PlainElems DEF IsSeq
<1>3. \A j \in 1 .. K : \A k \in 1 .. L(j) : Len(es[j].elems[k].elems) = 0
  <2> SUFFICES ASSUME NEW j \in 1 .. K, NEW k \in 1 .. L(j) PROVE Len(es[j].elems[k].elems) = 0
    OBVIOUS
  <2> DEFINE e == es[j]
  <2>1. PlainElem(e) /\ k \in 1 .. Len(e.elems)
    BY <1>2
  <2> HIDE DEF e
  <2>2. CASE PlainLeaf(e)
    BY <2>1, <2>2, NothingIs DEF PlainLeaf
  <2>3. CASE \A m \in 1 .. Len(e.elems) : PlainLeaf(e.elems[m])
    <3>1. e.elems[k].elems = << >>
      BY <2>1, <2>3 DEF PlainLeaf
    <3> QED BY <3>1, NothingIs DEF e
  <2> QED BY <2>1, <2>2, <2>3 DEF PlainElem
<1>4. \A w : Tok(w).size = Len(w.elems)
  BY DEF Tok
<1> HIDE DEF t
<1>5. CASE i = 1
  <2>1. t[i].size = K
    BY <1>1, <1>4, <1>5
  <2> DEFINE S == {j \in 0 .. K : j <= E(j)}
  <2> HIDE DEF K, E, L
  <2>2. 0 \in S
    BY <1>1, <1>2
  <2>3. ASSUME NEW j \in 0 .. K - 1, j \in S PROVE j + 1 \in S
    <3>1. j + 1 \in 1 .. K /\ (j + 1) - 1 = j /\ j \in 0 .. K /\ j <= E(j)
      BY <1>2, <2>3
    <3>2. E(j + 1) = E(j) + (1 + L(j + 1)) /\ E(j) \in Nat /\ L(j + 1) \in Nat
      BY <1>1, <1>2, <3>1
    <3>3. j + 1 <= E(j + 1)
      BY <3>1, <3>2
    <3> QED BY <3>1, <3>3
  <2> HIDE DEF S
  <2>4. K \in S
    <3>1. 0 .. K \subseteq S
      BY <1>2, <2>2, <2>3, UpTo
    <3> QED BY <1>2, <3>1
  <2>5. K <= E(K) /\ E(K) \in Nat
    BY <1>1, <1>2, <2>4 DEF S
  <2>6. i + K <= Len(t)
    BY <1>1, <1>2, <1>5, <2>5
  <2> QED BY <1>2, <2>1, <2>6 DEF t
<1>6. CASE i # 1
  <2> HIDE DEF K, E, L
  <2> DEFINE p == i - 1
             S == {j \in 0 .. K : p <= E(j)}
  <2>1. p \in Nat /\ p >= 1 /\ p <= E(K) /\ i = 1 + p
    <3>1. i \in 1 .. Len(t) /\ K \in 0 .. K
      BY <1>2 DEF t
    <3>2. E(K) \in Nat
      BY <1>1, <3>1
    <3> QED BY <1>1, <1>6, <3>1, <3>2
  <2> HIDE DEF p
  <2>2. PICK j \in S : \A m \in S : j <= m
    <3>1. S \in SUBSET Nat /\ K \in S
      BY <1>2, <2>1
    <3> HIDE DEF S
    <3> QED BY <3>1, LeastNumber
  <2>3. j # 0 /\ j \in 0 .. K /\ p <= E(j)
    BY <1>1, <2>1
  <2>4. j \in 1 .. K /\ j - 1 \in 0 .. K /\ j - 1 \notin S
    BY <1>2, <2>2, <2>3
  <2> DEFINE a == E(j - 1)
             l == L(j)
  <2>5. a < p /\ p <= a + (1 + l) /\ a \in Nat /\ l \in Nat /\ a + (1 + l) <= E(K) /\ E(K) \in Nat
    <3>1. a \in Nat /\ l \in Nat /\ E(j) = a + (1 + l) /\ E(j) <= E(K) /\ K \in 0 .. K
      BY <1>1, <1>2, <2>4
    <3>2. ~ p <= a
      BY <2>4
    <3> QED BY <1>1, <2>1, <2>3, <3>1, <3>2
  <2>6. /\ t[1 + (a + 1)] = Tok(es[j])
        /\ \A k \in 1 .. l : t[1 + (a + (1 + k))] = Tok(es[j].elems[k])
    BY <1>1, <2>4
  <2> HIDE DEF a
  <2>7. CASE p = a + 1
    <3>1. t[i].size = l
      BY <1>4, <2>1, <2>6, <2>7 DEF L
    <3>2. i + l <= Len(t) /\ l \in Nat
      <4>1. Len(t) = 1 + E(K)
        BY <1>1
      <4> HIDE DEF l
      <4> QED BY <2>1, <2>5, <2>7, <4>1
    <3> HIDE DEF l
    <3>3. t[i].size \in Nat /\ i + t[i].size <= Len(t)
      BY <3>1, <3>2
    <3> QED BY <3>3 DEF t
  <2>8. CASE p # a + 1
    <3> DEFINE k == p - (a + 1)
    <3>1. k \in 1 .. l /\ p = a + (1 + k)
      <4> HIDE DEF l
      <4> QED BY <2>1, <2>5, <2>8
    <3> HIDE DEF k
    <3>2. t[i].size = 0
      <4>1. t[1 + (a + (1 + k))] = Tok(es[j].elems[k]) /\ i = 1 + (a + (1 + k))
        BY <2>1, <2>6, <3>1
      <4>2. Len(es[j].elems[k].elems) = 0
        BY <1>3, <2>4, <3>1
      <4> QED BY <1>4, <4>1, <4>2
    <3> QED BY <3>2 DEF t
  <2> QED BY <2>7, <2>8
<1> QED BY <1>5, <1>6

\* An array of which there are three tokens, the last two of them numbers.
LEMMA ThreeAreEid ==
  ASSUME NEW v, PlainValue(v), v.type = "array", Len(ValueTokens(v)) = 3,
         IsNum(ValueTokens(v)[2], U32), IsNum(ValueTokens(v)[3], U32)
  PROVE  IsEid(v)
<1> DEFINE t == ValueTokens(v)
           es == v.elems
           K == Len(es)
           E(j) == ElemEnd(v, j)
           L(j) == Len(es[j].elems)
<1>1. /\ Len(t) = 1 + E(K) /\ E(0) = 0 /\ \A j \in 0 .. K : E(j) \in Nat
      /\ \A j \in 1 .. K :
           /\ E(j) = E(j - 1) + (1 + L(j))
           /\ E(j) <= E(K)
           /\ t[1 + (E(j - 1) + 1)] = Tok(es[j])
  BY ElemPlaces
<1>2. K \in Nat /\ \A j \in 1 .. K : L(j) \in Nat /\ PlainElem(es[j])
  <2>1. \A j \in 1 .. K : IsSeq(es[j].elems) /\ PlainElem(es[j])
    BY PlainElems
  <2> QED BY <2>1, PlainElems DEF IsSeq
<1>3. \A w : IsNum(Tok(w), U32) => IsNum(w, U32)
  BY DEF Tok, IsNum
<1>4. \A j \in 1 .. K : IsNum(es[j], U32) => L(j) = 0
  BY <1>2, NumberIsLeaf
<1>5. IsNum(t[2], U32) /\ IsNum(t[3], U32) /\ Len(t) = 3 /\ IsSeq(es)
  BY PlainElems
<1> HIDE DEF t, K, E, L
<1>6. E(K) = 2
  <2>1. E(K) \in Nat /\ 1 + E(K) = 3
    <3>1. K \in 0 .. K
      BY <1>2
    <3> QED BY <1>1, <1>5, <3>1
  <2> QED BY <2>1
<1>7. K # 0
  BY <1>1, <1>6
<1>8. 1 \in 1 .. K /\ 1 - 1 = 0 /\ 0 \in 0 .. K
  BY <1>2, <1>7
<1>9. IsNum(es[1], U32) /\ E(1) = 1
  <2>1. t[1 + (0 + 1)] = Tok(es[1]) /\ E(1) = 0 + (1 + L(1))
    BY <1>1, <1>8
  <2>2. t[2] = Tok(es[1])
    BY <2>1
  <2>3. IsNum(es[1], U32)
    BY <1>3, <1>5, <2>2
  <2> QED BY <1>4, <1>8, <2>1, <2>3
<1>10. K # 1
  BY <1>6, <1>9
<1>11. 2 \in 1 .. K /\ 2 - 1 = 1
  BY <1>2, <1>7, <1>10
<1>12. IsNum(es[2], U32) /\ E(2) = 2
  <2>1. t[1 + (1 + 1)] = Tok(es[2]) /\ E(2) = 1 + (1 + L(2))
    BY <1>1, <1>9, <1>11
  <2>2. t[3] = Tok(es[2])
    BY <2>1
  <2>3. IsNum(es[2], U32)
    BY <1>3, <1>5, <2>2
  <2> QED BY <1>4, <1>11, <2>1, <2>3
<1>13. K = 2
  <2> SUFFICES ASSUME K # 2 PROVE FALSE
    OBVIOUS
  <2>1. 3 \in 1 .. K /\ 3 - 1 = 2
    BY <1>2, <1>11
  <2>2. E(3) = 2 + (1 + L(3)) /\ E(3) <= 2 /\ L(3) \in Nat
    BY <1>1, <1>2, <1>6, <1>12, <2>1
  <2> QED BY <2>2
<1>14. \A e \in Elems(v) : IsNum(e, U32)
  <2>1. DOMAIN es = 1 .. 2
    BY <1>5, <1>13 DEF IsSeq, K
  <2>2. \A j \in 1 .. 2 : j = 1 \/ j = 2
    OBVIOUS
  <2> QED BY <1>9, <1>12, <2>1, <2>2 DEF Elems
<1> QED BY <1>13, <1>14 DEF IsEid, K

\* Numbers and EIDs are parsed without going past a string.
LEMMA PassesNumber ==
  ASSUME NEW T, NEW x, NEW p, Cursor(p, T, x), ParserOK(p), NEW k \in Nat, x <= k, k < Len(T),
         T[k].type = "string"
  PROVE  /\ ParseU32(p).par.error \/ (x + 1 <= k /\ IsNum(T[x], U32) /\ Cursor(ParseU32(p).par, T, x + 1))
         /\ ParseU8(p).par.error \/ (x + 1 <= k /\ Cursor(ParseU8(p).par, T, x + 1))
<1>1. x \in Nat /\ Len(T) \in Nat /\ x <= Len(T)
  <2>1. x \in Nat /\ Len(T) \in Nat
    BY CursorAt
  <2> QED BY <2>1
<1>2. ASSUME NEW width, IsNum(T[x], width) PROVE x + 1 <= k
  <2>1. x # k
    BY <1>2 DEF IsNum
  <2> QED BY <1>1, <2>1
<1>3. IF IsNum(T[x], U32) THEN Cursor(ParseU32(p).par, T, x + 1) ELSE ParseU32(p).par.error
  BY <1>1, ReadsU32
<1>4. IF IsNum(T[x], U8) THEN Cursor(ParseU8(p).par, T, x + 1) ELSE ParseU8(p).par.error
  BY <1>1, ReadsU8
<1> QED BY <1>2, <1>3, <1>4

LEMMA PassesEid ==
  ASSUME NEW T, NEW x, NEW p, Cursor(p, T, x), ParserOK(p), NEW k \in Nat, x <= k, k < Len(T),
         T[k].type = "string", NEW was, NEW order
  PROVE  LET q == ParseEid(p, was, order).par
         IN  \/ q.error
             \/ T[x].type # "array" /\ q = p
             \/ /\ T[x].type = "array" /\ IsNum(T[x + 1], U32) /\ IsNum(T[x + 2], U32)
                /\ x + 3 <= k /\ Cursor(q, T, x + 3)
<1> DEFINE q == Advance(p)
           one == ParseU32(q)
           two == ParseU32(one.par)
           r == ParseEid(p, was, order)
<1>1. x \in Nat /\ Len(T) \in Nat /\ x <= Len(T) /\ x < Len(T)
      /\ (x + 1) + 1 = x + 2 /\ (x + 2) + 1 = x + 3
  <2>1. x \in Nat /\ Len(T) \in Nat
    BY CursorAt
  <2> QED BY <2>1
<1>2. Cur(p) = T[x] /\ More(p)
  BY <1>1, CursorAt
<1>3. CASE T[x].type # "array"
  <2>1. r = [val |-> was, par |-> p]
    BY <1>2, <1>3 DEF ParseEid
  <2> HIDE DEF r
  <2>2. r.par = p
    BY <2>1
  <2> QED BY <1>3, <2>2 DEF r
<1>4. CASE T[x].type = "array"
  <2>1. x # k /\ x + 1 <= k
    BY <1>1, <1>4
  <2>2. Cursor(q, T, x + 1) /\ ParserOK(q)
    BY <1>1, CursorAdvance, AdvanceOK DEF SameTokens
  <2> HIDE DEF q
  <2>3. ParserOK(one.par)
    BY <2>2, ParseU32OK DEF SameTokens
  <2>4. one.par.error \/ ((x + 1) + 1 <= k /\ IsNum(T[x + 1], U32) /\ Cursor(one.par, T, (x + 1) + 1))
    BY <2>1, <2>2, PassesNumber
  <2>5. r = [val |-> IF order THEN [scheme |-> one.val, ssp |-> two.val]
                     ELSE [scheme |-> two.val, ssp |-> one.val], par |-> two.par]
    BY <1>2, <1>4 DEF ParseEid, q
  <2> HIDE DEF one
  <2>6. CASE one.par.error
    <3>1. two.par.error
      BY <2>3, <2>6, ErrorStays
    <3> HIDE DEF two, r
    <3>2. r.par = two.par
      BY <2>5
    <3> QED BY <3>1, <3>2 DEF r
  <2>7. CASE ~ one.par.error
    <3>1. x + 2 <= k /\ IsNum(T[x + 1], U32) /\ Cursor(one.par, T, x + 2)
      BY <1>1, <2>4, <2>7
    <3>2. two.par.error \/ ((x + 2) + 1 <= k /\ IsNum(T[x + 2], U32) /\ Cursor(two.par, T, (x + 2) + 1))
      BY <2>3, <3>1, PassesNumber
    <3> HIDE DEF two, r
    <3>3. r.par = two.par
      BY <2>5
    <3>4. two.par.error \/ (x + 3 <= k /\ IsNum(T[x + 2], U32) /\ Cursor(two.par, T, x + 3))
      BY <1>1, <3>2
    <3> QED BY <1>4, <3>1, <3>3, <3>4 DEF r
  <2> QED BY <2>6, <2>7
<1> QED BY <1>3, <1>4

\* What BadEidCaught lets pass of the first n members.
Excused(d, n) ==
  \/ BadEids(d, n) = {}
  \/ HidesSymbol(d.members[n].value, Keys(TypeOf(d)))
  \/ ReadsAsEids(d.members[n].value)

ExcusedTo(d, n) == \A i \in 1 .. n : Excused(d, i)

\* Whatever the parser does when it has come to the last member.
Late == ExcusedTo(doc, Len(doc.members) - 1)

\* The parser is in a member that is not the last.
Within(n) ==
  /\ n \in 1 .. Len(doc.members) - 1 /\ ExcusedTo(doc, n - 1)
  /\ block.type = TypeOf(doc) /\ TypeOf(doc) \in BlockTypes

\* The next token is the xth of the document, one of member n.
InMember(n, x) ==
  /\ pc = "member" /\ Within(n)
  /\ Cursor(par, Tokens(doc), x) /\ KeyAt(doc, n) <= x /\ x < KeyAt(doc, n + 1)

\* The loop of parse_eids reads elements of an array in the value of member n.
InEids(n, x) ==
  /\ pc = "eids" /\ Within(n) /\ Excused(doc, n) /\ left \in Nat
  /\ Cursor(par, Tokens(doc), x) /\ KeyAt(doc, n) <= x /\ x + left <= KeyAt(doc, n + 1)

\* The tokens up to the xth that follow the one of the value of member n are
\* those EIDs would have.
EidsTo(d, n, x) ==
  LET first == KeyAt(d, n) + 2
      toks(i) == Tokens(d)[KeyAt(d, n) + (1 + i)]
  IN  /\ first <= x /\ (x - first) % 3 = 0
      /\ \A i \in 1 .. x - first :
            IF i % 3 = 1 THEN toks(i).type = "array" ELSE IsNum(toks(i), U32)

\* The loop of parse_refs does not go past member n.
InRefs(n, x) ==
  /\ pc = "refs" /\ Within(n) /\ (Excused(doc, n) \/ EidsTo(doc, n, x))
  /\ Cursor(par, Tokens(doc), x) /\ KeyAt(doc, n) <= x /\ x <= KeyAt(doc, n + 1)

Followed ==
  \/ pc = "begin" /\ Cursor(par, Tokens(doc), 1)
  \/ pc = "rejected" \/ Late \/ Failing
  \/ \E n, x : InMember(n, x) \/ InEids(n, x) \/ InRefs(n, x)

\* A turn of the loop over the members ends in the member it began in, or at
\* the key of the next.
LEMMA MovedOn ==
  ASSUME Plain(doc), Len(doc.head) = 2, NEW n, Within(n), NEW y,
         doc' = doc, block'.type = block.type, pc' = "member", Cursor(par', Tokens(doc), y),
         KeyAt(doc, n) <= y, y <= KeyAt(doc, n + 1), y = KeyAt(doc, n + 1) => Excused(doc, n)
  PROVE  Late' \/ \E m, x : InMember(m, x)'
<1> DEFINE N == Len(doc.members)
<1>1. /\ n \in 1 .. N - 1 /\ N \in Nat /\ ExcusedTo(doc, n - 1)
      /\ block.type = TypeOf(doc) /\ TypeOf(doc) \in BlockTypes
  BY DEF Within, Plain, IsSeq
<1>2. CASE y < KeyAt(doc, n + 1)
  <2>1. Within(n)'
    BY <1>1 DEF Within
  <2> QED BY <1>2, <2>1 DEF InMember
<1>3. CASE y = KeyAt(doc, n + 1)
  <2>1. ExcusedTo(doc, n)
    <3>1. \A i \in 1 .. n : i \in 1 .. n - 1 \/ i = n
      BY <1>1
    <3> QED BY <1>1, <1>3, <3>1 DEF ExcusedTo
  <2>2. CASE n = N - 1
    BY <2>1, <2>2 DEF Late
  <2>3. CASE n # N - 1
    <3>1. n + 1 \in 1 .. N - 1 /\ (n + 1) - 1 = n
      BY <1>1, <2>3
    <3>2. Within(n + 1)'
      BY <1>1, <2>1, <3>1 DEF Within
    <3>3. KeyAt(doc, n + 1) < KeyAt(doc, (n + 1) + 1)
      <4> DEFINE m == n + 1
                 a == KeyAt(doc, m)
                 b == KeyAt(doc, m + 1)
                 c == Len(ValueTokens(doc.members[m].value))
      <4>1. m \in 1 .. Len(doc.members) - 1
        BY <3>1
      <4> HIDE DEF m
      <4>2. b = a + (1 + c) /\ a \in Nat /\ c \in Nat
        BY <4>1, KeyPlaces DEF MemberLaid
      <4> HIDE DEF a, b, c
      <4>3. a < b
        BY <4>2
      <4> QED BY <4>3 DEF a, b, m
    <3>4. KeyAt(doc, n + 1) <= y
      <4>1. n \in 1 .. Len(doc.members) - 1
        BY <1>1
      <4>2. KeyAt(doc, n + 1) \in Nat
        BY <4>1, KeyPlaces DEF MemberLaid
      <4> QED BY <1>3, <4>2
    <3>5. InMember(n + 1, y)'
      BY <1>3, <3>2, <3>3, <3>4 DEF InMember
    <3> QED BY <3>5
  <2> QED BY <2>2, <2>3
<1>4. y < KeyAt(doc, n + 1) \/ y = KeyAt(doc, n + 1)
  <2>1. KeyAt(doc, n + 1) \in Nat
    <3>1. MemberLaid(doc, n)
      BY <1>1, KeyPlaces
    <3> QED BY <3>1 DEF MemberLaid
  <2>2. y \in Nat
    BY CursorAt
  <2> QED BY <2>1, <2>2
<1> QED BY <1>2, <1>3, <1>4

\* A symbol in the value of a member excuses it, and so does what its key says.
LEMMA SymbolExcuses ==
  ASSUME Plain(doc), Len(doc.head) = 2, NEW n \in 1 .. Len(doc.members) - 1, NEW x,
         KeyAt(doc, n) < x, x < KeyAt(doc, n + 1), x \in Nat,
         Tokens(doc)[x].type = "string", Tokens(doc)[x].val \in Keys(TypeOf(doc))
  PROVE  Excused(doc, n)
<1> DEFINE v == doc.members[n].value
           t == ValueTokens(v)
           a == KeyAt(doc, n)
           T == Tokens(doc)
           i == x - a
<1>1. /\ a \in Nat /\ KeyAt(doc, n + 1) = a + (1 + Len(t)) /\ Len(t) \in Nat /\ IsSeq(t)
      /\ \A j \in 1 .. Len(t) : T[a + j] = t[j]
  <2>1. MemberLaid(doc, n)
    BY KeyPlaces
  <2> QED BY <2>1 DEF MemberLaid
<1> HIDE DEF t, a, T
<1>2. i \in 1 .. Len(t) /\ a + i = x
  BY <1>1 DEF a
<1> HIDE DEF i
<1>3. T[x] = t[i] /\ T[x].type = "string" /\ T[x].val \in Keys(TypeOf(doc))
  BY <1>1, <1>2 DEF T
<1>4. t[i] \in Range(t)
  <2>1. i \in DOMAIN t
    BY <1>1, <1>2 DEF IsSeq
  <2> QED BY <2>1 DEF Range
<1>5. HidesSymbol(v, Keys(TypeOf(doc)))
  BY <1>3, <1>4 DEF HidesSymbol, t
<1> QED BY <1>5 DEF Excused

LEMMA KindExcuses ==
  ASSUME NEW n, NEW k, HasKey(doc.members[n], k), k \in Keys(TypeOf(doc)),
         \/ KindOf[TypeOf(doc)][k] \in {"u8", "u32", "eids"}
         \/ KindOf[TypeOf(doc)][k] = "eid" /\ IsEid(doc.members[n].value)
  PROVE  Excused(doc, n)
<1> DEFINE m == doc.members[n]
           kind == KindOf[TypeOf(doc)][k]
<1>1. m.key.type = "string" /\ m.key.val = k
  BY DEF HasKey
<1>2. BadEids(doc, n) = CASE kind = "eid" -> {v \in {m.value} : ~ IsEid(v)}
                          [] kind = "refs" -> {v \in Elems(m.value) : ~ IsEid(v)}
                          [] OTHER -> {}
  BY <1>1 DEF BadEids
<1> HIDE DEF kind
<1>3. kind \in {"u8", "u32", "eids"} \/ (kind = "eid" /\ IsEid(m.value))
  BY DEF kind
<1>4. BadEids(doc, n) = {}
  <2>1. CASE kind = "eid" /\ IsEid(m.value)
    <3>1. {v \in {m.value} : ~ IsEid(v)} = {}
      BY <2>1
    <3> QED BY <1>2, <2>1, <3>1
  <2>2. CASE kind \in {"u8", "u32", "eids"}
    BY <1>2, <2>2
  <2> QED BY <1>3, <2>1, <2>2
<1> QED BY <1>4 DEF Excused

\* At the top of a turn in a member: an error, no symbol, or a symbol, which is
\* the member's key or is in its value.
LEMMA TurnWithin ==
  ASSUME TypeIInv, Plain(doc), PlainKeys(doc), NEW n, NEW x, InMember(n, x)
  PROVE  /\ ParserOK(Sym.par)
         /\ \/ Sym.par.error \/ Sym.val = NotNumber
            \/ /\ Sym.val \in Keys(TypeOf(doc)) /\ Cursor(Sym.par, Tokens(doc), x + 1)
               /\ x + 1 <= KeyAt(doc, n + 1)
               /\ x = KeyAt(doc, n) => HasKey(doc.members[n], Sym.val)
               /\ x # KeyAt(doc, n) => Excused(doc, n)
<1> DEFINE T == Tokens(doc)
           syms == Keys(block.type)
           first == FirstKey[block.type]
           r == ParseSym(par, syms, first)
           a == KeyAt(doc, n)
           b == KeyAt(doc, n + 1)
<1>1. /\ n \in 1 .. Len(doc.members) - 1 /\ block.type = TypeOf(doc) /\ TypeOf(doc) \in BlockTypes
      /\ Cursor(par, T, x) /\ a <= x /\ x < b /\ Len(doc.head) = 2 /\ ParserOK(par)
  BY DEF InMember, Within, PlainKeys, TypeIInv
<1>2. /\ a \in Nat /\ b \in Nat /\ b < Len(T) /\ Len(T) \in Nat /\ x \in Nat
      /\ T[a] = Tok(doc.members[n].key)
  <2>1. x \in Nat
    <3> HIDE DEF T
    <3> QED BY <1>1, CursorAt
  <2>2. MemberLaid(doc, n)
    BY <1>1, KeyPlaces
  <2> QED BY <2>1, <2>2 DEF MemberLaid
<1>3. syms = Keys(TypeOf(doc)) /\ first \in syms /\ Sym = r
  BY <1>1, SymbolKinds DEF Sym
<1> HIDE DEF T, syms, first, a, b
<1>4. ParserOK(r.par)
  BY <1>1, <1>3, ParseSymOK DEF SameTokens
<1>5. x <= Len(T) /\ x + 1 <= b
  BY <1>1, <1>2
<1>6. /\ T[x].type # "string" => r.par.error
      /\ T[x].type = "string" =>
           IF T[x].val \in syms THEN r.val = T[x].val /\ Cursor(r.par, T, x + 1)
           ELSE r.val = NotNumber
  BY <1>1, <1>5, ReadsSym
<1> HIDE DEF r
<1>7. CASE T[x].type # "string" \/ T[x].val \notin syms
  BY <1>3, <1>4, <1>6, <1>7
<1>8. CASE T[x].type = "string" /\ T[x].val \in syms
  <2>1. r.val = T[x].val /\ Cursor(r.par, T, x + 1)
    BY <1>6, <1>8
  <2>2. x = a => HasKey(doc.members[n], r.val)
    <3>1. Tok(doc.members[n].key).type = doc.members[n].key.type
          /\ Tok(doc.members[n].key).val = doc.members[n].key.val
      BY DEF Tok
    <3> QED BY <1>2, <1>8, <2>1, <3>1 DEF HasKey
  <2>3. x # a => Excused(doc, n)
    <3>1. x # a => a < x
      BY <1>1, <1>2
    <3> QED BY <1>1, <1>2, <1>3, <1>8, <3>1, SymbolExcuses DEF a, b, T
  <2>4. r.val \in Keys(TypeOf(doc))
    BY <1>3, <1>8, <2>1
  <2> QED BY <1>3, <1>4, <1>5, <2>1, <2>2, <2>3, <2>4 DEF a, b, T
<1> QED BY <1>7, <1>8

LEMMA NextKey ==
  ASSUME Plain(doc), PlainKeys(doc), NEW n \in 1 .. Len(doc.members) - 1
  PROVE  /\ MemberLaid(doc, n) /\ KeyAt(doc, n) \in Nat
         /\ KeyAt(doc, n + 1) \in Nat /\ KeyAt(doc, n + 1) < Len(Tokens(doc))
         /\ Tokens(doc)[KeyAt(doc, n + 1)].type = "string"
<1>1. MemberLaid(doc, n)
  BY KeyPlaces DEF PlainKeys
<1>2. /\ n + 1 \in 1 .. Len(doc.members) /\ KeyAt(doc, n + 1) \in Nat /\ KeyAt(doc, n) \in Nat
      /\ KeyAt(doc, n + 1) < Len(Tokens(doc))
      /\ Tokens(doc)[KeyAt(doc, n + 1)] = Tok(doc.members[n + 1].key)
  BY <1>1 DEF MemberLaid
<1>3. doc.members[n + 1].key.type = "string"
  <2>1. DOMAIN doc.members = 1 .. Len(doc.members)
    BY DEF Plain, IsSeq
  <2> QED BY <1>2, <2>1 DEF PlainKeys
<1> QED BY <1>1, <1>2, <1>3, TokIs

\* Assignments keep the type of the block.
LEMMA TypeStays ==
  ASSUME NEW b, b = [type |-> b.type, fields |-> b.fields, list |-> b.list], NEW k, NEW v
  PROVE  [b EXCEPT !.fields[k] = v].type = b.type /\ [b EXCEPT !.list = v].type = b.type
<1> DEFINE t == b.type
           f == b.fields
           l == b.list
<1>1. b = [type |-> t, fields |-> f, list |-> l]
  OBVIOUS
<1> HIDE DEF t, f, l
<1>2. [b EXCEPT !.fields[k] = v].type = t /\ [b EXCEPT !.list = v].type = t
  BY <1>1
<1> QED BY <1>2 DEF t

LEMMA AssignFollowed ==
  ASSUME TypeIInv, Plain(doc), PlainKeys(doc), NEW n, NEW x, InMember(n, x),
         NEW kinds, Turn(kinds), NEW r, Assign(r), NEW y,
         \/ r.par.error
         \/ /\ Cursor(r.par, Tokens(doc), y) /\ KeyAt(doc, n) <= y /\ y <= KeyAt(doc, n + 1)
            /\ y = KeyAt(doc, n + 1) => Excused(doc, n)
  PROVE  pc' = "rejected" \/ Late' \/ \E m, z : InMember(m, z)'
<1>1. /\ block' = [block EXCEPT !.fields[Sym.val] = r.val] /\ par' = r.par /\ doc' = doc
      /\ pc' = IF par'.error THEN "rejected" ELSE "member"
  BY DEF Assign, GoOn
<1>2. Within(n) /\ Len(doc.head) = 2
  BY DEF InMember, PlainKeys
<1>3. block'.type = block.type
  <2>1. block = [type |-> block.type, fields |-> block.fields, list |-> block.list]
    BY DEF TypeIInv, InMember, TypedBlock
  <2> QED BY <1>1, <2>1, TypeStays
<1>4. CASE r.par.error
  BY <1>1, <1>4
<1>5. CASE ~ r.par.error
  <2>1. pc' = "member"
    BY <1>1, <1>5
  <2>2. /\ Cursor(par', Tokens(doc), y) /\ KeyAt(doc, n) <= y /\ y <= KeyAt(doc, n + 1)
        /\ y = KeyAt(doc, n + 1) => Excused(doc, n)
    BY <1>1, <1>5
  <2> QED BY <1>1, <1>2, <1>3, <2>1, <2>2, MovedOn
<1> QED BY <1>4, <1>5

LEMMA NumberFollowed ==
  ASSUME TypeIInv, Plain(doc), PlainKeys(doc), NEW n, NEW x, InMember(n, x), U8Member \/ U32Member
  PROVE  pc' = "rejected" \/ Late' \/ \E m, z : InMember(m, z)'
<1> DEFINE T == Tokens(doc)
           a == KeyAt(doc, n)
           b == KeyAt(doc, n + 1)
           q == Sym.par
           k == Sym.val
<1>1. PICK r \in {ParseU8(q), ParseU32(q)} : Assign(r) /\ Turn({"u8", "u32"})
  BY DEF U8Member, U32Member, Turn
<1>2. /\ ParserOK(q) /\ k # NotNumber /\ KindOf[block.type][k] \in {"u8", "u32"}
      /\ q.error \/ /\ Cursor(q, T, x + 1) /\ x + 1 <= b /\ k \in Keys(TypeOf(doc))
                    /\ x = a => HasKey(doc.members[n], k)
                    /\ x # a => Excused(doc, n)
  BY <1>1, TurnWithin DEF Turn
<1>3. /\ n \in 1 .. Len(doc.members) - 1 /\ block.type = TypeOf(doc) /\ a <= x
      /\ Cursor(par, T, x)
  BY DEF InMember, Within
<1>4. b \in Nat /\ b < Len(T) /\ T[b].type = "string" /\ a \in Nat
  BY <1>3, NextKey
<1> HIDE DEF k
<1>5. CASE q.error
  <2>1. r.par.error
    BY <1>1, <1>2, <1>5, ErrorStays
  <2> QED BY <1>1, <2>1, AssignFollowed
<1>6. CASE ~ q.error
  <2>1. Excused(doc, n)
    <3>1. CASE x = a
      BY <1>2, <1>3, <1>6, <3>1, KindExcuses
    <3>2. CASE x # a
      BY <1>2, <1>6, <3>2
    <3> QED BY <3>1, <3>2
  <2> DEFINE y == (x + 1) + 1
  <2>2. r.par.error \/ (y <= b /\ Cursor(r.par, T, y))
    <3> HIDE DEF T, b, q
    <3>1. /\ ParseU32(q).par.error \/ (y <= b /\ Cursor(ParseU32(q).par, T, y))
          /\ ParseU8(q).par.error \/ (y <= b /\ Cursor(ParseU8(q).par, T, y))
      BY <1>2, <1>4, <1>6, PassesNumber
    <3> QED BY <1>1, <3>1
  <2>3. a <= y
    <3>1. x \in Nat
      <4> HIDE DEF T
      <4> QED BY <1>3, CursorAt
    <3> HIDE DEF a
    <3> QED BY <1>3, <1>4, <3>1
  <2> HIDE DEF y
  <2> QED BY <1>1, <2>1, <2>2, <2>3, AssignFollowed
<1> QED BY <1>5, <1>6

LEMMA EidFollowed ==
  ASSUME TypeIInv, Plain(doc), PlainKeys(doc), NEW n, NEW x, InMember(n, x), EidMember
  PROVE  pc' = "rejected" \/ Late' \/ \E m, z : InMember(m, z)'
<1> DEFINE T == Tokens(doc)
           a == KeyAt(doc, n)
           b == KeyAt(doc, n + 1)
           q == Sym.par
           k == Sym.val
           was == block.fields[k]
           v == doc.members[n].value
           t == ValueTokens(v)
<1>1. PICK order \in SchemeFirst : Turn({"eid"}) /\ Assign(ParseEid(q, was, order))
  BY DEF EidMember
<1> DEFINE r == ParseEid(q, was, order)
<1>2. /\ ParserOK(q) /\ k # NotNumber /\ KindOf[block.type][k] = "eid"
      /\ q.error \/ /\ Cursor(q, T, x + 1) /\ x + 1 <= b /\ k \in Keys(TypeOf(doc))
                    /\ x = a => HasKey(doc.members[n], k)
                    /\ x # a => Excused(doc, n)
  BY <1>1, TurnWithin DEF Turn
<1>3. /\ n \in 1 .. Len(doc.members) - 1 /\ block.type = TypeOf(doc) /\ a <= x
      /\ Cursor(par, T, x)
  BY DEF InMember, Within
<1>4. b \in Nat /\ b < Len(T) /\ T[b].type = "string" /\ a \in Nat /\ MemberLaid(doc, n)
  BY <1>3, NextKey
<1>5. x \in Nat
  <2> HIDE DEF T
  <2> QED BY <1>3, CursorAt
<1>6. Assign(r) /\ Turn({"eid"})
  BY <1>1
<1>7. /\ Len(t) \in Nat /\ Len(t) >= 1 /\ b = a + (1 + Len(t)) /\ t[1] = Tok(v)
      /\ \A i \in 1 .. Len(t) : T[a + i] = t[i]
  BY <1>4 DEF MemberLaid
<1>8. PlainValue(v)
  BY <1>3 DEF Plain
<1> HIDE DEF k, was
<1>9. CASE q.error
  <2>1. r.par.error
    BY <1>2, <1>9, ErrorStays
  <2> HIDE DEF r
  <2> QED BY <1>6, <2>1, AssignFollowed
<1>10. CASE ~ q.error
  <2>1. \/ r.par.error
        \/ T[x + 1].type # "array" /\ r.par = q
        \/ /\ T[x + 1].type = "array" /\ IsNum(T[(x + 1) + 1], U32) /\ IsNum(T[(x + 1) + 2], U32)
           /\ (x + 1) + 3 <= b /\ Cursor(r.par, T, (x + 1) + 3)
    <3> HIDE DEF T, b, q
    <3> QED BY <1>2, <1>4, <1>10, PassesEid
  <2> HIDE DEF r, q, t, T, a, b, v
  <2>2. CASE r.par.error
    BY <1>6, <2>2, AssignFollowed
  <2>3. CASE T[x + 1].type # "array" /\ r.par = q
    <3> DEFINE y == x + 1
    <3>1. Cursor(r.par, T, y) /\ a <= y /\ y <= b
      BY <1>2, <1>3, <1>4, <1>5, <1>10, <2>3
    <3>2. y = b => x # a
      BY <1>4, <1>5, <1>7
    <3>3. y = b => Excused(doc, n)
      BY <1>2, <1>10, <3>2
    <3> HIDE DEF y
    <3> QED BY <1>6, <3>1, <3>3, AssignFollowed DEF T, a, b
  <2>4. CASE /\ T[x + 1].type = "array" /\ IsNum(T[(x + 1) + 1], U32) /\ IsNum(T[(x + 1) + 2], U32)
             /\ (x + 1) + 3 <= b /\ Cursor(r.par, T, (x + 1) + 3)
    <3> DEFINE y == (x + 1) + 3
    <3>1. Cursor(r.par, T, y) /\ a <= y /\ y <= b
      BY <1>3, <1>4, <1>5, <2>4
    <3>2. ASSUME y = b, x = a PROVE Excused(doc, n)
      <4>1. Len(t) = 3 /\ (x + 1) + 1 = a + 2 /\ (x + 1) + 2 = a + 3 /\ x + 1 = a + 1
        <5> DEFINE l == Len(t)
        <5>1. l \in Nat /\ b = a + (1 + l) /\ b = (x + 1) + 3 /\ x = a /\ a \in Nat
          BY <1>4, <1>7, <3>2
        <5> HIDE DEF l
        <5>2. l = 3
          BY <5>1
        <5> QED BY <5>1, <5>2 DEF l
      <4>2. T[a + 1] = t[1] /\ T[a + 2] = t[2] /\ T[a + 3] = t[3]
        BY <1>7, <4>1
      <4>3. IsNum(t[2], U32) /\ IsNum(t[3], U32) /\ Tok(v).type = "array"
        BY <1>7, <2>4, <4>1, <4>2
      <4>4. v.type = "array"
        BY <4>3, TokIs
      <4>5. IsEid(v)
        BY <1>8, <4>1, <4>3, <4>4, ThreeAreEid DEF t
      <4> QED BY <1>2, <1>3, <1>10, <3>2, <4>5, KindExcuses DEF v
    <3>3. y = b => Excused(doc, n)
      BY <1>2, <1>10, <3>2
    <3> HIDE DEF y
    <3> QED BY <1>6, <3>1, <3>3, AssignFollowed DEF T, a, b
  <2> QED BY <2>1, <2>2, <2>3, <2>4
<1> QED BY <1>9, <1>10

\* A list in a member, up to the loop over it.
LEMMA ListFollowed ==
  ASSUME TypeIInv, Plain(doc), PlainKeys(doc), NEW n, NEW x, InMember(n, x), ListMember
  PROVE  \/ pc' = "rejected" \/ Failing'
         \/ InEids(n, x + 2)' \/ InRefs(n, x + 2)'
<1> DEFINE T == Tokens(doc)
           a == KeyAt(doc, n)
           b == KeyAt(doc, n + 1)
           q == Sym.par
           k == Sym.val
           v == doc.members[n].value
           t == ValueTokens(v)
<1>1. /\ Turn({"eids", "refs"}) /\ doc' = doc /\ block' = block
      /\ IF Cur(q).type = "array"
         THEN left' = Cur(q).size /\ par' = Advance(q) /\ pc' = KindOf[block.type][k]
         ELSE pc' = "rejected"
  BY DEF ListMember
<1>2. /\ ParserOK(q) /\ k # NotNumber /\ KindOf[block.type][k] \in {"eids", "refs"}
      /\ q.error \/ /\ Cursor(q, T, x + 1) /\ x + 1 <= b /\ k \in Keys(TypeOf(doc))
                    /\ x = a => HasKey(doc.members[n], k)
                    /\ x # a => Excused(doc, n)
  BY <1>1, TurnWithin DEF Turn
<1>3. /\ n \in 1 .. Len(doc.members) - 1 /\ block.type = TypeOf(doc) /\ a <= x
      /\ Cursor(par, T, x) /\ Within(n)
  BY DEF InMember, Within
<1>4. b \in Nat /\ b < Len(T) /\ T[b].type = "string" /\ a \in Nat /\ MemberLaid(doc, n)
  BY <1>3, NextKey
<1>5. x \in Nat /\ Len(T) \in Nat
  <2> HIDE DEF T
  <2> QED BY <1>3, CursorAt
<1>6. Within(n)'
  BY <1>1, <1>3 DEF Within
<1>7. /\ Len(t) \in Nat /\ b = a + (1 + Len(t)) /\ PlainValue(v)
      /\ \A i \in 1 .. Len(t) : T[a + i] = t[i]
  <2>1. PlainValue(v)
    BY <1>3 DEF Plain
  <2> QED BY <1>4, <2>1 DEF MemberLaid
<1> HIDE DEF k
<1>8. CASE q.error
  <2>1. Advance(q).error
    BY <1>2, <1>8, ErrorStays
  <2> QED BY <1>1, <1>2, <2>1 DEF Failing
<1>9. CASE ~ q.error /\ Cur(q).type # "array"
  BY <1>1, <1>9
<1>10. CASE ~ q.error /\ Cur(q).type = "array"
  <2> HIDE DEF T, a, b, q, t
  <2>1. Cursor(q, T, x + 1) /\ x + 1 <= b /\ x + 1 <= Len(T)
    BY <1>2, <1>4, <1>5, <1>10
  <2>2. Cur(q) = T[x + 1]
    BY <2>1, CursorAt
  <2>3. x + 1 # b
    BY <1>4, <1>10, <2>2
  <2>4. x + 1 < b /\ a < x + 1 /\ x + 2 <= b /\ a <= x + 2 /\ (x + 1) + 1 = x + 2
    BY <1>3, <1>4, <1>5, <2>1, <2>3
  <2>5. Cursor(par', T, x + 2)
    BY <1>1, <1>10, <2>1, <2>4, CursorAdvance
  <2>6. CASE KindOf[block.type][k] = "eids"
    <3>1. Excused(doc, n)
      <4>1. CASE x = a
        BY <1>2, <1>3, <1>10, <2>6, <4>1, KindExcuses
      <4>2. CASE x # a
        BY <1>2, <1>10, <4>2
      <4> QED BY <4>1, <4>2
    <3> DEFINE i == (x + 1) - a
               l == Len(t)
    <3>2. i \in 1 .. Len(t) /\ a + i = x + 1
      <4>1. l \in Nat /\ b = a + (1 + l)
        BY <1>7
      <4> HIDE DEF l
      <4>2. i \in 1 .. l /\ a + i = x + 1
        BY <1>4, <1>5, <2>4, <4>1
      <4> QED BY <4>2 DEF l
    <3> HIDE DEF i
    <3>3. Cur(q) = t[i]
      BY <1>7, <2>2, <3>2
    <3> DEFINE s == t[i].size
    <3>4. s \in Nat /\ i + s <= l
      <4>1. i \in 1 .. Len(ValueTokens(v))
        BY <3>2 DEF t
      <4> HIDE DEF v, i
      <4> QED BY <1>7, <4>1, ArrayInside DEF t
    <3>5. left' = s /\ pc' = "eids"
      BY <1>1, <1>10, <2>6, <3>3
    <3>6. (x + 2) + s <= b
      <4>1. l \in Nat /\ b = a + (1 + l) /\ i \in Nat
        BY <1>7, <3>2
      <4> HIDE DEF l, s
      <4> QED BY <1>4, <1>5, <3>2, <3>4, <4>1
    <3> HIDE DEF s
    <3>7. InEids(n, x + 2)'
      BY <1>1, <1>6, <2>4, <2>5, <3>1, <3>4, <3>5, <3>6 DEF InEids, T, a, b
    <3> QED BY <3>7
  <2>7. CASE KindOf[block.type][k] = "refs"
    <3>1. Excused(doc, n) \/ EidsTo(doc, n, x + 2)
      <4>1. CASE x = a
        <5>1. a + 2 <= x + 2 /\ (x + 2) - (a + 2) = 0
          BY <1>4, <4>1
        <5>2. 0 % 3 = 0 /\ 1 .. 0 = {}
          OBVIOUS
        <5> QED BY <5>1, <5>2 DEF EidsTo, a
      <4>2. CASE x # a
        BY <1>2, <1>10, <4>2
      <4> QED BY <4>1, <4>2
    <3>2. pc' = "refs"
      BY <1>1, <1>10, <2>7
    <3>3. InRefs(n, x + 2)'
      BY <1>1, <1>6, <2>4, <2>5, <3>1, <3>2 DEF InRefs, T, a, b
    <3> QED BY <3>3
  <2> QED BY <1>2, <2>6, <2>7
<1> QED BY <1>8, <1>9, <1>10

LEMMA EidsFollowed ==
  ASSUME TypeIInv, Plain(doc), PlainKeys(doc), NEW n, NEW x, InEids(n, x), EidsTurn
  PROVE  pc' = "rejected" \/ InEids(n, x + 1)'
<1> DEFINE T == Tokens(doc)
           a == KeyAt(doc, n)
           b == KeyAt(doc, n + 1)
<1>1. /\ pc = "eids" /\ left > 0 /\ left' = left - 1 /\ doc' = doc
      /\ IF Cur(par).type = "string"
         THEN block' = [block EXCEPT !.list = Append(@, Cur(par).val)] /\ par' = Advance(par) /\ pc' = pc
         ELSE pc' = "rejected"
  BY DEF EidsTurn
<1>2. /\ Within(n) /\ Excused(doc, n) /\ left \in Nat /\ Cursor(par, T, x) /\ a <= x /\ x + left <= b
      /\ n \in 1 .. Len(doc.members) - 1
  BY DEF InEids, Within
<1>3. CASE Cur(par).type = "string"
  <2>1. block'.type = block.type
    <3>1. block = [type |-> block.type, fields |-> block.fields, list |-> block.list]
      BY <1>1 DEF TypeIInv, TypedBlock
    <3> QED BY <1>1, <1>3, <3>1, TypeStays
  <2>2. Within(n)'
    BY <1>1, <1>2, <2>1 DEF Within
  <2>3. a \in Nat /\ b \in Nat /\ b < Len(T)
    BY <1>2, NextKey
  <2> HIDE DEF T, a, b
  <2>4. x \in Nat /\ Len(T) \in Nat
    BY <1>2, CursorAt
  <2>5. x <= Len(T) /\ a <= x + 1 /\ (x + 1) + left' <= b /\ left' \in Nat
    BY <1>1, <1>2, <2>3, <2>4
  <2>6. Cursor(par', T, x + 1)
    BY <1>1, <1>2, <1>3, <2>5, CursorAdvance
  <2> QED BY <1>1, <1>2, <1>3, <2>2, <2>5, <2>6 DEF InEids, T, a, b
<1>4. CASE Cur(par).type # "string"
  BY <1>1, <1>4
<1> QED BY <1>3, <1>4

\* The tokens of one more EID.
LEMMA OneMoreEid ==
  ASSUME NEW d, NEW n, NEW x, EidsTo(d, n, x), KeyAt(d, n) \in Nat, x \in Nat,
         Tokens(d)[x].type = "array", IsNum(Tokens(d)[x + 1], U32), IsNum(Tokens(d)[x + 2], U32)
  PROVE  EidsTo(d, n, x + 3)
<1> DEFINE a == KeyAt(d, n)
           l == x - (a + 2)
           T == Tokens(d)
<1>1. /\ a \in Nat /\ a + 2 <= x /\ l % 3 = 0
      /\ \A i \in 1 .. l : IF i % 3 = 1 THEN T[a + (1 + i)].type = "array"
                           ELSE IsNum(T[a + (1 + i)], U32)
  BY DEF EidsTo
<1>2. l \in Nat /\ x = a + (2 + l) /\ (x + 3) - (a + 2) = l + 3 /\ a + 2 <= x + 3
  <2> HIDE DEF a
  <2> QED BY <1>1
<1> HIDE DEF l, T, a
<1>3. (l + 3) % 3 = 0 /\ (l + 1) % 3 = 1 /\ (l + 2) % 3 # 1 /\ (l + 3) % 3 # 1
  BY <1>1, <1>2
<1>4. /\ a + (1 + (l + 1)) = x /\ a + (1 + (l + 2)) = x + 1 /\ a + (1 + (l + 3)) = x + 2
      /\ \A i \in 1 .. l + 3 : i \in 1 .. l \/ i = l + 1 \/ i = l + 2 \/ i = l + 3
  BY <1>1, <1>2
<1>5. ASSUME NEW i \in 1 .. l + 3
      PROVE  IF i % 3 = 1 THEN T[a + (1 + i)].type = "array" ELSE IsNum(T[a + (1 + i)], U32)
  <2>1. CASE i \in 1 .. l
    BY <1>1, <2>1
  <2>2. CASE i = l + 1
    BY <1>3, <1>4, <2>2 DEF T
  <2>3. CASE i = l + 2
    BY <1>3, <1>4, <2>3 DEF T
  <2>4. CASE i = l + 3
    BY <1>3, <1>4, <2>4 DEF T
  <2> QED BY <1>4, <2>1, <2>2, <2>3, <2>4
<1> QED BY <1>2, <1>3, <1>5 DEF EidsTo, a, T

LEMMA RefsFollowed ==
  ASSUME TypeIInv, Plain(doc), PlainKeys(doc), NEW n, NEW x, InRefs(n, x), RefsTurn
  PROVE  pc' = "rejected" \/ Failing' \/ \E y : InRefs(n, y)'
<1> DEFINE T == Tokens(doc)
           a == KeyAt(doc, n)
           b == KeyAt(doc, n + 1)
<1>1. PICK order \in SchemeFirst :
        /\ doc' = doc /\ pc = "refs"
        /\ \/ pc' = "rejected"
           \/ /\ block' = [block EXCEPT !.list = Append(@, ParseEid(par, ZeroEid, order).val)]
              /\ par' = ParseEid(par, ZeroEid, order).par /\ pc' = pc
  <2>1. SchemeFirst # {}
    BY UnserializeAssumption
  <2> QED BY <2>1 DEF RefsTurn
<1> DEFINE r == ParseEid(par, ZeroEid, order)
<1>2. Within(n) /\ n \in 1 .. Len(doc.members) - 1
  BY DEF InRefs, Within
<1>3. Cursor(par, T, x) /\ a <= x /\ x <= b /\ (Excused(doc, n) \/ EidsTo(doc, n, x))
  BY DEF InRefs
<1>4. ParserOK(par)
  BY <1>1 DEF TypeIInv
<1>5. a \in Nat /\ b \in Nat /\ b < Len(T) /\ T[b].type = "string"
  BY <1>2, NextKey
<1>6. \/ pc' = "rejected"
      \/ block' = [block EXCEPT !.list = Append(@, r.val)] /\ par' = r.par /\ pc' = "refs"
  BY <1>1
<1>7. CASE pc' # "rejected"
  <2>1. block'.type = block.type /\ doc' = doc
    <3>1. block = [type |-> block.type, fields |-> block.fields, list |-> block.list]
      BY <1>1 DEF TypeIInv, TypedBlock
    <3> HIDE DEF r
    <3> QED BY <1>1, <1>6, <1>7, <3>1, TypeStays
  <2>2. Within(n)'
    BY <1>2, <2>1 DEF Within
  <2>3. \/ r.par.error
        \/ T[x].type # "array" /\ r.par = par
        \/ /\ T[x].type = "array" /\ IsNum(T[x + 1], U32) /\ IsNum(T[x + 2], U32)
           /\ x + 3 <= b /\ Cursor(r.par, T, x + 3)
    <3> HIDE DEF T, b
    <3> QED BY <1>3, <1>4, <1>5, PassesEid
  <2> HIDE DEF r
  <2>4. par' = r.par /\ pc' = "refs"
    BY <1>6, <1>7
  <2>5. CASE r.par.error
    BY <2>4, <2>5 DEF Failing
  <2>6. CASE T[x].type # "array" /\ r.par = par
    <3>1. InRefs(n, x)'
      BY <1>3, <2>1, <2>2, <2>4, <2>6 DEF InRefs
    <3> QED BY <3>1
  <2>7. CASE /\ T[x].type = "array" /\ IsNum(T[x + 1], U32) /\ IsNum(T[x + 2], U32)
             /\ x + 3 <= b /\ Cursor(r.par, T, x + 3)
    <3>1. x \in Nat
      <4> HIDE DEF T
      <4> QED BY <1>3, CursorAt
    <3>2. a <= x + 3
      <4> HIDE DEF a
      <4> QED BY <1>3, <1>5, <3>1
    <3>3. Excused(doc, n) \/ EidsTo(doc, n, x + 3)
      BY <1>3, <1>5, <2>7, <3>1, OneMoreEid
    <3>4. InRefs(n, x + 3)'
      BY <2>1, <2>2, <2>4, <2>7, <3>2, <3>3 DEF InRefs
    <3> QED BY <3>4
  <2> QED BY <2>3, <2>5, <2>6, <2>7
<1> QED BY <1>7

LEMMA TailIs ==
  ASSUME NEW s, IsSeq(s), Len(s) >= 1
  PROVE  /\ Len(Tail(s)) = Len(s) - 1 /\ DOMAIN Tail(s) = 1 .. Len(s) - 1
         /\ \A i \in 1 .. Len(s) - 1 : Tail(s)[i] = s[1 + i]
<1> DEFINE S == {s[n] : n \in 1 .. Len(s)}
<1>1. s \in Seq(S)
  BY SeqIn
<1> HIDE DEF S
<1>2. Len(s) \in Nat /\ s # << >>
  BY NothingIs DEF IsSeq
<1> QED BY <1>1, <1>2

\* EIDs up to the end of a member are those BadEidCaught lets pass.
LEMMA EidsToEnd ==
  ASSUME NEW d, NEW n, MemberLaid(d, n), EidsTo(d, n, KeyAt(d, n + 1))
  PROVE  Excused(d, n)
<1> DEFINE t == ValueTokens(d.members[n].value)
           a == KeyAt(d, n)
           b == KeyAt(d, n + 1)
           T == Tokens(d)
           l == Len(t) - 1
           toks == Tail(t)
<1>1. /\ a \in Nat /\ b = a + (1 + Len(t)) /\ Len(t) \in Nat /\ Len(t) >= 1 /\ IsSeq(t)
      /\ \A i \in 1 .. Len(t) : T[a + i] = t[i]
  BY DEF MemberLaid
<1>2. /\ (b - (a + 2)) % 3 = 0
      /\ \A i \in 1 .. b - (a + 2) : IF i % 3 = 1 THEN T[a + (1 + i)].type = "array"
                                     ELSE IsNum(T[a + (1 + i)], U32)
  BY DEF EidsTo
<1>3. Len(toks) = l /\ DOMAIN toks = 1 .. l /\ \A i \in 1 .. l : toks[i] = t[1 + i]
  BY <1>1, TailIs
<1> HIDE DEF toks, T, t, a, b
<1>4. b - (a + 2) = l /\ \A i \in 1 .. l : 1 + i \in 1 .. Len(t)
  BY <1>1
<1>5. \A i \in 1 .. l : T[a + (1 + i)] = toks[i]
  BY <1>1, <1>3, <1>4
<1>6. /\ Len(toks) % 3 = 0
      /\ \A i \in DOMAIN toks : IF i % 3 = 1 THEN toks[i].type = "array" ELSE IsNum(toks[i], U32)
  BY <1>2, <1>3, <1>4, <1>5
<1>7. ReadsAsEids(d.members[n].value)
  BY <1>6 DEF ReadsAsEids, toks, t
<1> QED BY <1>7 DEF Excused

\* From the head to the first member.
LEMMA BeginFollowed ==
  ASSUME TypeIInv, Plain(doc), PlainKeys(doc), Cursor(par, Tokens(doc), 1), Begin
  PROVE  Followed'
<1> DEFINE T == Tokens(doc)
           N == Len(doc.members)
           type == TypeOf(doc)
           sym == ParseSym(par, BlockTypes, "primary")
<1>1. /\ doc' = doc /\ symbols' = symbols
      /\ IF sym.val = NotNumber
         THEN pc' = "rejected"
         ELSE /\ block' = NewBlock(sym.val) /\ par' = Advance(sym.par)
              /\ pc' = (IF More(sym.par) THEN "member" ELSE "rejected")
  BY DEF Begin
<1>2. ParserOK(par) /\ symbols = {}
  BY DEF Begin, TypeIInv
<1>3. /\ Behind(doc, 0) = 2 /\ Len(T) \in Nat /\ 2 <= Len(T) /\ N \in Nat
      /\ doc.head[1].type # "string" => sym.val = "primary" /\ sym.par.error
      /\ doc.head[1].type = "string" =>
           IF type \in BlockTypes THEN sym.val = type /\ Cursor(sym.par, T, 2)
           ELSE sym.val = NotNumber
      /\ ParserOK(sym.par)
  BY <1>2, HeadRead DEF PlainKeys
<1> HIDE DEF sym, T
<1>4. CASE pc' = "rejected"
  BY <1>4 DEF Followed
<1>5. CASE pc' # "rejected"
  <2>1. /\ block' = NewBlock(sym.val) /\ par' = Advance(sym.par) /\ pc' = "member"
        /\ sym.val # NotNumber
    BY <1>1, <1>5
  <2>2. CASE doc.head[1].type # "string"
    <3>1. par'.error
      BY <1>3, <2>1, <2>2, ErrorStays
    <3> QED BY <1>1, <1>2, <2>1, <3>1 DEF Followed, Failing
  <2>3. CASE doc.head[1].type = "string"
    <3>1. type \in BlockTypes /\ sym.val = type /\ Cursor(sym.par, T, 2)
      BY <1>3, <2>1, <2>3
    <3>2. Cursor(par', T, 3)
      <4>1. Cursor(par', T, 2 + 1)
        BY <1>3, <2>1, <3>1, CursorAdvance
      <4> QED BY <4>1
    <3>3. CASE N <= 1
      <4>1. 1 .. N - 1 = {}
        BY <1>3, <3>3
      <4>2. Late'
        BY <1>1, <4>1 DEF Late, ExcusedTo
      <4> QED BY <4>2 DEF Followed
    <3>4. CASE ~ N <= 1
      <4>1. 1 \in 1 .. N - 1 /\ 1 - 1 = 0 /\ 1 + 1 = 2
        BY <1>3, <3>4
      <4>2. KeyAt(doc, 1) = 3
        BY <1>3, <4>1 DEF KeyAt
      <4>3. KeyAt(doc, 1) < KeyAt(doc, 1 + 1)
        <5> DEFINE m == 1
                   a == KeyAt(doc, m)
                   b == KeyAt(doc, m + 1)
                   c == Len(ValueTokens(doc.members[m].value))
        <5>1. m \in 1 .. Len(doc.members) - 1
          BY <4>1
        <5> HIDE DEF m
        <5>2. b = a + (1 + c) /\ a \in Nat /\ c \in Nat
          BY <5>1, KeyPlaces DEF MemberLaid, PlainKeys
        <5> HIDE DEF a, b, c
        <5>3. a < b
          BY <5>2
        <5> QED BY <5>3 DEF a, b, m
      <4>4. block'.type = type
        BY <2>1, <3>1 DEF NewBlock
      <4>5. ExcusedTo(doc, 0)
        BY DEF ExcusedTo
      <4>6. Within(1)'
        BY <1>1, <3>1, <4>1, <4>4, <4>5 DEF Within
      <4>7. InMember(1, 3)'
        BY <1>1, <2>1, <3>2, <4>2, <4>3, <4>6 DEF InMember, T
      <4> QED BY <4>7 DEF Followed
    <3> QED BY <3>3, <3>4
  <2> QED BY <2>2, <2>3
<1> QED BY <1>4, <1>5

\* From the end of a list on in the member.
LEMMA ListDoneFollowed ==
  ASSUME Plain(doc), PlainKeys(doc), NEW n, NEW x, InEids(n, x) \/ InRefs(n, x), ListDone
  PROVE  Late' \/ \E m, z : InMember(m, z)'
<1> DEFINE b == KeyAt(doc, n + 1)
<1>1. /\ left = 0 /\ doc' = doc /\ block' = block /\ par' = par
      /\ pc' = IF par'.error THEN "rejected" ELSE "member"
  BY DEF ListDone, GoOn
<1>2. /\ Within(n) /\ Cursor(par, Tokens(doc), x) /\ KeyAt(doc, n) <= x
      /\ n \in 1 .. Len(doc.members) - 1
  BY DEF InEids, InRefs, Within
<1>3. b \in Nat /\ MemberLaid(doc, n)
  BY <1>2, NextKey
<1>4. ~ par.error /\ x \in Nat
  BY <1>2, CursorAt
<1>5. x <= b /\ (x = b => Excused(doc, n))
  <2>1. CASE InEids(n, x)
    <3>1. x + left <= b /\ Excused(doc, n)
      BY <2>1 DEF InEids
    <3> HIDE DEF b
    <3> QED BY <1>1, <1>3, <1>4, <3>1
  <2>2. CASE InRefs(n, x)
    BY <1>3, <2>2, EidsToEnd DEF InRefs
  <2> QED BY <2>1, <2>2
<1>6. pc' = "member" /\ Cursor(par', Tokens(doc), x) /\ block'.type = block.type
  BY <1>1, <1>2, <1>4
<1>7. Len(doc.head) = 2
  BY DEF PlainKeys
<1> HIDE DEF b
<1> QED BY <1>1, <1>2, <1>5, <1>6, <1>7, MovedOn DEF b

\* A step of the loops leads no further than the document says.
LEMMA FollowedStep ==
  ASSUME TypeIInv, Plain(doc), PlainKeys(doc), Followed, pc # "text", Next
  PROVE  Followed'
<1>1. doc' = doc
  BY TokensKept
<1>2. CASE pc = "begin" /\ Cursor(par, Tokens(doc), 1)
  <2>1. Begin
    BY <1>2 DEF Next, Step, Parse, U8Member, U32Member, EidMember, ListMember, BadMember,
       EidsTurn, RefsTurn, ListDone, EndOfBlock, Returned, Turn
  <2> QED BY <1>2, <2>1, BeginFollowed
<1>3. CASE pc = "rejected"
  <2>1. pc' = "rejected"
    BY <1>3 DEF Next, Step, Parse, Begin, U8Member, U32Member, EidMember, ListMember, BadMember,
       EidsTurn, RefsTurn, ListDone, EndOfBlock, Returned, Turn, vars
  <2> QED BY <2>1 DEF Followed
<1>4. CASE Late
  BY <1>1, <1>4 DEF Late, Followed
<1>5. CASE Failing
  BY <1>5, FailingStep DEF Followed
<1>6. ASSUME NEW n, NEW x, InMember(n, x) PROVE Followed'
  <2>1. /\ pc = "member" /\ n \in 1 .. Len(doc.members) - 1
        /\ Cursor(par, Tokens(doc), x) /\ x < KeyAt(doc, n + 1)
    BY <1>6 DEF InMember, Within
  <2>2. U8Member \/ U32Member \/ EidMember \/ ListMember \/ BadMember \/ EndOfBlock
    BY <2>1 DEF Next, Step, Parse, Begin, EidsTurn, RefsTurn, ListDone, Returned
  <2>3. CASE U8Member \/ U32Member \/ EidMember
    <3>1. pc' = "rejected" \/ Late' \/ \E m, z : InMember(m, z)'
      BY <1>6, <2>3, NumberFollowed, EidFollowed
    <3> QED BY <3>1 DEF Followed
  <2>4. CASE ListMember
    <3>1. \/ pc' = "rejected" \/ Failing'
          \/ InEids(n, x + 2)' \/ InRefs(n, x + 2)'
      BY <1>6, <2>4, ListFollowed
    <3> QED BY <3>1 DEF Followed
  <2>5. CASE BadMember
    BY <2>5 DEF BadMember, Followed
  <2>6. ~ EndOfBlock
    <3> DEFINE T == Tokens(doc)
               b == KeyAt(doc, n + 1)
    <3>1. b \in Nat /\ b < Len(T)
      BY <2>1, NextKey
    <3> HIDE DEF T, b
    <3>2. x \in Nat /\ Len(T) \in Nat /\ (More(par) <=> x < Len(T))
      BY <2>1, CursorAt DEF T
    <3>3. x < b
      BY <2>1 DEF b
    <3>4. More(par)
      BY <3>1, <3>2, <3>3
    <3> QED BY <3>4 DEF EndOfBlock
  <2> QED BY <2>2, <2>3, <2>4, <2>5, <2>6
<1>7. ASSUME NEW n, NEW x, InEids(n, x) PROVE Followed'
  <2>1. pc = "eids"
    BY <1>7 DEF InEids
  <2>2. EidsTurn \/ ListDone
    BY <2>1 DEF Next, Step, Parse, Begin, U8Member, U32Member, EidMember, ListMember, BadMember,
       RefsTurn, EndOfBlock, Returned, Turn
  <2>3. CASE EidsTurn
    <3>1. pc' = "rejected" \/ InEids(n, x + 1)'
      BY <1>7, <2>3, EidsFollowed
    <3> QED BY <3>1 DEF Followed
  <2>4. CASE ListDone
    <3>1. Late' \/ \E m, z : InMember(m, z)'
      BY <1>7, <2>4, ListDoneFollowed
    <3> QED BY <3>1 DEF Followed
  <2> QED BY <2>2, <2>3, <2>4
<1>8. ASSUME NEW n, NEW x, InRefs(n, x) PROVE Followed'
  <2>1. pc = "refs"
    BY <1>8 DEF InRefs
  <2>2. RefsTurn \/ ListDone
    BY <2>1 DEF Next, Step, Parse, Begin, U8Member, U32Member, EidMember, ListMember, BadMember,
       EidsTurn, EndOfBlock, Returned, Turn
  <2>3. CASE RefsTurn
    <3>1. pc' = "rejected" \/ Failing' \/ \E y : InRefs(n, y)'
      BY <1>8, <2>3, RefsFollowed
    <3> QED BY <3>1 DEF Followed
  <2>4. CASE ListDone
    <3>1. Late' \/ \E m, z : InMember(m, z)'
      BY <1>8, <2>4, ListDoneFollowed
    <3> QED BY <3>1 DEF Followed
  <2> QED BY <2>2, <2>3, <2>4
<1> QED BY <1>2, <1>3, <1>4, <1>5, <1>6, <1>7, <1>8 DEF Followed

\* The invariant: in a document whose keys are read as keys the parser is in a
\* member all of whose predecessors are excused, has failed, or is at the last.
FollowIInv ==
  /\ doc \in Docs \cup CutDocs \cup {NoDoc}
  /\ pc # "text" /\ IsText(doc) /\ AllLegible(doc) /\ PlainKeys(doc) => Followed

LEMMA FollowAlways ==
  ASSUME NEW L, Inputs(L), NEW M, DocumentsIn(M)
  PROVE  Spec => []FollowIInv
<1>1. Init => FollowIInv
  BY DEF Init, FollowIInv
<1>2. TypeIInv /\ FollowIInv /\ [Next]_vars => FollowIInv'
  <2> SUFFICES ASSUME TypeIInv, FollowIInv, [Next]_vars PROVE FollowIInv'
    OBVIOUS
  <2>1. doc \in Docs \cup CutDocs \cup {NoDoc}
    BY DEF FollowIInv
  <2>2. CASE Parse
    <3>1. UNCHANGED <<doc, text>>
      BY <2>2 DEF Parse
    <3>2. ASSUME IsText(doc), AllLegible(doc), PlainKeys(doc) PROVE Followed'
      <4>1. pc' = "rejected" \/ (pc' = "begin" /\ Cursor(par', Tokens(doc), 1))
        <5>1. DocumentOf(M, doc) /\ Plain(doc) /\ Unending(M) /\ Marks(M)
          BY <2>1, <3>2, JudgedIsPlain DEF PlainKeys, DocumentsIn
        <5> QED BY <2>2, <3>2, <5>1, ParseCursor DEF PlainKeys
      <4> QED BY <3>1, <4>1 DEF Followed
    <3> QED BY <2>1, <3>1, <3>2 DEF FollowIInv, IsText
  <2>3. CASE Next /\ ~ Parse
    <3>1. pc # "text"
      BY <2>3 DEF Next, Step, Begin, U8Member, U32Member, EidMember, ListMember, BadMember,
         EidsTurn, RefsTurn, ListDone, EndOfBlock, Returned, Turn
    <3>2. UNCHANGED <<doc, text>>
      BY <2>3, <3>1, TokensKept
    <3>3. ASSUME IsText(doc), AllLegible(doc), PlainKeys(doc) PROVE Followed'
      <4>1. Plain(doc) /\ Followed
        BY <2>1, <3>1, <3>3, JudgedIsPlain DEF PlainKeys, FollowIInv
      <4> QED BY <2>3, <3>1, <3>3, <4>1, FollowedStep
    <3> QED BY <2>1, <3>2, <3>3 DEF FollowIInv, IsText
  <2>4. CASE UNCHANGED vars
    <3>1. UNCHANGED <<pc, doc, text, par, block, symbols, left>>
      BY <2>4 DEF vars
    <3>2. \A n : Within(n)' <=> Within(n)
      BY <3>1 DEF Within
    <3>3. \A n, x : InMember(n, x)' <=> InMember(n, x)
      BY <3>1, <3>2 DEF InMember
    <3>4. \A n, x : InEids(n, x)' <=> InEids(n, x)
      BY <3>1, <3>2 DEF InEids
    <3>5. \A n, x : InRefs(n, x)' <=> InRefs(n, x)
      BY <3>1, <3>2 DEF InRefs
    <3>6. (Late' <=> Late) /\ (Failing' <=> Failing)
      BY <3>1 DEF Late, Failing
    <3>7. Followed' <=> Followed
      BY <3>1, <3>3, <3>4, <3>5, <3>6 DEF Followed
    <3> QED BY <3>1, <3>7 DEF FollowIInv, IsText
  <2> QED BY <2>2, <2>3, <2>4
<1>3. Spec => []TypeIInv
  BY TypesAlways
<1> QED BY <1>1, <1>2, <1>3, PTL DEF Spec

\* Though nobody looks at what parser_parse_eid returns, of the documents whose
\* keys are strings none is accepted that has a value that ought to be an EID
\* and is none, but in its last member, in one with a symbol in its value, or
\* among references that come as those of EIDs would: in whichever order the
\* scheme and the rest are parsed.
THEOREM BadEidsCaught ==
  ASSUME NEW L, Inputs(L), NEW M, DocumentsIn(M)
  PROVE  Spec => []BadEidCaught
<1>1. Spec => []FollowIInv
  BY FollowAlways
<1>2. FollowIInv => BadEidCaught
  <2> SUFFICES ASSUME FollowIInv, pc = "accepted", IsText(doc), AllLegible(doc), PlainKeys(doc),
                      NEW n \in DOMAIN doc.members, BadEids(doc, n) # {}, n # Len(doc.members)
               PROVE  \/ HidesSymbol(doc.members[n].value, Keys(TypeOf(doc)))
                      \/ ReadsAsEids(doc.members[n].value)
    BY DEF BadEidCaught
  <2>1. Late
    BY DEF FollowIInv, Followed, Failing, InMember, InEids, InRefs
  <2>2. n \in 1 .. Len(doc.members) - 1
    <3>1. doc \in Docs \cup CutDocs \cup {NoDoc} /\ Len(doc.head) = 2
      BY DEF FollowIInv, PlainKeys
    <3>2. Plain(doc)
      BY <3>1, JudgedIsPlain
    <3>3. Len(doc.members) \in Nat /\ DOMAIN doc.members = 1 .. Len(doc.members)
      BY <3>2 DEF Plain, IsSeq
    <3> DEFINE N == Len(doc.members)
    <3>4. N \in Nat /\ n \in 1 .. N /\ n # N
      BY <3>3
    <3> HIDE DEF N
    <3>5. n \in 1 .. N - 1
      BY <3>4
    <3> QED BY <3>5 DEF N
  <2> QED BY <2>1, <2>2 DEF Late, ExcusedTo, Excused
<1> QED BY <1>1, <1>2, PTL
-----------------------------------------------------------------------------
(* Only what is legible is read as it was written *)

\* One of the tokens is that string.
InTokens(T, s) == IsSeq(T) /\ \E n \in 1 .. Len(T) : T[n].type = "string" /\ T[n].val = s

LEMMA HoldsBoth ==
  ASSUME NEW S, IsSeq(S), NEW T, IsSeq(T), NEW s, InTokens(S, s) \/ InTokens(T, s)
  PROVE  InTokens(S \o T, s)
<1>1. /\ IsSeq(S \o T) /\ Len(S \o T) = Len(S) + Len(T)
      /\ \A i \in 1 .. Len(S) : (S \o T)[i] = S[i]
      /\ \A i \in 1 .. Len(T) : (S \o T)[Len(S) + i] = T[i]
  BY ConcatIs
<1>2. Len(S) \in Nat /\ Len(T) \in Nat
  BY DEF IsSeq
<1> DEFINE U == S \o T
<1> HIDE DEF U
<1>3. CASE InTokens(S, s)
  <2>1. PICK n \in 1 .. Len(S) : S[n].type = "string" /\ S[n].val = s
    BY <1>3 DEF InTokens
  <2>2. n \in 1 .. Len(U) /\ U[n] = S[n]
    BY <1>1, <1>2 DEF U
  <2>3. InTokens(U, s)
    BY <1>1, <2>1, <2>2 DEF InTokens, U
  <2> QED BY <2>3 DEF U
<1>4. CASE InTokens(T, s)
  <2>1. PICK n \in 1 .. Len(T) : T[n].type = "string" /\ T[n].val = s
    BY <1>4 DEF InTokens
  <2>2. Len(S) + n \in 1 .. Len(U) /\ U[Len(S) + n] = T[n]
    BY <1>1, <1>2 DEF U
  <2>3. InTokens(U, s)
    BY <1>1, <2>1, <2>2 DEF InTokens, U
  <2> QED BY <2>3 DEF U
<1> QED BY <1>3, <1>4

LEMMA HoldsAll ==
  ASSUME NEW seqs, IsSeq(seqs), \A n \in 1 .. Len(seqs) : IsSeq(seqs[n]),
         NEW n \in 1 .. Len(seqs), NEW s, InTokens(seqs[n], s)
  PROVE  InTokens(FlattenSeq(seqs), s)
<1>1. PICK f : Flattening(seqs, f)
  BY FlattenIs
<1>2. Places(seqs, f) /\ FlattenSeq(seqs) = f[Len(seqs)]
  BY <1>1, FlattenPlaces DEF Flattening
<1> DEFINE T == f[Len(seqs)]
<1>3. PICK i \in 1 .. Len(seqs[n]) : seqs[n][i].type = "string" /\ seqs[n][i].val = s
  BY DEF InTokens
<1>4. Len(seqs) \in Nat /\ n \in 0 .. Len(seqs) /\ n - 1 \in 0 .. Len(seqs) /\ Len(seqs) \in 0 .. Len(seqs)
  BY DEF IsSeq
<1>5. /\ IsSeq(T) /\ Len(f[n]) \in Nat /\ Len(f[n - 1]) \in Nat /\ Len(T) \in Nat /\ Len(f[n]) <= Len(T)
      /\ Len(f[n]) = Len(f[n - 1]) + Len(seqs[n])
      /\ T[Len(f[n - 1]) + i] = seqs[n][i]
  BY <1>2, <1>4 DEF Places
<1> HIDE DEF T
<1>6. Len(seqs[n]) \in Nat
  BY DEF IsSeq
<1>7. Len(f[n - 1]) + i \in 1 .. Len(T)
  <2> DEFINE a == Len(f[n - 1])
             b == Len(f[n])
             c == Len(seqs[n])
             e == Len(T)
  <2>1. a \in Nat /\ b \in Nat /\ c \in Nat /\ e \in Nat /\ b <= e /\ b = a + c /\ i \in 1 .. c
    BY <1>5, <1>6
  <2> HIDE DEF a, b, c, e
  <2>2. a + i \in 1 .. e
    BY <2>1
  <2> QED BY <2>2 DEF a, e
<1>8. InTokens(T, s)
  BY <1>3, <1>5, <1>7 DEF InTokens
<1> QED BY <1>2, <1>8 DEF T

\* The strings of a value are among its tokens.
LEMMA ShallowHolds ==
  ASSUME NEW e, IsSeq(e.elems), NEW s,
         \/ e.type = "string" /\ e.val = s
         \/ \E m \in DOMAIN e.elems : e.elems[m].type = "string" /\ e.elems[m].val = s
  PROVE  InTokens(Shallow(e), s)
<1>1. /\ IsSeq(Shallow(e)) /\ Len(Shallow(e)) = 1 + Len(e.elems)
      /\ Shallow(e)[1] = Tok(e)
      /\ \A i \in 1 .. Len(e.elems) : Shallow(e)[1 + i] = Tok(e.elems[i])
  BY ShallowIs
<1>2. Len(e.elems) \in Nat /\ DOMAIN e.elems = 1 .. Len(e.elems)
  BY DEF IsSeq
<1>3. CASE e.type = "string" /\ e.val = s
  <2>1. 1 \in 1 .. Len(Shallow(e))
    BY <1>1, <1>2
  <2> QED BY <1>1, <1>3, <2>1, TokIs DEF InTokens
<1>4. ASSUME NEW m \in DOMAIN e.elems, e.elems[m].type = "string", e.elems[m].val = s
      PROVE  InTokens(Shallow(e), s)
  <2>1. 1 + m \in 1 .. Len(Shallow(e)) /\ m \in 1 .. Len(e.elems)
    BY <1>1, <1>2, <1>4
  <2> QED BY <1>1, <1>4, <2>1, TokIs DEF InTokens
<1> QED BY <1>3, <1>4

LEMMA ValueHolds ==
  ASSUME NEW v, PlainValue(v), NEW s \in StringsIn(v)
  PROVE  InTokens(ValueTokens(v), s)
<1> DEFINE ones(w) == IF w.type = "string" THEN {w.val} ELSE {}
           twos(w) == ones(w) \cup UNION {ones(w.elems[n]) : n \in DOMAIN w.elems}
           E == ElemTokens(v)
<1>1. StringsIn(v) = ones(v) \cup UNION {twos(v.elems[n]) : n \in DOMAIN v.elems}
  BY DEF StringsIn
<1>2. \A w : s \in ones(w) => w.type = "string" /\ w.val = s
  OBVIOUS
<1> HIDE DEF ones
<1>3. \A w : s \in twos(w) => s \in ones(w) \/ \E n \in DOMAIN w.elems : s \in ones(w.elems[n])
  OBVIOUS
<1> HIDE DEF twos
<1>4. s \in ones(v) \/ \E n \in DOMAIN v.elems : s \in twos(v.elems[n])
  BY <1>1
<1>5. /\ IsSeq(v.elems) /\ DOMAIN v.elems = 1 .. Len(v.elems)
      /\ \A n \in 1 .. Len(v.elems) : IsSeq(v.elems[n].elems)
  BY PlainElems DEF IsSeq
<1>6. IsSeq(E) /\ Len(E) = Len(v.elems) /\ \A n \in 1 .. Len(v.elems) : E[n] = Shallow(v.elems[n])
  <2>1. E = [n \in DOMAIN v.elems |-> E[n]] /\ \A n \in 1 .. Len(v.elems) : E[n] = Shallow(v.elems[n])
    BY <1>5 DEF ElemTokens
  <2> HIDE DEF E
  <2> QED BY <1>5, <2>1, MappedSeq
<1>7. ValueTokens(v) = <<Tok(v)>> \o FlattenSeq(E)
  BY DEF ValueTokens, ElemTokens
<1> HIDE DEF E
<1>8. \A n \in 1 .. Len(E) : IsSeq(E[n])
  BY <1>5, <1>6, ShallowIs
<1>9. IsSeq(FlattenSeq(E)) /\ IsSeq(<<Tok(v)>>)
  <2>1. PICK f : Flattening(E, f)
    BY <1>6, <1>8, FlattenIs
  <2>2. Places(E, f) /\ FlattenSeq(E) = f[Len(E)]
    BY <1>6, <1>8, <2>1, FlattenPlaces DEF Flattening
  <2>3. Len(E) \in 0 .. Len(E)
    BY <1>6 DEF IsSeq
  <2> QED BY <2>2, <2>3, OneIs DEF Places
<1>10. CASE s \in ones(v)
  <2>1. Len(<<Tok(v)>>) = 1 /\ <<Tok(v)>>[1] = Tok(v) /\ 1 \in 1 .. 1
    BY OneIs
  <2>2. InTokens(<<Tok(v)>>, s)
    BY <1>2, <1>9, <1>10, <2>1, TokIs DEF InTokens
  <2> QED BY <1>7, <1>9, <2>2, HoldsBoth
<1>11. ASSUME NEW n \in DOMAIN v.elems, s \in twos(v.elems[n])
       PROVE  InTokens(ValueTokens(v), s)
  <2> DEFINE e == v.elems[n]
  <2>1. IsSeq(e.elems) /\ n \in 1 .. Len(E) /\ E[n] = Shallow(e)
    BY <1>5, <1>6
  <2>2. s \in ones(e) \/ \E m \in DOMAIN e.elems : s \in ones(e.elems[m])
    BY <1>3, <1>11
  <2> HIDE DEF e
  <2>3. InTokens(E[n], s)
    BY <1>2, <2>1, <2>2, ShallowHolds
  <2>4. InTokens(FlattenSeq(E), s)
    BY <1>6, <1>8, <2>1, <2>3, HoldsAll
  <2> QED BY <1>7, <1>9, <2>4, HoldsBoth
<1> QED BY <1>4, <1>10, <1>11

\* Those of a document are among its.
LEMMA DocHolds ==
  ASSUME NEW d, Plain(d), NEW s \in StringsOfDoc(d)
  PROVE  InTokens(Tokens(d), s)
<1> DEFINE seqs == MembersTokens(d.members)
           N == Len(d.members)
           head == [n \in DOMAIN d.head |-> Tok(d.head[n])]
           m(n) == d.members[n]
<1>1. /\ IsSeq(d.members) /\ N \in Nat /\ DOMAIN d.members = 1 .. N
      /\ \A n \in 1 .. N : PlainLeaf(m(n).key) /\ PlainValue(m(n).value)
  BY DEF Plain, IsSeq
<1>2. IsSeq(seqs) /\ Len(seqs) = N /\ \A n \in 1 .. N : seqs[n] = <<Tok(m(n).key)>> \o ValueTokens(m(n).value)
  <2>1. seqs = [n \in DOMAIN d.members |-> seqs[n]]
    BY DEF MembersTokens
  <2>2. \A n \in 1 .. N : seqs[n] = <<Tok(m(n).key)>> \o ValueTokens(m(n).value)
    BY <1>1 DEF MembersTokens
  <2> HIDE DEF seqs, m
  <2> QED BY <1>1, <2>1, <2>2, MappedSeq
<1>3. Tokens(d) = head \o FlattenSeq(seqs)
  BY DEF Tokens, MembersTokens
<1>4. /\ IsSeq(head) /\ Len(head) = Len(d.head) /\ DOMAIN d.head = 1 .. Len(d.head)
      /\ \A n \in 1 .. Len(d.head) : head[n] = Tok(d.head[n])
  <2>1. IsSeq(d.head) /\ DOMAIN d.head = 1 .. Len(d.head)
    BY DEF Plain, IsSeq
  <2>2. head = [n \in DOMAIN d.head |-> head[n]] /\ \A n \in 1 .. Len(d.head) : head[n] = Tok(d.head[n])
    BY <2>1
  <2> HIDE DEF head
  <2> QED BY <2>1, <2>2, MappedSeq
<1> HIDE DEF head, seqs
<1>5. ASSUME NEW n \in 1 .. N
      PROVE  IsSeq(<<Tok(m(n).key)>>) /\ IsSeq(ValueTokens(m(n).value)) /\ IsSeq(seqs[n])
  <2>1. IsSeq(ValueTokens(m(n).value)) /\ IsSeq(<<Tok(m(n).key)>>)
    BY <1>1, ElemPlaces, OneIs
  <2>2. seqs[n] = <<Tok(m(n).key)>> \o ValueTokens(m(n).value)
    BY <1>2
  <2> HIDE DEF m
  <2>3. IsSeq(<<Tok(m(n).key)>> \o ValueTokens(m(n).value))
    BY <2>1, ConcatIs
  <2> QED BY <2>1, <2>2, <2>3
<1>6. IsSeq(FlattenSeq(seqs))
  <2>1. PICK f : Flattening(seqs, f)
    BY <1>2, <1>5, FlattenIs
  <2>2. Places(seqs, f) /\ FlattenSeq(seqs) = f[Len(seqs)]
    BY <1>2, <1>5, <2>1, FlattenPlaces DEF Flattening
  <2>3. Len(seqs) \in 0 .. Len(seqs)
    BY <1>1, <1>2
  <2> QED BY <2>2, <2>3 DEF Places
<1> DEFINE both(n) == StringsIn(m(n).key) \cup StringsIn(m(n).value)
<1>7. \/ \E n \in DOMAIN d.head : s \in StringsIn(d.head[n])
      \/ \E n \in DOMAIN d.members : s \in both(n)
  BY DEF StringsOfDoc
\* A key, or a name, is no more than its own string.
<1>8. ASSUME NEW v, PlainLeaf(v), s \in StringsIn(v)
      PROVE  Tok(v).type = "string" /\ Tok(v).val = s
  <2>1. v.elems = << >> /\ DOMAIN v.elems = {}
    <3>1. DOMAIN (<< >>) = {}
      BY NothingIs DEF IsSeq
    <3> QED BY <1>8, <3>1 DEF PlainLeaf
  <2>2. v.type = "string" /\ v.val = s
    BY <1>8, <2>1 DEF StringsIn
  <2> QED BY <2>2, TokIs
<1>9. ASSUME NEW n \in DOMAIN d.head, s \in StringsIn(d.head[n])
      PROVE  InTokens(Tokens(d), s)
  <2>1. PlainLeaf(d.head[n]) /\ n \in 1 .. Len(head) /\ head[n] = Tok(d.head[n])
    BY <1>4 DEF Plain
  <2>2. InTokens(head, s)
    BY <1>4, <1>8, <1>9, <2>1 DEF InTokens
  <2> QED BY <1>3, <1>4, <1>6, <2>2, HoldsBoth
<1>10. ASSUME NEW n \in DOMAIN d.members, s \in both(n)
       PROVE  InTokens(Tokens(d), s)
  <2>1. n \in 1 .. N /\ n \in 1 .. Len(seqs) /\ PlainLeaf(m(n).key) /\ PlainValue(m(n).value)
    BY <1>1, <1>2
  <2>2. InTokens(<<Tok(m(n).key)>>, s) \/ InTokens(ValueTokens(m(n).value), s)
    <3> DEFINE k == m(n).key
               v == m(n).value
    <3>1. s \in StringsIn(k) \/ s \in StringsIn(v)
      BY <1>10
    <3>2. PlainLeaf(k) /\ PlainValue(v)
      BY <2>1
    <3> HIDE DEF k, v
    <3>3. CASE s \in StringsIn(k)
      <4>1. Tok(k).type = "string" /\ Tok(k).val = s
        BY <1>8, <3>2, <3>3
      <4>2. IsSeq(<<Tok(k)>>) /\ Len(<<Tok(k)>>) = 1 /\ <<Tok(k)>>[1] = Tok(k) /\ 1 \in 1 .. 1
        BY OneIs
      <4>3. InTokens(<<Tok(k)>>, s)
        BY <4>1, <4>2 DEF InTokens
      <4> QED BY <4>3 DEF k
    <3>4. CASE s \in StringsIn(v)
      <4>1. InTokens(ValueTokens(v), s)
        BY <3>2, <3>4, ValueHolds
      <4> QED BY <4>1 DEF v
    <3> QED BY <3>1, <3>3, <3>4
  <2> HIDE DEF m, both
  <2>3. InTokens(seqs[n], s)
    BY <1>2, <1>5, <2>1, <2>2, HoldsBoth
  <2>4. InTokens(FlattenSeq(seqs), s)
    BY <1>2, <1>5, <2>1, <2>3, HoldsAll
  <2> QED BY <1>3, <1>4, <1>6, <2>4, HoldsBoth
<1> HIDE DEF both, m
<1> QED BY <1>7, <1>9, <1>10
\* No string is spelled in several lexemes and in one word as well.
WordsApart(L) ==
  /\ "other" \notin DOMAIN Spelling
  /\ \A l \in L : l.class = "word" => l.val \notin DOMAIN Spelling

\* A string that was read from legible lexemes is legible where it is written.
LEMMA SpelledBack ==
  ASSUME NEW L, WordsApart(L), NEW l \in Seq(L), Legible(l)
  PROVE  Legible(Spell(StringOf(l)))
<1> DEFINE s == StringOf(l)
           same == {x \in DOMAIN Spelling : Classes(Spelling[x]) = Classes(l) /\ Spelling[x] = l}
<1>1. s = IF Classes(l) = <<"word">> THEN l[1].val
          ELSE IF same # {} THEN CHOOSE x \in same : TRUE ELSE "other"
  BY DEF StringOf
<1> HIDE DEF s
<1>2. CASE s \notin DOMAIN Spelling
  <2> DEFINE w == Word(s)
  <2>1. Spell(s) = <<w>>
    BY <1>2 DEF Spell
  <2>2. w # Quote /\ w # Backslash
    BY DEF Word, Quote, Backslash, Char, Lexeme
  <2> HIDE DEF w
  <2>3. IsSeq(<<w>>) /\ Len(<<w>>) = 1 /\ <<w>>[1] = w /\ 1 \in 1 .. 1 /\ 1 - 1 = 0
    BY OneIs
  <2>4. PICK after : /\ after[0] = "plain" /\ (Legible(<<w>>) <=> after[Len(<<w>>)] = "plain")
                     /\ \A n \in 1 .. Len(<<w>>) : after[n] = StateBehind(after[n - 1], <<w>>[n])
    BY <2>3, StatesOf
  <2>5. after[1] = StateBehind(after[1 - 1], <<w>>[1])
    BY <2>3, <2>4
  <2>6. after[1] = "plain"
    BY <2>2, <2>3, <2>4, <2>5 DEF StateBehind
  <2> QED BY <2>1, <2>3, <2>4, <2>6 DEF s
<1>3. CASE s \in DOMAIN Spelling
  <2>1. Classes(l) # <<"word">>
    <3> SUFFICES ASSUME Classes(l) = <<"word">> PROVE FALSE
      OBVIOUS
    <3>1. DOMAIN l = 1 .. Len(l) /\ Len(l) \in Nat /\ \A i \in 1 .. Len(l) : l[i] \in L
      OBVIOUS
    <3>2. DOMAIN Classes(l) = DOMAIN l /\ \A i \in DOMAIN l : Classes(l)[i] = l[i].class
      BY DEF Classes
    <3>3. 1 \in DOMAIN (<<"word">>) /\ <<"word">>[1] = "word"
      BY OneIs DEF IsSeq
    <3>4. 1 \in DOMAIN l /\ l[1].class = "word"
      BY <3>2, <3>3
    <3>5. l[1] \in L /\ s = l[1].val
      BY <1>1, <3>1, <3>4
    <3> QED BY <1>3, <3>4, <3>5 DEF WordsApart
  <2>2. same # {}
    BY <1>1, <1>3, <2>1 DEF WordsApart
  <2>3. s \in same
    <3>1. s = CHOOSE x \in same : TRUE
      BY <1>1, <2>1, <2>2
    <3> HIDE DEF same
    <3> QED BY <2>2, <3>1
  <2>4. Spell(s) = l
    BY <1>3, <2>3 DEF Spell
  <2> QED BY <2>4 DEF s
<1> QED BY <1>2, <1>3

\* The strings the parser was given are legible, and its tokens are not too many.
FoundIInv(L) ==
  IsText(doc) =>
    /\ Len(par.tokens) <= MaxTokens
    /\ \A n \in 1 .. Len(par.tokens) :
         par.tokens[n].type = "string" =>
           \E l \in Seq(L) : Legible(l) /\ StringOf(l) = par.tokens[n].val

LEMMA NothingFound ==
  ASSUME NEW L, par.tokens = << >>
  PROVE  FoundIInv(L)
<1>1. Len(par.tokens) = 0 /\ MaxTokens \in Nat
  BY NothingIs, TokensAssumption
<1>2. 0 <= MaxTokens /\ \A n \in 1 .. 0 : FALSE
  BY <1>1
<1> QED BY <1>1, <1>2 DEF FoundIInv

\* What jsmn makes of a document's text.
LEMMA SeenLegible ==
  ASSUME NEW L, Unending(L), NEW txt \in Seq(L),
         NEW ts, ts = SeenTokens(txt, jsmn_parse(txt).tokens)
  PROVE  /\ Len(ts) <= MaxTokens
         /\ \A n \in 1 .. Len(ts) :
              ts[n].type = "string" => \E l \in Seq(L) : Legible(l) /\ StringOf(l) = ts[n].val
<1> DEFINE p == jsmn_parse(txt)
           found == p.tokens
<1>1. ParserInv(txt, p)
  BY ParsedInv DEF Unending
<1>2. \A n \in 1 .. Len(found) : found[n].type = "string" => Legible(Lexemes(txt, found[n]))
  BY StringsLegible
<1> HIDE DEF p
<1>3. Len(found) \in Nat /\ DOMAIN found = 1 .. Len(found) /\ Len(found) <= MaxTokens /\ IsSeq(found)
  <2>1. found \in Seq(JsmnToken)
    BY <1>1 DEF ParserInv, JsmnParser
  <2> QED BY <1>1, <2>1, SeqIs, ParserIs DEF ParserInv
<1>4. ts = [n \in DOMAIN found |-> Seen(txt, found[n])]
  BY DEF SeenTokens, p
<1>5. Len(ts) = Len(found) /\ \A n \in 1 .. Len(found) : ts[n] = Seen(txt, found[n])
  <2>1. ts = [n \in DOMAIN found |-> ts[n]] /\ \A n \in 1 .. Len(found) : ts[n] = Seen(txt, found[n])
    BY <1>3, <1>4
  <2> HIDE DEF found
  <2> QED BY <1>3, <2>1, MappedSeq
<1>6. ASSUME NEW n \in 1 .. Len(found), ts[n].type = "string"
      PROVE  \E l \in Seq(L) : Legible(l) /\ StringOf(l) = ts[n].val
  <2> DEFINE t == found[n]
  <2>1. ts[n] = Seen(txt, t)
    BY <1>5
  <2>2. t.start \in 1 .. p.pos - 1 /\ t.end \in Nat /\ p.pos \in Nat /\ p.pos <= Len(txt) + 1
        /\ (t.end = 0 => t.type \in DOMAIN Brackets) /\ (t.end # 0 => t.end \in t.start .. p.pos)
    <3>1. ParserInv(txt, p) /\ n \in DOMAIN p.tokens
      BY <1>1, <1>3
    <3>2. /\ t.start \in 1 .. p.pos - 1
          /\ IF t.end = 0 THEN t.type \in DOMAIN Brackets ELSE t.end \in t.start .. p.pos
      BY <3>1 DEF ParserInv, InOrder
    <3>3. t.end \in Nat /\ p.pos \in Nat /\ p.pos <= Len(txt) + 1
      BY <3>1, ParserIs
    <3> HIDE DEF t
    <3> QED BY <3>2, <3>3
  <2>3. Legible(Lexemes(txt, t)) \/ t.type # "string"
    BY <1>2
  <2> HIDE DEF t
  <2>4. t.type = "string" /\ ts[n].val = StringOf(Lexemes(txt, t))
    BY <1>6, <2>1 DEF Seen
  <2>5. Lexemes(txt, t) \in Seq(L)
    <3>1. t.end # 0
      BY <2>2, <2>4 DEF Brackets
    <3>2. t.start \in 1 .. Len(txt) + 1 /\ t.end - 1 \in t.start - 1 .. Len(txt)
      BY <2>2, <3>1
    <3> QED BY <3>2, SubSeqProperties DEF Lexemes
  <2> QED BY <2>3, <2>4, <2>5
<1> HIDE DEF found
<1> QED BY <1>3, <1>5, <1>6

LEMMA ParseFinds ==
  ASSUME NEW L, DocumentsIn(L), ReadIInv, Parse
  PROVE  FoundIInv(L)'
<1>1. /\ pc = "text" /\ par.tokens = << >> /\ UNCHANGED <<doc, text>>
      /\ doc \in Docs \cup CutDocs \cup {NoDoc}
  BY DEF ReadIInv, Parse
<1>2. DocumentOf(L, doc) /\ Plain(doc) /\ Unending(L) /\ Marks(L)
  BY DocumentHere
<1> DEFINE ts == SeenTokens(text, jsmn_parse(text).tokens)
<1>3. par' = par \/ par' = Parser(ts)
  BY DEF Parse
<1> SUFFICES ASSUME IsText(doc)' PROVE FoundIInv(L)'
  BY DEF FoundIInv
<1>4. text \in Seq(L)
  BY <1>1, <1>2, TextIn DEF IsText
<1>5. CASE par' = Parser(ts)
  <2>1. par'.tokens = ts
    BY <1>5 DEF Parser
  <2>2. /\ Len(ts) <= MaxTokens
        /\ \A n \in 1 .. Len(ts) :
             ts[n].type = "string" => \E l \in Seq(L) : Legible(l) /\ StringOf(l) = ts[n].val
    BY <1>2, <1>4, SeenLegible
  <2> HIDE DEF ts
  <2> QED BY <2>1, <2>2 DEF FoundIInv
<1>6. CASE par' = par
  <2>1. Len(par'.tokens) = 0 /\ MaxTokens \in Nat
    BY <1>1, <1>6, NothingIs, TokensAssumption
  <2>2. 0 <= MaxTokens /\ \A n \in 1 .. 0 : FALSE
    BY <2>1
  <2> QED BY <2>1, <2>2 DEF FoundIInv
<1> QED BY <1>3, <1>5, <1>6

\* Nothing escapes strings when a document is written, or unescapes them when it
\* is read: if the parser is given the tokens that stand for its values, then no
\* string holds a quote, or a backslash that begins no escape sequence, and there
\* was room for the tokens.
THEOREM OnlyLegibleRead ==
  ASSUME NEW L, Inputs(L), NEW M, DocumentsIn(M), WordsApart(M)
  PROVE  Spec => []OnlyLegible
<1> DEFINE Inv == ReadIInv /\ FoundIInv(M)
<1>1. Init => Inv
  <2> SUFFICES ASSUME Init PROVE Inv
    OBVIOUS
  <2>1. pc = "text" /\ par = Parser(<< >>) /\ doc \in Docs \cup CutDocs \cup {NoDoc}
    BY DEF Init
  <2>2. par.tokens = << >>
    BY <2>1 DEF Parser
  <2> QED BY <2>1, <2>2, NothingFound DEF ReadIInv
<1>2. TypeIInv /\ Inv /\ [Next]_vars => Inv'
  <2> SUFFICES ASSUME TypeIInv, Inv, [Next]_vars PROVE Inv'
    OBVIOUS
  <2>1. CASE Parse
    BY <2>1, ParseReads, ParseFinds
  <2>2. CASE Next /\ ~ Parse
    <3>1. CASE pc # "text"
      <4>1. pc' # "text" /\ par'.tokens = par.tokens /\ UNCHANGED <<doc, text>>
        BY <2>2, <3>1, TokensKept
      <4> QED BY <3>1, <4>1 DEF ReadIInv, FoundIInv, Readable, IsText
    <3>2. CASE pc = "text"
      BY <2>2, <3>2 DEF Next, Step, Begin, U8Member, U32Member, EidMember, ListMember, BadMember,
         EidsTurn, RefsTurn, ListDone, EndOfBlock, Returned, Turn
    <3> QED BY <3>1, <3>2
  <2>3. CASE UNCHANGED vars
    BY <2>3 DEF vars, ReadIInv, FoundIInv, Readable, IsText
  <2> QED BY <2>1, <2>2, <2>3
<1>3. Inv => OnlyLegible
  <2> SUFFICES ASSUME ReadIInv, FoundIInv(M), IsText(doc), par.tokens = Tokens(doc)
               PROVE  AllLegible(doc) /\ Len(Tokens(doc)) <= MaxTokens
    BY DEF OnlyLegible
  <2>1. Plain(doc)
    BY DocumentHere
  <2>2. ASSUME NEW s \in StringsOfDoc(doc) PROVE Legible(Spell(s))
    <3>1. PICK n \in 1 .. Len(par.tokens) : par.tokens[n].type = "string" /\ par.tokens[n].val = s
      BY <2>1, DocHolds DEF InTokens
    <3>2. PICK l \in Seq(M) : Legible(l) /\ StringOf(l) = s
      BY <3>1 DEF FoundIInv
    <3>3. Legible(Spell(StringOf(l)))
      BY <3>2, SpelledBack
    <3> QED BY <3>2, <3>3
  <2> QED BY <2>2 DEF AllLegible, FoundIInv
<1>4. Spec => []TypeIInv
  BY TypesAlways
<1> QED BY <1>1, <1>2, <1>3, <1>4, PTL DEF Spec

-----------------------------------------------------------------------------
(* Texts that are cut *)

\* The documents that are cut are like those the commands write, the name of a type
\* and an object, no string of them needs escaping, and their tokens fit.
CutFromWritten ==
  \A d \in CutDocs : /\ Len(d.head) = 2 /\ d.head[2] = Obj
                     /\ AllLegible(d) /\ Len(Tokens(d)) <= MaxTokens

\* A text whose end is missing gives one token at most.
CutIInv ==
  doc \in CutDocs =>
    /\ Len(text) \in Nat /\ Len(Text(doc)) \in Nat
    /\ Len(text) < Len(Text(doc)) - 1 =>
         \/ pc = "text" /\ \E n \in 0 .. Len(Text(doc)) - 1 : text = SubSeq(Text(doc), 1, n)
         \/ pc = "begin" /\ Len(par.tokens) = 1
         \/ pc = "rejected"

LEMMA CutInit ==
  ASSUME NEW L, DocumentsIn(L), CutFromWritten, Init
  PROVE  CutIInv
<1> DEFINE whole == Text(doc)
<1> SUFFICES ASSUME doc \in CutDocs
             PROVE  /\ Len(text) \in Nat /\ Len(whole) \in Nat
                    /\ Len(text) < Len(whole) - 1 =>
                         \E n \in 0 .. Len(whole) - 1 : text = SubSeq(whole, 1, n)
  BY DEF CutIInv, Init
<1>1. whole \in Seq(L)
  BY TextIn DEF DocumentsIn
<1>2. doc # NoDoc
  <2>1. Len(NoDoc.head) # 2
    BY NothingIs DEF NoDoc
  <2> QED BY <2>1 DEF CutFromWritten
<1>3. text = whole \/ \E n \in 0 .. Len(whole) - 1 : text = SubSeq(whole, 1, n)
  BY <1>2 DEF Init
<1> HIDE DEF whole
<1>4. CASE text = whole
  BY <1>1, <1>4
<1>5. ASSUME NEW n \in 0 .. Len(whole) - 1, text = SubSeq(whole, 1, n)
      PROVE  Len(text) \in Nat
  BY <1>1, <1>5, SubSeqProperties
<1> QED BY <1>1, <1>3, <1>4, <1>5

LEMMA CutParse ==
  ASSUME NEW L, DocumentsIn(L), CutFromWritten, CutIInv, Parse
  PROVE  CutIInv'
<1>1. pc = "text" /\ UNCHANGED <<doc, text>>
  BY DEF Parse
<1> SUFFICES ASSUME doc \in CutDocs, Len(text) < Len(Text(doc)) - 1
             PROVE  (pc' = "begin" /\ Len(par'.tokens) = 1) \/ pc' = "rejected"
  BY <1>1 DEF CutIInv
<1> DEFINE p == jsmn_parse(text)
           ts == p.tokens
           seen == SeenTokens(text, ts)
<1>2. IF p.error = "none" /\ ts # << >>
      THEN pc' = "begin" /\ par' = Parser(seen) ELSE pc' = "rejected"
  BY DEF Parse
<1>3. /\ Unending(L) /\ Marks(L) /\ DocumentOf(L, doc) /\ Plain(doc)
      /\ Len(doc.head) = 2 /\ doc.head[2] = Obj /\ AllLegible(doc) /\ Len(Tokens(doc)) <= MaxTokens
  BY DEF DocumentsIn, CutFromWritten
<1>4. Text(doc) \in Seq(L) /\ Len(Text(doc)) \in Nat
  BY <1>3, TextIn
<1>5. PICK n \in 0 .. Len(Text(doc)) - 1 : text = SubSeq(Text(doc), 1, n)
  BY <1>1 DEF CutIInv
<1>6. text \in Seq(L) /\ Len(text) = n /\ n \in Nat
  <2> DEFINE whole == Text(doc)
  <2> HIDE DEF whole
  <2>1. whole \in Seq(L) /\ n \in 0 .. Len(whole) - 1 /\ Len(whole) \in Nat /\ text = SubSeq(whole, 1, n)
    BY <1>4, <1>5 DEF whole
  <2> QED BY <2>1, SubSeqProperties
<1> HIDE DEF p
<1>7. CASE p.error = "none" /\ ts # << >>
  <2>1. Len(ts) <= 1
    BY <1>3, <1>5, <1>6, <1>7, CutTokens DEF p
  <2>2. ParserInv(text, p)
    BY <1>3, <1>6, ParsedInv DEF Unending, p
  <2>3. IsSeq(ts) /\ Len(ts) \in Nat /\ Len(ts) # 0
    <3>1. ts \in Seq(JsmnToken)
      BY <2>2 DEF ParserInv, JsmnParser
    <3> HIDE DEF ts
    <3> QED BY <1>7, <3>1, SeqIs, EmptySeq
  <2>4. Len(seen) = Len(ts)
    <3>1. seen = [i \in DOMAIN ts |-> seen[i]]
      BY DEF SeenTokens
    <3> HIDE DEF seen, ts
    <3> QED BY <2>3, <3>1, MappedSeq
  <2> HIDE DEF seen, ts
  <2>5. pc' = "begin" /\ par'.tokens = seen
    BY <1>2, <1>7 DEF Parser
  <2>6. Len(seen) = 1
    BY <2>1, <2>3, <2>4
  <2>7. Len(par'.tokens) = Len(seen)
    BY <2>5
  <2> QED BY <2>5, <2>6, <2>7
<1>8. CASE ~ (p.error = "none" /\ ts # << >>)
  <2> HIDE DEF ts, seen
  <2> QED BY <1>2, <1>8
<1> QED BY <1>7, <1>8

\* A block has a token behind the name of its type.
LEMMA CutBegin ==
  ASSUME TypeIInv, Begin, Len(par.tokens) = 1
  PROVE  pc' = "rejected"
<1> DEFINE sym == ParseSym(par, BlockTypes, "primary")
<1>1. ParserOK(par)
  BY DEF Begin, TypeIInv
<1>2. SameTokens(par, sym.par)
  BY <1>1, ParseSymOK DEF BlockTypes
<1>3. pc' = "rejected" \/ pc' = IF More(sym.par) THEN "member" ELSE "rejected"
  BY DEF Begin
<1> HIDE DEF sym
<1>4. sym.par.token \in 1 .. 1 /\ Len(sym.par.tokens) = 1
  BY <1>2 DEF SameTokens, ParserOK
<1>5. ~ More(sym.par)
  BY <1>4 DEF More
<1> QED BY <1>3, <1>5

\* A document that the disk had no room for, or that is cut for another reason,
\* is not accepted, wherever it is cut: unless all that is missing is the white
\* space behind the bracket that closes the object of its members, jsmn is left
\* with an open container or finds the name of the type and no more.
THEOREM CutsRejected ==
  ASSUME NEW L, Inputs(L), NEW M, DocumentsIn(M), CutFromWritten
  PROVE  Spec => []CutRejected
<1>1. Init => CutIInv
  BY CutInit
<1>2. TypeIInv /\ CutIInv /\ [Next]_vars => CutIInv'
  <2> SUFFICES ASSUME TypeIInv, CutIInv, [Next]_vars PROVE CutIInv'
    OBVIOUS
  <2>1. CASE UNCHANGED vars
    BY <2>1 DEF vars, CutIInv
  <2>2. CASE Parse
    BY <2>2, CutParse
  <2>3. CASE Begin
    <3>1. pc = "begin" /\ UNCHANGED <<doc, text>>
      BY <2>3 DEF Begin
    <3> QED BY <2>3, <3>1, CutBegin DEF CutIInv
  <2>4. CASE Next /\ ~ Parse /\ ~ Begin
    <3>1. pc \notin {"text", "begin", "rejected"} \/ UNCHANGED vars
      BY <2>4 DEF Next, Step, U8Member, U32Member, EidMember, ListMember, BadMember,
         EidsTurn, RefsTurn, ListDone, EndOfBlock, Returned, Turn
    <3>2. CASE pc \notin {"text", "begin", "rejected"}
      <4>1. UNCHANGED <<doc, text>>
        BY <2>4, <3>2, TokensKept
      <4> QED BY <3>2, <4>1 DEF CutIInv
    <3> QED BY <2>1, <3>1, <3>2
  <2> QED BY <2>1, <2>2, <2>3, <2>4
<1>3. CutIInv => CutRejected
  <2> SUFFICES ASSUME CutIInv, pc = "accepted", doc \in CutDocs
               PROVE  Len(text) >= Len(Text(doc)) - 1
    BY DEF CutRejected
  <2> QED BY DEF CutIInv
<1>4. Spec => []TypeIInv
  BY TypesAlways
<1> QED BY <1>1, <1>2, <1>3, <1>4, PTL DEF Spec
=============================================================================

---------------------------- MODULE TokenParser -----------------------------
(***************************************************************************)
(* The cursor over JSON tokens of parser.c, and the values it parses.      *)
(*                                                                         *)
(* A document is the tree of its values; jsmn (module Jsmn) turns its text *)
(* into a sequence of tokens, each container before what it holds and with *)
(* the number of its elements.  A value is a record of its JSON type, its  *)
(* val (a string, or the number a primitive begins with) and the sequence  *)
(* of its elements.  A number is the set of the positions of its bits.     *)
(***************************************************************************)
EXTENDS Naturals, Sequences, SequencesExt

CONSTANTS
  NotNumber,   \* val of a primitive that begins with no digits
  MaxTokens    \* the number of tokens a parser_t has room for

ASSUME TokensAssumption == MaxTokens \in Nat \ {0}

U8  == SUBSET (0 .. 7)
U32 == SUBSET (0 .. 31)

Zero    == {}
ZeroEid == [scheme |-> Zero, ssp |-> Zero]

-----------------------------------------------------------------------------
(* Documents *)

Value(type, val, elems) == [type |-> type, val |-> val, elems |-> elems]
Num(n)     == Value("primitive", n, << >>)
Str(s)     == Value("string", s, << >>)
Arr(elems) == Value("array", NotNumber, elems)
Obj        == Value("object", NotNumber, << >>)
EidArr(e)  == Arr(<<Num(e.scheme), Num(e.ssp)>>)

Tok(v) == [type |-> v.type, val |-> v.val, size |-> Len(v.elems)]

\* The tokens jsmn ought to give: those of a value whose elements are nested at
\* most two deep, of a member of the block's object, and of a document.
Shallow(v) == <<Tok(v)>> \o [n \in DOMAIN v.elems |-> Tok(v.elems[n])]
ValueTokens(v) ==
  <<Tok(v)>> \o FlattenSeq([n \in DOMAIN v.elems |-> Shallow(v.elems[n])])
Tokens(doc) ==
  [n \in DOMAIN doc.head |-> Tok(doc.head[n])]
    \o FlattenSeq([n \in DOMAIN doc.members |->
         <<Tok(doc.members[n].key)>> \o ValueTokens(doc.members[n].value)])

-----------------------------------------------------------------------------
(* Slips the properties of other modules notice; the model does not use them *)
ParseU8Wide(p) ==            \* drops the check of the width
  IF p.tokens[p.token].type = "primitive" /\ p.tokens[p.token].val # NotNumber
  THEN [val |-> p.tokens[p.token].val \cap 0 .. 7,
        par |-> IF p.token < Len(p.tokens) THEN [p EXCEPT !.token = @ + 1] ELSE p]
  ELSE [val |-> Zero, par |-> [p EXCEPT !.error = TRUE]]

ParseU32Quiet(p) ==          \* forgets the error flag
  IF p.tokens[p.token].type = "primitive" /\ p.tokens[p.token].val # NotNumber
  THEN [val |-> p.tokens[p.token].val,
        par |-> IF p.token < Len(p.tokens) THEN [p EXCEPT !.token = @ + 1] ELSE p]
  ELSE [val |-> Zero, par |-> p]
ParseSymStays(p, syms, first) == \* forgets to advance
  IF p.tokens[p.token].type # "string"
  THEN [val |-> first, par |-> [p EXCEPT !.error = TRUE]]
  ELSE [val |-> IF p.tokens[p.token].val \in syms THEN p.tokens[p.token].val
                ELSE NotNumber, par |-> p]

(* The parser: the tokens, the number of those visited and the error flag.   *)
(* The current token is the last one visited.                                *)

Parser(tokens) == [tokens |-> tokens, token |-> 1, error |-> FALSE]

More(p) == p.token < Len(p.tokens)

\* parser_advance: at the last token it stays where it is.
Advance(p) == IF More(p) THEN [p EXCEPT !.token = @ + 1] ELSE p

Cur(p) == p.tokens[p.token]

Failed(p) == [p EXCEPT !.error = TRUE]

\* parser_parse_sym, for an array of symbols whose first one is first: a token
\* that is no string gives that first symbol.  SYM_INVALID is NotNumber.
ParseSym(p, syms, first) ==
  IF Cur(p).type # "string" THEN [val |-> first, par |-> Failed(p)]
  ELSE IF Cur(p).val \in syms THEN [val |-> Cur(p).val, par |-> Advance(p)]
  ELSE [val |-> NotNumber, par |-> p]

\* parser_parse_u32
ParseU32(p) ==
  IF Cur(p).type = "primitive" /\ Cur(p).val # NotNumber /\ Cur(p).val \in U32
  THEN [val |-> Cur(p).val, par |-> Advance(p)]
  ELSE [val |-> Zero, par |-> Failed(p)]

\* parser_parse_u8
ParseU8(p) ==
  LET r == ParseU32(p)
  IN  IF r.val \in U8 THEN r ELSE [val |-> Zero, par |-> Failed(r.par)]

\* parser_parse_eid into a slot that holds was.  C leaves it to the compiler
\* which of the two calls of parser_parse_u32 comes first.
ParseEid(p, was, schemeFirst) ==
  IF Cur(p).type # "array" \/ ~ More(p) THEN [val |-> was, par |-> p]
  ELSE LET one == ParseU32(Advance(p))
           two == ParseU32(one.par)
       IN  [val |-> IF schemeFirst THEN [scheme |-> one.val, ssp |-> two.val]
                    ELSE [scheme |-> two.val, ssp |-> one.val],
            par |-> two.par]
=============================================================================

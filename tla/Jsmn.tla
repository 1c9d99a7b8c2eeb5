-------------------------------- MODULE Jsmn --------------------------------
(***************************************************************************)
(* The text of documents: what the commands write and a user edits, and    *)
(* the tokens jsmn.c makes of it (built without JSMN_STRICT and without    *)
(* JSMN_PARENT_LINKS).                                                     *)
(*                                                                         *)
(* A text is a sequence of lexemes.  A lexeme is one of the characters     *)
(* jsmn tells apart, or a run of characters it does not: a number, or a    *)
(* word, which may be one that begins like the end of an escape sequence.  *)
(* White space of any length is one lexeme.                                *)
(***************************************************************************)
EXTENDS TokenParser

CONSTANT
  Spelling    \* the lexemes of the strings that are more than one word

Lexeme(class, val) == [class |-> class, val |-> val]
Char(class) == Lexeme(class, NotNumber)

Quote     == Char("quote")
Backslash == Char("backslash")
Space     == Char("space")
Colon     == Char("colon")
Comma     == Char("comma")
NUL       == Char("nul")         \* '\0'
Control   == Char("control")     \* below 32, or above 126
Word(s)   == Lexeme("word", s)
Escape(s) == Lexeme("escape", s) \* begins with one of "bfnrt/", or u and four digits
Digits(n) == [class |-> "number", num |-> n]

Brackets == [object |-> <<Char("{"), Char("}")>>, array |-> <<Char("["), Char("]")>>]

Opening(type) == Brackets[type][1]
Closing(type) == Brackets[type][2]

-----------------------------------------------------------------------------
(* Slips the properties notice; the model does not use them. *)
EnclosingNone(n, open) == 0        \* the container around it is forgotten
AnyOpen(open, p, type) == open # {} \* brackets of either kind close a container
UnclosedNone(p) == FALSE           \* the end of the text closes all containers

(* The text of a document.                                                 *)

Spell(s) == IF s \in DOMAIN Spelling THEN Spelling[s] ELSE <<Word(s)>>

\* serialize_eids: the string as it is, between quotes.
Quoted(s) == <<Quote>> \o Spell(s) \o <<Quote>>

\* "JSON doesn't support trailing commas."
Joined(texts) ==
  FlattenSeq([n \in DOMAIN texts |->
                IF n < Len(texts) THEN texts[n] \o <<Comma, Space>> ELSE texts[n]])

\* The elements of a list are on lines of their own, the numbers of an EID are not.
Pad(elems) == IF \E n \in DOMAIN elems : elems[n].type = "primitive" THEN << >> ELSE <<Space>>

\* A container, given the texts of its elements.
Bracketed(v, texts) ==
  <<Opening(v.type)>> \o Pad(v.elems) \o Joined(texts) \o Pad(v.elems) \o <<Closing(v.type)>>

\* The text of a value that holds no others; of one whose elements do not; and
\* of one whose elements are like that.
LeafText(v) ==
  CASE v.type = "string" -> Quoted(v.val)
    [] v.type = "primitive" -> <<IF v.val = NotNumber THEN Word(v.val) ELSE Digits(v.val)>>
    [] OTHER -> Bracketed(v, << >>)
ElemText(v) ==
  IF v.elems = << >> THEN LeafText(v)
  ELSE Bracketed(v, [n \in DOMAIN v.elems |-> LeafText(v.elems[n])])
ValueText(v) ==
  IF v.elems = << >> THEN LeafText(v)
  ELSE Bracketed(v, [n \in DOMAIN v.elems |-> ElemText(v.elems[n])])

MemberText(m) == ValueText(m.key) \o <<Colon, Space>> \o ValueText(m.value)

\* primary_block_serialize and ext_block_serialize: the name of the block's
\* type, and the object of its members.  In a document that was edited the head
\* may be anything; if it ends with an object, the members are in it.
Text(doc) ==
  LET head == [n \in DOMAIN doc.head |-> ValueText(doc.head[n]) \o <<Colon, Space>>]
      body == Joined([n \in DOMAIN doc.members |-> MemberText(doc.members[n])])
  IN  IF doc.head # << >> /\ Last(doc.head) = Obj
      THEN FlattenSeq(Front(head)) \o <<Opening("object"), Space>> \o body
             \o <<Space, Closing("object"), Space>>
      ELSE FlattenSeq(head) \o body

-----------------------------------------------------------------------------
(* jsmn_parser, with the tokens filled so far.  A token's end is 0 while the *)
(* container is open; super is the innermost open container, or 0.           *)

jsmn_init == [pos |-> 1, tokens |-> << >>, super |-> 0, error |-> "none"]

EndOfText(text, pos) == pos > Len(text) \/ text[pos].class = "nul"

Stop(p, error) == [p EXCEPT !.error = error]

\* jsmn_alloc_token and jsmn_fill_token, and the count of the container that
\* is open; the text goes on at next.
AddToken(p, type, start, end, next) ==
  IF Len(p.tokens) >= MaxTokens THEN Stop(p, "nomem")
  ELSE LET counted == IF p.super = 0 THEN p.tokens
                      ELSE [p.tokens EXCEPT ![p.super].size = @ + 1]
       IN  [p EXCEPT !.tokens = Append(counted, [type |-> type, start |-> start,
                                                 end |-> end, size |-> 0]),
                     !.pos = next]

\* case '{': case '['
OpenContainer(p, type) ==
  LET q == AddToken(p, type, p.pos, 0, p.pos + 1)
  IN  IF q.error = "none" THEN [q EXCEPT !.super = Len(q.tokens)] ELSE q

Unclosed(p) == {n \in DOMAIN p.tokens : p.tokens[n].end = 0}

\* The container that encloses the nth token, of the containers that are open.
Enclosing(n, open) == Max((open \ {n}) \cup {0})

\* The innermost open container is one this bracket closes.
Closes(open, p, type) == open # {} /\ p.tokens[Max(open)].type = type

\* case '}': case ']'
CloseContainer(p, type) ==
  LET open == Unclosed(p)
      last == Max(open)
  IN  IF Closes(open, p, type)
      THEN [p EXCEPT !.tokens[last].end = p.pos + 1,
                     !.super = Enclosing(last, open),
                     !.pos = @ + 1]
      ELSE Stop(p, "inval")

\* A slip: whatever follows a backslash is skipped with it.
SkipAny(text, start) ==
  LET scan[pos \in start .. Len(text) + 2] ==
        IF EndOfText(text, pos) \/ (text[pos] = Backslash /\ pos = Len(text))
        THEN [end |-> 0, error |-> "part"]
        ELSE IF text[pos] = Quote THEN [end |-> pos, error |-> "none"]
        ELSE scan[pos + IF text[pos] = Backslash THEN 2 ELSE 1]
  IN  scan[start]

\* jsmn_parse_string: where the string that begins at start ends, or the error.
\* A backslash that ends the text makes the parser look at what lies behind
\* it: whatever that is, the string does not end.
StringEnd(text, start) ==
  LET scan[pos \in start .. Len(text) + 2] ==
        IF EndOfText(text, pos) THEN [end |-> 0, error |-> "part"]
        ELSE IF text[pos] = Quote THEN [end |-> pos, error |-> "none"]
        ELSE IF text[pos] # Backslash THEN scan[pos + 1]
        ELSE IF pos = Len(text) THEN [end |-> 0, error |-> "part"]
        ELSE IF text[pos + 1].class \in {"quote", "backslash", "escape"} THEN scan[pos + 2]
        ELSE [end |-> 0, error |-> "inval"]
  IN  scan[start]

String(text, p) ==
  LET s == StringEnd(text, p.pos + 1)
  IN  IF s.error # "none" THEN Stop(p, s.error)
      ELSE AddToken(p, "string", p.pos + 1, s.end, s.end + 1)

\* jsmn_parse_primitive: whatever is not one of these goes on with a primitive.
EndOfWord == {"space", "comma", "colon", "}", "]"}

Primitive(text, p) ==
  LET end == CHOOSE e \in p.pos .. Len(text) + 1 :
               /\ EndOfText(text, e) \/ text[e].class \in EndOfWord \cup {"control"}
               /\ \A n \in p.pos .. e - 1 :
                    ~ EndOfText(text, n) /\ text[n].class \notin EndOfWord \cup {"control"}
  IN  IF ~ EndOfText(text, end) /\ text[end].class = "control" THEN Stop(p, "inval")
      ELSE AddToken(p, "primitive", p.pos, end, end)

\* A turn of the loop of jsmn_parse.
JsmnTurn(text, p) ==
  LET c == text[p.pos].class
  IN  CASE c = "{" -> OpenContainer(p, "object")
        [] c = "[" -> OpenContainer(p, "array")
        [] c = "}" -> CloseContainer(p, "object")
        [] c = "]" -> CloseContainer(p, "array")
        [] c = "quote" -> String(text, p)
        [] c \in {"space", "colon", "comma"} -> [p EXCEPT !.pos = @ + 1]
        [] OTHER -> Primitive(text, p)

\* "Unmatched opened object or array"
Unmatched(p) == Unclosed(p) # {}

\* jsmn_parse: every turn consumes at least one lexeme, or stops.  (The turns
\* are taken four at a time, and the parser they start from is bound in a set,
\* for TLC's sake: it needs room on its stack for every n, and would evaluate the
\* parser at each use.)
jsmn_parse(text) ==
  LET turn(p) == IF p.error # "none" \/ EndOfText(text, p.pos) THEN p ELSE JsmnTurn(text, p)
      two(p) == CHOOSE q \in {turn(r) : r \in {turn(p)}} : TRUE
      four(p) == CHOOSE q \in {two(r) : r \in {two(p)}} : TRUE
      after[n \in 0 .. Len(text)] ==
        IF n = 0 THEN jsmn_init
        ELSE CHOOSE q \in {four(p) : p \in {after[n - 1]}} : TRUE
      last(p) == IF p.error = "none" /\ Unmatched(p) THEN Stop(p, "part") ELSE p
  IN  CHOOSE q \in {last(p) : p \in {after[(Len(text) + 3) \div 4]}} : TRUE

-----------------------------------------------------------------------------
(* What parser.c sees of a token: its type, the string or number it is, and  *)
(* the number of elements of an array (nothing looks at other sizes).        *)

Lexemes(text, t) == SubSeq(text, t.start, t.end - 1)

Classes(s) == [n \in DOMAIN s |-> s[n].class]

\* A string of one word is its own spelling, and no two are spelled alike.
ASSUME SpellingAssumption ==
  \A s \in DOMAIN Spelling :
    /\ Classes(Spelling[s]) # <<"word">>
    /\ \A t \in DOMAIN Spelling :
          Classes(Spelling[t]) = Classes(Spelling[s]) /\ Spelling[t] = Spelling[s] => t = s

\* The string spelled like that.
StringOf(s) ==
  LET same == {x \in DOMAIN Spelling : Classes(Spelling[x]) = Classes(s) /\ Spelling[x] = s}
  IN  IF Classes(s) = <<"word">> THEN s[1].val
      ELSE IF same # {} THEN CHOOSE x \in same : TRUE ELSE "other"

Seen(text, t) ==
  [ type |-> t.type,
    val  |-> CASE t.type = "string" -> StringOf(Lexemes(text, t))
               [] t.type = "primitive" /\ text[t.start].class = "number" -> text[t.start].num
               [] OTHER -> NotNumber,
    size |-> IF t.type = "array" THEN t.size ELSE 0 ]

SeenTokens(text, tokens) == [n \in DOMAIN tokens |-> Seen(text, tokens[n])]

-----------------------------------------------------------------------------
(* What a text ought to give *)

\* A string that JSON allows between quotes as it is: a backslash begins an
\* escape sequence, and no quote is outside of one.
Legible(s) ==
  LET next(state, l) ==
        CASE state = "escape" ->
               IF l.class \in {"quote", "backslash", "escape"} THEN "plain" ELSE "not"
          [] state = "plain" ->
               IF l = Quote THEN "not" ELSE IF l = Backslash THEN "escape" ELSE "plain"
          [] OTHER -> "not"
      after[n \in 0 .. Len(s)] == IF n = 0 THEN "plain" ELSE next(after[n - 1], s[n])
  IN  after[Len(s)] = "plain"

\* The strings of a value, down to the elements of its elements.
StringsIn(v) ==
  LET ones(w) == IF w.type = "string" THEN {w.val} ELSE {}
      twos(w) == ones(w) \cup UNION {ones(w.elems[n]) : n \in DOMAIN w.elems}
  IN  ones(v) \cup UNION {twos(v.elems[n]) : n \in DOMAIN v.elems}

StringsOfDoc(doc) ==
  (UNION {StringsIn(doc.head[n]) : n \in DOMAIN doc.head})
    \cup UNION {StringsIn(doc.members[n].key) \cup StringsIn(doc.members[n].value) :
                  n \in DOMAIN doc.members}

AllLegible(doc) == \A s \in StringsOfDoc(doc) : Legible(Spell(s))

\* Tokens that make a tree, each behind the one it lies in: two tokens lie one
\* in the other or apart, brackets match, and a container counts what lies in
\* it and in none of its elements.
Tree(text, tokens) ==
  LET in(m, n) == tokens[n].start <= tokens[m].start /\ tokens[m].end <= tokens[n].end
      child(m, n) == /\ m > n /\ in(m, n)
                     /\ \A k \in n + 1 .. m - 1 : in(k, n) => ~ in(m, k)
  IN  \A n \in DOMAIN tokens :
        /\ \A m \in 1 .. n - 1 : in(n, m) \/ tokens[m].end <= tokens[n].start
        /\ tokens[n].size = Cardinality({m \in DOMAIN tokens : child(m, n)})
        /\ tokens[n].type \in DOMAIN Brackets =>
             /\ text[tokens[n].start] = Opening(tokens[n].type)
             /\ text[tokens[n].end - 1] = Closing(tokens[n].type)
=============================================================================

--------------------------- MODULE MCUnserialize ----------------------------
(* Documents for Unserialize.  They start from a well-formed one of each    *)
(* type, with its members in several orders, and differ from it in one      *)
(* place: a value, a key, a member missing or repeated, or the head.        *)
EXTENDS Unserialize

Five == {0, 2}        \* 5, and numbers that are too wide for a field
Wide8 == {8}
Wide32 == {32}
Eid(a, b) == [scheme |-> a, ssp |-> b]

PrimaryOrder ==
  <<"version", "flags", "length", "dest", "src", "report-to", "custodian",
    "creation-ts", "creation-seq", "lifetime", "eids-size", "eids">>
ExtOrder == <<"type", "flags", "payload-length", "ref-count", "refs">>

Good(type, k) ==
  CASE KindOf[type][k] = "u8" -> Num({1})
    [] KindOf[type][k] = "u32" -> Num({31})
    [] KindOf[type][k] = "eid" -> EidArr(Eid({3}, {}))
    [] KindOf[type][k] = "eids" -> Arr(<<Str("dtn"), Str("none")>>)
    [] KindOf[type][k] = "refs" -> Arr(<<EidArr(Eid({3}, {})), EidArr(Eid({}, {4}))>>)

\* The members in the order given by seq, beginning at its nth, and backwards.
Turned(seq, n) == SubSeq(seq, n, Len(seq)) \o SubSeq(seq, 1, n - 1)
Backwards(seq) == [n \in DOMAIN seq |-> seq[Len(seq) + 1 - n]]
Orders(seq) == {Turned(seq, n) : n \in {1, 3, 5}} \cup {Backwards(seq)}

Members(type, order) ==
  [n \in DOMAIN order |-> [key |-> Str(order[n]), value |-> Good(type, order[n])]]

Document(type, members) == [head |-> <<Str(type), Obj>>, members |-> members]

\* Values for any key: each is good for some keys and bad for others.
Odd ==
  { Num(NotNumber), Num({}), Num(Five), Num(Wide8), Num(Wide32), Str("none"),
    Str("flags"), Str("src"), Str("refs"), Obj, Arr(<< >>), Arr(<<Num(Five)>>),
    Arr(<<Num(Five), Num({})>>), Arr(<<Num(Five), Num({}), Num({1})>>),
    Arr(<<Num(Five), Num(Wide32)>>), Arr(<<Num(Five), Str("none")>>),
    Arr(<<Str("none")>>), Arr(<<Str("flags"), Num({})>>),
    Arr(<<EidArr(Eid(Five, {}))>>), Arr(<<Num({1}), EidArr(Eid(Five, {}))>>),
    Arr(<<EidArr(Eid(Five, {})), Num({1})>>),
    Arr(<<Arr(<<Num({1})>>), EidArr(Eid(Five, {}))>>),
    Arr(<<Arr(<<Num({1})>>), Num({})>>), Arr(<<Arr(<< >>), Num({1}), Num({})>>),
    Arr(<<Num({1}), Num({}), Str("flags"), Num({})>>),
    Arr(<<Num({1}), Num({}), Str("src"), EidArr(Eid({1}, {}))>>),
    Arr([n \in 1 .. 4 |-> EidArr(Eid({n}, {}))]) }

OddKeys == {Str("none"), Num({1}), Arr(<< >>), Obj}

\* One place of members changed.
Changed(type, ms) ==
  {ms}
    \cup {[ms EXCEPT ![n].value = v] : n \in DOMAIN ms, v \in Odd}
    \cup {[ms EXCEPT ![n].key = k] : n \in DOMAIN ms, k \in OddKeys}
    \cup {SubSeq(ms, 1, n - 1) \o SubSeq(ms, n + 1, Len(ms)) : n \in DOMAIN ms}
    \cup {Append(ms, [ms[n] EXCEPT !.value = v]) :
            n \in DOMAIN ms, v \in Odd \cup {ms[1].value}}

OfType(type, order) ==
  UNION {{Document(type, ms) : ms \in Changed(type, Members(type, o))} :
           o \in Orders(order)}

OddHeads ==
  { [head |-> h, members |-> Members("extension", ExtOrder)] :
      h \in {<<Str("extension")>>, <<Str("none"), Obj>>, <<Str("primary"), Obj>>,
             <<Obj>>, <<Obj, Str("extension"), Obj>>, <<Num({1}), Obj>>, << >>,
             <<Str("extension"), Arr(<< >>)>>} }
    \cup {[head |-> h, members |-> << >>] :
            h \in {<< >>, <<Str("primary")>>, <<Str("extension"), Obj>>, <<Obj>>}}

\* With one value before the members, keys are read as values and values as
\* keys; this one is accepted.
Shifted ==
  LET member(k, v) == [key |-> k, value |-> Str(v)]
      five(v) == member(Num(Five), v)
  IN  [ head    |-> <<Str("extension")>>,
        members |-> << member(Obj, "type"), five("flags"), five("payload-length"),
                       five("ref-count"), five("refs"), member(Arr(<< >>), "none") >> ]

\* One token more than fits.
TooLong ==
  Document("primary",
    [Members("primary", PrimaryOrder) EXCEPT ![12].value =
       Arr([n \in 1 .. 17 |-> Str("dtn")])])

\* Strings that are more than one word: some have escape sequences, some only
\* brackets and the like, and some a quote or a backslash too many.
W(s) == Word(s)
MCSpelling ==
  [ s \in {"a]b", "a, b", "a<1>", "a\\nb", "a\\\\", "a\\q", "a\\", "a\"b", "a\", \"b", "a\""} |->
      CASE s = "a]b" -> <<W("a"), Closing("array"), W("b")>>
        [] s = "a, b" -> <<W("a"), Comma, Space, W("b")>>
        [] s = "a<1>" -> <<W("a"), Control>>
        [] s = "a\\nb" -> <<W("a"), Backslash, Escape("nb")>>
        [] s = "a\\\\" -> <<W("a"), Backslash, Backslash>>
        [] s = "a\\q" -> <<W("a"), Backslash, W("q")>>
        [] s = "a\\" -> <<W("a"), Backslash>>
        [] s = "a\"b" -> <<W("a"), Quote, W("b")>>
        [] s = "a\", \"b" -> <<W("a"), Quote, Comma, Space, Quote, W("b")>>
        [] s = "a\"" -> <<W("a"), Quote>> ]

\* Documents with such strings, alone and between others, in members that stand
\* last or before others.
Spelled ==
  UNION {{Document("primary", [ms EXCEPT ![n].value = Arr(strs)]) :
            strs \in {<<Str(s)>> : s \in DOMAIN MCSpelling}
                      \cup {<<Str("dtn"), Str(s), Str("none")>> : s \in DOMAIN MCSpelling}
                      \cup {<<Str(s), Str(s)>> : s \in DOMAIN MCSpelling}} :
           <<ms, n>> \in {<<Members("primary", PrimaryOrder), 12>>,
                         <<Members("primary", Turned(PrimaryOrder, 12)), 1>>}}

MCDocs ==
  OfType("primary", PrimaryOrder) \cup OfType("extension", ExtOrder)
    \cup OddHeads \cup Spelled \cup {Shifted, TooLong}

MCFew == OfType("extension", ExtOrder) \cup OddHeads

\* Documents that are cut, one of them with brackets and commas in its strings,
\* and one that does not fit, but of which what is left may.
MCCutDocs ==
  { Document("primary", Members("primary", PrimaryOrder)),
    Document("extension", Members("extension", ExtOrder)),
    Document("extension", Members("extension", Backwards(ExtOrder))),
    Document("primary", [Members("primary", PrimaryOrder) EXCEPT ![12].value =
                           Arr(<<Str("a]b"), Str("a, b"), Str("a\\\\")>>)]),
    TooLong }

\* All short texts.
Marks == {Opening("object"), Closing("object"), Opening("array"), Closing("array"), Quote}
Others == {Comma, Word("a"), Digits({1}), Backslash, Escape("n"), Control, NUL}
MCTexts ==
  UNION {[1 .. n -> Marks \cup {Comma}] : n \in 0 .. 5}
    \cup UNION {[1 .. n -> Marks \cup Others] : n \in 0 .. 4}
=============================================================================

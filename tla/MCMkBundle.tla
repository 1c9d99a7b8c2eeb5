---------------------------- MODULE MCMkBundle ------------------------------
(* Command lines for MkBundle. *)
EXTENDS MkBundle

\* The empty string, one with an escape sequence, and three with quotes and
\* backslashes that are not escaped: with one of these a document is no text
\* jsmn accepts, with others it has other strings.
MCSpelling ==
  [ s \in {"", "a\\nb", "a\"b", "a\\", "a\", \"b"} |->
      CASE s = "" -> << >>
        [] s = "a\\nb" -> <<Word("a"), Backslash, Escape("nb")>>
        [] s = "a\"b" -> <<Word("a"), Quote, Word("b")>>
        [] s = "a\\" -> <<Word("a"), Backslash>>
        [] s = "a\", \"b" -> <<Word("a"), Quote, Comma, Space, Quote, Word("b")>> ]

\* compile may find parts of them, or what has no spelling here ("other").
MCStrings == {"dtn", "none", "a", "b", "other"} \cup DOMAIN MCSpelling
MCLenOf ==
  [ s \in MCStrings |->
      CASE s = "dtn" -> 3
        [] s = "none" -> 120
        [] s \in DOMAIN MCSpelling -> Len(MCSpelling[s])
        [] OTHER -> 1 ]

Opt(opt, args) == {[opt |-> opt, arg |-> a] : a \in args}
EidArg(scheme, ssp) == [scheme |-> scheme, ssp |-> ssp]

\* Numbers of one and of several groups of bits, wider than a byte, and wider
\* than a word.  "none" is so long that the offsets behind it take two bytes,
\* and is no flag.  "creation" abbreviates two options.
MCPrimaryOptions ==
  Opt("flag", {"ack", "none"}) \cup Opt("prio", {"normal", "expedited"})
    \cup Opt("report", {"deletion"}) \cup Opt("version", {{7, 8}, Malformed})
    \cup Opt("creation-ts", {{1, 9, 32}})
    \cup Opt("lifetime", {{13}}) \cup Opt("creation", {{4}})
    \cup Opt("dest", {EidArg("dtn", "none"), EidArg("a\\nb", ""), Malformed,
                   EidArg("dtn", "a\"b"), EidArg("a\", \"b", "")})
    \cup Opt("src", {EidArg("none", "none")}) \cup Opt("report-to", {EidArg("", "dtn")})

MCExtOptions ==
  Opt("type", {[sym |-> "phib", num |-> Malformed], [sym |-> "257", num |-> {0, 8}],
               [sym |-> "none", num |-> Malformed]})
    \cup Opt("flag", {"last-block", "eid-ref", "none"})
    \cup Opt("payload-length", {{6, 7}, {5, 33}})
    \cup Opt("ref", {EidArg({2}, {9}), Malformed})

\* What the document may be edited to: each fits the member's kind, and of
\* some of them others no longer tell the truth.
To(k, value) == [key |-> Str(k), value |-> value]
MCEdits ==
  { To("length", Num({10})), To("dest", EidArr([scheme |-> {2}, ssp |-> {9}])),
    To("eids", Arr(<<Str("none")>>)), To("flags", Num({3})),
    To("ref-count", Num({0})), To("refs", Arr(<<EidArr([scheme |-> {7}, ssp |-> {}])>>)) }
    \cup {To("eids", Arr(<<Str(s), Str("none")>>)) : s \in DOMAIN MCSpelling}
    \cup {To("eids", Arr([n \in 1 .. 4 |-> Str("dtn")]))}

MCOptions == MCPrimaryOptions \cup MCExtOptions
=============================================================================

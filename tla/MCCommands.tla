----------------------------- MODULE MCCommands -----------------------------
(* Instances of Commands for TLC: the bytes of a document or a block are all *)
(* different.  A text with more behind a document is none.                   *)
EXTENDS Commands

Doc(c) == CASE c = "primary" -> <<1, 2, 3, 4>> [] c = "extension" -> <<5, 6>>
Block(c) == CASE c = "primary" -> <<11, 12>> [] c = "extension" -> <<15>>

MCDocuments == [c \in {"primary", "extension"} |-> {Doc(c)}]
MCCompiled ==
  [text \in {Doc("primary"), Doc("extension")} |->
     IF text = Doc("primary") THEN Block("primary") ELSE Block("extension")]

Longer == Doc("primary") \o <<9, 8, 7>>

Prefixes(bytes) == {SubSeq(bytes, 1, n) : n \in 0 .. Len(bytes)}
MCFiles ==
  UNION {Prefixes(b) : b \in {Longer, Doc("extension"), Block("primary"), Block("extension")}}
MCFirstFiles == {NoFile, Doc("extension"), Longer}
=============================================================================

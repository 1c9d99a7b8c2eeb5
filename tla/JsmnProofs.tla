----------------------------- MODULE JsmnProofs -----------------------------
(***************************************************************************)
(* Proofs about the tokens jsmn.c makes of a text, whatever the text and   *)
(* the number of tokens there is room for.                                 *)
(*                                                                         *)
(* jsmn_parse is a recursive function over the turns of its loop, and the  *)
(* end of a string one over the characters of the text.  What they compute *)
(* is proved from the least number at which it would fail.                 *)
(***************************************************************************)
EXTENDS Jsmn, Integers, SequenceTheorems, FiniteSetTheorems,
        WellFoundedInduction, TLAPS

(* A text is a sequence of lexemes of some lexicon, in which what has the     *)
(* class of a bracket is that bracket.                                        *)

BracketClasses == {"{", "}", "[", "]"}

Lexicon(L) == \A l \in L : l.class \in BracketClasses => l = Char(l.class)

-----------------------------------------------------------------------------
(* What is true of the tokens after every turn of jsmn_parse.                *)

TokenTypes == {"object", "array", "string", "primitive"}
JsmnToken  == [type : TokenTypes, start : Nat, end : Nat, size : Nat]
JsmnParser == [pos : Nat, tokens : Seq(JsmnToken), super : Nat,
               error : {"none", "nomem", "inval", "part"}]

\* Token n lies around the later token m: it is open still, or was closed
\* behind it.
Around(ts, m, n) ==
  n < m /\ (ts[n].end = 0 \/ (ts[m].end # 0 /\ ts[m].end <= ts[n].end))

\* Token n ended before the later token m began.
Before(ts, m, n) ==
  /\ ts[n].end # 0 /\ ts[n].end <= ts[m].start
  /\ ts[m].end = 0 \/ ts[n].end < ts[m].end

\* The tokens that lie in n and in none between.
Inside(ts, n) ==
  {m \in DOMAIN ts : Around(ts, m, n) /\ \A k \in n + 1 .. m - 1 : ~ Around(ts, m, k)}

\* The current container is the last one that is open.
SuperInnermost(p) ==
  /\ p.super \in Unclosed(p) \cup {0}
  /\ \A n \in Unclosed(p) : n <= p.super

\* Tokens begin one after the other, all in what was read.
InOrder(p) ==
  /\ \A n \in DOMAIN p.tokens :
        /\ p.tokens[n].start \in 1 .. p.pos - 1
        /\ IF p.tokens[n].end = 0 THEN p.tokens[n].type \in DOMAIN Brackets
           ELSE p.tokens[n].end \in p.tokens[n].start .. p.pos
  /\ \A n, m \in DOMAIN p.tokens : n < m => p.tokens[n].start < p.tokens[m].start

Nested(ts) ==
  \A n, m \in DOMAIN ts : n < m => Around(ts, m, n) \/ Before(ts, m, n)

Counted(ts) == \A n \in DOMAIN ts : ts[n].size = Cardinality(Inside(ts, n))

InBrackets(text, ts) ==
  \A n \in DOMAIN ts :
     ts[n].type \in DOMAIN Brackets =>
       /\ text[ts[n].start] = Opening(ts[n].type)
       /\ ts[n].end # 0 => ts[n].start < ts[n].end /\ text[ts[n].end - 1] = Closing(ts[n].type)

ParserInv(text, p) ==
  /\ p \in JsmnParser
  /\ p.pos \in 1 .. Len(text) + 1
  /\ Len(p.tokens) <= MaxTokens
  /\ SuperInnermost(p)
  /\ InOrder(p)
  /\ Nested(p.tokens)
  /\ Counted(p.tokens)
  /\ InBrackets(text, p.tokens)

-----------------------------------------------------------------------------
(* Numbers *)

\* A set of numbers that is not empty has a least one: of the intervals that
\* end below its members one contains no other.
LEMMA LeastNumber ==
  ASSUME NEW S \in SUBSET Nat, S # {}
  PROVE  \E m \in S : \A n \in S : m <= n
<1> DEFINE T == {0 .. n - 1 : n \in S}
<1>1. T \subseteq FiniteSubsetsOf(Nat)
  <2> SUFFICES ASSUME NEW n \in S PROVE 0 .. n - 1 \in FiniteSubsetsOf(Nat)
    OBVIOUS
  <2>1. IsFiniteSet(0 .. n - 1)
    BY FS_Interval
  <2>2. 0 .. n - 1 \subseteq Nat
    OBVIOUS
  <2> QED BY <2>1, <2>2 DEF FiniteSubsetsOf
<1>2. T # {}
  OBVIOUS
<1>3. PICK x \in T : \A y \in T : ~ (<<y, x>> \in StrictSubsetOrdering(Nat))
  <2> HIDE DEF T
  <2> QED BY <1>1, <1>2, FS_StrictSubsetOrderingWellFounded, WFMin
<1>4. PICK m \in S : x = 0 .. m - 1
  OBVIOUS
<1>5. ASSUME NEW n \in S PROVE m <= n
  <2> SUFFICES ASSUME n < m PROVE FALSE
    OBVIOUS
  <2>1. ~ (<<0 .. n - 1, x>> \in StrictSubsetOrdering(Nat))
    BY <1>3
  <2>2. 0 .. n - 1 \subseteq x /\ x \subseteq Nat
    BY <1>4
  <2>3. n \in x /\ n \notin 0 .. n - 1
    BY <1>4
  <2> QED BY <2>1, <2>2, <2>3 DEF StrictSubsetOrdering
<1> QED BY <1>5

\* Induction: a set of numbers that has 0, and the successor of each of its
\* numbers up to N, has all of them.
LEMMA UpTo ==
  ASSUME NEW N \in Nat, NEW S, 0 \in S,
         \A n \in 0 .. N - 1 : n \in S => n + 1 \in S
  PROVE  0 .. N \subseteq S
<1> DEFINE T == 0 .. N \ S
<1> SUFFICES ASSUME T # {} PROVE FALSE
  OBVIOUS
<1>1. PICK m \in T : \A n \in T : m <= n
  <2>1. T \in SUBSET Nat
    OBVIOUS
  <2> HIDE DEF T
  <2> QED BY <2>1, LeastNumber
<1>2. m # 0 /\ m - 1 \in 0 .. N - 1
  BY <1>1
<1>3. m - 1 \in S
  <2>1. m - 1 \notin T
    BY <1>1, <1>2
  <2> QED BY <2>1, <1>2
<1> QED BY <1>2, <1>3, m \in T, (m - 1) + 1 = m

LEMMA MaxIs ==
  ASSUME NEW S \in SUBSET Nat, NEW m \in S, \A n \in S : n <= m
  PROVE  Max(S) = m
<1> DEFINE IsMax(x) == x \in S /\ \A y \in S : x >= y
<1>1. IsMax(m)
  OBVIOUS
<1>2. \A x : IsMax(x) => x = m
  OBVIOUS
<1>3. Max(S) = CHOOSE x : IsMax(x)
  BY DEF Max
<1>4. IsMax(CHOOSE x : IsMax(x))
  BY <1>1
<1> QED BY <1>2, <1>3, <1>4

LEMMA MaxOf ==
  ASSUME NEW N \in Nat, NEW S \in SUBSET (0 .. N), S # {}
  PROVE  Max(S) \in S /\ \A n \in S : n <= Max(S)
<1> DEFINE T == {N - n : n \in S}
<1>1. PICK t \in T : \A u \in T : t <= u
  <2>1. T \in SUBSET Nat
    <3> SUFFICES ASSUME NEW n \in S PROVE N - n \in Nat
      OBVIOUS
    <3> QED BY n \in 0 .. N
  <2>2. T # {}
    OBVIOUS
  <2> HIDE DEF T
  <2> QED BY <2>1, <2>2, LeastNumber
<1>2. PICK m \in S : t = N - m
  OBVIOUS
<1>3. \A n \in S : n <= m
  <2> TAKE n \in S
  <2>1. N - n \in T
    OBVIOUS
  <2>2. N - m <= N - n
    BY <1>1, <1>2, <2>1
  <2> QED BY <2>2
<1> QED BY <1>3, MaxIs

\* A function that makes one step after the other, as a recursive function does,
\* exists.
Repeats(f, N, X, x, step) ==
  f \in [0 .. N -> X] /\ f[0] = x /\ \A n \in 1 .. N : f[n] = step[n][f[n - 1]]

LEMMA Repeated ==
  ASSUME NEW N \in Nat, NEW X, NEW x \in X, NEW step \in [1 .. N -> [X -> X]]
  PROVE  \E f : Repeats(f, N, X, x, step)
<1> DEFINE Good(k) == \E f \in [0 .. k -> X] :
                        f[0] = x /\ \A n \in 1 .. k : f[n] = step[n][f[n - 1]]
           S == {k \in 0 .. N : Good(k)}
<1>1. Good(0)
  <2> DEFINE f == [n \in 0 .. 0 |-> x]
  <2>1. f \in [0 .. 0 -> X] /\ f[0] = x /\ \A n \in 1 .. 0 : f[n] = step[n][f[n - 1]]
    OBVIOUS
  <2> QED BY <2>1
<1>2. ASSUME NEW k \in 0 .. N - 1, Good(k) PROVE Good(k + 1)
  <2>1. PICK f \in [0 .. k -> X] : f[0] = x /\ \A n \in 1 .. k : f[n] = step[n][f[n - 1]]
    BY <1>2
  <2> DEFINE g == [n \in 0 .. k + 1 |-> IF n = k + 1 THEN step[k + 1][f[k]] ELSE f[n]]
  <2>2. g \in [0 .. k + 1 -> X]
    <3>1. step[k + 1] \in [X -> X] /\ f[k] \in X
      OBVIOUS
    <3>2. step[k + 1][f[k]] \in X
      BY <3>1
    <3>3. \A n \in 0 .. k + 1 : n # k + 1 => f[n] \in X
      OBVIOUS
    <3> QED BY <3>2, <3>3
  <2>3. g[0] = x
    BY <2>1
  <2>4. ASSUME NEW n \in 1 .. k + 1 PROVE g[n] = step[n][g[n - 1]]
    <3>1. g[n - 1] = f[n - 1]
      OBVIOUS
    <3>2. g[n] = IF n = k + 1 THEN step[k + 1][f[k]] ELSE f[n]
      OBVIOUS
    <3>3. n # k + 1 => n \in 1 .. k
      OBVIOUS
    <3> HIDE DEF g
    <3> QED BY <2>1, <3>1, <3>2, <3>3
  <2> QED BY <2>2, <2>3, <2>4
<1>3. 0 .. N \subseteq S
  <2>1. 0 \in S
    BY <1>1
  <2>2. ASSUME NEW n \in 0 .. N - 1, n \in S PROVE n + 1 \in S
    <3>1. Good(n)
      BY <2>2
    <3>2. Good(n + 1)
      BY <1>2, <3>1
    <3> HIDE DEF Good
    <3> QED BY <3>2
  <2> HIDE DEF S
  <2> QED BY <2>1, <2>2, UpTo
<1> QED BY <1>3 DEF Repeats

-----------------------------------------------------------------------------
(* A token is added *)

LEMMA InsideFinite ==
  ASSUME NEW S, NEW ts \in Seq(S), NEW n \in Nat
  PROVE  /\ IsFiniteSet(Inside(ts, n))
         /\ Inside(ts, n) \subseteq n + 1 .. Len(ts)
<1>1. Inside(ts, n) \subseteq n + 1 .. Len(ts)
  BY DEF Inside, Around
<1>2. IsFiniteSet(n + 1 .. Len(ts))
  BY FS_Interval
<1> QED BY <1>1, <1>2, FS_Subset

\* In q the token t stands behind those of p, and p's current container counts it.
Adds(p, t, next, q) ==
  /\ q = [p EXCEPT !.tokens = q.tokens, !.pos = next]
  /\ q.tokens \in Seq(JsmnToken) /\ Len(q.tokens) = Len(p.tokens) + 1
  /\ q.tokens[Len(p.tokens) + 1] = t
  /\ \A n \in 1 .. Len(p.tokens) :
       /\ q.tokens[n].type = p.tokens[n].type
       /\ q.tokens[n].start = p.tokens[n].start
       /\ q.tokens[n].end = p.tokens[n].end
       /\ q.tokens[n].size =
            IF n = p.super THEN p.tokens[n].size + 1 ELSE p.tokens[n].size

LEMMA AddedTokens ==
  ASSUME NEW text, NEW p, ParserInv(text, p), Len(p.tokens) < MaxTokens,
         NEW type \in TokenTypes, NEW start \in Nat, NEW end \in Nat, NEW next \in Nat
  PROVE  Adds(p, [type |-> type, start |-> start, end |-> end, size |-> 0], next,
              AddToken(p, type, start, end, next))
<1> DEFINE ts == p.tokens
           cs == IF p.super = 0 THEN ts ELSE [ts EXCEPT ![p.super].size = @ + 1]
           t  == [type |-> type, start |-> start, end |-> end, size |-> 0]
<1>1. ts \in Seq(JsmnToken) /\ Len(ts) \in Nat /\ p.super \in 0 .. Len(ts)
  BY DEF ParserInv, JsmnParser, SuperInnermost, Unclosed
<1>2. \A n \in 1 .. Len(ts) : ts[n] \in JsmnToken
  BY <1>1
<1>3. /\ cs \in Seq(JsmnToken) /\ Len(cs) = Len(ts)
      /\ \A n \in 1 .. Len(ts) :
           /\ cs[n].type = ts[n].type
           /\ cs[n].start = ts[n].start
           /\ cs[n].end = ts[n].end
           /\ cs[n].size = IF n = p.super THEN ts[n].size + 1 ELSE ts[n].size
  <2>1. CASE p.super = 0
    BY <1>1, <2>1
  <2>2. CASE p.super # 0
    <3>1. cs = [ts EXCEPT ![p.super] = [ts[p.super] EXCEPT !.size = ts[p.super].size + 1]]
      BY <2>2
    <3>2. [ts[p.super] EXCEPT !.size = ts[p.super].size + 1] \in JsmnToken
      <4>1. ts[p.super] \in JsmnToken
        BY <1>1, <1>2, <2>2
      <4> HIDE DEF ts
      <4> QED BY <4>1 DEF JsmnToken
    <3>3. cs \in Seq(JsmnToken) /\ Len(cs) = Len(ts)
      BY <1>1, <3>1, <3>2, ExceptSeq, <2>2
    <3>4. ASSUME NEW n \in 1 .. Len(ts) PROVE cs[n] = IF n = p.super THEN [ts[n] EXCEPT !.size = ts[n].size + 1] ELSE ts[n]
      BY <1>1, <3>1, DOMAIN ts = 1 .. Len(ts)
    <3> HIDE DEF cs
    <3> QED BY <1>2, <3>3, <3>4 DEF JsmnToken
  <2> QED BY <2>1, <2>2
<1>4. t \in JsmnToken
  BY DEF JsmnToken
<1>5. AddToken(p, type, start, end, next) = [p EXCEPT !.tokens = Append(cs, t), !.pos = next]
  <2>1. ~ (Len(p.tokens) >= MaxTokens)
    BY <1>1, TokensAssumption DEF ParserInv
  <2> QED BY <2>1 DEF AddToken
<1>6. /\ Append(cs, t) \in Seq(JsmnToken) /\ Len(Append(cs, t)) = Len(ts) + 1
      /\ Append(cs, t)[Len(ts) + 1] = t
      /\ \A n \in 1 .. Len(ts) : Append(cs, t)[n] = cs[n]
  <2> HIDE DEF cs, t
  <2> QED BY <1>1, <1>3, <1>4, AppendProperties
<1>7. AddToken(p, type, start, end, next).tokens = Append(cs, t)
  <2> HIDE DEF cs, t
  <2> QED BY <1>5 DEF ParserInv, JsmnParser
<1> HIDE DEF cs
<1> QED BY <1>3, <1>5, <1>6, <1>7 DEF Adds

\* A token that begins where the parser is, and is a container that is open or
\* else ends behind it, lies in the current container and in none between.
LEMMA AddedInv ==
  ASSUME NEW L, Lexicon(L), NEW text \in Seq(L), NEW p, ParserInv(text, p),
         Len(p.tokens) < MaxTokens,
         NEW type \in TokenTypes, NEW start \in Nat, NEW end \in Nat, NEW next \in Nat,
         p.pos <= start, start < next, next <= Len(text) + 1,
         end # 0 => p.pos < end /\ start <= end /\ end <= next,
         end = 0 <=> type \in DOMAIN Brackets,
         end = 0 => text[start] = Opening(type)
  PROVE  LET q == AddToken(p, type, start, end, next)
         IN  ParserInv(text, [q EXCEPT !.super = IF end = 0 THEN Len(q.tokens) ELSE @])
<1> DEFINE q  == AddToken(p, type, start, end, next)
           r  == [q EXCEPT !.super = IF end = 0 THEN Len(q.tokens) ELSE @]
           ts == p.tokens
           us == q.tokens
           N  == Len(ts)
           t  == [type |-> type, start |-> start, end |-> end, size |-> 0]
<1>1. /\ p \in JsmnParser /\ ts \in Seq(JsmnToken) /\ N \in Nat /\ p.pos \in Nat
      /\ p.super \in 0 .. N /\ Len(text) \in Nat /\ DOMAIN ts = 1 .. N
  BY DEF ParserInv, JsmnParser, SuperInnermost, Unclosed
<1>2. Adds(p, t, next, q)
  <2> HIDE DEF q
  <2> QED BY AddedTokens DEF q
<1> HIDE DEF q, ts, N
<1>21. \A n \in 1 .. N : ts[n] \in JsmnToken
  BY <1>1
<1>22. \A n \in 1 .. N : ts[n].start \in Nat /\ ts[n].end \in Nat /\ ts[n].size \in Nat
  BY <1>21 DEF JsmnToken
<1>3. /\ q = [p EXCEPT !.tokens = us, !.pos = next]
      /\ us \in Seq(JsmnToken) /\ Len(us) = N + 1
      /\ us[N + 1] = t
      /\ \A n \in 1 .. N :
           /\ us[n].type = ts[n].type
           /\ us[n].start = ts[n].start
           /\ us[n].end = ts[n].end
           /\ us[n].size = IF n = p.super THEN ts[n].size + 1 ELSE ts[n].size
  BY <1>2 DEF Adds, ts, N
<1>4. DOMAIN us = 1 .. N + 1
  <2> HIDE DEF us
  <2> QED BY <1>3, <1>1
<1>5. /\ us[N + 1].start = start /\ us[N + 1].end = end /\ us[N + 1].type = type
      /\ us[N + 1].size = 0
  BY <1>3
<1>6. /\ r.tokens = us /\ r.pos = next /\ r.super = IF end = 0 THEN N + 1 ELSE p.super
      /\ r \in JsmnParser
  <2> HIDE DEF us, r
  <2>1. q \in JsmnParser /\ q.super = p.super /\ q.pos = next
    BY <1>1, <1>3 DEF JsmnParser
  <2> DEFINE super == IF end = 0 THEN N + 1 ELSE p.super
  <2>2. r = [q EXCEPT !.super = super]
    BY <2>1, <1>3 DEF r, us
  <2>3. super \in Nat
    BY <1>1
  <2> HIDE DEF super
  <2>4. r \in JsmnParser /\ r.super = super /\ r.tokens = q.tokens /\ r.pos = q.pos
    BY <2>1, <2>2, <2>3 DEF JsmnParser
  <2> QED BY <2>1, <2>4 DEF us, super
<1> HIDE DEF r, us, t
<1>7. SuperInnermost(p) /\ InOrder(p) /\ Nested(ts) /\ Counted(ts) /\ InBrackets(text, ts)
  BY DEF ParserInv, ts
<1>8. SuperInnermost(r)
  <2>1. Unclosed(r) = Unclosed(p) \cup (IF end = 0 THEN {N + 1} ELSE {})
    BY <1>1, <1>3, <1>4, <1>5, <1>6 DEF Unclosed, ts
  <2>2. \A n \in Unclosed(p) : n \in 1 .. N
    BY <1>1 DEF Unclosed, ts
  <2> QED BY <1>1, <1>6, <1>7, <2>1, <2>2 DEF SuperInnermost
<1>9. InOrder(r)
  <2>1. \A n \in 1 .. N :
          /\ ts[n].start \in 1 .. p.pos - 1
          /\ IF ts[n].end = 0 THEN ts[n].type \in DOMAIN Brackets
             ELSE ts[n].end \in ts[n].start .. p.pos
    BY <1>1, <1>7 DEF InOrder, ts
  <2>2. \A n, m \in 1 .. N : n < m => ts[n].start < ts[m].start
    BY <1>1, <1>7 DEF InOrder, ts
  <2>3. ASSUME NEW n \in 1 .. N + 1
        PROVE  /\ us[n].start \in 1 .. next - 1
               /\ IF us[n].end = 0 THEN us[n].type \in DOMAIN Brackets
                  ELSE us[n].end \in us[n].start .. next
    <3>1. CASE n = N + 1
      <4>1. 1 <= p.pos
        BY DEF ParserInv
      <4> QED BY <1>1, <1>5, <3>1, <4>1
    <3>2. CASE n \in 1 .. N
      <4>1. us[n].start = ts[n].start /\ us[n].end = ts[n].end /\ us[n].type = ts[n].type
        BY <1>3, <3>2
      <4>2. ts[n].start \in Nat /\ ts[n].end \in Nat
        BY <1>22, <3>2
      <4>3. ts[n].start \in 1 .. p.pos - 1
        BY <2>1, <3>2
      <4>4. CASE ts[n].end = 0
        BY <1>1, <2>1, <3>2, <4>1, <4>2, <4>3, <4>4
      <4>5. CASE ts[n].end # 0
        BY <1>1, <2>1, <3>2, <4>1, <4>2, <4>3, <4>5
      <4> QED BY <4>4, <4>5
    <3> QED BY <3>1, <3>2, <1>1
  <2>4. ASSUME NEW n \in 1 .. N + 1, NEW m \in 1 .. N + 1, n < m
        PROVE  us[n].start < us[m].start
    <3>0. n \in 1 .. N /\ us[n].start = ts[n].start /\ ts[n].start \in 1 .. p.pos - 1
      <4>1. n \in 1 .. N
        BY <1>1, <2>4
      <4> QED BY <1>3, <2>1, <4>1
    <3>1. CASE m = N + 1
      BY <1>1, <1>5, <3>0, <3>1
    <3>2. CASE m \in 1 .. N
      <4>1. us[m].start = ts[m].start
        BY <1>3, <3>2
      <4>2. ts[n].start < ts[m].start
        BY <2>2, <2>4, <3>0, <3>2
      <4> QED BY <3>0, <4>1, <4>2
    <3>3. m = N + 1 \/ m \in 1 .. N
      BY <1>1
    <3> QED BY <3>1, <3>2, <3>3
  <2> QED BY <1>4, <1>6, <2>3, <2>4 DEF InOrder
<1>10. \A m, n \in 1 .. N : /\ Around(us, m, n) <=> Around(ts, m, n)
                            /\ Before(us, m, n) <=> Before(ts, m, n)
  BY <1>3 DEF Around, Before
<1>11. \A n \in 1 .. N : /\ Around(us, N + 1, n) <=> ts[n].end = 0
                         /\ ~ Around(us, N + 1, n) => Before(us, N + 1, n)
  <2> TAKE n \in 1 .. N
  <2>1. us[n].end = ts[n].end /\ ts[n].end \in Nat
    BY <1>22, <1>3
  <2>2. ts[n].end <= p.pos
    <3>1. ts[n].end # 0 => ts[n].end \in ts[n].start .. p.pos
      BY <1>1, <1>7 DEF InOrder, ts
    <3>2. ts[n].start \in Nat /\ ts[n].end \in Nat
      BY <1>22
    <3> QED BY <1>1, <3>1, <3>2
  <2> QED BY <1>1, <1>5, <2>1, <2>2 DEF Around, Before
<1>12. Nested(us)
  <2>1. ASSUME NEW n \in 1 .. N + 1, NEW m \in 1 .. N + 1, n < m
        PROVE  Around(us, m, n) \/ Before(us, m, n)
    <3>1. CASE m = N + 1
      BY <1>1, <1>11, <2>1, <3>1
    <3>2. CASE m \in 1 .. N
      <4>1. n \in 1 .. N
        BY <1>1, <2>1, <3>2
      <4>2. Around(ts, m, n) \/ Before(ts, m, n)
        BY <1>1, <1>7, <2>1, <3>2, <4>1 DEF Nested
      <4> QED BY <1>10, <3>2, <4>1, <4>2
    <3> QED BY <3>1, <3>2, <1>1
  <2> QED BY <1>4, <2>1 DEF Nested
<1>13. ASSUME NEW n \in 1 .. N
       PROVE  Inside(us, n) = Inside(ts, n) \cup (IF n = p.super THEN {N + 1} ELSE {})
  <2>1. ASSUME NEW m \in 1 .. N PROVE m \in Inside(us, n) <=> m \in Inside(ts, n)
    BY <1>1, <1>4, <1>10 DEF Inside
  <2>2. N + 1 \in Inside(us, n) <=> n = p.super
    <3>1. Around(us, N + 1, n) <=> n \in Unclosed(p)
      BY <1>1, <1>11 DEF Unclosed, ts
    <3>2. \A k \in n + 1 .. N : Around(us, N + 1, k) <=> k \in Unclosed(p)
      BY <1>1, <1>11 DEF Unclosed, ts
    <3>3. Unclosed(p) \subseteq 1 .. N
      BY <1>1 DEF Unclosed, ts
    <3>4. N + 1 \in Inside(us, n) <=> n \in Unclosed(p) /\ \A k \in n + 1 .. N : k \notin Unclosed(p)
      BY <1>1, <1>4, <3>1, <3>2 DEF Inside
    <3> QED BY <1>1, <1>7, <3>3, <3>4 DEF SuperInnermost
  <2>3. N + 1 \notin Inside(ts, n)
    BY <1>1 DEF Inside
  <2>4. Inside(us, n) \subseteq 1 .. N + 1 /\ Inside(ts, n) \subseteq 1 .. N
    BY <1>1, <1>4 DEF Inside
  <2> QED BY <1>1, <2>1, <2>2, <2>3, <2>4
<1>14. Inside(us, N + 1) = {}
  BY <1>1, <1>4 DEF Inside, Around
<1>15. Counted(us)
  <2>1. ASSUME NEW n \in 1 .. N PROVE us[n].size = Cardinality(Inside(us, n))
    <3>1. ts[n].size = Cardinality(Inside(ts, n))
      BY <1>1, <1>7 DEF Counted
    <3>2. IsFiniteSet(Inside(ts, n)) /\ N + 1 \notin Inside(ts, n)
      BY <1>1, InsideFinite DEF N
    <3>3. CASE n = p.super
      <4>1. Inside(us, n) = Inside(ts, n) \cup {N + 1}
        BY <1>13, <3>3
      <4>2. Cardinality(Inside(us, n)) = Cardinality(Inside(ts, n)) + 1
        BY <3>2, <4>1, FS_AddElement
      <4>3. us[n].size = ts[n].size + 1
        BY <1>3, <3>3
      <4> QED BY <3>1, <4>2, <4>3
    <3>4. CASE n # p.super
      <4>1. Inside(us, n) = Inside(ts, n)
        BY <1>13, <3>4
      <4>2. us[n].size = ts[n].size
        BY <1>3, <3>4
      <4> QED BY <3>1, <4>1, <4>2
    <3> QED BY <3>3, <3>4
  <2>2. us[N + 1].size = Cardinality(Inside(us, N + 1))
    BY <1>5, <1>14, FS_EmptySet
  <2> QED BY <1>1, <1>4, <2>1, <2>2 DEF Counted
<1>16. InBrackets(text, us)
  <2>1. ASSUME NEW n \in 1 .. N, us[n].type \in DOMAIN Brackets
        PROVE  /\ text[us[n].start] = Opening(us[n].type)
               /\ us[n].end # 0 => us[n].start < us[n].end /\ text[us[n].end - 1] = Closing(us[n].type)
    BY <1>1, <1>3, <1>7, <2>1 DEF InBrackets
  <2>2. us[N + 1].type \in DOMAIN Brackets =>
          us[N + 1].end = 0 /\ text[us[N + 1].start] = Opening(us[N + 1].type)
    BY <1>5
  <2> QED BY <1>1, <1>4, <2>1, <2>2 DEF InBrackets
<1>17. next \in 1 .. Len(text) + 1 /\ Len(us) <= MaxTokens
  BY <1>1, <1>3, TokensAssumption DEF N, ts
<1> QED
  BY <1>6, <1>8, <1>9, <1>12, <1>15, <1>16, <1>17 DEF ParserInv, r, q

-----------------------------------------------------------------------------
(* A container is closed *)

\* The innermost container is closed at a bracket of its kind: the tokens behind
\* it, which all have ended, lie in it, and in what they lay before.
LEMMA ClosedInv ==
  ASSUME NEW L, Lexicon(L), NEW text \in Seq(L), NEW p, ParserInv(text, p),
         NEW type \in DOMAIN Brackets, p.pos <= Len(text),
         text[p.pos] = Closing(type), Closes(Unclosed(p), p, type)
  PROVE  ParserInv(text, CloseContainer(p, type))
<1> DEFINE q  == CloseContainer(p, type)
           ts == p.tokens
           us == q.tokens
           N  == Len(ts)
           open == Unclosed(p)
           last == Max(open)
           end  == p.pos + 1
<1>1. /\ p \in JsmnParser /\ ts \in Seq(JsmnToken) /\ N \in Nat /\ p.pos \in Nat
      /\ Len(text) \in Nat /\ DOMAIN ts = 1 .. N
  BY DEF ParserInv, JsmnParser
<1>2. open \subseteq 1 .. N /\ open # {} /\ ts[last].type = type
  BY <1>1 DEF Unclosed, Closes
<1>3. last \in open /\ \A n \in open : n <= last
  <2> HIDE DEF open, ts, N, last
  <2>1. open \in SUBSET (0 .. N)
    BY <1>1, <1>2
  <2> QED BY <1>1, <1>2, <2>1, MaxOf DEF last
<1>4. last \in 1 .. N /\ ts[last].end = 0
  BY <1>2, <1>3 DEF Unclosed
<1>5. q = [p EXCEPT !.tokens[last].end = end, !.super = Enclosing(last, open), !.pos = end]
  BY DEF CloseContainer
<1> HIDE DEF q, ts, N, open, last
<1>6. \A n \in 1 .. N : ts[n] \in JsmnToken
  BY <1>1
<1>7. \A n \in 1 .. N : /\ ts[n].start \in Nat /\ ts[n].end \in Nat /\ ts[n].size \in Nat
                        /\ ts[n].type \in TokenTypes
  BY <1>6 DEF JsmnToken
<1>8. Enclosing(last, open) \in (open \ {last}) \cup {0} /\ \A n \in open \ {last} : n <= Enclosing(last, open)
  <2> DEFINE S == (open \ {last}) \cup {0}
  <2>1. S \in SUBSET (0 .. N) /\ S # {}
    <3>1. open \subseteq 0 .. N /\ 0 \in 0 .. N
      BY <1>1, <1>2
    <3> QED BY <3>1
  <2>2. Max(S) \in S /\ \A n \in S : n <= Max(S)
    <3> HIDE DEF S
    <3> QED BY <1>1, <2>1, MaxOf
  <2> QED BY <2>2 DEF Enclosing
<1>9. /\ us = [ts EXCEPT ![last] = [ts[last] EXCEPT !.end = end]]
      /\ q.super = Enclosing(last, open) /\ q.pos = end /\ q.error = p.error
      /\ q \in [pos : {end}, tokens : {us}, super : {Enclosing(last, open)}, error : {p.error}]
  BY <1>1, <1>5 DEF JsmnParser, ts
<1>10. [ts[last] EXCEPT !.end = end] \in JsmnToken
  <2>1. ts[last] \in JsmnToken /\ end \in Nat
    BY <1>1, <1>4, <1>6
  <2> HIDE DEF end
  <2> QED BY <2>1 DEF JsmnToken
<1>11. us \in Seq(JsmnToken) /\ Len(us) = N
  BY <1>1, <1>4, <1>9, <1>10, ExceptSeq DEF N
<1>12. DOMAIN us = 1 .. N
  <2> HIDE DEF us
  <2> QED BY <1>1, <1>11
<1>13. \A n \in 1 .. N : /\ us[n].type = ts[n].type /\ us[n].start = ts[n].start
                         /\ us[n].size = ts[n].size
                         /\ us[n].end = IF n = last THEN end ELSE ts[n].end
  <2> HIDE DEF us
  <2>1. ASSUME NEW n \in 1 .. N PROVE us[n] = IF n = last THEN [ts[last] EXCEPT !.end = end] ELSE ts[n]
    BY <1>1, <1>9
  <2> QED BY <1>4, <1>6, <2>1 DEF JsmnToken
<1>14. q \in JsmnParser
  <2> HIDE DEF us
  <2>1. Enclosing(last, open) \in 0 .. N
    <3>1. Enclosing(last, open) \in open \/ Enclosing(last, open) = 0
      BY <1>8
    <3>2. open \subseteq 0 .. N /\ 0 \in 0 .. N
      BY <1>1, <1>2
    <3> QED BY <3>1, <3>2
  <2>2. p.error \in {"none", "nomem", "inval", "part"}
    BY <1>1 DEF JsmnParser
  <2>3. end \in Nat /\ Enclosing(last, open) \in Nat
    BY <1>1, <2>1
  <2> HIDE DEF end
  <2> QED BY <1>9, <1>11, <2>2, <2>3 DEF JsmnParser
<1> HIDE DEF us
<1>15. SuperInnermost(p) /\ InOrder(p) /\ Nested(ts) /\ Counted(ts) /\ InBrackets(text, ts)
  BY DEF ParserInv, ts
<1>16. /\ \A n \in 1 .. N :
             /\ ts[n].start \in 1 .. p.pos - 1
             /\ ts[n].end = 0 => ts[n].type \in DOMAIN Brackets
             /\ ts[n].end # 0 => ts[n].end \in ts[n].start .. p.pos
       /\ \A n, m \in 1 .. N : n < m => ts[n].start < ts[m].start
  BY <1>1, <1>15 DEF InOrder, ts
<1>17. \A n \in last + 1 .. N : ts[n].end # 0
  BY <1>1, <1>3, <1>4 DEF open, Unclosed, ts
<1>18. SuperInnermost(q)
  <2>1. Unclosed(q) = open \ {last}
    BY <1>1, <1>4, <1>9, <1>12, <1>13 DEF Unclosed, open, ts, us
  <2> QED BY <1>8, <1>9, <2>1 DEF SuperInnermost
<1>19. InOrder(q)
  <2>1. ASSUME NEW n \in 1 .. N
        PROVE  /\ us[n].start \in 1 .. q.pos - 1
               /\ IF us[n].end = 0 THEN us[n].type \in DOMAIN Brackets
                  ELSE us[n].end \in us[n].start .. q.pos
    <3>1. us[n].start \in 1 .. end - 1 /\ us[n].start <= p.pos
      <4>1. us[n].start = ts[n].start /\ ts[n].start \in 1 .. p.pos - 1
        BY <1>13, <1>16
      <4> QED BY <1>1, <4>1
    <3>2. CASE n = last
      BY <1>1, <1>9, <1>13, <3>1, <3>2
    <3>3. CASE n # last
      <4>1. us[n].end = ts[n].end /\ us[n].type = ts[n].type /\ us[n].start = ts[n].start
        BY <1>13, <3>3
      <4>2. CASE ts[n].end = 0
        BY <1>9, <1>16, <3>1, <4>1, <4>2
      <4>3. CASE ts[n].end # 0
        BY <1>1, <1>7, <1>9, <1>16, <3>1, <4>1, <4>3
      <4> QED BY <4>2, <4>3
    <3> QED BY <3>2, <3>3
  <2>2. ASSUME NEW n \in 1 .. N, NEW m \in 1 .. N, n < m PROVE us[n].start < us[m].start
    BY <1>13, <1>16, <2>2
  <2> QED BY <1>12, <2>1, <2>2 DEF InOrder, us
<1>20. ASSUME NEW n \in 1 .. N, NEW m \in 1 .. N, n < m
       PROVE  /\ Around(us, m, n) <=> Around(ts, m, n)
              /\ Before(us, m, n) <=> Before(ts, m, n)
  <2>1. /\ us[n].end = IF n = last THEN end ELSE ts[n].end
        /\ us[m].end = IF m = last THEN end ELSE ts[m].end
        /\ us[m].start = ts[m].start
    BY <1>13
  <2>2. /\ ts[n].end \in Nat /\ ts[m].end \in Nat /\ ts[m].start \in Nat
        /\ ts[n].end <= p.pos /\ ts[m].end <= p.pos /\ ts[m].start <= p.pos
    <3>1. \A k \in 1 .. N : ts[k].end \in Nat /\ ts[k].end <= p.pos /\ ts[k].start \in Nat /\ ts[k].start <= p.pos
      <4> TAKE k \in 1 .. N
      <4>1. ts[k].end \in Nat /\ ts[k].start \in Nat
        BY <1>7
      <4>2. ts[k].end = 0 \/ ts[k].end \in ts[k].start .. p.pos
        BY <1>16
      <4>3. ts[k].start \in 1 .. p.pos - 1
        BY <1>16
      <4> QED BY <1>1, <4>1, <4>2, <4>3
    <3> QED BY <3>1
  <2>3. CASE n = last
    <3>1. ts[m].end # 0 /\ m # last /\ ts[n].end = 0
      BY <1>4, <1>17, <1>20, <2>3
    <3> QED BY <1>1, <1>20, <2>1, <2>2, <2>3, <3>1 DEF Around, Before
  <2>4. CASE m = last
    <3>1. ts[m].end = 0 /\ n # last
      BY <1>4, <1>20, <2>4
    <3>2. Before(ts, m, n) \/ Around(ts, m, n)
      BY <1>1, <1>15, <1>20 DEF Nested
    <3> QED BY <1>1, <1>20, <2>1, <2>2, <2>4, <3>1, <3>2 DEF Around, Before
  <2>5. CASE n # last /\ m # last
    BY <2>1, <2>5 DEF Around, Before
  <2> QED BY <2>3, <2>4, <2>5
<1>21. Nested(us)
  BY <1>1, <1>12, <1>15, <1>20 DEF Nested
<1>22. Counted(us)
  <2>1. ASSUME NEW n \in 1 .. N PROVE Inside(us, n) = Inside(ts, n)
    <3>1. \A m, k \in 1 .. N : Around(us, m, k) <=> Around(ts, m, k)
      <4> TAKE m, k \in 1 .. N
      <4>1. CASE k < m
        BY <1>20, <4>1
      <4>2. CASE ~ (k < m)
        BY <4>2 DEF Around
      <4> QED BY <4>1, <4>2
    <3> QED BY <1>1, <1>12, <3>1 DEF Inside
  <2> QED BY <1>1, <1>12, <1>13, <1>15, <2>1 DEF Counted
<1>23. InBrackets(text, us)
  <2>1. ASSUME NEW n \in 1 .. N, us[n].type \in DOMAIN Brackets
        PROVE  /\ text[us[n].start] = Opening(us[n].type)
               /\ us[n].end # 0 => us[n].start < us[n].end /\ text[us[n].end - 1] = Closing(us[n].type)
    <3>1. /\ text[ts[n].start] = Opening(ts[n].type)
          /\ ts[n].end # 0 => ts[n].start < ts[n].end /\ text[ts[n].end - 1] = Closing(ts[n].type)
      BY <1>1, <1>13, <1>15, <2>1 DEF InBrackets
    <3>2. CASE n = last
      <4>1. us[n].end - 1 = p.pos /\ us[n].type = type /\ us[n].start < us[n].end
        BY <1>1, <1>2, <1>7, <1>13, <1>16, <3>2
      <4> QED BY <1>13, <3>1, <4>1
    <3>3. CASE n # last
      BY <1>13, <3>1, <3>3
    <3> QED BY <3>2, <3>3
  <2> QED BY <1>12, <2>1 DEF InBrackets
<1>24. q.pos \in 1 .. Len(text) + 1 /\ Len(us) <= MaxTokens
  BY <1>1, <1>9, <1>11 DEF ParserInv, N, ts
<1> QED
  BY <1>14, <1>18, <1>19, <1>21, <1>22, <1>23, <1>24 DEF ParserInv, q, us

-----------------------------------------------------------------------------
(* The end of a string, and of a primitive *)

\* What the scan of a string gives at pos, as a function of what it gives behind.
ScanAt(text, scan, pos) ==
  IF EndOfText(text, pos) THEN [end |-> 0, error |-> "part"]
  ELSE IF text[pos] = Quote THEN [end |-> pos, error |-> "none"]
  ELSE IF text[pos] # Backslash THEN scan[pos + 1]
  ELSE IF pos = Len(text) THEN [end |-> 0, error |-> "part"]
  ELSE IF text[pos + 1].class \in {"quote", "backslash", "escape"} THEN scan[pos + 2]
  ELSE [end |-> 0, error |-> "inval"]

Scans(text, start, scan) == scan = [pos \in start .. Len(text) + 2 |-> ScanAt(text, scan, pos)]

LEMMA ScanExists ==
  ASSUME NEW L, NEW text \in Seq(L), NEW start \in 1 .. Len(text) + 2
  PROVE  \E scan : Scans(text, start, scan)
<1> DEFINE N == Len(text) + 2
           Good(j) == \E scan : Scans(text, N - j, scan)
           S == {j \in 0 .. N - start : Good(j)}
<1>1. N \in Nat /\ Len(text) \in Nat /\ start \in Nat /\ N - start \in Nat
  OBVIOUS
<1>2. Good(0)
  <2> DEFINE scan == [pos \in N .. N |-> [end |-> 0, error |-> "part"]]
  <2>1. \A pos \in N .. N : ScanAt(text, scan, pos) = [end |-> 0, error |-> "part"]
    BY <1>1 DEF ScanAt, EndOfText
  <2>2. scan = [pos \in N .. N |-> ScanAt(text, scan, pos)]
    BY <2>1
  <2>3. Scans(text, N - 0, scan)
    BY <1>1, <2>2 DEF Scans
  <2> QED BY <2>3
<1>3. ASSUME NEW j \in 0 .. N - start - 1, Good(j) PROVE Good(j + 1)
  <2>1. PICK f : Scans(text, N - j, f)
    BY <1>3
  <2> DEFINE k == N - j - 1
             g == [pos \in k .. N |-> IF pos = k THEN ScanAt(text, f, k) ELSE f[pos]]
  <2>2. k \in Nat /\ k < N /\ N - j = k + 1 /\ N - (j + 1) = k
    BY <1>1
  <2>3. \A pos \in k + 1 .. N : f[pos] = ScanAt(text, f, pos)
    BY <1>1, <2>1, <2>2 DEF Scans
  <2> HIDE DEF k
  <2>4. ASSUME NEW pos \in k .. N PROVE ScanAt(text, g, pos) = ScanAt(text, f, pos)
    <3>1. CASE EndOfText(text, pos)
      BY <3>1 DEF ScanAt
    <3>2. CASE ~ EndOfText(text, pos)
      <4>1. pos <= Len(text)
        BY <1>1, <2>2, <3>2 DEF EndOfText
      <4>2. g[pos + 1] = f[pos + 1] /\ g[pos + 2] = f[pos + 2]
        BY <1>1, <2>2, <4>1
      <4> HIDE DEF g
      <4> QED BY <4>2 DEF ScanAt
    <3> QED BY <3>1, <3>2
  <2>5. \A pos \in k .. N : g[pos] = ScanAt(text, g, pos)
    <3> TAKE pos \in k .. N
    <3>1. ScanAt(text, g, pos) = ScanAt(text, f, pos)
      BY <2>4
    <3>2. CASE pos = k
      BY <3>1, <3>2
    <3>3. CASE pos # k
      <4>1. pos \in k + 1 .. N
        BY <1>1, <2>2, <3>3
      <4>2. g[pos] = f[pos]
        BY <3>3
      <4> HIDE DEF g
      <4> QED BY <2>3, <3>1, <4>1, <4>2
    <3> QED BY <3>2, <3>3
  <2>6. g = [pos \in k .. N |-> ScanAt(text, g, pos)]
    <3>1. g = [pos \in k .. N |-> g[pos]]
      OBVIOUS
    <3> HIDE DEF g
    <3> QED BY <2>5, <3>1
  <2>7. Scans(text, N - (j + 1), g)
    <3> HIDE DEF g
    <3> QED BY <2>2, <2>6 DEF Scans
  <2> QED BY <2>7
<1>4. 0 .. N - start \subseteq S
  <2>1. 0 \in S
    BY <1>1, <1>2
  <2>2. ASSUME NEW j \in 0 .. N - start - 1, j \in S PROVE j + 1 \in S
    <3>1. Good(j + 1)
      BY <1>3, <2>2
    <3> HIDE DEF Good
    <3> QED BY <1>1, <3>1
  <2> HIDE DEF S
  <2> QED BY <1>1, <2>1, <2>2, UpTo
<1>5. Good(N - start)
  <2> HIDE DEF Good
  <2> QED BY <1>1, <1>4
<1> QED BY <1>1, <1>5, N - (N - start) = start

\* The scan that StringEnd makes.
LEMMA StringScan ==
  ASSUME NEW L, NEW text \in Seq(L), NEW start \in 1 .. Len(text) + 2
  PROVE  \E scan : Scans(text, start, scan) /\ StringEnd(text, start) = scan[start]
<1>1. StringEnd(text, start) = (CHOOSE scan : Scans(text, start, scan))[start]
  BY DEF StringEnd, Scans, ScanAt
<1>2. Scans(text, start, CHOOSE scan : Scans(text, start, scan))
  BY ScanExists
<1> QED BY <1>1, <1>2

\* A string ends at a quote of the text, or the scan gives an error.
LEMMA StringEnds ==
  ASSUME NEW L, NEW text \in Seq(L), NEW start \in 1 .. Len(text) + 1
  PROVE  LET s == StringEnd(text, start)
         IN  /\ s.error \in {"none", "part", "inval"}
             /\ s.error = "none" => s.end \in start .. Len(text) /\ text[s.end] = Quote
<1>1. PICK scan : Scans(text, start, scan) /\ StringEnd(text, start) = scan[start]
  BY StringScan
<1> DEFINE N == Len(text) + 2
           Fine(pos) == /\ scan[pos].error \in {"none", "part", "inval"}
                        /\ scan[pos].error = "none" =>
                             scan[pos].end \in pos .. Len(text) /\ text[scan[pos].end] = Quote
<1>2. N \in Nat /\ Len(text) \in Nat /\ start \in Nat /\ N - start \in Nat
  OBVIOUS
<1>3. \A pos \in start .. N : scan[pos] = ScanAt(text, scan, pos)
  BY <1>1 DEF Scans
<1>4. ASSUME NEW pos \in start .. N, pos + 1 \in start .. N => Fine(pos + 1),
             pos + 2 \in start .. N => Fine(pos + 2)
      PROVE  Fine(pos)
  <2>1. CASE EndOfText(text, pos)
    <3>1. scan[pos] = [end |-> 0, error |-> "part"]
      BY <1>3, <2>1 DEF ScanAt
    <3> QED BY <3>1
  <2>2. CASE ~ EndOfText(text, pos)
    <3>1. pos \in 1 .. Len(text) /\ pos + 1 \in start .. N /\ pos + 2 \in start .. N
      BY <1>2, <2>2 DEF EndOfText
    <3>2. Fine(pos + 1) /\ Fine(pos + 2)
      BY <1>4, <3>1
    <3>3. \/ scan[pos] = [end |-> pos, error |-> "none"] /\ text[pos] = Quote
          \/ scan[pos] = scan[pos + 1]
          \/ scan[pos] = scan[pos + 2]
          \/ scan[pos] = [end |-> 0, error |-> "part"]
          \/ scan[pos] = [end |-> 0, error |-> "inval"]
      BY <1>3, <2>2 DEF ScanAt
    <3>4. CASE scan[pos] = [end |-> pos, error |-> "none"] /\ text[pos] = Quote
      BY <1>2, <3>1, <3>4
    <3>5. CASE scan[pos] = scan[pos + 1]
      BY <1>2, <3>1, <3>2, <3>5
    <3>6. CASE scan[pos] = scan[pos + 2]
      BY <1>2, <3>1, <3>2, <3>6
    <3>7. CASE scan[pos] = [end |-> 0, error |-> "part"]
      BY <3>7
    <3>8. CASE scan[pos] = [end |-> 0, error |-> "inval"]
      BY <3>8
    <3> HIDE DEF Fine
    <3> QED BY <3>3, <3>4, <3>5, <3>6, <3>7, <3>8
  <2> QED BY <2>1, <2>2
<1> DEFINE Two == {j \in 0 .. N - start : Fine(N - j) /\ (j = 0 \/ Fine(N - (j - 1)))}
<1>5. 0 .. N - start \subseteq Two
  <2>1. 0 \in Two
    <3>1. Fine(N)
      <4>1. N \in start .. N /\ EndOfText(text, N)
        BY <1>2 DEF EndOfText
      <4>2. scan[N] = [end |-> 0, error |-> "part"]
        BY <1>3, <4>1 DEF ScanAt
      <4> QED BY <4>2
    <3> HIDE DEF Fine
    <3> QED BY <1>2, <3>1, N - 0 = N
  <2>2. ASSUME NEW j \in 0 .. N - start - 1, j \in Two PROVE j + 1 \in Two
    <3> DEFINE pos == N - (j + 1)
    <3>1. pos \in start .. N /\ pos + 1 = N - j /\ pos + 2 = N - (j - 1) /\ j + 1 \in 0 .. N - start
      BY <1>2
    <3>2. Fine(N - j) /\ (j = 0 \/ Fine(N - (j - 1)))
      BY <2>2
    <3>3. j = 0 => pos + 2 \notin start .. N
      BY <1>2
    <3> HIDE DEF Fine
    <3>4. Fine(pos)
      BY <1>4, <3>1, <3>2, <3>3
    <3>5. Fine(N - ((j + 1) - 1))
      BY <3>2, <1>2, (j + 1) - 1 = j
    <3> QED BY <3>1, <3>4, <3>5
  <2> HIDE DEF Two
  <2> QED BY <1>2, <2>1, <2>2, UpTo
<1>6. Fine(start)
  <2> HIDE DEF Fine
  <2>1. N - start \in Two
    <3> HIDE DEF Two
    <3> QED BY <1>2, <1>5, N - start \in 0 .. N - start
  <2> QED BY <1>2, <2>1, N - (N - start) = start
<1> QED BY <1>1, <1>6

LEMMA StopInv ==
  ASSUME NEW text, NEW p, ParserInv(text, p), NEW error \in {"nomem", "inval", "part"}
  PROVE  ParserInv(text, Stop(p, error)) /\ Stop(p, error).error = error
<1>1. p \in JsmnParser
  BY DEF ParserInv
<1>2. /\ Stop(p, error) \in JsmnParser
      /\ Stop(p, error).error = error
      /\ Stop(p, error).tokens = p.tokens
      /\ Stop(p, error).pos = p.pos
      /\ Stop(p, error).super = p.super
  BY <1>1 DEF Stop, JsmnParser
<1> HIDE DEF Stop
<1> QED BY <1>2 DEF ParserInv, SuperInnermost, InOrder, Unclosed

\* What a turn of the loop does: the invariant is kept, and the parser goes on.
GoesOn(text, p, q) == ParserInv(text, q) /\ (q.error = "none" => p.pos < q.pos)

LEMMA AddTokenStops ==
  ASSUME NEW text, NEW p, ParserInv(text, p), Len(p.tokens) >= MaxTokens,
         NEW type, NEW start, NEW end, NEW next
  PROVE  AddToken(p, type, start, end, next) = Stop(p, "nomem")
BY DEF AddToken

LEMMA OpenInv ==
  ASSUME NEW L, Lexicon(L), NEW text \in Seq(L), NEW p, ParserInv(text, p), p.error = "none",
         NEW type \in DOMAIN Brackets, p.pos <= Len(text), text[p.pos] = Opening(type)
  PROVE  GoesOn(text, p, OpenContainer(p, type))
<1> DEFINE q == AddToken(p, type, p.pos, 0, p.pos + 1)
<1>1. /\ p \in JsmnParser /\ p.pos \in Nat /\ Len(text) \in Nat /\ Len(p.tokens) \in Nat
      /\ MaxTokens \in Nat /\ type \in TokenTypes
  BY TokensAssumption DEF ParserInv, JsmnParser, Brackets, TokenTypes
<1>2. CASE Len(p.tokens) >= MaxTokens
  <2>1. q = Stop(p, "nomem")
    BY <1>2, AddTokenStops
  <2>2. ParserInv(text, q) /\ q.error = "nomem"
    BY <2>1, StopInv
  <2>3. OpenContainer(p, type) = q
    BY <2>2 DEF OpenContainer
  <2> QED BY <2>2, <2>3 DEF GoesOn
<1>3. CASE ~ (Len(p.tokens) >= MaxTokens)
  <2>1. Len(p.tokens) < MaxTokens
    BY <1>1, <1>3
  <2>2. Adds(p, [type |-> type, start |-> p.pos, end |-> 0, size |-> 0], p.pos + 1, q)
    BY <1>1, <2>1, AddedTokens, p.pos + 1 \in Nat, 0 \in Nat
  <2>3. q.error = "none" /\ q.pos = p.pos + 1
    <3>1. q = [p EXCEPT !.tokens = q.tokens, !.pos = p.pos + 1]
      BY <2>2 DEF Adds
    <3> HIDE DEF q
    <3> QED BY <1>1, <3>1 DEF JsmnParser
  <2>4. ParserInv(text, [q EXCEPT !.super = IF 0 = 0 THEN Len(q.tokens) ELSE @])
    BY <1>1, <2>1, AddedInv, p.pos + 1 \in Nat, 0 \in Nat, p.pos <= p.pos, p.pos < p.pos + 1,
       p.pos + 1 <= Len(text) + 1
  <2> HIDE DEF q
  <2>5. OpenContainer(p, type) = [q EXCEPT !.super = Len(q.tokens)]
    BY <2>3 DEF OpenContainer, q
  <2>6. [q EXCEPT !.super = Len(q.tokens)].pos = q.pos
    BY <1>1, <2>2 DEF Adds, JsmnParser
  <2> QED BY <1>1, <2>3, <2>4, <2>5, <2>6 DEF GoesOn
<1> QED BY <1>2, <1>3

LEMMA CloseInv ==
  ASSUME NEW L, Lexicon(L), NEW text \in Seq(L), NEW p, ParserInv(text, p),
         NEW type \in DOMAIN Brackets, p.pos <= Len(text), text[p.pos] = Closing(type)
  PROVE  GoesOn(text, p, CloseContainer(p, type))
<1>1. p \in JsmnParser /\ p.pos \in Nat
  BY DEF ParserInv, JsmnParser
<1>2. CASE Closes(Unclosed(p), p, type)
  <2>1. ParserInv(text, CloseContainer(p, type))
    BY <1>2, ClosedInv
  <2>2. CloseContainer(p, type).pos = p.pos + 1
    BY <1>1, <1>2 DEF CloseContainer, JsmnParser
  <2> QED BY <1>1, <2>1, <2>2 DEF GoesOn
<1>3. CASE ~ Closes(Unclosed(p), p, type)
  <2>1. CloseContainer(p, type) = Stop(p, "inval")
    BY <1>3 DEF CloseContainer
  <2> QED BY <2>1, StopInv DEF GoesOn
<1> QED BY <1>2, <1>3

\* A string or a primitive that begins here and ends behind.
LEMMA LeafInv ==
  ASSUME NEW L, Lexicon(L), NEW text \in Seq(L), NEW p, ParserInv(text, p),
         NEW type \in {"string", "primitive"}, NEW start \in Nat, NEW end \in Nat, NEW next \in Nat,
         p.pos <= start, start < next, next <= Len(text) + 1,
         p.pos < end, start <= end, end <= next
  PROVE  GoesOn(text, p, AddToken(p, type, start, end, next))
<1> DEFINE q == AddToken(p, type, start, end, next)
<1>1. /\ p \in JsmnParser /\ p.pos \in Nat /\ Len(text) \in Nat /\ Len(p.tokens) \in Nat
      /\ MaxTokens \in Nat /\ type \in TokenTypes /\ type \notin DOMAIN Brackets
      /\ end # 0
  BY TokensAssumption DEF ParserInv, JsmnParser, Brackets, TokenTypes
<1>2. CASE Len(p.tokens) >= MaxTokens
  <2>1. q = Stop(p, "nomem")
    BY <1>2, AddTokenStops
  <2> QED BY <2>1, StopInv DEF GoesOn
<1>3. CASE ~ (Len(p.tokens) >= MaxTokens)
  <2>1. Len(p.tokens) < MaxTokens
    BY <1>1, <1>3
  <2>2. Adds(p, [type |-> type, start |-> start, end |-> end, size |-> 0], next, q)
    BY <1>1, <2>1, AddedTokens
  <2>3. q.pos = next /\ q \in [pos : {next}, tokens : {q.tokens}, super : {p.super}, error : {p.error}]
    <3>1. q = [p EXCEPT !.tokens = q.tokens, !.pos = next]
      BY <2>2 DEF Adds
    <3> HIDE DEF q
    <3> QED BY <1>1, <3>1 DEF JsmnParser
  <2>4. ParserInv(text, [q EXCEPT !.super = IF end = 0 THEN Len(q.tokens) ELSE @])
    BY <1>1, <2>1, AddedInv
  <2> HIDE DEF q
  <2>5. [q EXCEPT !.super = IF end = 0 THEN Len(q.tokens) ELSE @] = q
    BY <1>1, <2>3
  <2> QED BY <1>1, <2>3, <2>4, <2>5 DEF GoesOn, q
<1> QED BY <1>2, <1>3

LEMMA StringInv ==
  ASSUME NEW L, Lexicon(L), NEW text \in Seq(L), NEW p, ParserInv(text, p), p.pos <= Len(text)
  PROVE  GoesOn(text, p, String(text, p))
<1> DEFINE s == StringEnd(text, p.pos + 1)
<1>1. p.pos \in Nat /\ p.pos + 1 \in 1 .. Len(text) + 1 /\ Len(text) \in Nat
  BY DEF ParserInv, JsmnParser
<1>2. /\ s.error \in {"none", "part", "inval"}
      /\ s.error = "none" => s.end \in p.pos + 1 .. Len(text)
  BY <1>1, StringEnds
<1> HIDE DEF s
<1>3. CASE s.error # "none"
  <2>1. String(text, p) = Stop(p, s.error)
    BY <1>3 DEF String, s
  <2>2. s.error \in {"nomem", "inval", "part"}
    BY <1>2, <1>3
  <2> QED BY <1>3, <2>1, <2>2, StopInv DEF GoesOn
<1>4. CASE s.error = "none"
  <2>1. String(text, p) = AddToken(p, "string", p.pos + 1, s.end, s.end + 1)
    BY <1>4 DEF String, s
  <2>2. /\ p.pos + 1 \in Nat /\ s.end \in Nat /\ s.end + 1 \in Nat
        /\ p.pos <= p.pos + 1 /\ p.pos + 1 < s.end + 1 /\ s.end + 1 <= Len(text) + 1
        /\ p.pos < s.end /\ p.pos + 1 <= s.end /\ s.end <= s.end + 1
    BY <1>1, <1>2, <1>4
  <2>3. GoesOn(text, p, AddToken(p, "string", p.pos + 1, s.end, s.end + 1))
    BY <2>2, LeafInv
  <2> QED BY <2>1, <2>3
<1> QED BY <1>3, <1>4

\* Where a primitive ends: at the first of these characters.
StopsWord(text, n) == EndOfText(text, n) \/ text[n].class \in EndOfWord \cup {"control"}

WordEnd(text, pos) ==
  CHOOSE e \in pos .. Len(text) + 1 :
    /\ EndOfText(text, e) \/ text[e].class \in EndOfWord \cup {"control"}
    /\ \A n \in pos .. e - 1 :
         ~ EndOfText(text, n) /\ text[n].class \notin EndOfWord \cup {"control"}

LEMMA WordEnds ==
  ASSUME NEW L, NEW text \in Seq(L), NEW pos \in 1 .. Len(text) + 1
  PROVE  /\ WordEnd(text, pos) \in pos .. Len(text) + 1
         /\ StopsWord(text, WordEnd(text, pos))
         /\ \A n \in pos .. WordEnd(text, pos) - 1 : ~ StopsWord(text, n)
<1> DEFINE S == {e \in pos .. Len(text) + 1 : StopsWord(text, e)}
<1>1. Len(text) \in Nat /\ pos \in Nat
  OBVIOUS
<1>2. Len(text) + 1 \in S
  BY <1>1 DEF StopsWord, EndOfText
<1>3. PICK e \in S : \A n \in S : e <= n
  <2>1. S \in SUBSET Nat
    BY <1>1
  <2> HIDE DEF S
  <2> QED BY <1>2, <2>1, LeastNumber
<1>4. \A n \in pos .. e - 1 : ~ StopsWord(text, n)
  <2> TAKE n \in pos .. e - 1
  <2>1. n \in pos .. Len(text) + 1 /\ ~ (e <= n)
    BY <1>1
  <2> QED BY <1>3, <2>1
<1>5. \E x \in pos .. Len(text) + 1 :
        /\ EndOfText(text, x) \/ text[x].class \in EndOfWord \cup {"control"}
        /\ \A n \in pos .. x - 1 :
             ~ EndOfText(text, n) /\ text[n].class \notin EndOfWord \cup {"control"}
  BY <1>4 DEF StopsWord
<1>6. LET x == WordEnd(text, pos)
      IN  /\ x \in pos .. Len(text) + 1
          /\ EndOfText(text, x) \/ text[x].class \in EndOfWord \cup {"control"}
          /\ \A n \in pos .. x - 1 :
               ~ EndOfText(text, n) /\ text[n].class \notin EndOfWord \cup {"control"}
  BY <1>5 DEF WordEnd
<1> QED BY <1>6 DEF StopsWord

LEMMA PrimitiveInv ==
  ASSUME NEW L, Lexicon(L), NEW text \in Seq(L), NEW p, ParserInv(text, p), p.pos <= Len(text),
         ~ EndOfText(text, p.pos), text[p.pos].class \notin EndOfWord
  PROVE  GoesOn(text, p, Primitive(text, p))
<1> DEFINE end == WordEnd(text, p.pos)
<1>1. /\ p.pos \in Nat /\ Len(text) \in Nat /\ p.pos \in 1 .. Len(text) + 1
  BY DEF ParserInv, JsmnParser
<1>2. /\ end \in p.pos .. Len(text) + 1 /\ StopsWord(text, end)
  BY <1>1, WordEnds
<1>3. Primitive(text, p) =
        IF ~ EndOfText(text, end) /\ text[end].class = "control" THEN Stop(p, "inval")
        ELSE AddToken(p, "primitive", p.pos, end, end)
  BY DEF Primitive, WordEnd, StopsWord
<1> HIDE DEF end
<1>4. CASE ~ EndOfText(text, end) /\ text[end].class = "control"
  BY <1>3, <1>4, StopInv DEF GoesOn
<1>5. CASE ~ (~ EndOfText(text, end) /\ text[end].class = "control")
  <2>1. end # p.pos
    BY <1>2, <1>5 DEF StopsWord
  <2>2. /\ end \in Nat /\ p.pos <= p.pos /\ p.pos < end /\ end <= Len(text) + 1
        /\ p.pos <= end /\ end <= end
    BY <1>1, <1>2, <2>1
  <2>3. GoesOn(text, p, AddToken(p, "primitive", p.pos, end, end))
    BY <1>1, <2>2, LeafInv
  <2> QED BY <1>3, <1>5, <2>3
<1> QED BY <1>4, <1>5

\* Every turn keeps the invariant, and consumes at least one lexeme or stops.
LEMMA TurnInv ==
  ASSUME NEW L, Lexicon(L), NEW text \in Seq(L), NEW p, ParserInv(text, p), p.error = "none",
         ~ EndOfText(text, p.pos)
  PROVE  GoesOn(text, p, JsmnTurn(text, p))
<1> DEFINE c == text[p.pos].class
<1>1. /\ p \in JsmnParser /\ p.pos \in Nat /\ Len(text) \in Nat /\ p.pos \in 1 .. Len(text)
      /\ p.pos <= Len(text)
  BY DEF ParserInv, JsmnParser, EndOfText
<1>2. c \in BracketClasses => text[p.pos] = Char(c)
  <2>1. text[p.pos] \in L
    BY <1>1
  <2> QED BY <2>1 DEF Lexicon
<1>3. /\ "object" \in DOMAIN Brackets /\ "array" \in DOMAIN Brackets
      /\ Opening("object") = Char("{") /\ Closing("object") = Char("}")
      /\ Opening("array") = Char("[") /\ Closing("array") = Char("]")
  BY DEF Opening, Closing, Brackets
<1> HIDE DEF c
<1>4. CASE c = "{"
  <2>1. JsmnTurn(text, p) = OpenContainer(p, "object")
    BY <1>4 DEF JsmnTurn, c
  <2>2. text[p.pos] = Opening("object")
    BY <1>2, <1>3, <1>4 DEF BracketClasses
  <2> QED BY <1>1, <1>3, <2>1, <2>2, OpenInv
<1>5. CASE c = "["
  <2>1. JsmnTurn(text, p) = OpenContainer(p, "array")
    BY <1>5 DEF JsmnTurn, c
  <2>2. text[p.pos] = Opening("array")
    BY <1>2, <1>3, <1>5 DEF BracketClasses
  <2> QED BY <1>1, <1>3, <2>1, <2>2, OpenInv
<1>6. CASE c = "}"
  <2>1. JsmnTurn(text, p) = CloseContainer(p, "object")
    BY <1>6 DEF JsmnTurn, c
  <2>2. text[p.pos] = Closing("object")
    BY <1>2, <1>3, <1>6 DEF BracketClasses
  <2> QED BY <1>1, <1>3, <2>1, <2>2, CloseInv
<1>7. CASE c = "]"
  <2>1. JsmnTurn(text, p) = CloseContainer(p, "array")
    BY <1>7 DEF JsmnTurn, c
  <2>2. text[p.pos] = Closing("array")
    BY <1>2, <1>3, <1>7 DEF BracketClasses
  <2> QED BY <1>1, <1>3, <2>1, <2>2, CloseInv
<1>8. CASE c = "quote"
  <2>1. JsmnTurn(text, p) = String(text, p)
    BY <1>8 DEF JsmnTurn, c
  <2> QED BY <1>1, <2>1, StringInv
<1>9. CASE c \in {"space", "colon", "comma"}
  <2>1. JsmnTurn(text, p) = [p EXCEPT !.pos = @ + 1]
    BY <1>9 DEF JsmnTurn, c
  <2> DEFINE q == [p EXCEPT !.pos = @ + 1]
  <2>2. /\ q \in JsmnParser /\ q.pos = p.pos + 1 /\ q.tokens = p.tokens /\ q.super = p.super
        /\ q.error = p.error
    BY <1>1 DEF JsmnParser
  <2> HIDE DEF q
  <2>3. Unclosed(q) = Unclosed(p) /\ SuperInnermost(q)
    BY <2>2 DEF Unclosed, SuperInnermost, ParserInv
  <2>4. InOrder(q)
    <3>1. \A n \in DOMAIN p.tokens :
            /\ p.tokens[n].start \in 1 .. p.pos - 1
            /\ IF p.tokens[n].end = 0 THEN p.tokens[n].type \in DOMAIN Brackets
               ELSE p.tokens[n].end \in p.tokens[n].start .. p.pos
      BY DEF ParserInv, InOrder
    <3>2. 1 .. p.pos - 1 \subseteq 1 .. q.pos - 1
      BY <1>1, <2>2
    <3>3. \A n \in DOMAIN p.tokens :
             p.tokens[n].start .. p.pos \subseteq p.tokens[n].start .. q.pos
      <4> TAKE n \in DOMAIN p.tokens
      <4>1. p.tokens[n].start \in Nat
        BY <3>1
      <4> QED BY <1>1, <2>2, <4>1
    <3>4. \A n, m \in DOMAIN p.tokens : n < m => p.tokens[n].start < p.tokens[m].start
      BY DEF ParserInv, InOrder
    <3>5. \A n \in DOMAIN p.tokens :
            /\ p.tokens[n].start \in 1 .. q.pos - 1
            /\ IF p.tokens[n].end = 0 THEN p.tokens[n].type \in DOMAIN Brackets
               ELSE p.tokens[n].end \in p.tokens[n].start .. q.pos
      BY <3>1, <3>2, <3>3
    <3> QED BY <2>2, <3>4, <3>5 DEF InOrder
  <2>5. ParserInv(text, q)
    BY <1>1, <2>2, <2>3, <2>4 DEF ParserInv
  <2> QED BY <1>1, <2>1, <2>2, <2>5 DEF GoesOn, q
<1>10. CASE c \notin {"{", "[", "}", "]", "quote", "space", "colon", "comma"}
  <2>1. JsmnTurn(text, p) = Primitive(text, p)
    BY <1>10 DEF JsmnTurn, c
  <2>2. text[p.pos].class \notin EndOfWord
    BY <1>10 DEF EndOfWord, c
  <2> QED BY <1>1, <2>1, <2>2, PrimitiveInv
<1> QED BY <1>4, <1>5, <1>6, <1>7, <1>8, <1>9, <1>10

-----------------------------------------------------------------------------
(* jsmn_parse *)

ParserTurn(text, p) ==
  IF p.error # "none" \/ EndOfText(text, p.pos) THEN p ELSE JsmnTurn(text, p)

LastCheck(p) == IF p.error = "none" /\ Unmatched(p) THEN Stop(p, "part") ELSE p

TwoTurns(text, p) == CHOOSE q \in {ParserTurn(text, r) : r \in {ParserTurn(text, p)}} : TRUE

FourTurns(text, p) == CHOOSE q \in {TwoTurns(text, r) : r \in {TwoTurns(text, p)}} : TRUE

Turns(text, after) ==
  after = [n \in 0 .. Len(text) |->
             IF n = 0 THEN jsmn_init
             ELSE CHOOSE q \in {FourTurns(text, p) : p \in {after[n - 1]}} : TRUE]

\* The parsers after each turn, and what jsmn_parse returns after the last.
Parsing(text, last, after) ==
  /\ last \in Nat /\ Len(text) <= last
  /\ after[0] = jsmn_init
  /\ \A n \in 0 .. last : ParserInv(text, after[n])
  /\ \A n \in 1 .. last : after[n] = ParserTurn(text, after[n - 1])
  /\ jsmn_parse(text) = LastCheck(after[last])

LEMMA InitInv ==
  ASSUME NEW L, NEW text \in Seq(L)
  PROVE  ParserInv(text, jsmn_init)
<1>1. /\ jsmn_init \in JsmnParser /\ jsmn_init.tokens = << >> /\ jsmn_init.pos = 1
      /\ jsmn_init.super = 0
  BY DEF jsmn_init, JsmnParser
<1>2. Unclosed(jsmn_init) = {}
  BY <1>1 DEF Unclosed
<1> QED
  BY <1>1, <1>2, TokensAssumption
  DEF ParserInv, SuperInnermost, InOrder, Nested, Counted, InBrackets

LEMMA FourTurnsAre ==
  ASSUME NEW text, NEW p
  PROVE  FourTurns(text, p) =
           ParserTurn(text, ParserTurn(text, ParserTurn(text, ParserTurn(text, p))))
<1>1. \A r : TwoTurns(text, r) = ParserTurn(text, ParserTurn(text, r))
  <2> TAKE r
  <2>1. {ParserTurn(text, t) : t \in {ParserTurn(text, r)}} =
          {ParserTurn(text, ParserTurn(text, r))}
    OBVIOUS
  <2> QED BY <2>1 DEF TwoTurns
<1>2. {TwoTurns(text, r) : r \in {TwoTurns(text, p)}} = {TwoTurns(text, TwoTurns(text, p))}
  OBVIOUS
<1>3. FourTurns(text, p) = TwoTurns(text, TwoTurns(text, p))
  BY <1>2 DEF FourTurns
<1> QED BY <1>1, <1>3

\* The parsers jsmn_parse goes through: it takes as many turns as there are
\* lexemes, or a few more.
LEMMA ParseTurns ==
  ASSUME NEW L, Lexicon(L), NEW text \in Seq(L)
  PROVE  \E last, after : Parsing(text, last, after)
<1> DEFINE X == {p \in JsmnParser : ParserInv(text, p)}
           N == Len(text)
           R == (N + 3) \div 4
           step == [n \in 1 .. 4 * N |-> [p \in X |-> ParserTurn(text, p)]]
<1>1. N \in Nat /\ 4 * N \in Nat /\ R \in 0 .. N /\ N <= 4 * R /\ 4 * R \in 0 .. 4 * N
  <2>1. N \in Nat
    OBVIOUS
  <2> HIDE DEF N
  <2> QED BY <2>1
<1>2. jsmn_init \in X
  BY InitInv DEF ParserInv
<1>3. ASSUME NEW p \in X PROVE ParserTurn(text, p) \in X
  <2>1. CASE p.error # "none" \/ EndOfText(text, p.pos)
    BY <2>1 DEF ParserTurn
  <2>2. CASE ~ (p.error # "none" \/ EndOfText(text, p.pos))
    <3>1. ParserInv(text, JsmnTurn(text, p))
      BY <2>2, TurnInv DEF GoesOn
    <3> QED BY <2>2, <3>1 DEF ParserTurn, ParserInv
  <2> QED BY <2>1, <2>2
<1> HIDE DEF N, R
<1>4. PICK f \in [0 .. 4 * N -> X] :
        f[0] = jsmn_init /\ \A n \in 1 .. 4 * N : f[n] = step[n][f[n - 1]]
  <2>1. step \in [1 .. 4 * N -> [X -> X]]
    BY <1>3
  <2> HIDE DEF X, step
  <2>2. \E g : Repeats(g, 4 * N, X, jsmn_init, step)
    BY <1>1, <1>2, <2>1, Repeated
  <2> QED BY <2>2 DEF Repeats
<1>5. ASSUME NEW n \in 1 .. 4 * N PROVE f[n] = ParserTurn(text, f[n - 1])
  <2>1. n - 1 \in 0 .. 4 * N
    BY <1>1
  <2>2. f[n - 1] \in X
    BY <1>4, <2>1
  <2>3. f[n] = step[n][f[n - 1]]
    BY <1>4
  <2>4. step[n] = [p \in X |-> ParserTurn(text, p)]
    OBVIOUS
  <2> HIDE DEF X, step
  <2> QED BY <2>2, <2>3, <2>4
<1>6. ASSUME NEW n \in 1 .. N PROVE f[4 * n] = FourTurns(text, f[4 * (n - 1)])
  <2>1. /\ 4 * n \in 1 .. 4 * N /\ 4 * n - 1 \in 1 .. 4 * N
        /\ 4 * n - 2 \in 1 .. 4 * N /\ 4 * n - 3 \in 1 .. 4 * N
        /\ 4 * n - 1 - 1 = 4 * n - 2 /\ 4 * n - 2 - 1 = 4 * n - 3
        /\ 4 * n - 3 - 1 = 4 * (n - 1)
    BY <1>1
  <2>2. /\ f[4 * n] = ParserTurn(text, f[4 * n - 1])
        /\ f[4 * n - 1] = ParserTurn(text, f[4 * n - 2])
        /\ f[4 * n - 2] = ParserTurn(text, f[4 * n - 3])
        /\ f[4 * n - 3] = ParserTurn(text, f[4 * (n - 1)])
    BY <1>5, <2>1
  <2> QED BY <2>2, FourTurnsAre
<1>7. PICK after : Turns(text, after) /\ jsmn_parse(text) = LastCheck(after[R])
  <2> DEFINE g == [n \in 0 .. Len(text) |-> f[4 * n]]
  <2>1. Turns(text, g)
    <3>1. ASSUME NEW n \in 0 .. Len(text)
          PROVE  g[n] = IF n = 0 THEN jsmn_init
                        ELSE CHOOSE q \in {FourTurns(text, p) : p \in {g[n - 1]}} : TRUE
      <4>1. CASE n = 0
        BY <1>4, <4>1
      <4>2. CASE n # 0
        <5>1. n \in 1 .. N /\ n - 1 \in 0 .. Len(text)
          BY <4>2 DEF N
        <5>2. g[n] = f[4 * n] /\ g[n - 1] = f[4 * (n - 1)]
          BY <5>1
        <5> HIDE DEF g
        <5>3. {FourTurns(text, p) : p \in {g[n - 1]}} = {g[n]}
          BY <1>6, <5>1, <5>2
        <5> QED BY <4>2, <5>3
      <4> QED BY <4>1, <4>2
    <3>2. g = [n \in 0 .. Len(text) |-> g[n]]
      OBVIOUS
    <3> HIDE DEF g
    <3> QED BY <3>1, <3>2 DEF Turns
  <2> DEFINE after == CHOOSE h : Turns(text, h)
  <2>2. Turns(text, after)
    <3> HIDE DEF g
    <3> QED BY <2>1
  <2>3. jsmn_parse(text) = CHOOSE q \in {LastCheck(p) : p \in {after[R]}} : TRUE
    BY DEF jsmn_parse, Turns, FourTurns, TwoTurns, ParserTurn, LastCheck, R, N
  <2> HIDE DEF after
  <2>4. {LastCheck(p) : p \in {after[R]}} = {LastCheck(after[R])}
    OBVIOUS
  <2> QED BY <2>2, <2>3, <2>4
<1>8. after[R] = f[4 * R]
  <2> DEFINE S == {n \in 0 .. N : after[n] = f[4 * n]}
  <2>1. 0 \in S
    <3>1. after[0] = jsmn_init
      BY <1>1, <1>7 DEF Turns, N
    <3> QED BY <1>1, <1>4, <3>1
  <2>2. ASSUME NEW n \in 0 .. N - 1, n \in S PROVE n + 1 \in S
    <3>1. n + 1 \in 1 .. N /\ (n + 1) - 1 = n /\ n + 1 \in 0 .. Len(text) /\ n + 1 # 0
      BY <1>1 DEF N
    <3>2. after[n] = f[4 * n]
      BY <2>2
    <3>3. f[4 * (n + 1)] = FourTurns(text, f[4 * n])
      BY <1>6, <3>1
    <3>4. after[n + 1] = CHOOSE q \in {FourTurns(text, p) : p \in {after[n]}} : TRUE
      BY <1>7, <3>1 DEF Turns
    <3>5. {FourTurns(text, p) : p \in {after[n]}} = {f[4 * (n + 1)]}
      BY <3>2, <3>3
    <3>6. after[n + 1] = f[4 * (n + 1)]
      BY <3>4, <3>5
    <3> QED BY <3>1, <3>6 DEF N
  <2>3. 0 .. N \subseteq S
    <3> HIDE DEF S
    <3> QED BY <1>1, <2>1, <2>2, UpTo
  <2> QED BY <1>1, <2>3
<1>9. \A n \in 0 .. 4 * R : ParserInv(text, f[n])
  <2>1. \A n \in 0 .. 4 * R : n \in 0 .. 4 * N
    BY <1>1
  <2> QED BY <1>4, <2>1
<1>10. \A n \in 1 .. 4 * R : f[n] = ParserTurn(text, f[n - 1])
  <2>1. \A n \in 1 .. 4 * R : n \in 1 .. 4 * N
    BY <1>1
  <2> QED BY <1>5, <2>1
<1>11. 4 * R \in Nat /\ Len(text) <= 4 * R
  BY <1>1 DEF N
<1>12. f[0] = jsmn_init /\ jsmn_parse(text) = LastCheck(f[4 * R])
  BY <1>4, <1>7, <1>8
<1>13. Parsing(text, 4 * R, f)
  BY <1>9, <1>10, <1>11, <1>12 DEF Parsing
<1> QED BY <1>13

\* jsmn_parse comes to the end of the text or stops with an error, in no more
\* turns than there are lexemes.
LEMMA ParseEnds ==
  ASSUME NEW L, Lexicon(L), NEW text \in Seq(L), jsmn_parse(text).error = "none"
  PROVE  EndOfText(text, jsmn_parse(text).pos)
<1>1. PICK last, after : Parsing(text, last, after)
  BY ParseTurns
<1> DEFINE N == last
           S == {n \in 0 .. N : \/ after[n].error # "none"
                                \/ EndOfText(text, after[n].pos)
                                \/ n < after[n].pos}
<1>2. N \in Nat /\ Len(text) \in Nat /\ Len(text) <= N
  BY <1>1 DEF Parsing
<1>3. \A n \in 0 .. N : after[n].pos \in Nat
  BY <1>1 DEF Parsing, ParserInv, JsmnParser
<1>4. 0 .. N \subseteq S
  <2>1. 0 \in S
    BY <1>1, <1>2 DEF Parsing, jsmn_init
  <2>2. ASSUME NEW n \in 0 .. N - 1, n \in S PROVE n + 1 \in S
    <3>1. n \in 0 .. N /\ n + 1 \in 1 .. N /\ (n + 1) - 1 = n
      BY <1>2
    <3>2. after[n + 1] = ParserTurn(text, after[n])
      BY <1>1, <3>1 DEF Parsing
    <3>3. CASE after[n].error # "none" \/ EndOfText(text, after[n].pos)
      <4>1. after[n + 1] = after[n]
        BY <3>2, <3>3 DEF ParserTurn
      <4> QED BY <1>2, <3>1, <3>3, <4>1
    <3>4. CASE ~ (after[n].error # "none" \/ EndOfText(text, after[n].pos))
      <4>1. after[n + 1] = JsmnTurn(text, after[n])
        BY <3>2, <3>4 DEF ParserTurn
      <4>2. after[n + 1].error = "none" => after[n].pos < after[n + 1].pos
        BY <1>1, <3>1, <3>4, <4>1, TurnInv DEF GoesOn, Parsing
      <4>3. n < after[n].pos
        BY <2>2, <3>4
      <4>4. after[n].pos \in Nat /\ after[n + 1].pos \in Nat
        BY <1>2, <1>3, <3>1
      <4>5. after[n + 1].error = "none" => n + 1 < after[n + 1].pos
        BY <3>1, <4>2, <4>3, <4>4
      <4> QED BY <1>2, <3>1, <4>5
    <3> QED BY <3>3, <3>4
  <2> HIDE DEF S
  <2> QED BY <1>2, <2>1, <2>2, UpTo
<1>5. after[N].error = "none" => EndOfText(text, after[N].pos)
  BY <1>2, <1>3, <1>4 DEF EndOfText
<1>6. LastCheck(after[N]) = after[N]
  <2> SUFFICES ASSUME after[N].error = "none", Unmatched(after[N]) PROVE FALSE
    BY DEF LastCheck
  <2>1. LastCheck(after[N]) = Stop(after[N], "part")
    BY DEF LastCheck
  <2>2. ParserInv(text, after[N])
    BY <1>1, <1>2 DEF Parsing
  <2>3. LastCheck(after[N]).error = "part"
    BY <2>1, <2>2, StopInv
  <2> QED BY <1>1, <2>3 DEF Parsing
<1> QED BY <1>1, <1>5, <1>6 DEF Parsing

\* What jsmn_parse returns satisfies the invariant, and has no container open
\* unless there is an error.
LEMMA ParsedInv ==
  ASSUME NEW L, Lexicon(L), NEW text \in Seq(L)
  PROVE  /\ ParserInv(text, jsmn_parse(text))
         /\ jsmn_parse(text).error = "none" => Unclosed(jsmn_parse(text)) = {}
<1>1. PICK last, after : Parsing(text, last, after)
  BY ParseTurns
<1> DEFINE p == after[last]
<1>2. ParserInv(text, p)
  <2>1. last \in 0 .. last
    BY <1>1 DEF Parsing
  <2> QED BY <1>1, <2>1 DEF Parsing
<1> HIDE DEF p
<1>3. CASE p.error = "none" /\ Unmatched(p)
  <2>1. jsmn_parse(text) = Stop(p, "part")
    BY <1>1, <1>3 DEF Parsing, LastCheck, p
  <2> QED BY <1>2, <2>1, StopInv
<1>4. CASE ~ (p.error = "none" /\ Unmatched(p))
  <2>1. jsmn_parse(text) = p
    BY <1>1, <1>4 DEF Parsing, LastCheck, p
  <2> QED BY <1>2, <1>4, <2>1 DEF Unmatched
<1> QED BY <1>3, <1>4

\* Whatever text jsmn accepts, and however many tokens there is room for, its
\* tokens make a tree: any two lie one in the other or apart, brackets match,
\* and the size of a container, by which parse_eids and parse_refs count, is the
\* number of tokens that lie in it and in none of its elements.
THEOREM AcceptedIsTree ==
  ASSUME NEW L, Lexicon(L), NEW text \in Seq(L), jsmn_parse(text).error = "none"
  PROVE  Tree(text, jsmn_parse(text).tokens)
<1> DEFINE p  == jsmn_parse(text)
           ts == p.tokens
           N  == Len(ts)
           in(m, n) == ts[n].start <= ts[m].start /\ ts[m].end <= ts[n].end
           child(m, n) == /\ m > n /\ in(m, n)
                          /\ \A k \in n + 1 .. m - 1 : in(k, n) => ~ in(m, k)
<1>1. ParserInv(text, p) /\ Unclosed(p) = {}
  BY ParsedInv
<1> HIDE DEF p
<1>2. ts \in Seq(JsmnToken) /\ N \in Nat /\ DOMAIN ts = 1 .. N
  BY <1>1 DEF ParserInv, JsmnParser
<1> HIDE DEF ts, N
<1>3. \A n \in 1 .. N : ts[n] \in JsmnToken
  BY <1>2
<1>4. \A n \in 1 .. N : /\ ts[n].start \in Nat /\ ts[n].end \in Nat /\ ts[n].end # 0
                        /\ ts[n].start <= ts[n].end
  <2> TAKE n \in 1 .. N
  <2>1. ts[n].start \in Nat /\ ts[n].end \in Nat
    BY <1>3 DEF JsmnToken
  <2>2. ts[n].end # 0
    BY <1>1, <1>2 DEF Unclosed, ts
  <2>3. ts[n].end \in ts[n].start .. p.pos
    BY <1>1, <1>2, <2>2 DEF ParserInv, InOrder, ts
  <2> QED BY <2>1, <2>2, <2>3
<1>5. \A n, m \in 1 .. N : n < m => ts[n].start < ts[m].start
  BY <1>1, <1>2 DEF ParserInv, InOrder, ts
<1>6. ASSUME NEW n \in 1 .. N, NEW m \in 1 .. N, n < m
      PROVE  /\ in(m, n) <=> Around(ts, m, n)
             /\ Around(ts, m, n) \/ ts[n].end <= ts[m].start
  <2>1. in(m, n) <=> Around(ts, m, n)
    BY <1>4, <1>5, <1>6 DEF Around
  <2>2. Around(ts, m, n) \/ Before(ts, m, n)
    BY <1>1, <1>2, <1>6 DEF ParserInv, Nested, ts
  <2> QED BY <2>1, <2>2 DEF Before
<1>7. ASSUME NEW n \in 1 .. N, NEW k \in 1 .. N, NEW m \in 1 .. N, n < k, k < m,
             Around(ts, m, n), Around(ts, m, k)
      PROVE  Around(ts, k, n)
  <2> SUFFICES ASSUME ~ Around(ts, k, n) PROVE FALSE
    OBVIOUS
  <2>1. ts[n].end <= ts[k].start
    BY <1>6, <1>7
  <2>2. ts[k].start < ts[m].start
    BY <1>5, <1>7
  <2>3. ts[m].end <= ts[n].end
    BY <1>4, <1>7 DEF Around
  <2>4. /\ ts[n].end \in Nat /\ ts[k].start \in Nat /\ ts[m].start \in Nat /\ ts[m].end \in Nat
        /\ ts[m].start <= ts[m].end
    BY <1>4
  <2> QED BY <2>1, <2>2, <2>3, <2>4
<1>8. ASSUME NEW n \in 1 .. N PROVE {m \in DOMAIN ts : child(m, n)} = Inside(ts, n)
  <2>1. ASSUME NEW m \in 1 .. N PROVE child(m, n) <=> m \in Inside(ts, n)
    <3>1. CASE n < m
      <4>1. \A k \in n + 1 .. m - 1 : k \in 1 .. N /\ n < k /\ k < m
        BY <1>2
      <4>2. child(m, n) <=> /\ Around(ts, m, n)
                            /\ \A k \in n + 1 .. m - 1 : Around(ts, k, n) => ~ Around(ts, m, k)
        BY <1>6, <3>1, <4>1
      <4>3. m \in Inside(ts, n) <=> /\ Around(ts, m, n)
                                    /\ \A k \in n + 1 .. m - 1 : ~ Around(ts, m, k)
        BY <1>2 DEF Inside
      <4> HIDE DEF child
      <4> QED BY <1>7, <3>1, <4>1, <4>2, <4>3
    <3>2. CASE ~ (n < m)
      <4>1. ~ child(m, n)
        BY <1>2, <3>2
      <4>2. m \notin Inside(ts, n)
        BY <1>2, <3>2 DEF Inside, Around
      <4> QED BY <4>1, <4>2
    <3> QED BY <3>1, <3>2
  <2>2. Inside(ts, n) \subseteq 1 .. N
    BY <1>2 DEF Inside
  <2> HIDE DEF child
  <2> QED BY <1>2, <2>1, <2>2
<1>9. ASSUME NEW n \in 1 .. N, NEW m \in 1 .. n - 1
      PROVE  in(n, m) \/ ts[m].end <= ts[n].start
  <2>1. m \in 1 .. N /\ m < n
    BY <1>2
  <2> QED BY <1>6, <2>1
<1>10. ASSUME NEW n \in 1 .. N PROVE ts[n].size = Cardinality({m \in DOMAIN ts : child(m, n)})
  <2>1. ts[n].size = Cardinality(Inside(ts, n))
    BY <1>1, <1>2 DEF ParserInv, Counted, ts
  <2> HIDE DEF child
  <2> QED BY <1>8, <2>1
<1>11. ASSUME NEW n \in 1 .. N, ts[n].type \in DOMAIN Brackets
       PROVE  /\ text[ts[n].start] = Opening(ts[n].type)
              /\ text[ts[n].end - 1] = Closing(ts[n].type)
  BY <1>1, <1>2, <1>4, <1>11 DEF ParserInv, InBrackets, ts
<1>12. Tree(text, ts)
  BY <1>2, <1>9, <1>10, <1>11 DEF Tree
<1> QED BY <1>12 DEF ts, p

-----------------------------------------------------------------------------
(* The text of a document *)

IsSeq(s) == Len(s) \in Nat /\ s = [n \in 1 .. Len(s) |-> s[n]]

LEMMA SeqIn ==
  ASSUME NEW S, NEW s, IsSeq(s), \A n \in 1 .. Len(s) : s[n] \in S
  PROVE  s \in Seq(S)
<1>1. [n \in 1 .. Len(s) |-> s[n]] \in Seq(S)
  BY IsASeq DEF IsSeq
<1> QED BY <1>1 DEF IsSeq

LEMMA SeqIs ==
  ASSUME NEW S, NEW s \in Seq(S)
  PROVE  IsSeq(s) /\ \A n \in 1 .. Len(s) : s[n] \in S
BY DEF IsSeq

Flattens(seqs, flatten) ==
  flatten = [i \in 1 .. Len(seqs) |-> IF i = 1 THEN seqs[i] ELSE flatten[i - 1] \o seqs[i]]

LEMMA FlattenExists ==
  ASSUME NEW S, NEW seqs, IsSeq(seqs), \A n \in 1 .. Len(seqs) : seqs[n] \in Seq(S),
         Len(seqs) # 0
  PROVE  \E flatten : Flattens(seqs, flatten)
<1> DEFINE N == Len(seqs) - 1
           X == Seq(S)
           step == [n \in 1 .. N |-> [x \in X |-> x \o seqs[n + 1]]]
<1>1. N \in Nat /\ Len(seqs) = N + 1 /\ Len(seqs) \in Nat
  BY DEF IsSeq
<1>2. seqs[1] \in X
  BY <1>1
<1>3. step \in [1 .. N -> [X -> X]]
  <2> SUFFICES ASSUME NEW n \in 1 .. N, NEW x \in X PROVE x \o seqs[n + 1] \in X
    OBVIOUS
  <2>1. seqs[n + 1] \in Seq(S)
    BY <1>1
  <2> QED BY <2>1, ConcatProperties
<1>4. PICK f : Repeats(f, N, X, seqs[1], step)
  <2> HIDE DEF N, X, step
  <2> QED BY <1>1, <1>2, <1>3, Repeated
<1> DEFINE g == [i \in 1 .. Len(seqs) |-> f[i - 1]]
<1>5. ASSUME NEW i \in 1 .. Len(seqs)
      PROVE  g[i] = IF i = 1 THEN seqs[i] ELSE g[i - 1] \o seqs[i]
  <2>1. CASE i = 1
    BY <1>4, <2>1 DEF Repeats
  <2>2. CASE i # 1
    <3>1. i - 1 \in 1 .. N /\ i - 1 \in 1 .. Len(seqs) /\ (i - 1) + 1 = i /\ (i - 1) - 1 \in 0 .. N
      BY <1>1, <2>2
    <3>2. f[i - 1] = step[i - 1][f[(i - 1) - 1]] /\ f[(i - 1) - 1] \in X
      BY <1>4, <3>1 DEF Repeats
    <3>3. step[i - 1] = [x \in X |-> x \o seqs[(i - 1) + 1]]
      BY <3>1
    <3>4. f[i - 1] = f[(i - 1) - 1] \o seqs[i]
      <4> HIDE DEF X, step
      <4> QED BY <3>1, <3>2, <3>3
    <3> QED BY <2>2, <3>1, <3>4
  <2> QED BY <2>1, <2>2
<1>6. Flattens(seqs, g)
  <2>1. g = [i \in 1 .. Len(seqs) |-> g[i]]
    OBVIOUS
  <2> HIDE DEF g
  <2> QED BY <1>5, <2>1 DEF Flattens
<1> QED BY <1>6

\* Sequences joined end to end hold what they hold.
LEMMA FlattenIn ==
  ASSUME NEW S, NEW seqs, IsSeq(seqs), \A n \in 1 .. Len(seqs) : seqs[n] \in Seq(S)
  PROVE  FlattenSeq(seqs) \in Seq(S)
<1>1. CASE Len(seqs) = 0
  <2>1. FlattenSeq(seqs) = seqs
    BY <1>1 DEF FlattenSeq
  <2>2. \A n \in 1 .. Len(seqs) : seqs[n] \in S
    BY <1>1
  <2> QED BY <2>1, <2>2, SeqIn
<1>2. CASE Len(seqs) # 0
  <2> DEFINE flatten == CHOOSE f : Flattens(seqs, f)
             N == Len(seqs)
             T == {j \in 0 .. N - 1 : flatten[j + 1] \in Seq(S)}
  <2>1. Flattens(seqs, flatten)
    BY <1>2, FlattenExists
  <2>2. FlattenSeq(seqs) = flatten[N]
    BY <1>2 DEF FlattenSeq, Flattens
  <2> HIDE DEF flatten
  <2>3. N \in Nat /\ N - 1 \in Nat
    BY <1>2 DEF IsSeq
  <2>4. 0 .. N - 1 \subseteq T
    <3>1. 0 \in T
      BY <2>1, <2>3 DEF Flattens
    <3>2. ASSUME NEW j \in 0 .. (N - 1) - 1, j \in T PROVE j + 1 \in T
      <4>1. (j + 1) + 1 \in 2 .. N /\ ((j + 1) + 1) - 1 = j + 1 /\ j + 1 \in 0 .. N - 1
        BY <2>3
      <4>2. flatten[(j + 1) + 1] = flatten[j + 1] \o seqs[(j + 1) + 1]
        <5> DEFINE i == (j + 1) + 1
        <5>1. flatten[i] = IF i = 1 THEN seqs[i] ELSE flatten[i - 1] \o seqs[i]
          <6>1. i \in 1 .. N
            BY <2>3, <4>1
          <6> HIDE DEF i
          <6> QED BY <2>1, <6>1 DEF Flattens
        <5>2. i # 1 /\ i - 1 = j + 1
          BY <2>3
        <5> HIDE DEF i
        <5>3. flatten[i] = flatten[j + 1] \o seqs[i]
          BY <5>1, <5>2
        <5> QED BY <5>3 DEF i
      <4>3. flatten[j + 1] \in Seq(S) /\ seqs[(j + 1) + 1] \in Seq(S)
        BY <2>3, <3>2, <4>1
      <4>4. flatten[(j + 1) + 1] \in Seq(S)
        BY <4>2, <4>3, ConcatProperties
      <4> QED BY <4>1, <4>4
    <3> HIDE DEF T
    <3> QED BY <2>3, <3>1, <3>2, UpTo
  <2>5. flatten[(N - 1) + 1] \in Seq(S)
    <3>1. N - 1 \in T
      <4> HIDE DEF T
      <4> QED BY <2>3, <2>4, N - 1 \in 0 .. N - 1
    <3> QED BY <3>1
  <2> QED BY <2>2, <2>3, <2>5, (N - 1) + 1 = N
<1> QED BY <1>1, <1>2

\* A lexicon with the marks documents are written with.
Marks(L) == {Quote, Space, Colon, Comma} \cup {Char(c) : c \in BracketClasses} \subseteq L

\* Values, nested at most two deep, whose strings and numbers are of lexicon L.
LeafOf(L, v) ==
  CASE v.type = "string" -> Spell(v.val) \in Seq(L)
    [] v.type = "primitive" -> IF v.val = NotNumber THEN Word(v.val) \in L ELSE Digits(v.val) \in L
    [] OTHER -> v.type \in DOMAIN Brackets
ElemOf(L, v) ==
  IF v.elems = << >> THEN LeafOf(L, v)
  ELSE /\ v.type \in DOMAIN Brackets
       /\ IsSeq(v.elems) /\ \A n \in 1 .. Len(v.elems) : LeafOf(L, v.elems[n])
ValueOf(L, v) ==
  IF v.elems = << >> THEN LeafOf(L, v)
  ELSE /\ v.type \in DOMAIN Brackets
       /\ IsSeq(v.elems) /\ \A n \in 1 .. Len(v.elems) : ElemOf(L, v.elems[n])

DocumentOf(L, d) ==
  /\ IsSeq(d.head) /\ \A n \in 1 .. Len(d.head) : ValueOf(L, d.head[n])
  /\ IsSeq(d.members)
  /\ \A n \in 1 .. Len(d.members) :
        ValueOf(L, d.members[n].key) /\ ValueOf(L, d.members[n].value)

LEMMA BracketsIn ==
  ASSUME NEW L, Marks(L), NEW type \in DOMAIN Brackets
  PROVE  Opening(type) \in L /\ Closing(type) \in L
<1>1. /\ type \in {"object", "array"}
      /\ Opening("object") = Char("{") /\ Closing("object") = Char("}")
      /\ Opening("array") = Char("[") /\ Closing("array") = Char("]")
  BY DEF Opening, Closing, Brackets
<1>2. \A c \in BracketClasses : Char(c) \in L
  BY DEF Marks
<1> QED BY <1>1, <1>2 DEF BracketClasses

\* A sequence made of another element by element.
LEMMA MappedSeq ==
  ASSUME NEW s, IsSeq(s), NEW f, f = [n \in DOMAIN s |-> f[n]]
  PROVE  IsSeq(f) /\ Len(f) = Len(s) /\ DOMAIN s = 1 .. Len(s)
<1>1. DOMAIN s = 1 .. Len(s) /\ Len(s) \in Nat
  BY DEF IsSeq
<1>2. [n \in 1 .. Len(s) |-> f[n]] \in Seq({f[n] : n \in 1 .. Len(s)})
  BY <1>1, IsASeq
<1>3. f = [n \in 1 .. Len(s) |-> f[n]]
  BY <1>1
<1>4. f \in Seq({f[n] : n \in 1 .. Len(s)})
  BY <1>2, <1>3
<1>5. DOMAIN f = 1 .. Len(s)
  BY <1>3
<1>6. Len(f) = Len(s)
  BY <1>1, <1>4, <1>5
<1> QED BY <1>1, <1>3, <1>6 DEF IsSeq

LEMMA JoinedIn ==
  ASSUME NEW L, Marks(L), NEW texts, IsSeq(texts), \A n \in 1 .. Len(texts) : texts[n] \in Seq(L)
  PROVE  Joined(texts) \in Seq(L)
<1> DEFINE part(n) == IF n < Len(texts) THEN texts[n] \o <<Comma, Space>> ELSE texts[n]
           parts == [n \in DOMAIN texts |-> part(n)]
<1>1. IsSeq(parts) /\ Len(parts) = Len(texts) /\ DOMAIN texts = 1 .. Len(texts)
  <2>1. parts = [n \in DOMAIN texts |-> parts[n]]
    OBVIOUS
  <2> HIDE DEF parts
  <2> QED BY <2>1, MappedSeq
<1>2. ASSUME NEW n \in 1 .. Len(parts) PROVE parts[n] \in Seq(L)
  <2>1. texts[n] \in Seq(L) /\ parts[n] = part(n)
    BY <1>1
  <2>2. <<Comma, Space>> \in Seq(L)
    BY DEF Marks
  <2>3. texts[n] \o <<Comma, Space>> \in Seq(L)
    BY <2>1, <2>2, ConcatProperties
  <2> HIDE DEF parts
  <2> QED BY <2>1, <2>3
<1>3. FlattenSeq(parts) \in Seq(L)
  <2> HIDE DEF parts
  <2> QED BY <1>1, <1>2, FlattenIn
<1> QED BY <1>3 DEF Joined

LEMMA BracketedIn ==
  ASSUME NEW L, Marks(L), NEW v, v.type \in DOMAIN Brackets,
         NEW texts, IsSeq(texts), \A n \in 1 .. Len(texts) : texts[n] \in Seq(L)
  PROVE  Bracketed(v, texts) \in Seq(L)
<1>1. Joined(texts) \in Seq(L)
  BY JoinedIn
<1>2. Pad(v.elems) \in Seq(L)
  BY DEF Pad, Marks
<1>3. <<Opening(v.type)>> \in Seq(L) /\ <<Closing(v.type)>> \in Seq(L)
  BY BracketsIn
<1>4. <<Opening(v.type)>> \o Pad(v.elems) \in Seq(L)
  BY <1>2, <1>3, ConcatProperties
<1>5. <<Opening(v.type)>> \o Pad(v.elems) \o Joined(texts) \in Seq(L)
  BY <1>1, <1>4, ConcatProperties
<1>6. <<Opening(v.type)>> \o Pad(v.elems) \o Joined(texts) \o Pad(v.elems) \in Seq(L)
  BY <1>2, <1>5, ConcatProperties
<1> QED BY <1>3, <1>6, ConcatProperties DEF Bracketed

LEMMA LeafTextIn ==
  ASSUME NEW L, Marks(L), NEW v, LeafOf(L, v)
  PROVE  LeafText(v) \in Seq(L)
<1>1. CASE v.type = "string"
  <2>1. LeafText(v) = <<Quote>> \o Spell(v.val) \o <<Quote>>
    BY <1>1 DEF LeafText, Quoted
  <2>2. <<Quote>> \in Seq(L) /\ Spell(v.val) \in Seq(L)
    BY <1>1 DEF LeafOf, Marks
  <2>3. <<Quote>> \o Spell(v.val) \in Seq(L)
    BY <2>2, ConcatProperties
  <2> QED BY <2>1, <2>2, <2>3, ConcatProperties
<1>2. CASE v.type = "primitive"
  <2>1. LeafText(v) = <<IF v.val = NotNumber THEN Word(v.val) ELSE Digits(v.val)>>
    BY <1>2 DEF LeafText
  <2>2. (IF v.val = NotNumber THEN Word(v.val) ELSE Digits(v.val)) \in L
    BY <1>2 DEF LeafOf
  <2> QED BY <2>1, <2>2
<1>3. CASE v.type \notin {"string", "primitive"}
  <2>1. LeafText(v) = Bracketed(v, << >>)
    BY <1>3 DEF LeafText
  <2>2. v.type \in DOMAIN Brackets
    BY <1>3 DEF LeafOf
  <2>3. IsSeq(<< >>) /\ \A n \in 1 .. Len(<< >>) : << >>[n] \in Seq(L)
    BY EmptySeq DEF IsSeq
  <2> QED BY <2>1, <2>2, <2>3, BracketedIn
<1> QED BY <1>1, <1>2, <1>3

LEMMA ElemTextIn ==
  ASSUME NEW L, Marks(L), NEW v, ElemOf(L, v)
  PROVE  ElemText(v) \in Seq(L)
<1>1. CASE v.elems = << >>
  BY <1>1, LeafTextIn DEF ElemOf, ElemText
<1>2. CASE v.elems # << >>
  <2> DEFINE texts == [n \in DOMAIN v.elems |-> LeafText(v.elems[n])]
  <2>1. /\ v.type \in DOMAIN Brackets /\ IsSeq(v.elems)
        /\ \A n \in 1 .. Len(v.elems) : LeafOf(L, v.elems[n])
    BY <1>2 DEF ElemOf
  <2>2. IsSeq(texts) /\ Len(texts) = Len(v.elems) /\ DOMAIN v.elems = 1 .. Len(v.elems)
    <3>1. texts = [n \in DOMAIN v.elems |-> texts[n]]
      OBVIOUS
    <3> HIDE DEF texts
    <3> QED BY <2>1, <3>1, MappedSeq
  <2>3. \A n \in 1 .. Len(texts) : texts[n] \in Seq(L)
    BY <2>1, <2>2, LeafTextIn
  <2>4. ElemText(v) = Bracketed(v, texts)
    BY <1>2 DEF ElemText
  <2> HIDE DEF texts
  <2> QED BY <2>1, <2>2, <2>3, <2>4, BracketedIn
<1> QED BY <1>1, <1>2

LEMMA ValueTextIn ==
  ASSUME NEW L, Marks(L), NEW v, ValueOf(L, v)
  PROVE  ValueText(v) \in Seq(L)
<1>1. CASE v.elems = << >>
  BY <1>1, LeafTextIn DEF ValueOf, ValueText
<1>2. CASE v.elems # << >>
  <2> DEFINE texts == [n \in DOMAIN v.elems |-> ElemText(v.elems[n])]
  <2>1. /\ v.type \in DOMAIN Brackets /\ IsSeq(v.elems)
        /\ \A n \in 1 .. Len(v.elems) : ElemOf(L, v.elems[n])
    BY <1>2 DEF ValueOf
  <2>2. IsSeq(texts) /\ Len(texts) = Len(v.elems) /\ DOMAIN v.elems = 1 .. Len(v.elems)
    <3>1. texts = [n \in DOMAIN v.elems |-> texts[n]]
      OBVIOUS
    <3> HIDE DEF texts
    <3> QED BY <2>1, <3>1, MappedSeq
  <2>3. \A n \in 1 .. Len(texts) : texts[n] \in Seq(L)
    BY <2>1, <2>2, ElemTextIn
  <2>4. ValueText(v) = Bracketed(v, texts)
    BY <1>2 DEF ValueText
  <2> HIDE DEF texts
  <2> QED BY <2>1, <2>2, <2>3, <2>4, BracketedIn
<1> QED BY <1>1, <1>2

\* The text of a document is of the lexicon its strings and numbers are of.
LEMMA TextIn ==
  ASSUME NEW L, Marks(L), NEW doc, DocumentOf(L, doc)
  PROVE  Text(doc) \in Seq(L)
<1> DEFINE head == [n \in DOMAIN doc.head |-> ValueText(doc.head[n]) \o <<Colon, Space>>]
           members == [n \in DOMAIN doc.members |-> MemberText(doc.members[n])]
           body == Joined(members)
<1>1. <<Colon, Space>> \in Seq(L) /\ <<Opening("object"), Space>> \in Seq(L)
      /\ <<Space, Closing("object"), Space>> \in Seq(L)
  <2>1. "object" \in DOMAIN Brackets
    BY DEF Brackets
  <2>2. {Colon, Space, Opening("object"), Closing("object")} \subseteq L
    BY <2>1, BracketsIn DEF Marks
  <2> QED BY <2>2
<1>2. /\ IsSeq(head) /\ Len(head) = Len(doc.head)
      /\ \A n \in 1 .. Len(head) : head[n] \in Seq(L)
  <2>1. IsSeq(head) /\ Len(head) = Len(doc.head) /\ DOMAIN doc.head = 1 .. Len(doc.head)
    <3>1. head = [n \in DOMAIN doc.head |-> head[n]]
      OBVIOUS
    <3> HIDE DEF head
    <3> QED BY <3>1, MappedSeq DEF DocumentOf
  <2>2. ASSUME NEW n \in 1 .. Len(doc.head) PROVE head[n] \in Seq(L)
    <3>1. ValueText(doc.head[n]) \in Seq(L)
      BY ValueTextIn DEF DocumentOf
    <3>2. head[n] = ValueText(doc.head[n]) \o <<Colon, Space>>
      BY <2>1
    <3> HIDE DEF head
    <3> QED BY <1>1, <3>1, <3>2, ConcatProperties
  <2> HIDE DEF head
  <2> QED BY <2>1, <2>2
<1>3. body \in Seq(L)
  <2>1. IsSeq(members) /\ Len(members) = Len(doc.members) /\ DOMAIN doc.members = 1 .. Len(doc.members)
    <3>1. members = [n \in DOMAIN doc.members |-> members[n]]
      OBVIOUS
    <3> HIDE DEF members
    <3> QED BY <3>1, MappedSeq DEF DocumentOf
  <2>2. ASSUME NEW n \in 1 .. Len(doc.members) PROVE members[n] \in Seq(L)
    <3> DEFINE m == doc.members[n]
    <3>1. ValueText(m.key) \in Seq(L) /\ ValueText(m.value) \in Seq(L)
      BY ValueTextIn DEF DocumentOf
    <3>2. members[n] = ValueText(m.key) \o <<Colon, Space>> \o ValueText(m.value)
      BY <2>1 DEF MemberText
    <3> HIDE DEF members, m
    <3>3. ValueText(m.key) \o <<Colon, Space>> \in Seq(L)
      BY <1>1, <3>1, ConcatProperties
    <3> QED BY <3>1, <3>2, <3>3, ConcatProperties
  <2> HIDE DEF members
  <2> QED BY <2>1, <2>2, JoinedIn
<1>4. Text(doc) = IF doc.head # << >> /\ Last(doc.head) = Obj
                  THEN FlattenSeq(Front(head)) \o <<Opening("object"), Space>> \o body
                         \o <<Space, Closing("object"), Space>>
                  ELSE FlattenSeq(head) \o body
  BY DEF Text
<1> HIDE DEF head, members, body
<1>5. FlattenSeq(head) \in Seq(L)
  BY <1>2, FlattenIn
<1>6. CASE doc.head # << >> /\ Last(doc.head) = Obj
  <2>1. head \in Seq(Seq(L)) /\ Len(head) \in Nat
    BY <1>2, SeqIn DEF IsSeq
  <2>2. Len(head) # 0
    <3>1. doc.head = [n \in 1 .. Len(doc.head) |-> doc.head[n]]
      BY DEF DocumentOf, IsSeq
    <3>2. Len(doc.head) = 0 => doc.head = << >>
      BY <3>1
    <3> QED BY <1>2, <1>6, <3>2
  <2>3. Front(head) \in Seq(Seq(L))
    BY <2>1, <2>2, SubSeqProperties DEF Front
  <2>4. FlattenSeq(Front(head)) \in Seq(L)
    BY <2>3, SeqIs, FlattenIn
  <2>5. FlattenSeq(Front(head)) \o <<Opening("object"), Space>> \in Seq(L)
    BY <1>1, <2>4, ConcatProperties
  <2>6. FlattenSeq(Front(head)) \o <<Opening("object"), Space>> \o body \in Seq(L)
    BY <1>3, <2>5, ConcatProperties
  <2> QED BY <1>1, <1>4, <1>6, <2>6, ConcatProperties
<1>7. CASE ~ (doc.head # << >> /\ Last(doc.head) = Obj)
  BY <1>3, <1>4, <1>5, <1>7, ConcatProperties
<1> QED BY <1>6, <1>7

-----------------------------------------------------------------------------
(* Sequences, whatever they hold *)

LEMMA ConcatIs ==
  ASSUME NEW s, NEW t, IsSeq(s), IsSeq(t)
  PROVE  /\ IsSeq(s \o t) /\ Len(s \o t) = Len(s) + Len(t)
         /\ \A i \in 1 .. Len(s) : (s \o t)[i] = s[i]
         /\ \A i \in 1 .. Len(t) : (s \o t)[Len(s) + i] = t[i]
<1> DEFINE S == {s[i] : i \in 1 .. Len(s)} \cup {t[i] : i \in 1 .. Len(t)}
<1>1. s \in Seq(S) /\ t \in Seq(S)
  <2> \A i \in 1 .. Len(s) : s[i] \in S
    OBVIOUS
  <2> \A i \in 1 .. Len(t) : t[i] \in S
    OBVIOUS
  <2> HIDE DEF S
  <2> QED BY SeqIn
<1> HIDE DEF S
<1>2. /\ s \o t \in Seq(S) /\ Len(s \o t) = Len(s) + Len(t)
      /\ \A i \in 1 .. Len(s) + Len(t) : (s \o t)[i] = IF i <= Len(s) THEN s[i] ELSE t[i - Len(s)]
  BY <1>1, ConcatProperties
<1>3. Len(s) \in Nat /\ Len(t) \in Nat
  BY DEF IsSeq
<1>4. \A i \in 1 .. Len(s) : (s \o t)[i] = s[i]
  BY <1>2, <1>3
<1>5. ASSUME NEW i \in 1 .. Len(t) PROVE (s \o t)[Len(s) + i] = t[i]
  <2>1. Len(s) + i \in 1 .. Len(s) + Len(t) /\ ~ (Len(s) + i <= Len(s)) /\ Len(s) + i - Len(s) = i
    BY <1>3
  <2> QED BY <1>2, <2>1
<1> QED BY <1>2, <1>4, <1>5, SeqIs

Associate(s, t, u) == (s \o t) \o u = s \o (t \o u)

LEMMA ConcatAssoc ==
  ASSUME NEW s, NEW t, NEW u, IsSeq(s), IsSeq(t), IsSeq(u)
  PROVE  Associate(s, t, u)
<1> DEFINE S == {s[i] : i \in 1 .. Len(s)} \cup {t[i] : i \in 1 .. Len(t)}
                  \cup {u[i] : i \in 1 .. Len(u)}
<1>1. s \in Seq(S) /\ t \in Seq(S) /\ u \in Seq(S)
  <2> \A i \in 1 .. Len(s) : s[i] \in S
    OBVIOUS
  <2> \A i \in 1 .. Len(t) : t[i] \in S
    OBVIOUS
  <2> \A i \in 1 .. Len(u) : u[i] \in S
    OBVIOUS
  <2> HIDE DEF S
  <2> QED BY SeqIn
<1> HIDE DEF S
<1> QED BY <1>1, ConcatAssociative DEF Associate

LEMMA ConcatNothing ==
  ASSUME NEW s, IsSeq(s)
  PROVE  s \o << >> = s /\ << >> \o s = s
<1> DEFINE S == {s[i] : i \in 1 .. Len(s)}
<1>1. s \in Seq(S)
  <2> \A i \in 1 .. Len(s) : s[i] \in S
    OBVIOUS
  <2> HIDE DEF S
  <2> QED BY SeqIn
<1> HIDE DEF S
<1> QED BY <1>1, ConcatEmptySeq

LEMMA OneIs ==
  ASSUME NEW e
  PROVE  IsSeq(<<e>>) /\ Len(<<e>>) = 1 /\ <<e>>[1] = e
<1>1. <<e>> \in Seq({e})
  OBVIOUS
<1> QED BY <1>1, SeqIs

LEMMA NothingIs == IsSeq(<< >>) /\ Len(<< >>) = 0
BY EmptySeq DEF IsSeq

-----------------------------------------------------------------------------
(* The parsers jsmn_parse goes through *)

\* A lexicon of what stands in files: no lexeme is the end of the text.
Unending(L) == Lexicon(L) /\ \A l \in L : l.class # "nul"

\* What the lemmas below are about: a text, and the parsers jsmn_parse goes through.
\* There is room for a number of tokens; for any number if no error was met in the end.
Running(L, text, last, after, room) ==
  /\ Unending(L) /\ text \in Seq(L) /\ Parsing(text, last, after)
  /\ room \in Nat
  /\ room <= MaxTokens \/ after[last].error = "none"

\* One of them that has met no error.
Reached(last, after, p) ==
  \E n \in 0 .. last : p = after[n] /\ p.error = "none" /\ n < p.pos

LEMMA ReachedInv ==
  ASSUME NEW text, NEW last, NEW after, Parsing(text, last, after), NEW p, Reached(last, after, p)
  PROVE  /\ ParserInv(text, p) /\ p \in JsmnParser /\ p.error = "none"
         /\ p.pos \in Nat /\ p.pos > 0 /\ p.super \in 0 .. Len(p.tokens) /\ IsSeq(p.tokens)
         /\ \A i \in 1 .. Len(p.tokens) : p.tokens[i] \in JsmnToken
<1>1. ParserInv(text, p) /\ p.error = "none"
  BY DEF Reached, Parsing
<1>2. p \in JsmnParser /\ p.pos \in Nat /\ p.tokens \in Seq(JsmnToken) /\ p.pos \in 1 .. Len(text) + 1
  BY <1>1 DEF ParserInv, JsmnParser
<1>3. DOMAIN p.tokens = 1 .. Len(p.tokens) /\ Len(p.tokens) \in Nat
  BY <1>2
<1>4. p.super \in 0 .. Len(p.tokens)
  BY <1>1, <1>3 DEF ParserInv, SuperInnermost, Unclosed
<1> QED BY <1>1, <1>2, <1>4, SeqIs

LEMMA EndIs ==
  ASSUME NEW L, Unending(L), NEW text \in Seq(L), NEW pos \in Nat \ {0}
  PROVE  EndOfText(text, pos) <=> pos > Len(text)
<1> SUFFICES ASSUME pos <= Len(text) PROVE text[pos].class # "nul"
  BY DEF EndOfText
<1>1. text[pos] \in L
  OBVIOUS
<1> QED BY <1>1 DEF Unending

LEMMA NextTurn ==
  ASSUME NEW L, NEW text, NEW last, NEW after, NEW room, Running(L, text, last, after, room),
         NEW p, Reached(last, after, p), p.pos <= Len(text),
         JsmnTurn(text, p).error = "none"
  PROVE  Reached(last, after, JsmnTurn(text, p))
<1> DEFINE q == JsmnTurn(text, p)
<1>1. PICK n \in 0 .. last : p = after[n] /\ p.error = "none" /\ n < p.pos
  BY DEF Reached
<1>2. /\ ParserInv(text, p) /\ p.pos \in Nat /\ p.pos > 0 /\ Len(text) \in Nat
      /\ last \in Nat /\ Len(text) <= last
      /\ Lexicon(L) /\ text \in Seq(L)
  <2>1. Parsing(text, last, after) /\ Unending(L) /\ text \in Seq(L)
    BY DEF Running
  <2>2. ParserInv(text, p) /\ p.pos \in Nat /\ p.pos > 0
    BY <2>1, ReachedInv
  <2>3. Len(text) \in Nat /\ last \in Nat /\ Len(text) <= last
    BY <2>1 DEF Parsing
  <2> QED BY <2>1, <2>2, <2>3 DEF Unending
<1>3. ~ EndOfText(text, p.pos)
  BY <1>2, EndIs DEF Running
<1>4. n + 1 \in 1 .. last /\ (n + 1) - 1 = n /\ n + 1 \in 0 .. last
  BY <1>1, <1>2
<1>5. after[n + 1] = q
  BY <1>1, <1>3, <1>4 DEF Running, Parsing, ParserTurn
<1>6. ParserInv(text, q) /\ p.pos < q.pos
  BY <1>1, <1>2, <1>3, TurnInv DEF GoesOn
<1>7. q.pos \in Nat
  BY <1>6 DEF ParserInv, JsmnParser
<1> HIDE DEF q
<1>8. n + 1 < q.pos
  BY <1>1, <1>2, <1>6, <1>7
<1> QED BY <1>4, <1>5, <1>8 DEF Reached, q

\* An array that is full stops the parser.
LEMMA FullStops ==
  ASSUME NEW p \in JsmnParser, NEW type, NEW start, NEW end, NEW next,
         Len(p.tokens) >= MaxTokens
  PROVE  AddToken(p, type, start, end, next).error = "nomem"
BY DEF AddToken, Stop, JsmnParser

\* So it is not, where there is room for a token.
LEMMA RoomLeft ==
  ASSUME NEW L, NEW text, NEW last, NEW after, NEW room, Running(L, text, last, after, room),
         NEW p, Reached(last, after, p), p.pos <= Len(text), Len(p.tokens) + 1 <= room,
         Len(p.tokens) >= MaxTokens => JsmnTurn(text, p).error # "none"
  PROVE  Len(p.tokens) < MaxTokens
<1>1. /\ Parsing(text, last, after) /\ last \in Nat /\ Len(text) \in Nat /\ Len(text) <= last
      /\ room \in Nat /\ (room <= MaxTokens \/ after[last].error = "none")
      /\ text \in Seq(L) /\ Unending(L)
  BY DEF Running, Parsing
<1>2. p.pos \in Nat /\ p.pos > 0 /\ p.error = "none" /\ Len(p.tokens) \in Nat
  <2>1. p.pos \in Nat /\ p.pos > 0 /\ p.error = "none" /\ IsSeq(p.tokens)
    BY <1>1, ReachedInv
  <2> QED BY <2>1 DEF IsSeq
<1> SUFFICES ASSUME ~ (Len(p.tokens) < MaxTokens) PROVE FALSE
  OBVIOUS
<1> DEFINE q == JsmnTurn(text, p)
<1>3. q.error # "none" /\ after[last].error = "none"
  BY <1>1, <1>2, TokensAssumption
<1>4. PICK n \in 0 .. last : p = after[n] /\ n < p.pos
  BY DEF Reached
<1>5. n + 1 \in 1 .. last /\ n + 1 \in 0 .. last /\ (n + 1) - 1 = n /\ last - (n + 1) \in Nat
  BY <1>1, <1>2, <1>4
<1>6. after[n + 1] = q
  <2>1. ~ EndOfText(text, p.pos)
    BY <1>1, <1>2, EndIs
  <2> QED BY <1>1, <1>2, <1>4, <1>5, <2>1 DEF Parsing, ParserTurn
<1> HIDE DEF q
<1> DEFINE m == n + 1
           S == {j \in 0 .. last - m : after[m + j] = q}
<1>7. m \in Nat /\ last - m \in Nat
  BY <1>5
<1> HIDE DEF m
<1>8. 0 .. last - m \subseteq S
  <2>1. 0 \in S
    <3>1. m + 0 = m
      BY <1>7
    <3> QED BY <1>6, <1>7, <3>1 DEF m
  <2>2. ASSUME NEW j \in 0 .. last - m - 1, j \in S PROVE j + 1 \in S
    <3>1. m + (j + 1) \in 1 .. last /\ (m + (j + 1)) - 1 = m + j /\ j + 1 \in 0 .. last - m
      BY <1>1, <1>7
    <3>2. after[m + (j + 1)] = ParserTurn(text, after[m + j])
      BY <1>1, <3>1 DEF Parsing
    <3>3. after[m + j] = q
      BY <2>2
    <3> QED BY <1>3, <3>1, <3>2, <3>3 DEF ParserTurn
  <2> HIDE DEF S
  <2> QED BY <1>7, <2>1, <2>2, UpTo
<1>9. after[last] = q
  <2>1. last - m \in S
    <3>1. last - m \in 0 .. last - m
      BY <1>7
    <3> HIDE DEF S
    <3> QED BY <1>8, <3>1
  <2>2. after[m + (last - m)] = q
    BY <2>1
  <2> QED BY <1>1, <1>7, <2>2, m + (last - m) = last
<1> QED BY <1>3, <1>9

LEMMA ReachedLast ==
  ASSUME NEW L, NEW text, NEW last, NEW after, NEW room, Running(L, text, last, after, room),
         NEW p, Reached(last, after, p), p.pos > Len(text), Unclosed(p) = {}
  PROVE  jsmn_parse(text) = p
<1>1. PICK n \in 0 .. last : p = after[n] /\ p.error = "none" /\ n < p.pos
  BY DEF Reached
<1>2. last \in Nat /\ last - n \in Nat
  BY DEF Running, Parsing
<1>3. EndOfText(text, p.pos)
  BY DEF EndOfText
<1> DEFINE S == {j \in 0 .. last - n : after[n + j] = p}
<1>4. 0 .. last - n \subseteq S
  <2>1. 0 \in S
    BY <1>1, <1>2
  <2>2. ASSUME NEW j \in 0 .. last - n - 1, j \in S PROVE j + 1 \in S
    <3>1. n + (j + 1) \in 1 .. last /\ (n + (j + 1)) - 1 = n + j /\ j + 1 \in 0 .. last - n
      BY <1>2
    <3>2. after[n + (j + 1)] = ParserTurn(text, after[n + j])
      BY <3>1 DEF Running, Parsing
    <3>3. after[n + j] = p
      BY <2>2
    <3> QED BY <1>3, <3>1, <3>2, <3>3 DEF ParserTurn
  <2> HIDE DEF S
  <2> QED BY <1>2, <2>1, <2>2, UpTo
<1>5. after[last] = p
  <2>1. last - n \in S
    <3>1. last - n \in 0 .. last - n
      BY <1>2
    <3> HIDE DEF S
    <3> QED BY <1>4, <3>1
  <2>2. after[n + (last - n)] = p
    BY <2>1
  <2> QED BY <1>2, <2>2, n + (last - n) = last
<1> QED BY <1>5 DEF Running, Parsing, LastCheck, Unmatched

-----------------------------------------------------------------------------
(* What reading a piece of the text gives *)

\* The piece stands in the text at pos.
Placed(text, pos, piece) ==
  /\ pos + Len(piece) <= Len(text) + 1
  /\ \A i \in 1 .. Len(piece) : text[pos + i - 1] = piece[i]

\* A primitive ends before pos.
EndsWord(text, pos) == pos > Len(text) \/ text[pos].class \in EndOfWord

\* From p to q, the parser read n lexemes, which gave the tokens new, and counted
\* that many values for the container that is open.
Took(text, p, q, n, new, count) ==
  /\ q.pos = p.pos + n /\ q.super = p.super
  /\ Len(q.tokens) = Len(p.tokens) + Len(new)
  /\ \A i \in 1 .. Len(p.tokens) :
       /\ q.tokens[i].type = p.tokens[i].type
       /\ q.tokens[i].start = p.tokens[i].start
       /\ q.tokens[i].end = p.tokens[i].end
       /\ q.tokens[i].size = IF i = p.super THEN p.tokens[i].size + count ELSE p.tokens[i].size
  /\ \A i \in 1 .. Len(new) :
       /\ q.tokens[Len(p.tokens) + i].end # 0
       /\ Seen(text, q.tokens[Len(p.tokens) + i]) = new[i]

\* Wherever the parser comes upon the piece, with room for its tokens, it reads
\* it like that.  Unless free, something must end a primitive behind the piece.
Reads(text, last, after, room, piece, new, count, free) ==
  /\ IsSeq(piece) /\ IsSeq(new) /\ count \in Nat
  /\ \A p : /\ Reached(last, after, p) /\ Placed(text, p.pos, piece)
            /\ Len(p.tokens) + Len(new) <= room
            /\ free \/ EndsWord(text, p.pos + Len(piece))
            => \E q : Reached(last, after, q) /\ Took(text, p, q, Len(piece), new, count)

LEMMA ReadsNothing ==
  ASSUME NEW text, NEW last, NEW after, NEW room, room \in Nat, Parsing(text, last, after)
  PROVE  Reads(text, last, after, room, << >>, << >>, 0, TRUE)
<1> SUFFICES ASSUME NEW p, Reached(last, after, p) PROVE Took(text, p, p, 0, << >>, 0)
  BY NothingIs DEF Reads
<1>1. /\ p.pos \in Nat /\ IsSeq(p.tokens) /\ Len(p.tokens) \in Nat
      /\ \A i \in 1 .. Len(p.tokens) : p.tokens[i].size \in Nat
  BY ReachedInv DEF IsSeq, JsmnToken
<1> QED BY <1>1, NothingIs DEF Took

\* What jsmn_parse passes over.
Passed(l) == l.class \in {"space", "colon", "comma"}

LEMMA ReadsSkip ==
  ASSUME NEW L, NEW text, NEW last, NEW after, NEW room, Running(L, text, last, after, room),
         NEW l, Passed(l)
  PROVE  Reads(text, last, after, room, <<l>>, << >>, 0, TRUE)
<1> SUFFICES ASSUME NEW p, Reached(last, after, p), Placed(text, p.pos, <<l>>)
             PROVE \E q : Reached(last, after, q) /\ Took(text, p, q, 1, << >>, 0)
  BY NothingIs, OneIs DEF Reads
<1>1. Parsing(text, last, after) /\ text \in Seq(L) /\ room \in Nat
  BY DEF Running
<1>2. /\ p.pos \in Nat /\ IsSeq(p.tokens) /\ Len(p.tokens) \in Nat /\ p \in JsmnParser
      /\ p.error = "none" /\ Len(text) \in Nat
      /\ \A i \in 1 .. Len(p.tokens) : p.tokens[i].size \in Nat
  <2>1. /\ p.pos \in Nat /\ IsSeq(p.tokens) /\ p \in JsmnParser /\ p.error = "none"
        /\ \A i \in 1 .. Len(p.tokens) : p.tokens[i] \in JsmnToken
    BY <1>1, ReachedInv
  <2> QED BY <1>1, <2>1 DEF IsSeq, JsmnToken
<1>3. p.pos <= Len(text) /\ text[p.pos] = l
  <2>1. p.pos + 1 <= Len(text) + 1 /\ text[p.pos + 1 - 1] = l
    BY OneIs DEF Placed
  <2> QED BY <1>2, <2>1
<1> DEFINE q == [p EXCEPT !.pos = p.pos + 1]
<1>4. JsmnTurn(text, p) = q
  BY <1>3 DEF JsmnTurn, Passed
<1>5. q.pos = p.pos + 1 /\ q.tokens = p.tokens /\ q.super = p.super /\ q.error = p.error
  BY <1>2 DEF JsmnParser
<1> HIDE DEF q
<1>6. Reached(last, after, q)
  BY <1>2, <1>3, <1>4, <1>5, NextTurn
<1>7. Took(text, p, q, 1, << >>, 0)
  BY <1>2, <1>5, NothingIs DEF Took
<1> QED BY <1>6, <1>7

\* One piece after the other.
LEMMA ReadsBoth ==
  ASSUME NEW text, NEW last, NEW after, NEW room, room \in Nat, Parsing(text, last, after),
         NEW s, NEW sNew, NEW sCount, NEW sFree, Reads(text, last, after, room, s, sNew, sCount, sFree),
         NEW t, NEW tNew, NEW tCount, NEW tFree, Reads(text, last, after, room, t, tNew, tCount, tFree),
         sFree \/ (Len(t) > 0 /\ t[1].class \in EndOfWord)
  PROVE  Reads(text, last, after, room, s \o t, sNew \o tNew, sCount + tCount, tFree)
<1>1. /\ IsSeq(s) /\ IsSeq(t) /\ IsSeq(s \o t) /\ Len(s \o t) = Len(s) + Len(t)
      /\ Len(s) \in Nat /\ Len(t) \in Nat
      /\ \A i \in 1 .. Len(s) : (s \o t)[i] = s[i]
      /\ \A i \in 1 .. Len(t) : (s \o t)[Len(s) + i] = t[i]
  <2>1. IsSeq(s) /\ IsSeq(t)
    BY DEF Reads
  <2>2. Len(s) \in Nat /\ Len(t) \in Nat
    BY <2>1 DEF IsSeq
  <2> QED BY <2>1, <2>2, ConcatIs
<1>2. /\ IsSeq(sNew) /\ IsSeq(tNew) /\ IsSeq(sNew \o tNew)
      /\ Len(sNew \o tNew) = Len(sNew) + Len(tNew)
      /\ Len(sNew) \in Nat /\ Len(tNew) \in Nat
      /\ \A i \in 1 .. Len(sNew) : (sNew \o tNew)[i] = sNew[i]
      /\ \A i \in 1 .. Len(tNew) : (sNew \o tNew)[Len(sNew) + i] = tNew[i]
  <2>1. IsSeq(sNew) /\ IsSeq(tNew)
    BY DEF Reads
  <2>2. Len(sNew) \in Nat /\ Len(tNew) \in Nat
    BY <2>1 DEF IsSeq
  <2> QED BY <2>1, <2>2, ConcatIs
<1>3. sCount \in Nat /\ tCount \in Nat /\ sCount + tCount \in Nat
  BY DEF Reads
<1> SUFFICES ASSUME NEW p, Reached(last, after, p), Placed(text, p.pos, s \o t),
                    Len(p.tokens) + Len(sNew \o tNew) <= room,
                    tFree \/ EndsWord(text, p.pos + Len(s \o t))
             PROVE  \E q : /\ Reached(last, after, q)
                           /\ Took(text, p, q, Len(s \o t), sNew \o tNew, sCount + tCount)
  BY <1>1, <1>2, <1>3 DEF Reads
<1>4. /\ p.pos \in Nat /\ Len(p.tokens) \in Nat /\ room \in Nat
      /\ \A i \in 1 .. Len(p.tokens) : p.tokens[i].size \in Nat
  BY ReachedInv DEF IsSeq, JsmnToken, Reads
<1> DEFINE a == Len(sNew)
           b == Len(tNew)
           c == Len(p.tokens)
<1>13. /\ a \in Nat /\ b \in Nat /\ c \in Nat /\ room \in Nat
       /\ c + (a + b) <= room
  BY <1>2, <1>4
<1> HIDE DEF a, b, c
<1>5. /\ p.pos + (Len(s) + Len(t)) <= Len(text) + 1
      /\ \A i \in 1 .. Len(s) : text[p.pos + i - 1] = s[i]
      /\ \A i \in 1 .. Len(t) : text[p.pos + (Len(s) + i) - 1] = t[i]
  <2>1. p.pos + (Len(s) + Len(t)) <= Len(text) + 1
    BY <1>1 DEF Placed
  <2>2. ASSUME NEW i \in 1 .. Len(s) PROVE text[p.pos + i - 1] = s[i]
    BY <1>1, i \in 1 .. Len(s \o t) DEF Placed
  <2>3. ASSUME NEW i \in 1 .. Len(t) PROVE text[p.pos + (Len(s) + i) - 1] = t[i]
    BY <1>1, Len(s) + i \in 1 .. Len(s \o t) DEF Placed
  <2> QED BY <2>1, <2>2, <2>3
<1>6. PICK m : Reached(last, after, m) /\ Took(text, p, m, Len(s), sNew, sCount)
  <2>1. Placed(text, p.pos, s)
    <3>1. p.pos + Len(s) <= Len(text) + 1
      BY <1>1, <1>4, <1>5
    <3> QED BY <1>5, <3>1 DEF Placed
  <2>2. Len(p.tokens) + Len(sNew) <= room
    <3>1. c + a <= room
      BY <1>13
    <3> QED BY <3>1 DEF a, c
  <2>3. sFree \/ EndsWord(text, p.pos + Len(s))
    <3> SUFFICES ASSUME Len(t) > 0, t[1].class \in EndOfWord PROVE EndsWord(text, p.pos + Len(s))
      OBVIOUS
    <3>1. 1 \in 1 .. Len(t) /\ p.pos + (Len(s) + 1) - 1 = p.pos + Len(s)
      BY <1>1, <1>4
    <3>2. text[p.pos + Len(s)] = t[1]
      BY <1>5, <3>1
    <3> QED BY <3>2 DEF EndsWord
  <2> QED BY <2>1, <2>2, <2>3 DEF Reads
<1>7. /\ m.pos = p.pos + Len(s) /\ m.super = p.super
      /\ Len(m.tokens) = Len(p.tokens) + Len(sNew)
  BY <1>6 DEF Took
<1>8. PICK q : Reached(last, after, q) /\ Took(text, m, q, Len(t), tNew, tCount)
  <2>1. Placed(text, m.pos, t)
    <3>1. m.pos + Len(t) <= Len(text) + 1
      BY <1>1, <1>4, <1>5, <1>7
    <3>2. ASSUME NEW i \in 1 .. Len(t) PROVE text[m.pos + i - 1] = t[i]
      <4>1. m.pos + i - 1 = p.pos + (Len(s) + i) - 1
        BY <1>1, <1>4, <1>7
      <4> QED BY <1>5, <4>1
    <3> QED BY <3>1, <3>2 DEF Placed
  <2>2. Len(m.tokens) + Len(tNew) <= room
    <3>1. (c + a) + b <= room
      BY <1>13
    <3> QED BY <1>7, <3>1 DEF a, b, c
  <2>3. tFree \/ EndsWord(text, m.pos + Len(t))
    <3>1. m.pos + Len(t) = p.pos + Len(s \o t)
      BY <1>1, <1>4, <1>7
    <3> QED BY <3>1
  <2> QED BY <1>6, <2>1, <2>2, <2>3 DEF Reads
<1>9. /\ q.pos = p.pos + Len(s \o t) /\ q.super = p.super
      /\ Len(q.tokens) = Len(p.tokens) + Len(sNew \o tNew)
  <2>1. /\ q.pos = m.pos + Len(t) /\ q.super = m.super
        /\ Len(q.tokens) = Len(m.tokens) + Len(tNew)
    BY <1>8 DEF Took
  <2>2. q.pos = p.pos + (Len(s) + Len(t))
    BY <1>1, <1>4, <1>7, <2>1
  <2>3. (c + a) + b = c + (a + b)
    BY <1>13
  <2>4. Len(q.tokens) = Len(p.tokens) + (Len(sNew) + Len(tNew))
    BY <1>7, <2>1, <2>3 DEF a, b, c
  <2> QED BY <1>1, <1>2, <1>7, <2>1, <2>2, <2>4
<1>10. ASSUME NEW i \in 1 .. Len(p.tokens)
       PROVE  /\ q.tokens[i].type = p.tokens[i].type
              /\ q.tokens[i].start = p.tokens[i].start
              /\ q.tokens[i].end = p.tokens[i].end
              /\ q.tokens[i].size = IF i = p.super THEN p.tokens[i].size + (sCount + tCount)
                                    ELSE p.tokens[i].size
  <2>1. i \in 1 .. Len(m.tokens) /\ p.tokens[i].size \in Nat
    BY <1>2, <1>4, <1>7
  <2>2. /\ q.tokens[i].type = m.tokens[i].type
        /\ q.tokens[i].start = m.tokens[i].start
        /\ q.tokens[i].end = m.tokens[i].end
        /\ q.tokens[i].size = IF i = m.super THEN m.tokens[i].size + tCount ELSE m.tokens[i].size
    BY <1>8, <2>1 DEF Took
  <2>3. /\ m.tokens[i].type = p.tokens[i].type
        /\ m.tokens[i].start = p.tokens[i].start
        /\ m.tokens[i].end = p.tokens[i].end
        /\ m.tokens[i].size = IF i = p.super THEN p.tokens[i].size + sCount ELSE p.tokens[i].size
    BY <1>6 DEF Took
  <2> QED BY <1>3, <1>7, <2>1, <2>2, <2>3
<1>11. ASSUME NEW i \in 1 .. Len(sNew \o tNew)
       PROVE  /\ q.tokens[Len(p.tokens) + i].end # 0
              /\ Seen(text, q.tokens[Len(p.tokens) + i]) = (sNew \o tNew)[i]
  <2>1. CASE i <= Len(sNew)
    <3> DEFINE k == Len(p.tokens) + i
    <3>1. i \in 1 .. Len(sNew) /\ k \in 1 .. Len(m.tokens)
      BY <1>2, <1>4, <1>7, <2>1
    <3>2. m.tokens[k].end # 0 /\ Seen(text, m.tokens[k]) = sNew[i]
      BY <1>6, <3>1 DEF Took
    <3>3. /\ k # p.super
          /\ q.tokens[k].type = m.tokens[k].type /\ q.tokens[k].start = m.tokens[k].start
          /\ q.tokens[k].end = m.tokens[k].end /\ q.tokens[k].size = m.tokens[k].size
      <4>1. p.super \in 0 .. Len(p.tokens)
        BY ReachedInv
      <4>2. k # p.super
        BY <1>4, <3>1, <4>1
      <4> HIDE DEF k
      <4> QED BY <1>7, <1>8, <3>1, <4>2 DEF Took
    <3> HIDE DEF k
    <3>4. Seen(text, q.tokens[k]) = Seen(text, m.tokens[k])
      BY <3>3 DEF Seen, Lexemes
    <3>5. (sNew \o tNew)[i] = sNew[i]
      BY <1>2, <3>1
    <3> QED BY <3>2, <3>3, <3>4, <3>5 DEF k
  <2>2. CASE ~ (i <= Len(sNew))
    <3> DEFINE j == i - Len(sNew)
    <3>1. j \in 1 .. Len(tNew) /\ i = Len(sNew) + j /\ Len(p.tokens) + i = Len(m.tokens) + j
      BY <1>2, <1>4, <1>7, <2>2
    <3> HIDE DEF j
    <3>2. q.tokens[Len(m.tokens) + j].end # 0 /\ Seen(text, q.tokens[Len(m.tokens) + j]) = tNew[j]
      BY <1>8, <3>1 DEF Took
    <3>3. (sNew \o tNew)[i] = tNew[j]
      BY <1>2, <3>1
    <3> QED BY <3>1, <3>2, <3>3
  <2> QED BY <2>1, <2>2
<1>12. Took(text, p, q, Len(s \o t), sNew \o tNew, sCount + tCount)
  BY <1>9, <1>10, <1>11 DEF Took
<1> QED BY <1>8, <1>12

-----------------------------------------------------------------------------
(* Strings and primitives *)

LEMMA TurnAdds ==
  ASSUME NEW L, NEW text, NEW last, NEW after, NEW room, Running(L, text, last, after, room),
         NEW p, Reached(last, after, p), p.pos <= Len(text), Len(p.tokens) + 1 <= room,
         NEW type \in {"string", "primitive"}, NEW start \in Nat, NEW end \in Nat \ {0},
         NEW n \in Nat,
         JsmnTurn(text, p) = AddToken(p, type, start, end, p.pos + n)
  PROVE  LET t == [type |-> type, start |-> start, end |-> end, size |-> 0]
         IN  \E q : Reached(last, after, q) /\ Took(text, p, q, n, <<Seen(text, t)>>, 1)
<1> DEFINE t == [type |-> type, start |-> start, end |-> end, size |-> 0]
           q == JsmnTurn(text, p)
           k == Len(p.tokens)
<1>1. Parsing(text, last, after) /\ room \in Nat
  BY DEF Running
<1>2. ParserInv(text, p) /\ p \in JsmnParser /\ p.error = "none" /\ p.pos \in Nat /\ IsSeq(p.tokens)
  BY <1>1, ReachedInv
<1>3. k \in Nat /\ k < MaxTokens /\ type \in TokenTypes /\ p.pos + n \in Nat
  <2>1. k \in Nat
    BY <1>2 DEF IsSeq
  <2> HIDE DEF k
  <2>2. k < MaxTokens
    BY <1>2, <2>1, FullStops, RoomLeft DEF k
  <2> QED BY <1>2, <2>1, <2>2 DEF TokenTypes
<1>4. Adds(p, t, p.pos + n, q)
  BY <1>2, <1>3, AddedTokens
<1> HIDE DEF t, q
<1>5. q.pos = p.pos + n /\ q.super = p.super /\ q.error = "none"
  <2>1. q = [p EXCEPT !.tokens = q.tokens, !.pos = p.pos + n]
    BY <1>4 DEF Adds
  <2> QED BY <1>2, <2>1 DEF JsmnParser
<1>6. Reached(last, after, q)
  BY <1>5, NextTurn DEF q
<1>7. /\ Len(q.tokens) = k + 1 /\ q.tokens[k + 1] = t
      /\ \A i \in 1 .. k :
           /\ q.tokens[i].type = p.tokens[i].type
           /\ q.tokens[i].start = p.tokens[i].start
           /\ q.tokens[i].end = p.tokens[i].end
           /\ q.tokens[i].size =
                IF i = p.super THEN p.tokens[i].size + 1 ELSE p.tokens[i].size
  BY <1>4 DEF Adds
<1>8. t.end # 0
  BY DEF t
<1>9. \A i \in 1 .. 1 : q.tokens[k + i].end # 0 /\ Seen(text, q.tokens[k + i]) = <<Seen(text, t)>>[i]
  BY <1>7, <1>8
<1>10. Took(text, p, q, n, <<Seen(text, t)>>, 1)
  BY <1>5, <1>7, <1>9, OneIs DEF Took
<1> QED BY <1>6, <1>10 DEF t

\* What may be a primitive, and the token of it.
Primary(w) == w.class \in {"word", "number"}
WordToken(w) ==
  [ type |-> "primitive",
    val  |-> IF w.class = "number" THEN w.num ELSE NotNumber, size |-> 0 ]

\* A primitive of one lexeme.
LEMMA ReadsWord ==
  ASSUME NEW L, NEW text, NEW last, NEW after, NEW room, Running(L, text, last, after, room),
         NEW w, Primary(w)
  PROVE  Reads(text, last, after, room, <<w>>, <<WordToken(w)>>, 1, FALSE)
<1> DEFINE x == WordToken(w)
<1> HIDE DEF x
<1> SUFFICES ASSUME NEW p, Reached(last, after, p), Placed(text, p.pos, <<w>>),
                    Len(p.tokens) + 1 <= room, EndsWord(text, p.pos + 1)
             PROVE \E q : Reached(last, after, q) /\ Took(text, p, q, 1, <<x>>, 1)
  BY OneIs DEF Reads, x
<1>1. Parsing(text, last, after) /\ text \in Seq(L) /\ Unending(L) /\ Len(text) \in Nat /\ room \in Nat
  BY DEF Running
<1>2. ParserInv(text, p) /\ p.pos \in Nat /\ p.pos > 0 /\ p.error = "none"
  BY <1>1, ReachedInv
<1>3. p.pos <= Len(text) /\ text[p.pos] = w
  <2>1. p.pos + 1 <= Len(text) + 1 /\ text[p.pos + 1 - 1] = w
    BY OneIs DEF Placed
  <2> QED BY <1>1, <1>2, <2>1
<1>4. WordEnd(text, p.pos) = p.pos + 1
  <2> DEFINE e == WordEnd(text, p.pos)
  <2>1. p.pos \in 1 .. Len(text) + 1
    BY <1>1, <1>2, <1>3
  <2>2. /\ e \in p.pos .. Len(text) + 1 /\ StopsWord(text, e)
        /\ \A n \in p.pos .. e - 1 : ~ StopsWord(text, n)
    BY <1>1, <2>1, WordEnds
  <2>3. ~ StopsWord(text, p.pos)
    <3>1. ~ EndOfText(text, p.pos)
      BY <1>1, <1>2, <1>3, EndIs
    <3> QED BY <1>3, <3>1 DEF StopsWord, EndOfWord, Primary
  <2>4. StopsWord(text, p.pos + 1)
    BY DEF StopsWord, EndsWord, EndOfText
  <2> HIDE DEF e
  <2>5. e # p.pos
    BY <2>2, <2>3
  <2>6. ~ (p.pos + 1 \in p.pos .. e - 1)
    BY <2>2, <2>4
  <2>7. e = p.pos + 1
    BY <1>1, <1>2, <2>2, <2>5, <2>6
  <2> QED BY <2>7 DEF e
<1>5. Primitive(text, p) = AddToken(p, "primitive", p.pos, p.pos + 1, p.pos + 1)
  <2>1. Primitive(text, p) =
          IF ~ EndOfText(text, p.pos + 1) /\ text[p.pos + 1].class = "control" THEN Stop(p, "inval")
          ELSE AddToken(p, "primitive", p.pos, p.pos + 1, p.pos + 1)
    <3> DEFINE e == WordEnd(text, p.pos)
    <3>1. Primitive(text, p) =
            IF ~ EndOfText(text, e) /\ text[e].class = "control" THEN Stop(p, "inval")
            ELSE AddToken(p, "primitive", p.pos, e, e)
      BY DEF Primitive, WordEnd
    <3> HIDE DEF e
    <3> QED BY <1>4, <3>1 DEF e
  <2>2. ~ EndOfText(text, p.pos + 1) => text[p.pos + 1].class # "control"
    BY DEF EndsWord, EndOfText, EndOfWord
  <2> QED BY <2>1, <2>2
<1>6. JsmnTurn(text, p) = AddToken(p, "primitive", p.pos, p.pos + 1, p.pos + 1)
  BY <1>3, <1>5 DEF JsmnTurn, Primary
<1> DEFINE t == [type |-> "primitive", start |-> p.pos, end |-> p.pos + 1, size |-> 0]
<1>7. Seen(text, t) = x
  BY <1>3 DEF Seen, x, WordToken
<1>8. \E q : Reached(last, after, q) /\ Took(text, p, q, 1, <<Seen(text, t)>>, 1)
  <2>1. p.pos \in Nat /\ p.pos + 1 \in Nat \ {0} /\ 1 \in Nat
    BY <1>2
  <2> QED BY <1>3, <1>6, <2>1, TurnAdds
<1> QED BY <1>7, <1>8

\* The states Legible goes through, of any string.
StateBehind(state, l) ==
  CASE state = "escape" ->
         IF l.class \in {"quote", "backslash", "escape"} THEN "plain" ELSE "not"
    [] state = "plain" ->
         IF l = Quote THEN "not" ELSE IF l = Backslash THEN "escape" ELSE "plain"
    [] OTHER -> "not"

States(s, after) ==
  after = [n \in 0 .. Len(s) |->
             IF n = 0 THEN "plain" ELSE StateBehind(after[n - 1], s[n])]

LEMMA StatesOf ==
  ASSUME NEW s, IsSeq(s)
  PROVE  \E after : /\ after[0] = "plain" /\ (Legible(s) <=> after[Len(s)] = "plain")
                    /\ \A n \in 1 .. Len(s) : after[n] = StateBehind(after[n - 1], s[n])
<1> DEFINE X == {"plain", "escape", "not"}
           N == Len(s)
           step == [n \in 1 .. N |-> [x \in X |-> StateBehind(x, s[n])]]
<1>1. N \in Nat
  BY DEF IsSeq
<1>2. \E f : Repeats(f, N, X, "plain", step)
  <2>1. step \in [1 .. N -> [X -> X]]
    BY DEF StateBehind
  <2>2. "plain" \in X
    OBVIOUS
  <2> HIDE DEF N, X, step
  <2> QED BY <1>1, <2>1, <2>2, Repeated
<1>3. PICK f : Repeats(f, N, X, "plain", step)
  BY <1>2
<1>4. States(s, f)
  <2>1. f \in [0 .. N -> X] /\ f[0] = "plain" /\ \A n \in 1 .. N : f[n] = step[n][f[n - 1]]
    BY <1>3 DEF Repeats
  <2>2. ASSUME NEW n \in 0 .. N
        PROVE  f[n] = IF n = 0 THEN "plain" ELSE StateBehind(f[n - 1], s[n])
    <3>1. CASE n = 0
      BY <2>1, <3>1
    <3>2. CASE n # 0
      <4>1. n \in 1 .. N /\ n - 1 \in 0 .. N
        BY <1>1, <3>2
      <4>2. f[n - 1] \in X /\ f[n] = step[n][f[n - 1]]
        BY <2>1, <4>1
      <4>3. step[n] = [x \in X |-> StateBehind(x, s[n])]
        BY <4>1
      <4> HIDE DEF X, step
      <4> QED BY <3>2, <4>2, <4>3
    <3> QED BY <3>1, <3>2
  <2>3. f = [n \in 0 .. N |-> f[n]]
    BY <2>1
  <2> QED BY <2>2, <2>3 DEF States
<1> DEFINE after == CHOOSE g : States(s, g)
<1>5. States(s, after)
  BY <1>4
<1>6. Legible(s) <=> after[N] = "plain"
  BY DEF Legible, States, StateBehind
<1> HIDE DEF after
<1>7. after[0] = "plain" /\ \A n \in 1 .. N : after[n] = StateBehind(after[n - 1], s[n])
  BY <1>1, <1>5 DEF States
<1> QED BY <1>6, <1>7

\* The scan of a string that is legible comes to the quote behind it.
LEMMA LegibleEnds ==
  ASSUME NEW L, Unending(L), NEW text \in Seq(L), NEW start \in Nat \ {0},
         NEW s, IsSeq(s), Legible(s), Placed(text, start, s),
         start + Len(s) <= Len(text), text[start + Len(s)] = Quote
  PROVE  StringEnd(text, start) = [end |-> start + Len(s), error |-> "none"]
<1> DEFINE N == Len(s)
<1>1. N \in Nat /\ Len(text) \in Nat /\ start \in 1 .. Len(text) + 2
  BY DEF IsSeq
<1>2. PICK after : /\ after[0] = "plain" /\ after[N] = "plain"
                   /\ \A n \in 1 .. N : after[n] = StateBehind(after[n - 1], s[n])
  BY StatesOf
<1>3. PICK scan : Scans(text, start, scan) /\ StringEnd(text, start) = scan[start]
  BY <1>1, StringScan
<1>4. ASSUME NEW pos \in start .. Len(text)
      PROVE  scan[pos] =
               IF text[pos] = Quote THEN [end |-> pos, error |-> "none"]
               ELSE IF text[pos] # Backslash THEN scan[pos + 1]
               ELSE IF pos = Len(text) THEN [end |-> 0, error |-> "part"]
               ELSE IF text[pos + 1].class \in {"quote", "backslash", "escape"} THEN scan[pos + 2]
               ELSE [end |-> 0, error |-> "inval"]
  <2>1. ~ EndOfText(text, pos)
    BY <1>1, EndIs
  <2>2. scan[pos] = ScanAt(text, scan, pos)
    BY <1>1, <1>3, pos \in start .. Len(text) + 2 DEF Scans
  <2> QED BY <2>1, <2>2 DEF ScanAt
<1>5. \A i \in 1 .. N : text[start + i - 1] = s[i]
  BY DEF Placed
<1> DEFINE Good(i) == \/ after[i] = "not"
                      \/ after[i] = "plain" /\ scan[start] = scan[start + i]
                      \/ /\ after[i] = "escape" /\ i > 0 /\ s[i] = Backslash
                         /\ scan[start] = scan[start + (i - 1)]
           S == {i \in 0 .. N : Good(i)}
<1>6. 0 .. N \subseteq S
  <2>1. 0 \in S
    BY <1>1, <1>2
  <2>2. ASSUME NEW i \in 0 .. N - 1, i \in S PROVE i + 1 \in S
    <3>1. i + 1 \in 1 .. N /\ i + 1 \in 0 .. N /\ (i + 1) - 1 = i /\ i \in Nat
      BY <1>1
    <3>2. after[i + 1] = StateBehind(after[i], s[i + 1])
      BY <1>2, <3>1
    <3>3. text[start + i] = s[i + 1] /\ start + i \in start .. Len(text)
      <4>1. text[start + (i + 1) - 1] = s[i + 1]
        BY <1>5, <3>1
      <4>2. start + (i + 1) - 1 = start + i
        BY <3>1
      <4> QED BY <1>1, <4>1, <4>2
    <3>4. CASE after[i] = "not"
      BY <3>1, <3>2, <3>4 DEF StateBehind
    <3>5. CASE after[i] = "plain" /\ scan[start] = scan[start + i]
      <4>1. CASE s[i + 1] = Quote
        BY <3>1, <3>2, <3>5, <4>1 DEF StateBehind
      <4>2. CASE s[i + 1] = Backslash
        <5>1. Backslash # Quote
          BY DEF Backslash, Quote, Char, Lexeme
        <5>2. after[i + 1] = "escape" /\ i + 1 > 0
          BY <3>1, <3>2, <3>5, <4>2, <5>1 DEF StateBehind
        <5> QED BY <3>1, <3>5, <4>2, <5>2
      <4>3. CASE s[i + 1] # Quote /\ s[i + 1] # Backslash
        <5>1. after[i + 1] = "plain"
          BY <3>2, <3>5, <4>3 DEF StateBehind
        <5>2. scan[start + i] = scan[(start + i) + 1]
          BY <1>4, <3>3, <4>3
        <5>3. (start + i) + 1 = start + (i + 1)
          BY <3>1
        <5> QED BY <3>1, <3>5, <5>1, <5>2, <5>3
      <4> QED BY <4>1, <4>2, <4>3
    <3>6. CASE after[i] = "escape" /\ i > 0 /\ s[i] = Backslash /\ scan[start] = scan[start + (i - 1)]
      <4> DEFINE pos == start + (i - 1)
      <4>1. pos \in start .. Len(text) /\ pos # Len(text) /\ pos + 1 = start + i /\ pos + 2 = start + (i + 1)
        BY <1>1, <3>1, <3>3, <3>6
      <4>2. text[pos] = Backslash
        <5>1. i \in 1 .. N /\ start + i - 1 = pos
          BY <1>1, <3>1, <3>6
        <5> HIDE DEF pos
        <5> QED BY <1>5, <3>6, <5>1
      <4>3. Backslash # Quote
        BY DEF Backslash, Quote, Char, Lexeme
      <4> HIDE DEF pos
      <4>4. CASE s[i + 1].class \in {"quote", "backslash", "escape"}
        <5>1. after[i + 1] = "plain"
          BY <3>2, <3>6, <4>4 DEF StateBehind
        <5>2. scan[pos] = scan[pos + 2]
          BY <1>4, <3>3, <4>1, <4>2, <4>3, <4>4
        <5>3. scan[start] = scan[start + (i + 1)]
          BY <3>6, <4>1, <5>2 DEF pos
        <5> QED BY <3>1, <5>1, <5>3
      <4>5. CASE ~ (s[i + 1].class \in {"quote", "backslash", "escape"})
        BY <3>1, <3>2, <3>6, <4>5 DEF StateBehind
      <4> QED BY <4>4, <4>5
    <3>7. Good(i)
      BY <2>2
    <3> HIDE DEF S
    <3> QED BY <3>4, <3>5, <3>6, <3>7
  <2> HIDE DEF S
  <2> QED BY <1>1, <2>1, <2>2, UpTo
<1>7. scan[start] = scan[start + N]
  <2>1. Good(N)
    BY <1>1, <1>6
  <2> QED BY <1>2, <2>1
<1>8. scan[start + N] = [end |-> start + N, error |-> "none"]
  BY <1>1, <1>4
<1> QED BY <1>3, <1>7, <1>8

LEMMA StringPlace ==
  ASSUME NEW pos \in Nat, NEW n \in Nat, NEW last \in Nat, pos + (n + 2) <= last + 1
  PROVE  LET start == pos + 1
             end   == (pos + 1) + n
         IN  /\ start \in 1 .. last + 1 /\ end - 1 \in start - 1 .. last
             /\ (end - 1) - start + 1 = n
OBVIOUS

\* A string that is legible, and the only one spelled as it is.
LEMMA ReadsString ==
  ASSUME NEW L, NEW text, NEW last, NEW after, NEW room, Running(L, text, last, after, room),
         NEW s, IsSeq(Spell(s)), Legible(Spell(s)), StringOf(Spell(s)) = s
  PROVE  Reads(text, last, after, room, Quoted(s), <<[type |-> "string", val |-> s, size |-> 0]>>, 1, TRUE)
<1> DEFINE x == [type |-> "string", val |-> s, size |-> 0]
           b == Spell(s)
           n == Len(b) + 2
<1>1. /\ IsSeq(Quoted(s)) /\ Len(Quoted(s)) = n /\ Len(b) \in Nat
      /\ Quoted(s)[1] = Quote /\ Quoted(s)[Len(b) + 2] = Quote
      /\ \A i \in 1 .. Len(b) : Quoted(s)[1 + i] = b[i]
  <2>1. Len(b) \in Nat
    BY DEF IsSeq
  <2> HIDE DEF b
  <2>2. IsSeq(<<Quote>>) /\ Len(<<Quote>>) = 1 /\ <<Quote>>[1] = Quote
    BY OneIs
  <2> DEFINE o == <<Quote>> \o b
  <2>3. /\ IsSeq(o) /\ Len(o) = 1 + Len(b)
        /\ \A i \in 1 .. 1 : o[i] = <<Quote>>[i]
        /\ \A i \in 1 .. Len(b) : o[1 + i] = b[i]
    BY <2>2, ConcatIs DEF b
  <2> HIDE DEF o
  <2>4. /\ IsSeq(o \o <<Quote>>) /\ Len(o \o <<Quote>>) = Len(o) + 1
        /\ \A i \in 1 .. Len(o) : (o \o <<Quote>>)[i] = o[i]
        /\ \A i \in 1 .. 1 : (o \o <<Quote>>)[Len(o) + i] = <<Quote>>[i]
    BY <2>2, <2>3, ConcatIs
  <2>5. Quoted(s) = o \o <<Quote>>
    BY DEF Quoted, o, b
  <2>6. (o \o <<Quote>>)[1] = Quote
    BY <2>1, <2>2, <2>3, <2>4, 1 \in 1 .. Len(o), 1 \in 1 .. 1
  <2>7. (o \o <<Quote>>)[Len(b) + 2] = Quote
    <3>1. Len(o) + 1 = Len(b) + 2
      BY <2>1, <2>3
    <3> QED BY <2>2, <2>4, <3>1, 1 \in 1 .. 1
  <2>8. \A i \in 1 .. Len(b) : (o \o <<Quote>>)[1 + i] = b[i]
    <3> TAKE i \in 1 .. Len(b)
    <3>1. 1 + i \in 1 .. Len(o)
      BY <2>1, <2>3
    <3> QED BY <2>3, <2>4, <3>1
  <2>9. Len(o \o <<Quote>>) = Len(b) + 2
    BY <2>1, <2>3, <2>4
  <2> QED BY <2>1, <2>4, <2>5, <2>6, <2>7, <2>8, <2>9 DEF b
<1> HIDE DEF x, b, n
<1> SUFFICES ASSUME NEW p, Reached(last, after, p), Placed(text, p.pos, Quoted(s)),
                    Len(p.tokens) + 1 <= room
             PROVE \E q : Reached(last, after, q) /\ Took(text, p, q, n, <<x>>, 1)
  BY <1>1, OneIs DEF Reads, x
<1>2. Parsing(text, last, after) /\ text \in Seq(L) /\ Unending(L) /\ Len(text) \in Nat /\ room \in Nat
  BY DEF Running
<1>3. ParserInv(text, p) /\ p.pos \in Nat /\ p.pos > 0 /\ p.error = "none"
  BY <1>2, ReachedInv
<1>4. /\ p.pos + n <= Len(text) + 1 /\ n = Len(b) + 2
      /\ \A i \in 1 .. n : text[p.pos + i - 1] = Quoted(s)[i]
  BY <1>1 DEF Placed, n
<1>5. p.pos <= Len(text) /\ text[p.pos] = Quote
  <2>1. 1 \in 1 .. n /\ p.pos + 1 - 1 = p.pos
    BY <1>1, <1>3, <1>4
  <2> QED BY <1>1, <1>2, <1>3, <1>4, <2>1
<1>6. StringEnd(text, p.pos + 1) = [end |-> (p.pos + 1) + Len(b), error |-> "none"]
  <2>1. Placed(text, p.pos + 1, b)
    <3>1. (p.pos + 1) + Len(b) <= Len(text) + 1
      BY <1>1, <1>2, <1>3, <1>4
    <3>2. ASSUME NEW i \in 1 .. Len(b) PROVE text[(p.pos + 1) + i - 1] = b[i]
      <4>1. 1 + i \in 1 .. n /\ p.pos + (1 + i) - 1 = (p.pos + 1) + i - 1
        BY <1>1, <1>3, <1>4
      <4> QED BY <1>1, <1>4, <4>1
    <3> QED BY <3>1, <3>2 DEF Placed
  <2>2. text[(p.pos + 1) + Len(b)] = Quote
    <3>1. n \in 1 .. n /\ p.pos + n - 1 = (p.pos + 1) + Len(b)
      BY <1>1, <1>3, <1>4
    <3> QED BY <1>1, <1>4, <3>1
  <2>3. (p.pos + 1) + Len(b) <= Len(text) /\ p.pos + 1 \in Nat \ {0}
    BY <1>1, <1>2, <1>3, <1>4
  <2> QED BY <1>2, <2>1, <2>2, <2>3, LegibleEnds DEF b
<1> DEFINE start == p.pos + 1
           end   == start + Len(b)
           t == [type |-> "string", start |-> start, end |-> end, size |-> 0]
<1>10. /\ p.pos \in Nat /\ p.pos > 0 /\ Len(b) \in Nat /\ Len(text) \in Nat
       /\ n = Len(b) + 2 /\ p.pos + (Len(b) + 2) <= Len(text) + 1
  BY <1>1, <1>2, <1>3, <1>4
<1>7. JsmnTurn(text, p) = AddToken(p, "string", start, end, p.pos + n)
  <2>1. text[p.pos].class = "quote"
    BY <1>5 DEF Quote, Char, Lexeme
  <2>2. JsmnTurn(text, p) = String(text, p)
    BY <2>1 DEF JsmnTurn
  <2>3. end + 1 = p.pos + n
    BY <1>10
  <2>4. StringEnd(text, start) = [end |-> end, error |-> "none"]
    BY <1>6
  <2> HIDE DEF start, end
  <2>5. String(text, p) = AddToken(p, "string", start, end, end + 1)
    BY <2>4 DEF String, start
  <2> QED BY <2>2, <2>3, <2>5
<1>8. Seen(text, t) = x
  <2>1. Lexemes(text, t) = b
    <3>1. SubSeq(text, start, end - 1) = [i \in 1 .. Len(b) |-> text[start + i - 1]]
      <4>1. end - 1 = start + Len(b) - 1 /\ start \in Nat /\ Len(b) \in Nat
        BY <1>1, <1>3
      <4>2. /\ start \in 1 .. Len(text) + 1 /\ end - 1 \in start - 1 .. Len(text)
            /\ (end - 1) - start + 1 = Len(b)
        <5>1. p.pos \in Nat /\ Len(b) \in Nat /\ Len(text) \in Nat /\ p.pos + (Len(b) + 2) <= Len(text) + 1
          BY <1>10
        <5> HIDE DEF start, end
        <5>2. start = p.pos + 1 /\ end = (p.pos + 1) + Len(b)
          BY DEF start, end
        <5> QED BY <5>1, <5>2, StringPlace
      <4> HIDE DEF start, end
      <4>3. SubSeq(text, start, end - 1) = [i \in 1 .. (end - 1) - start + 1 |-> text[start + i - 1]]
        BY <1>2, <4>2, SubSeqProperties
      <4> QED BY <4>2, <4>3
    <3>2. \A i \in 1 .. Len(b) : text[start + i - 1] = b[i]
      <4> TAKE i \in 1 .. Len(b)
      <4>1. 1 + i \in 1 .. n /\ p.pos + (1 + i) - 1 = start + i - 1
        BY <1>1, <1>3, <1>4
      <4> QED BY <1>1, <1>4, <4>1
    <3>3. b = [i \in 1 .. Len(b) |-> b[i]]
      BY DEF b, IsSeq
    <3>4. SubSeq(text, start, end - 1) = b
      BY <3>1, <3>2, <3>3
    <3> QED BY <3>4 DEF Lexemes
  <2>2. StringOf(b) = s
    BY DEF b
  <2> HIDE DEF start, end
  <2> QED BY <2>1, <2>2 DEF Seen, x
<1>9. \E q : Reached(last, after, q) /\ Took(text, p, q, n, <<Seen(text, t)>>, 1)
  <2>1. start \in Nat /\ end \in Nat \ {0} /\ n \in Nat
    BY <1>1, <1>3, <1>4
  <2> HIDE DEF start, end
  <2> QED BY <1>5, <1>7, <2>1, TurnAdds
<1> QED BY <1>8, <1>9
-----------------------------------------------------------------------------
(* Containers *)

\* In q the container that begins where p is stands behind p's tokens, and is open.
Opened(p, type, q) ==
  /\ q.pos = p.pos + 1 /\ q.super = Len(p.tokens) + 1 /\ Len(q.tokens) = Len(p.tokens) + 1
  /\ q.tokens[Len(p.tokens) + 1] = [type |-> type, start |-> p.pos, end |-> 0, size |-> 0]
  /\ \A i \in 1 .. Len(p.tokens) :
       /\ q.tokens[i].type = p.tokens[i].type
       /\ q.tokens[i].start = p.tokens[i].start
       /\ q.tokens[i].end = p.tokens[i].end
       /\ q.tokens[i].size = IF i = p.super THEN p.tokens[i].size + 1 ELSE p.tokens[i].size

LEMMA BracketTurns ==
  ASSUME NEW text, NEW p, NEW type \in DOMAIN Brackets
  PROVE  /\ text[p.pos] = Opening(type) => JsmnTurn(text, p) = OpenContainer(p, type)
         /\ text[p.pos] = Closing(type) => JsmnTurn(text, p) = CloseContainer(p, type)
<1>1. type \in {"object", "array"}
  BY DEF Brackets
<1>2. /\ Opening("object").class = "{" /\ Closing("object").class = "}"
      /\ Opening("array").class = "[" /\ Closing("array").class = "]"
  BY DEF Opening, Closing, Brackets, Char, Lexeme
<1>3. CASE type = "object"
  BY <1>2, <1>3 DEF JsmnTurn
<1>4. CASE type = "array"
  BY <1>2, <1>4 DEF JsmnTurn
<1> QED BY <1>1, <1>3, <1>4

LEMMA Opens ==
  ASSUME NEW L, NEW text, NEW last, NEW after, NEW room, Running(L, text, last, after, room),
         NEW p, Reached(last, after, p), p.pos <= Len(text), Len(p.tokens) + 1 <= room,
         NEW type \in DOMAIN Brackets, text[p.pos] = Opening(type)
  PROVE  \E q : Reached(last, after, q) /\ Opened(p, type, q)
<1> DEFINE k == Len(p.tokens)
           t == [type |-> type, start |-> p.pos, end |-> 0, size |-> 0]
           q == AddToken(p, type, p.pos, 0, p.pos + 1)
           r == OpenContainer(p, type)
<1>1. Parsing(text, last, after) /\ room \in Nat
  BY DEF Running
<1>2. ParserInv(text, p) /\ p \in JsmnParser /\ p.error = "none" /\ p.pos \in Nat /\ IsSeq(p.tokens)
  BY <1>1, ReachedInv
<1>3. k \in Nat /\ k < MaxTokens /\ type \in TokenTypes /\ p.pos + 1 \in Nat
  <2>1. k \in Nat
    BY <1>2 DEF IsSeq
  <2> HIDE DEF k
  <2>2. k < MaxTokens
    BY <1>2, <2>1, FullStops, RoomLeft, BracketTurns DEF k, OpenContainer
  <2> QED BY <1>2, <2>1, <2>2 DEF TokenTypes, Brackets
<1>4. Adds(p, t, p.pos + 1, q)
  BY <1>2, <1>3, AddedTokens
<1> HIDE DEF t, q
<1>5. q.pos = p.pos + 1 /\ q.error = "none" /\ q = [p EXCEPT !.tokens = q.tokens, !.pos = p.pos + 1]
  <2>1. q = [p EXCEPT !.tokens = q.tokens, !.pos = p.pos + 1]
    BY <1>4 DEF Adds
  <2> QED BY <1>2, <2>1 DEF JsmnParser
<1>6. r = [q EXCEPT !.super = Len(q.tokens)]
  BY <1>5 DEF OpenContainer, q
<1> HIDE DEF r
<1>7. r.pos = q.pos /\ r.error = "none" /\ r.tokens = q.tokens /\ r.super = Len(q.tokens)
  <2>1. q \in [pos : {q.pos}, tokens : {q.tokens}, super : {p.super}, error : {p.error}]
    BY <1>2, <1>5 DEF JsmnParser
  <2> QED BY <1>5, <1>6, <2>1
<1>8. /\ Len(q.tokens) = k + 1 /\ q.tokens[k + 1] = t
      /\ \A i \in 1 .. k :
           /\ q.tokens[i].type = p.tokens[i].type
           /\ q.tokens[i].start = p.tokens[i].start
           /\ q.tokens[i].end = p.tokens[i].end
           /\ q.tokens[i].size =
                IF i = p.super THEN p.tokens[i].size + 1 ELSE p.tokens[i].size
  BY <1>4 DEF Adds
<1>9. Opened(p, type, r)
  BY <1>5, <1>7, <1>8 DEF Opened, t
<1>10. JsmnTurn(text, p) = r
  BY BracketTurns DEF r
<1>11. Reached(last, after, r)
  BY <1>7, <1>10, NextTurn
<1> QED BY <1>9, <1>11

\* The token of a container that holds count values.
Container(type, count) ==
  [type |-> type, val |-> NotNumber, size |-> IF type = "array" THEN count ELSE 0]

LEMMA CloseTurn ==
  ASSUME NEW L, NEW text, NEW last, NEW after, NEW room, Running(L, text, last, after, room),
         NEW p, Reached(last, after, p), NEW type \in DOMAIN Brackets,
         NEW o, Reached(last, after, o), Opened(p, type, o),
         NEW m, Reached(last, after, m), NEW n \in Nat, NEW new, IsSeq(new), NEW count \in Nat,
         Took(text, o, m, n, new, count),
         m.pos <= Len(text), text[m.pos] = Closing(type)
  PROVE  \E q : /\ Reached(last, after, q)
                /\ q.pos = m.pos + 1 /\ q.super = p.super /\ Len(q.tokens) = Len(m.tokens)
                /\ \A i \in 1 .. Len(m.tokens) :
                     /\ q.tokens[i].type = m.tokens[i].type
                     /\ q.tokens[i].start = m.tokens[i].start
                     /\ q.tokens[i].end =
                          IF i = Len(p.tokens) + 1 THEN m.pos + 1 ELSE m.tokens[i].end
                     /\ q.tokens[i].size = m.tokens[i].size
<1> DEFINE k == Len(p.tokens)
           N == Len(m.tokens)
           open == Unclosed(m)
           end == m.pos + 1
           q == CloseContainer(m, type)
<1>1. Parsing(text, last, after) /\ room \in Nat
  BY DEF Running
<1>2. /\ ParserInv(text, p) /\ k \in Nat /\ p.super \in 0 .. k
      /\ SuperInnermost(p) /\ IsSeq(p.tokens)
  <2>1. ParserInv(text, p) /\ p.super \in 0 .. k /\ IsSeq(p.tokens)
    BY <1>1, ReachedInv
  <2> QED BY <2>1 DEF IsSeq, ParserInv
<1>3. /\ m \in JsmnParser /\ m.pos \in Nat /\ N \in Nat /\ IsSeq(m.tokens) /\ m.error = "none"
      /\ \A i \in 1 .. N : m.tokens[i] \in JsmnToken
  <2>1. /\ m \in JsmnParser /\ m.pos \in Nat /\ IsSeq(m.tokens) /\ m.error = "none"
        /\ \A i \in 1 .. N : m.tokens[i] \in JsmnToken
    BY <1>1, ReachedInv
  <2> QED BY <2>1 DEF IsSeq
<1>4. Len(new) \in Nat /\ N = (k + 1) + Len(new)
  BY DEF IsSeq, Took, Opened
<1>5. k + 1 \in 1 .. N /\ \A i \in 1 .. k : i \in 1 .. N /\ i # k + 1
  <2> HIDE DEF k, N
  <2> QED BY <1>2, <1>4
<1>6. \A i \in 1 .. k : m.tokens[i].end = p.tokens[i].end
  <2> TAKE i \in 1 .. k
  <2>1. i \in 1 .. k + 1
    BY <1>2
  <2>2. o.tokens[i].end = p.tokens[i].end /\ Len(o.tokens) = k + 1
    BY DEF Opened
  <2> HIDE DEF k
  <2> QED BY <2>1, <2>2 DEF Took
<1>7. m.tokens[k + 1].type = type /\ m.tokens[k + 1].end = 0
  <2>1. o.tokens[k + 1].type = type /\ o.tokens[k + 1].end = 0 /\ Len(o.tokens) = k + 1
    BY DEF Opened
  <2>2. k + 1 \in 1 .. k + 1
    BY <1>2
  <2> HIDE DEF k
  <2> QED BY <2>1, <2>2 DEF Took
<1>8. \A i \in 1 .. N : ~ (i <= k + 1) => m.tokens[i].end # 0
  <2> SUFFICES ASSUME NEW i \in 1 .. N, ~ (i <= k + 1) PROVE m.tokens[i].end # 0
    OBVIOUS
  <2> DEFINE j == i - (k + 1)
  <2>1. Len(o.tokens) = k + 1
    BY DEF Opened
  <2> HIDE DEF k, N
  <2>2. j \in 1 .. Len(new) /\ (k + 1) + j = i
    BY <1>2, <1>4
  <2> HIDE DEF j
  <2>3. m.tokens[(k + 1) + j].end # 0
    BY <2>1, <2>2 DEF Took
  <2> QED BY <2>2, <2>3
<1>9. open = Unclosed(p) \cup {k + 1}
  <2>1. DOMAIN m.tokens = 1 .. N /\ DOMAIN p.tokens = 1 .. k
    BY <1>2, <1>3 DEF IsSeq
  <2> HIDE DEF k, N
  <2>2. \A i \in 1 .. N : i \in 1 .. k \/ i = k + 1 \/ ~ (i <= k + 1)
    BY <1>2, <1>4
  <2>3. \A i \in 1 .. N : m.tokens[i].end = 0 <=> (i = k + 1 \/ (i \in 1 .. k /\ p.tokens[i].end = 0))
    BY <1>5, <1>6, <1>7, <1>8, <2>2
  <2> QED BY <1>5, <2>1, <2>3 DEF Unclosed
<1>10. Unclosed(p) \subseteq 1 .. k
  BY <1>2 DEF Unclosed, IsSeq
<1>11. Max(open) = k + 1
  <2> HIDE DEF k, open
  <2>1. open \in SUBSET Nat /\ k + 1 \in open /\ \A i \in open : i <= k + 1
    BY <1>2, <1>9, <1>10
  <2> QED BY <2>1, MaxIs
<1>12. Enclosing(k + 1, open) = p.super
  <2> DEFINE S == Unclosed(p) \cup {0}
  <2>1. (open \ {k + 1}) \cup {0} = S
    <3> HIDE DEF k, open
    <3> QED BY <1>2, <1>9, <1>10
  <2>2. S \in SUBSET Nat /\ p.super \in S /\ \A i \in S : i <= p.super
    <3> HIDE DEF k
    <3> QED BY <1>2, <1>10 DEF SuperInnermost
  <2>3. Max(S) = p.super
    <3> HIDE DEF S
    <3> QED BY <2>2, MaxIs
  <2> HIDE DEF open, k, S
  <2> QED BY <2>1, <2>3 DEF Enclosing
<1>13. q = [m EXCEPT !.tokens = [m.tokens EXCEPT ![k + 1] = [m.tokens[k + 1] EXCEPT !.end = end]],
                     !.super = p.super, !.pos = end]
  <2> HIDE DEF k
  <2>1. Closes(open, m, type)
    BY <1>7, <1>9, <1>11 DEF Closes
  <2>2. q = [m EXCEPT !.tokens[k + 1].end = end, !.super = Enclosing(k + 1, open), !.pos = end]
    BY <1>3, <1>11, <2>1 DEF CloseContainer
  <2> HIDE DEF q, open, end
  <2> QED BY <1>12, <2>2
<1> HIDE DEF q
<1>14. /\ q.pos = m.pos + 1 /\ q.super = p.super /\ q.error = "none"
       /\ q.tokens = [m.tokens EXCEPT ![k + 1] = [m.tokens[k + 1] EXCEPT !.end = end]]
  BY <1>3, <1>13 DEF JsmnParser
<1>15. Len(q.tokens) = N
  BY <1>3, <1>14, <1>5, ExceptSeq DEF JsmnParser
<1>16. ASSUME NEW i \in 1 .. N
       PROVE /\ q.tokens[i].type = m.tokens[i].type
             /\ q.tokens[i].start = m.tokens[i].start
             /\ q.tokens[i].end = IF i = k + 1 THEN end ELSE m.tokens[i].end
             /\ q.tokens[i].size = m.tokens[i].size
  <2>1. DOMAIN m.tokens = 1 .. N
    BY <1>3 DEF IsSeq
  <2> HIDE DEF end, k
  <2>2. q.tokens[i] = IF i = k + 1 THEN [m.tokens[i] EXCEPT !.end = end] ELSE m.tokens[i]
    BY <1>5, <1>14, <2>1
  <2>3. m.tokens[i] \in JsmnToken
    BY <1>3
  <2> QED BY <2>2, <2>3 DEF JsmnToken
<1>17. Reached(last, after, q)
  <2>1. JsmnTurn(text, m) = q
    BY BracketTurns DEF q
  <2> QED BY <1>14, <2>1, NextTurn
<1> QED BY <1>14, <1>15, <1>16, <1>17
\* The sequence s between two elements.
Encloses(piece, first, s, final) ==
  /\ IsSeq(piece) /\ Len(piece) = Len(s) + 2
  /\ piece[1] = first /\ piece[Len(s) + 2] = final
  /\ \A i \in 1 .. Len(s) : piece[1 + i] = s[i]

LEMMA EnclosedIs ==
  ASSUME NEW s, IsSeq(s), NEW first, NEW final
  PROVE  Encloses(<<first>> \o s \o <<final>>, first, s, final)
<1> DEFINE o == <<first>> \o s
           e == <<final>>
<1>1. Len(s) \in Nat /\ IsSeq(<<first>>) /\ Len(<<first>>) = 1 /\ <<first>>[1] = first
      /\ IsSeq(e) /\ Len(e) = 1 /\ e[1] = final
  BY OneIs DEF IsSeq
<1>2. /\ IsSeq(o) /\ Len(o) = 1 + Len(s)
      /\ \A i \in 1 .. 1 : o[i] = <<first>>[i]
      /\ \A i \in 1 .. Len(s) : o[1 + i] = s[i]
  BY <1>1, ConcatIs
<1> HIDE DEF o, e
<1>3. /\ IsSeq(o \o e) /\ Len(o \o e) = Len(o) + Len(e)
      /\ \A i \in 1 .. Len(o) : (o \o e)[i] = o[i]
      /\ \A i \in 1 .. Len(e) : (o \o e)[Len(o) + i] = e[i]
  <2>1. IsSeq(o) /\ IsSeq(e)
    BY <1>1, <1>2
  <2> QED BY <2>1, ConcatIs
<1>4. (o \o e)[1] = first
  BY <1>1, <1>2, <1>3, 1 \in 1 .. Len(o), 1 \in 1 .. 1
<1>5. Len(o) + 1 = Len(s) + 2
  BY <1>1, <1>2
<1>6. (o \o e)[Len(s) + 2] = final
  BY <1>1, <1>3, <1>5, 1 \in 1 .. 1
<1>7. \A i \in 1 .. Len(s) : (o \o e)[1 + i] = s[i]
  <2> TAKE i \in 1 .. Len(s)
  <2>1. 1 + i \in 1 .. Len(o)
    BY <1>1, <1>2
  <2> QED BY <1>2, <1>3, <2>1
<1>8. Len(o \o e) = Len(s) + 2
  BY <1>1, <1>3, <1>5
<1> QED BY <1>3, <1>4, <1>6, <1>7, <1>8 DEF o, e, Encloses

LEMMA ReadsContainer ==
  ASSUME NEW L, NEW text, NEW last, NEW after, NEW room, Running(L, text, last, after, room),
         NEW type \in DOMAIN Brackets,
         NEW s, NEW new, NEW count, NEW free, Reads(text, last, after, room, s, new, count, free)
  PROVE  Reads(text, last, after, room, <<Opening(type)>> \o s \o <<Closing(type)>>,
               <<Container(type, count)>> \o new, 1, TRUE)
<1> DEFINE c == Container(type, count)
           piece == <<Opening(type)>> \o s \o <<Closing(type)>>
           n == Len(s)
<1> HIDE DEF c
<1>1. IsSeq(s) /\ IsSeq(new) /\ count \in Nat /\ n \in Nat /\ Len(new) \in Nat
  <2>1. IsSeq(s) /\ IsSeq(new) /\ count \in Nat
    BY DEF Reads
  <2> QED BY <2>1 DEF IsSeq
<1>2. /\ IsSeq(piece) /\ Len(piece) = n + 2 /\ piece[1] = Opening(type)
      /\ piece[n + 2] = Closing(type) /\ \A i \in 1 .. n : piece[1 + i] = s[i]
  <2>1. Encloses(piece, Opening(type), s, Closing(type))
    BY <1>1, EnclosedIs
  <2> QED BY <2>1 DEF Encloses
<1>3. /\ IsSeq(<<c>> \o new) /\ Len(<<c>> \o new) = 1 + Len(new)
      /\ (<<c>> \o new)[1] = c
      /\ \A i \in 1 .. Len(new) : (<<c>> \o new)[1 + i] = new[i]
  <2>1. IsSeq(<<c>>) /\ Len(<<c>>) = 1 /\ <<c>>[1] = c
    BY OneIs
  <2>2. /\ IsSeq(<<c>> \o new) /\ Len(<<c>> \o new) = Len(<<c>>) + Len(new)
        /\ \A i \in 1 .. Len(<<c>>) : (<<c>> \o new)[i] = <<c>>[i]
        /\ \A i \in 1 .. Len(new) : (<<c>> \o new)[Len(<<c>>) + i] = new[i]
    BY <1>1, <2>1, ConcatIs
  <2> QED BY <2>1, <2>2, 1 \in 1 .. 1
<1> HIDE DEF piece, n
<1> SUFFICES ASSUME NEW p, Reached(last, after, p), Placed(text, p.pos, piece),
                    Len(p.tokens) + (1 + Len(new)) <= room
             PROVE  \E q : /\ Reached(last, after, q)
                           /\ Took(text, p, q, n + 2, <<c>> \o new, 1)
  BY <1>2, <1>3 DEF Reads, c, piece
<1> DEFINE k == Len(p.tokens)
           a == Len(new)
<1>4. Parsing(text, last, after) /\ Len(text) \in Nat /\ room \in Nat
  BY DEF Running
<1>5. p.pos \in Nat /\ k \in Nat /\ room \in Nat /\ p.super \in 0 .. k
  <2>1. p.pos \in Nat /\ p.super \in 0 .. k /\ IsSeq(p.tokens)
    BY <1>4, ReachedInv
  <2> QED BY <2>1 DEF IsSeq, Running
<1>6. a \in Nat /\ k + (1 + a) <= room
  BY <1>1
<1> HIDE DEF k, a
<1>7. /\ p.pos + (n + 2) <= Len(text) + 1
      /\ text[p.pos] = Opening(type) /\ text[p.pos + (n + 1)] = Closing(type)
      /\ \A i \in 1 .. n : text[(p.pos + 1) + i - 1] = s[i]
  <2>1. p.pos + (n + 2) <= Len(text) + 1 /\ \A i \in 1 .. n + 2 : text[p.pos + i - 1] = piece[i]
    BY <1>2 DEF Placed
  <2>2. 1 \in 1 .. n + 2 /\ p.pos + 1 - 1 = p.pos
    BY <1>1, <1>5 DEF n
  <2>3. n + 2 \in 1 .. n + 2 /\ p.pos + (n + 2) - 1 = p.pos + (n + 1)
    BY <1>1, <1>5
  <2>4. ASSUME NEW i \in 1 .. n PROVE text[(p.pos + 1) + i - 1] = s[i]
    <3>1. 1 + i \in 1 .. n + 2 /\ p.pos + (1 + i) - 1 = (p.pos + 1) + i - 1
      BY <1>1, <1>5
    <3> QED BY <1>2, <2>1, <3>1
  <2> QED BY <1>2, <2>1, <2>2, <2>3, <2>4
<1>8. p.pos <= Len(text) /\ k + 1 <= room
  BY <1>1, <1>4, <1>5, <1>6, <1>7
<1>9. PICK o : Reached(last, after, o) /\ Opened(p, type, o)
  BY <1>7, <1>8, Opens DEF k
<1>10. /\ o.pos = p.pos + 1 /\ o.super = k + 1 /\ Len(o.tokens) = k + 1
       /\ o.tokens[k + 1] = [type |-> type, start |-> p.pos, end |-> 0, size |-> 0]
       /\ \A i \in 1 .. k :
            /\ o.tokens[i].type = p.tokens[i].type
            /\ o.tokens[i].start = p.tokens[i].start
            /\ o.tokens[i].end = p.tokens[i].end
            /\ o.tokens[i].size = IF i = p.super THEN p.tokens[i].size + 1 ELSE p.tokens[i].size
  BY <1>9 DEF Opened, k
<1>20. o.pos + n = p.pos + (n + 1) /\ (o.pos + n) + 1 = p.pos + (n + 2) /\ p.pos + (n + 1) <= Len(text)
  <2>1. o.pos = p.pos + 1 /\ p.pos \in Nat /\ n \in Nat /\ Len(text) \in Nat
        /\ p.pos + (n + 2) <= Len(text) + 1
    BY <1>1, <1>4, <1>5, <1>7, <1>10
  <2> QED BY <2>1
<1>11. PICK m : Reached(last, after, m) /\ Took(text, o, m, n, new, count)
  <2>1. Placed(text, o.pos, s)
    <3>1. o.pos + Len(s) <= Len(text) + 1
      BY <1>1, <1>4, <1>5, <1>7, <1>10 DEF n
    <3> QED BY <1>7, <1>10, <3>1 DEF Placed, n
  <2>2. Len(o.tokens) + Len(new) <= room
    <3>1. (k + 1) + a <= room
      BY <1>5, <1>6
    <3> QED BY <1>10, <3>1 DEF a
  <2>3. EndsWord(text, o.pos + Len(s))
    <3>1. o.pos + Len(s) = p.pos + (n + 1)
      BY <1>20 DEF n
    <3>2. Closing(type).class \in EndOfWord
      <4>1. Closing("object").class = "}" /\ Closing("array").class = "]"
        BY DEF Closing, Brackets, Char, Lexeme
      <4>2. type \in {"object", "array"}
        BY DEF Brackets
      <4> QED BY <4>1, <4>2 DEF EndOfWord
    <3> QED BY <1>7, <3>1, <3>2 DEF EndsWord
  <2> QED BY <1>9, <2>1, <2>2, <2>3 DEF Reads, n
<1>12. /\ m.pos = p.pos + (n + 1) /\ Len(m.tokens) = (k + 1) + a
       /\ m.pos <= Len(text) /\ text[m.pos] = Closing(type)
       /\ m.pos + 1 = p.pos + (n + 2)
  <2>1. m.pos = o.pos + n /\ Len(m.tokens) = Len(o.tokens) + Len(new)
    BY <1>11 DEF Took
  <2>2. m.pos = p.pos + (n + 1) /\ m.pos <= Len(text)
    BY <1>20, <2>1
  <2>3. m.pos + 1 = p.pos + (n + 2)
    BY <1>20, <2>1
  <2> QED BY <1>7, <1>10, <2>1, <2>2, <2>3 DEF a
<1>13. PICK q : /\ Reached(last, after, q)
                /\ q.pos = m.pos + 1 /\ q.super = p.super /\ Len(q.tokens) = Len(m.tokens)
                /\ \A i \in 1 .. Len(m.tokens) :
                     /\ q.tokens[i].type = m.tokens[i].type
                     /\ q.tokens[i].start = m.tokens[i].start
                     /\ q.tokens[i].end = IF i = k + 1 THEN m.pos + 1 ELSE m.tokens[i].end
                     /\ q.tokens[i].size = m.tokens[i].size
  BY <1>1, <1>9, <1>11, <1>12, CloseTurn DEF k
<1>14. q.pos = p.pos + (n + 2) /\ Len(q.tokens) = k + (1 + a)
  <2>1. q.pos = p.pos + (n + 2) /\ Len(q.tokens) = (k + 1) + a
    BY <1>12, <1>13
  <2>2. (k + 1) + a = k + (1 + a)
    BY <1>5, <1>6
  <2> QED BY <2>1, <2>2
<1>15. ASSUME NEW i \in 1 .. k
       PROVE  /\ q.tokens[i].type = p.tokens[i].type
              /\ q.tokens[i].start = p.tokens[i].start
              /\ q.tokens[i].end = p.tokens[i].end
              /\ q.tokens[i].size = IF i = p.super THEN p.tokens[i].size + 1 ELSE p.tokens[i].size
  <2>1. i \in 1 .. (k + 1) + a /\ i \in 1 .. k + 1 /\ i # k + 1
    BY <1>5, <1>6
  <2>2. /\ q.tokens[i].type = m.tokens[i].type
        /\ q.tokens[i].start = m.tokens[i].start
        /\ q.tokens[i].end = m.tokens[i].end
        /\ q.tokens[i].size = m.tokens[i].size
    BY <1>12, <1>13, <2>1
  <2>3. /\ m.tokens[i].type = o.tokens[i].type
        /\ m.tokens[i].start = o.tokens[i].start
        /\ m.tokens[i].end = o.tokens[i].end
        /\ m.tokens[i].size = o.tokens[i].size
    BY <1>10, <1>11, <2>1 DEF Took
  <2> QED BY <1>10, <2>2, <2>3
<1>16. q.tokens[k + 1].end # 0 /\ Seen(text, q.tokens[k + 1]) = c
  <2>1. k + 1 \in 1 .. (k + 1) + a /\ k + 1 \in 1 .. k + 1 /\ m.pos + 1 # 0
    BY <1>1, <1>5, <1>6, <1>12
  <2>2. /\ q.tokens[k + 1].type = m.tokens[k + 1].type
        /\ q.tokens[k + 1].end = m.pos + 1
        /\ q.tokens[k + 1].size = m.tokens[k + 1].size
    BY <1>12, <1>13, <2>1
  <2>3. m.tokens[k + 1].type = type /\ m.tokens[k + 1].size = 0 + count
    <3>1. o.tokens[k + 1].type = type /\ o.tokens[k + 1].size = 0
      BY <1>10
    <3>2. k + 1 \in 1 .. Len(o.tokens) /\ k + 1 = o.super
      BY <1>10, <2>1
    <3> QED BY <1>11, <3>1, <3>2 DEF Took
  <2>4. type # "string" /\ type # "primitive"
    BY DEF Brackets
  <2>5. q.tokens[k + 1].type = type /\ q.tokens[k + 1].size = count
    BY <1>1, <2>2, <2>3
  <2>6. Seen(text, q.tokens[k + 1]) = Container(type, count)
    BY <2>4, <2>5 DEF Seen, Container
  <2> QED BY <2>1, <2>2, <2>6 DEF c
<1>17. ASSUME NEW j \in 1 .. a
       PROVE  q.tokens[k + (1 + j)].end # 0 /\ Seen(text, q.tokens[k + (1 + j)]) = new[j]
  <2> DEFINE i == (k + 1) + j
  <2>1. i \in 1 .. (k + 1) + a /\ i # k + 1 /\ k + (1 + j) = i
    BY <1>5, <1>6
  <2>2. m.tokens[i].end # 0 /\ Seen(text, m.tokens[i]) = new[j]
    BY <1>10, <1>11 DEF Took, a
  <2> HIDE DEF i
  <2>3. /\ q.tokens[i].type = m.tokens[i].type
        /\ q.tokens[i].start = m.tokens[i].start
        /\ q.tokens[i].end = m.tokens[i].end
        /\ q.tokens[i].size = m.tokens[i].size
    BY <1>12, <1>13, <2>1
  <2>4. Seen(text, q.tokens[i]) = Seen(text, m.tokens[i])
    BY <2>3 DEF Seen, Lexemes
  <2> QED BY <2>1, <2>2, <2>3, <2>4
<1>18. ASSUME NEW i \in 1 .. 1 + a
       PROVE  q.tokens[k + i].end # 0 /\ Seen(text, q.tokens[k + i]) = (<<c>> \o new)[i]
  <2>1. CASE i = 1
    BY <1>3, <1>16, <2>1
  <2>2. CASE i # 1
    <3> DEFINE j == i - 1
    <3>1. j \in 1 .. a /\ i = 1 + j
      BY <1>6, <2>2
    <3> HIDE DEF j
    <3>2. (<<c>> \o new)[1 + j] = new[j]
      BY <1>3, <3>1 DEF a
    <3> QED BY <1>17, <3>1, <3>2
  <2> QED BY <2>1, <2>2
<1>19. Took(text, p, q, n + 2, <<c>> \o new, 1)
  <2>1. Len(<<c>> \o new) = 1 + a
    BY <1>3 DEF a
  <2> QED BY <1>13, <1>14, <1>15, <1>18, <2>1 DEF Took, k
<1> QED BY <1>13, <1>19
-----------------------------------------------------------------------------
(* Pieces one behind the other *)

\* FlattenSeq joins one sequence after the other.
Flattening(seqs, f) ==
  /\ f[0] = << >> /\ \A n \in 1 .. Len(seqs) : f[n] = f[n - 1] \o seqs[n]
  /\ FlattenSeq(seqs) = f[Len(seqs)]

LEMMA FlattenIs ==
  ASSUME NEW seqs, IsSeq(seqs), \A n \in 1 .. Len(seqs) : IsSeq(seqs[n])
  PROVE  \E f : Flattening(seqs, f)
<1> DEFINE N == Len(seqs)
           S == UNION {{seqs[n][i] : i \in 1 .. Len(seqs[n])} : n \in 1 .. N}
<1>1. N \in Nat
  BY DEF IsSeq
<1>2. CASE N = 0
  <2> DEFINE f == [n \in 0 .. 0 |-> << >>]
  <2>1. FlattenSeq(seqs) = seqs
    BY <1>2 DEF FlattenSeq
  <2>2. seqs = << >>
    <3>1. seqs = [n \in 1 .. N |-> seqs[n]]
      BY DEF IsSeq
    <3> QED BY <1>2, <3>1
  <2>3. f[0] = << >>
    OBVIOUS
  <2> HIDE DEF f
  <2> QED BY <1>2, <2>1, <2>2, <2>3 DEF Flattening
<1>3. CASE N # 0
  <2> DEFINE flatten == CHOOSE g : Flattens(seqs, g)
             f == [n \in 0 .. N |-> IF n = 0 THEN << >> ELSE flatten[n]]
  <2>1. \A n \in 1 .. N : seqs[n] \in Seq(S)
    <3> TAKE n \in 1 .. N
    <3>1. \A i \in 1 .. Len(seqs[n]) : seqs[n][i] \in S
      OBVIOUS
    <3> HIDE DEF S
    <3> QED BY <3>1, SeqIn
  <2>2. Flattens(seqs, flatten)
    <3> HIDE DEF S
    <3> QED BY <1>3, <2>1, FlattenExists
  <2>3. FlattenSeq(seqs) = flatten[N]
    BY <1>3 DEF FlattenSeq, Flattens
  <2> HIDE DEF flatten
  <2>4. \A n \in 1 .. N : flatten[n] = IF n = 1 THEN seqs[n] ELSE flatten[n - 1] \o seqs[n]
    <3> TAKE n \in 1 .. N
    <3>1. flatten = [i \in 1 .. N |-> IF i = 1 THEN seqs[i] ELSE flatten[i - 1] \o seqs[i]]
      BY <2>2 DEF Flattens
    <3> QED BY <3>1
  <2>5. f[0] = << >> /\ f[N] = flatten[N]
    BY <1>1, <1>3
  <2>6. ASSUME NEW n \in 1 .. N PROVE f[n] = f[n - 1] \o seqs[n]
    <3>1. f[n] = flatten[n] /\ n - 1 \in 0 .. N
      BY <1>1
    <3>2. CASE n = 1
      <4>1. f[n - 1] = << >> /\ flatten[n] = seqs[n]
        BY <2>4, <2>5, <3>2
      <4> HIDE DEF f
      <4> QED BY <3>1, <4>1, ConcatNothing
    <3>3. CASE n # 1
      <4>1. f[n - 1] = flatten[n - 1]
        BY <1>1, <3>3
      <4> HIDE DEF f
      <4> QED BY <2>4, <3>1, <3>3, <4>1
    <3> QED BY <3>2, <3>3
  <2> HIDE DEF f
  <2> QED BY <2>3, <2>5, <2>6 DEF Flattening
<1> QED BY <1>2, <1>3

LEMMA ReadsAll ==
  ASSUME NEW text, NEW last, NEW after, NEW room, room \in Nat, Parsing(text, last, after),
         NEW texts, IsSeq(texts), NEW tokens, IsSeq(tokens), Len(tokens) = Len(texts),
         NEW count \in {1, 2}, NEW free \in BOOLEAN,
         \A n \in 1 .. Len(texts) :
           Reads(text, last, after, room, texts[n], tokens[n], count, n < Len(texts) \/ free)
  PROVE  Reads(text, last, after, room, FlattenSeq(texts), FlattenSeq(tokens), count * Len(texts),
               Len(texts) = 0 \/ free)
<1> DEFINE N == Len(texts)
<1>1. N \in Nat /\ \A n \in 1 .. N : IsSeq(texts[n]) /\ IsSeq(tokens[n])
  BY DEF Reads, IsSeq
<1>2. PICK f : Flattening(texts, f)
  BY <1>1, FlattenIs
<1>3. PICK g : Flattening(tokens, g)
  BY <1>1, FlattenIs
<1>4. /\ f[0] = << >> /\ g[0] = << >>
      /\ \A n \in 1 .. N : f[n] = f[n - 1] \o texts[n] /\ g[n] = g[n - 1] \o tokens[n]
      /\ FlattenSeq(texts) = f[N] /\ FlattenSeq(tokens) = g[N]
  BY <1>2, <1>3 DEF Flattening
<1> DEFINE Good(n) == Reads(text, last, after, room, f[n], g[n], count * n, n < N \/ n = 0 \/ free)
           S == {n \in 0 .. N : Good(n)}
<1> HIDE DEF N
<1>5. 0 .. N \subseteq S
  <2>1. 0 \in S
    <3>1. count * 0 = 0
      OBVIOUS
    <3>2. Reads(text, last, after, room, << >>, << >>, 0, TRUE)
      BY ReadsNothing
    <3>3. (0 < N \/ 0 = 0 \/ free) = TRUE
      OBVIOUS
    <3>4. Good(0)
      BY <1>4, <3>1, <3>2, <3>3
    <3> HIDE DEF Good
    <3> QED BY <1>1, <3>4
  <2>2. ASSUME NEW n \in 0 .. N - 1, n \in S PROVE n + 1 \in S
    <3>1. n + 1 \in 1 .. N /\ n + 1 \in 0 .. N /\ (n + 1) - 1 = n /\ n < N
      BY <1>1
    <3>2. Reads(text, last, after, room, f[n], g[n], count * n, TRUE)
      <4>1. Good(n)
        BY <2>2
      <4>2. (n < N \/ n = 0 \/ free) = TRUE
        BY <3>1
      <4> QED BY <4>1, <4>2
    <3> DEFINE fr == n + 1 < N \/ n + 1 = 0 \/ free
    <3>3. Reads(text, last, after, room, texts[n + 1], tokens[n + 1], count, fr)
      <4>1. (n + 1 < N \/ free) = fr
        BY <3>1
      <4>2. Reads(text, last, after, room, texts[n + 1], tokens[n + 1], count, n + 1 < N \/ free)
        BY <3>1 DEF N
      <4> HIDE DEF fr
      <4> QED BY <4>1, <4>2
    <3> HIDE DEF fr
    <3>4. Reads(text, last, after, room, f[n] \o texts[n + 1], g[n] \o tokens[n + 1], count * n + count, fr)
      BY <3>2, <3>3, ReadsBoth
    <3>5. count * n + count = count * (n + 1)
      <4>1. CASE count = 1
        BY <3>1, <4>1
      <4>2. CASE count = 2
        BY <3>1, <4>2
      <4> QED BY <4>1, <4>2
    <3>6. f[n + 1] = f[n] \o texts[n + 1] /\ g[n + 1] = g[n] \o tokens[n + 1]
      BY <1>4, <3>1
    <3>7. Good(n + 1)
      BY <3>4, <3>5, <3>6 DEF fr
    <3> HIDE DEF Good
    <3> QED BY <3>1, <3>7
  <2> HIDE DEF S
  <2> QED BY <1>1, <2>1, <2>2, UpTo
<1>6. Good(N)
  BY <1>1, <1>5, N \in 0 .. N
<1>7. (N < N \/ N = 0 \/ free) = (N = 0 \/ free)
  BY <1>1
<1>8. Reads(text, last, after, room, f[N], g[N], count * N, N = 0 \/ free)
  BY <1>6, <1>7
<1> QED BY <1>4, <1>8 DEF N
-----------------------------------------------------------------------------
(* Values *)

LEMMA PairIs ==
  ASSUME NEW a, NEW b
  PROVE  <<a, b>> = <<a>> \o <<b>> /\ IsSeq(<<a, b>>) /\ Len(<<a, b>>) = 2 /\ <<a, b>>[1] = a
<1>1. <<a>> \in Seq({a, b}) /\ <<b>> \in Seq({a, b}) /\ <<a, b>> \in Seq({a, b})
  OBVIOUS
<1>2. <<a, b>> = <<a>> \o <<b>>
  <2> DEFINE s == <<a>>
             t == <<b>>
             u == <<a, b>>
  <2>1. /\ s \in Seq({a, b}) /\ Len(s) = 1 /\ s[1] = a /\ t \in Seq({a, b}) /\ Len(t) = 1 /\ t[1] = b
        /\ u \in Seq({a, b}) /\ Len(u) = 2 /\ u[1] = a /\ u[2] = b
    OBVIOUS
  <2> HIDE DEF s, t, u
  <2>2. /\ s \o t \in Seq({a, b}) /\ Len(s \o t) = Len(s) + Len(t)
        /\ \A i \in 1 .. Len(s) + Len(t) : (s \o t)[i] = IF i <= Len(s) THEN s[i] ELSE t[i - Len(s)]
    BY <2>1, ConcatProperties
  <2>3. Len(s \o t) = 2 /\ (s \o t)[1] = a /\ (s \o t)[2] = b
    BY <2>1, <2>2
  <2>4. \A i \in 1 .. Len(u) : u[i] = (s \o t)[i]
    BY <2>1, <2>3
  <2>5. u = s \o t
    BY <2>1, <2>2, <2>3, <2>4, SeqEqual
  <2> QED BY <2>5 DEF s, t, u
<1>3. Len(<<a, b>>) = 2 /\ <<a, b>>[1] = a
  OBVIOUS
<1> QED BY <1>1, <1>2, <1>3, SeqIs

LEMMA ReadsPair ==
  ASSUME NEW L, NEW text, NEW last, NEW after, NEW room, Running(L, text, last, after, room),
         NEW a, Passed(a),
         NEW b, Passed(b)
  PROVE  Reads(text, last, after, room, <<a, b>>, << >>, 0, TRUE)
<1>1. Parsing(text, last, after) /\ room \in Nat
  BY DEF Running
<1>2. Reads(text, last, after, room, <<a>>, << >>, 0, TRUE)
  BY ReadsSkip
<1>5. Reads(text, last, after, room, <<b>>, << >>, 0, TRUE)
  BY ReadsSkip
<1>3. Reads(text, last, after, room, <<a>> \o <<b>>, << >> \o << >>, 0 + 0, TRUE)
  BY <1>1, <1>2, <1>5, ReadsBoth
<1>4. << >> \o << >> = << >> /\ 0 + 0 = 0 /\ <<a>> \o <<b>> = <<a, b>>
  <2>1. << >> \o << >> = << >>
    BY NothingIs, ConcatNothing
  <2>2. <<a>> \o <<b>> = <<a, b>>
    BY PairIs
  <2> QED BY <2>1, <2>2
<1> QED BY <1>3, <1>4

\* A comma or a colon, and a space.
LEMMA ReadsMark ==
  ASSUME NEW L, NEW text, NEW last, NEW after, NEW room, Running(L, text, last, after, room),
         NEW mark \in {Comma, Colon},
         NEW s, NEW new, NEW count, NEW free, Reads(text, last, after, room, s, new, count, free)
  PROVE  Reads(text, last, after, room, s \o <<mark, Space>>, new, count, TRUE)
<1>1. Parsing(text, last, after) /\ room \in Nat
  BY DEF Running
<1>2. Passed(mark) /\ Passed(Space) /\ mark.class \in EndOfWord
  <2>1. Comma.class = "comma" /\ Colon.class = "colon" /\ Space.class = "space"
    BY DEF Comma, Colon, Space, Char, Lexeme
  <2>2. mark.class \in {"comma", "colon"}
    BY <2>1
  <2> QED BY <2>1, <2>2 DEF EndOfWord, Passed
<1>3. Reads(text, last, after, room, <<mark, Space>>, << >>, 0, TRUE)
  BY <1>2, ReadsPair
<1>4. Len(<<mark, Space>>) > 0 /\ <<mark, Space>>[1].class \in EndOfWord
  BY <1>2, PairIs
<1>5. Reads(text, last, after, room, s \o <<mark, Space>>, new \o << >>, count + 0, TRUE)
  BY <1>1, <1>3, <1>4, ReadsBoth
<1>6. IsSeq(new) /\ count \in Nat
  BY DEF Reads
<1>7. new \o << >> = new /\ count + 0 = count
  BY <1>6, ConcatNothing
<1> QED BY <1>5, <1>7

LEMMA ReadsAnyway ==
  ASSUME NEW text, NEW last, NEW after, NEW room,
         NEW s, NEW new, NEW count, NEW free, NEW less \in BOOLEAN,
         Reads(text, last, after, room, s, new, count, free), less => free
  PROVE  Reads(text, last, after, room, s, new, count, less)
BY DEF Reads

LEMMA ReadsJoined ==
  ASSUME NEW L, NEW text, NEW last, NEW after, NEW room, Running(L, text, last, after, room),
         NEW texts, IsSeq(texts), NEW tokens, IsSeq(tokens), Len(tokens) = Len(texts),
         NEW count \in {1, 2},
         \A n \in 1 .. Len(texts) : Reads(text, last, after, room, texts[n], tokens[n], count, FALSE)
  PROVE  Reads(text, last, after, room, Joined(texts), FlattenSeq(tokens), count * Len(texts), FALSE)
<1> DEFINE part(n) == IF n < Len(texts) THEN texts[n] \o <<Comma, Space>> ELSE texts[n]
           parts == [n \in DOMAIN texts |-> part(n)]
<1>1. IsSeq(parts) /\ Len(parts) = Len(texts) /\ DOMAIN texts = 1 .. Len(texts)
  <2>1. parts = [n \in DOMAIN texts |-> parts[n]]
    OBVIOUS
  <2> HIDE DEF parts
  <2> QED BY <2>1, MappedSeq
<1>2. ASSUME NEW n \in 1 .. Len(texts)
      PROVE  Reads(text, last, after, room, parts[n], tokens[n], count, n < Len(texts) \/ FALSE)
  <2>1. parts[n] = part(n) /\ Reads(text, last, after, room, texts[n], tokens[n], count, FALSE)
    BY <1>1
  <2> HIDE DEF parts
  <2>2. CASE n < Len(texts)
    <3>1. Reads(text, last, after, room, texts[n] \o <<Comma, Space>>, tokens[n], count, TRUE)
      BY <2>1, ReadsMark
    <3>2. (n < Len(texts) \/ FALSE) = TRUE
      BY <2>2
    <3> QED BY <2>1, <2>2, <3>1, <3>2
  <2>3. CASE ~ (n < Len(texts))
    <3>1. (n < Len(texts) \/ FALSE) = FALSE
      BY <2>3
    <3> QED BY <2>1, <2>3, <3>1
  <2> QED BY <2>2, <2>3
<1>3. Parsing(text, last, after) /\ room \in Nat
  BY DEF Running
<1>4. Joined(texts) = FlattenSeq(parts)
  BY DEF Joined
<1> HIDE DEF parts
<1>5. Reads(text, last, after, room, FlattenSeq(parts), FlattenSeq(tokens), count * Len(parts),
            Len(parts) = 0 \/ FALSE)
  BY <1>1, <1>2, <1>3, ReadsAll
<1>6. Reads(text, last, after, room, FlattenSeq(parts), FlattenSeq(tokens), count * Len(parts), FALSE)
  BY <1>5, ReadsAnyway
<1> QED BY <1>1, <1>4, <1>6

LEMMA PadIs ==
  ASSUME NEW elems
  PROVE  Pad(elems) = << >> \/ Pad(elems) = <<Space>>
BY DEF Pad

LEMMA ReadsPadded ==
  ASSUME NEW L, NEW text, NEW last, NEW after, NEW room, Running(L, text, last, after, room), NEW elems,
         NEW s, NEW new, NEW count, NEW free, Reads(text, last, after, room, s, new, count, free)
  PROVE  \E less : Reads(text, last, after, room, Pad(elems) \o s \o Pad(elems), new, count, less)
<1>1. Parsing(text, last, after) /\ room \in Nat
  BY DEF Running
<1>2. IsSeq(s) /\ IsSeq(new) /\ count \in Nat
  BY DEF Reads
<1>3. CASE Pad(elems) = << >>
  <2>1. << >> \o s \o << >> = s
    BY <1>2, ConcatNothing
  <2> QED BY <1>3, <2>1
<1>4. CASE Pad(elems) = <<Space>>
  <2>1. Passed(Space) /\ Space.class \in EndOfWord
    <3>1. Space.class = "space"
      BY DEF Space, Char, Lexeme
    <3> QED BY <3>1 DEF Passed, EndOfWord
  <2>2. Reads(text, last, after, room, <<Space>>, << >>, 0, TRUE)
    BY <2>1, ReadsSkip
  <2>3. Reads(text, last, after, room, <<Space>> \o s, << >> \o new, 0 + count, free)
    BY <1>1, <2>2, ReadsBoth
  <2>4. Len(<<Space>>) > 0 /\ <<Space>>[1].class \in EndOfWord
    BY <2>1, OneIs
  <2>5. Reads(text, last, after, room, (<<Space>> \o s) \o <<Space>>, (<< >> \o new) \o << >>, (0 + count) + 0, TRUE)
    BY <1>1, <2>2, <2>3, <2>4, ReadsBoth
  <2>6. (<< >> \o new) \o << >> = new /\ (0 + count) + 0 = count
    BY <1>2, ConcatNothing
  <2> QED BY <1>4, <2>5, <2>6
<1> QED BY <1>3, <1>4, PadIs

LEMMA ReadsBracketed ==
  ASSUME NEW L, NEW text, NEW last, NEW after, NEW room, Running(L, text, last, after, room),
         NEW v, v.type \in DOMAIN Brackets,
         NEW texts, IsSeq(texts), NEW tokens, IsSeq(tokens), Len(tokens) = Len(texts),
         \A n \in 1 .. Len(texts) : Reads(text, last, after, room, texts[n], tokens[n], 1, FALSE)
  PROVE  Reads(text, last, after, room, Bracketed(v, texts),
               <<Container(v.type, Len(texts))>> \o FlattenSeq(tokens), 1, TRUE)
<1> DEFINE o == <<Opening(v.type)>>
           c == <<Closing(v.type)>>
           w == Pad(v.elems)
           j == Joined(texts)
<1>1. Reads(text, last, after, room, j, FlattenSeq(tokens), Len(texts), FALSE)
  <2>1. 1 * Len(texts) = Len(texts)
    <3>1. Len(texts) \in Nat
      BY DEF IsSeq
    <3> QED BY <3>1
  <2>2. Reads(text, last, after, room, j, FlattenSeq(tokens), 1 * Len(texts), FALSE)
    BY ReadsJoined
  <2> QED BY <2>1, <2>2
<1>2. IsSeq(o) /\ IsSeq(c) /\ IsSeq(w) /\ IsSeq(j)
  <2>1. IsSeq(j)
    BY <1>1 DEF Reads
  <2> HIDE DEF j
  <2> QED BY <2>1, OneIs, NothingIs, PadIs
<1>3. Bracketed(v, texts) = o \o w \o j \o w \o c
  BY DEF Bracketed
<1> HIDE DEF o, c, w, j
<1>4. o \o w \o j \o w = o \o (w \o j \o w)
  <2>1. IsSeq(w \o j)
    BY <1>2, ConcatIs
  <2>2. (o \o w) \o j = o \o (w \o j)
    <3>1. Associate(o, w, j)
      BY <1>2, ConcatAssoc
    <3> QED BY <3>1 DEF Associate
  <2>3. (o \o (w \o j)) \o w = o \o ((w \o j) \o w)
    <3>1. Associate(o, w \o j, w)
      BY <1>2, <2>1, ConcatAssoc
    <3> QED BY <3>1 DEF Associate
  <2> QED BY <2>2, <2>3
<1>5. PICK less : Reads(text, last, after, room, w \o j \o w, FlattenSeq(tokens), Len(texts), less)
  BY <1>1, ReadsPadded DEF w
<1>6. Reads(text, last, after, room, o \o (w \o j \o w) \o c,
            <<Container(v.type, Len(texts))>> \o FlattenSeq(tokens), 1, TRUE)
  BY <1>5, ReadsContainer DEF o, c
<1> QED BY <1>3, <1>4, <1>6
\* A string that stands for itself when it is read.
Spelled(s) == IsSeq(Spell(s)) /\ Legible(Spell(s)) /\ StringOf(Spell(s)) = s

\* Values that hold none, values of those, and values of such: only arrays hold
\* values, since tokens say of objects nothing but that they are there.
PlainLeaf(v) ==
  /\ v.type \in TokenTypes /\ v.elems = << >>
  /\ v.type \in DOMAIN Brackets => v.val = NotNumber
PlainArray(v) == v.type = "array" /\ v.val = NotNumber /\ IsSeq(v.elems)
PlainElem(v) ==
  PlainLeaf(v) \/ (PlainArray(v) /\ \A n \in 1 .. Len(v.elems) : PlainLeaf(v.elems[n]))
PlainValue(v) ==
  PlainLeaf(v) \/ (PlainArray(v) /\ \A n \in 1 .. Len(v.elems) : PlainElem(v.elems[n]))

\* Their strings stand for themselves.
LeafSpelled(v) == v.type = "string" => Spelled(v.val)
ElemSpelled(v) == LeafSpelled(v) /\ \A n \in 1 .. Len(v.elems) : LeafSpelled(v.elems[n])
ValueSpelled(v) == LeafSpelled(v) /\ \A n \in 1 .. Len(v.elems) : ElemSpelled(v.elems[n])

LEMMA ReadsLeaf ==
  ASSUME NEW L, NEW text, NEW last, NEW after, NEW room, Running(L, text, last, after, room),
         NEW v, PlainLeaf(v), LeafSpelled(v)
  PROVE  Reads(text, last, after, room, LeafText(v), <<Tok(v)>>, 1, FALSE)
<1>1. v.type \in TokenTypes /\ Tok(v) = [type |-> v.type, val |-> v.val, size |-> 0]
  <2>1. Len(v.elems) = 0
    BY NothingIs DEF PlainLeaf
  <2> QED BY <2>1 DEF PlainLeaf, Tok
<1>2. CASE v.type = "string"
  <2>1. Reads(text, last, after, room, Quoted(v.val), <<[type |-> "string", val |-> v.val, size |-> 0]>>, 1, TRUE)
    BY <1>2, ReadsString DEF LeafSpelled, Spelled
  <2>2. LeafText(v) = Quoted(v.val)
    BY <1>2 DEF LeafText
  <2>3. Reads(text, last, after, room, LeafText(v), <<Tok(v)>>, 1, TRUE)
    BY <1>1, <1>2, <2>1, <2>2
  <2> QED BY <2>3, ReadsAnyway
<1>3. CASE v.type = "primitive"
  <2> DEFINE w == IF v.val = NotNumber THEN Word(v.val) ELSE Digits(v.val)
             x == WordToken(w)
  <2>1. LeafText(v) = <<w>>
    BY <1>3 DEF LeafText
  <2>2. Primary(w) /\ x = Tok(v)
    <3>1. CASE v.val = NotNumber
      <4>1. w.class = "word"
        BY <3>1 DEF Word, Lexeme
      <4> QED BY <1>1, <1>3, <3>1, <4>1 DEF WordToken, Primary
    <3>2. CASE v.val # NotNumber
      <4>1. w.class = "number" /\ w.num = v.val
        BY <3>2 DEF Digits
      <4> QED BY <1>1, <1>3, <3>2, <4>1 DEF WordToken, Primary
    <3> QED BY <3>1, <3>2
  <2> HIDE DEF w
  <2>3. Reads(text, last, after, room, <<w>>, <<x>>, 1, FALSE)
    BY <2>2, ReadsWord
  <2> QED BY <2>1, <2>2, <2>3
<1>4. CASE v.type \in DOMAIN Brackets
  <2> DEFINE f == FlattenSeq(<< >>)
  <2>1. LeafText(v) = Bracketed(v, << >>)
    <3>1. v.type \notin {"string", "primitive"}
      BY <1>4 DEF Brackets
    <3> QED BY <3>1 DEF LeafText
  <2>2. Reads(text, last, after, room, Bracketed(v, << >>), <<Container(v.type, Len(<< >>))>> \o f, 1, TRUE)
    <3>1. IsSeq(<< >>) /\ Len(<< >>) = 0
      BY NothingIs
    <3>2. \A n \in 1 .. Len(<< >>) : Reads(text, last, after, room, << >>[n], << >>[n], 1, FALSE)
      BY <3>1
    <3> HIDE DEF f
    <3> QED BY <1>4, <3>1, <3>2, ReadsBracketed DEF f
  <2>3. f = << >>
    BY NothingIs DEF FlattenSeq
  <2>4. Container(v.type, Len(<< >>)) = Tok(v)
    <3>1. Len(<< >>) = 0 /\ v.val = NotNumber
      BY <1>4, NothingIs DEF PlainLeaf
    <3> QED BY <1>1, <3>1 DEF Container
  <2>5. <<Tok(v)>> \o << >> = <<Tok(v)>>
    BY OneIs, ConcatNothing
  <2>6. Reads(text, last, after, room, LeafText(v), <<Tok(v)>>, 1, TRUE)
    <3> HIDE DEF f
    <3> QED BY <2>1, <2>2, <2>3, <2>4, <2>5
  <2> QED BY <2>6, ReadsAnyway
<1> QED BY <1>1, <1>2, <1>3, <1>4 DEF TokenTypes, Brackets

\* Sequences of one element each, joined.
LEMMA FlattenOnes ==
  ASSUME NEW s, IsSeq(s)
  PROVE  FlattenSeq([n \in 1 .. Len(s) |-> <<s[n]>>]) = s
<1> DEFINE ones == [n \in 1 .. Len(s) |-> <<s[n]>>]
           N == Len(s)
<1>1. IsSeq(ones) /\ Len(ones) = N /\ N \in Nat /\ \A n \in 1 .. N : ones[n] = <<s[n]>>
  <2>1. DOMAIN s = 1 .. N /\ N \in Nat
    BY DEF IsSeq
  <2>2. ones = [n \in DOMAIN s |-> ones[n]]
    BY <2>1
  <2>3. \A n \in 1 .. N : ones[n] = <<s[n]>>
    OBVIOUS
  <2> HIDE DEF ones
  <2> QED BY <2>1, <2>2, <2>3, MappedSeq
<1> HIDE DEF ones
<1>2. PICK f : Flattening(ones, f)
  <2>1. \A n \in 1 .. Len(ones) : IsSeq(ones[n])
    BY <1>1, OneIs
  <2> QED BY <1>1, <2>1, FlattenIs
<1>3. f[0] = << >> /\ FlattenSeq(ones) = f[N] /\ \A n \in 1 .. N : f[n] = f[n - 1] \o <<s[n]>>
  BY <1>1, <1>2 DEF Flattening
<1> DEFINE Good(n) == IsSeq(f[n]) /\ Len(f[n]) = n /\ \A i \in 1 .. n : f[n][i] = s[i]
           S == {n \in 0 .. N : Good(n)}
<1>4. 0 .. N \subseteq S
  <2>1. 0 \in S
    BY <1>1, <1>3, NothingIs
  <2>2. ASSUME NEW n \in 0 .. N - 1, n \in S PROVE n + 1 \in S
    <3> DEFINE a == f[n]
               b == <<s[n + 1]>>
    <3>1. n + 1 \in 1 .. N /\ n + 1 \in 0 .. N /\ (n + 1) - 1 = n /\ n \in Nat
      BY <1>1
    <3>2. IsSeq(a) /\ Len(a) = n /\ \A i \in 1 .. n : a[i] = s[i]
      BY <2>2
    <3>3. IsSeq(b) /\ Len(b) = 1 /\ b[1] = s[n + 1]
      BY OneIs
    <3>4. f[n + 1] = a \o b
      BY <1>3, <3>1
    <3> HIDE DEF a, b
    <3>5. /\ IsSeq(a \o b) /\ Len(a \o b) = Len(a) + Len(b)
          /\ \A i \in 1 .. Len(a) : (a \o b)[i] = a[i]
          /\ \A i \in 1 .. Len(b) : (a \o b)[Len(a) + i] = b[i]
      <4>1. IsSeq(a) /\ IsSeq(b)
        BY <3>2, <3>3
      <4> QED BY <4>1, ConcatIs
    <3>6. Len(a \o b) = n + 1 /\ (a \o b)[n + 1] = s[n + 1]
      <4>1. 1 \in 1 .. Len(b)
        BY <3>3
      <4>2. (a \o b)[Len(a) + 1] = b[1]
        BY <3>5, <4>1
      <4> QED BY <3>2, <3>3, <3>5, <4>2
    <3>7. ASSUME NEW i \in 1 .. n + 1 PROVE (a \o b)[i] = s[i]
      <4>1. CASE i = n + 1
        BY <3>6, <4>1
      <4>2. CASE i # n + 1
        <5>1. i \in 1 .. n
          BY <3>1, <4>2
        <5> QED BY <3>2, <3>5, <5>1
      <4> QED BY <4>1, <4>2
    <3>8. Good(n + 1)
      BY <3>4, <3>5, <3>6, <3>7
    <3> HIDE DEF Good
    <3> QED BY <3>1, <3>8
  <2> HIDE DEF S
  <2> QED BY <1>1, <2>1, <2>2, UpTo
<1>5. Good(N)
  BY <1>1, <1>4, N \in 0 .. N
<1>6. f[N] = s
  <2>1. f[N] = [i \in 1 .. N |-> f[N][i]] /\ s = [i \in 1 .. N |-> s[i]]
    BY <1>5 DEF IsSeq
  <2> QED BY <1>5, <2>1
<1> QED BY <1>3, <1>6 DEF ones
LEMMA NothingOnly ==
  ASSUME NEW s, IsSeq(s), Len(s) = 0
  PROVE  s = << >>
BY DEF IsSeq

\* The elements of an array, given their texts and tokens.
LEMMA ReadsArray ==
  ASSUME NEW L, NEW text, NEW last, NEW after, NEW room, Running(L, text, last, after, room),
         NEW v, PlainArray(v),
         NEW texts, IsSeq(texts), Len(texts) = Len(v.elems),
         NEW tokens, IsSeq(tokens), Len(tokens) = Len(v.elems),
         \A n \in 1 .. Len(texts) : Reads(text, last, after, room, texts[n], tokens[n], 1, FALSE)
  PROVE  Reads(text, last, after, room, Bracketed(v, texts), <<Tok(v)>> \o FlattenSeq(tokens), 1, FALSE)
<1>1. v.type \in DOMAIN Brackets
  BY DEF PlainArray, Brackets
<1>2. Container(v.type, Len(texts)) = Tok(v)
  BY DEF Container, Tok, PlainArray
<1>3. Reads(text, last, after, room, Bracketed(v, texts),
            <<Container(v.type, Len(texts))>> \o FlattenSeq(tokens), 1, TRUE)
  BY <1>1, ReadsBracketed
<1>4. Reads(text, last, after, room, Bracketed(v, texts), <<Tok(v)>> \o FlattenSeq(tokens), 1, TRUE)
  BY <1>2, <1>3
<1> QED BY <1>4, ReadsAnyway

LEMMA ReadsElem ==
  ASSUME NEW L, NEW text, NEW last, NEW after, NEW room, Running(L, text, last, after, room),
         NEW v, PlainElem(v), ElemSpelled(v)
  PROVE  Reads(text, last, after, room, ElemText(v), Shallow(v), 1, FALSE)
<1> DEFINE rest == [n \in DOMAIN v.elems |-> Tok(v.elems[n])]
<1>1. CASE PlainLeaf(v)
  <2>1. v.elems = << >>
    BY <1>1 DEF PlainLeaf
  <2>2. Reads(text, last, after, room, LeafText(v), <<Tok(v)>>, 1, FALSE)
    BY <1>1, ReadsLeaf DEF ElemSpelled
  <2>3. rest = << >>
    BY <2>1
  <2>4. <<Tok(v)>> \o << >> = <<Tok(v)>>
    BY OneIs, ConcatNothing
  <2>5. Shallow(v) = <<Tok(v)>>
    BY <2>3, <2>4 DEF Shallow
  <2>6. ElemText(v) = LeafText(v)
    BY <2>1 DEF ElemText
  <2> QED BY <2>2, <2>5, <2>6
<1>2. CASE PlainArray(v) /\ v.elems # << >> /\ \A n \in 1 .. Len(v.elems) : PlainLeaf(v.elems[n])
  <2> DEFINE texts == [n \in DOMAIN v.elems |-> LeafText(v.elems[n])]
             N == Len(v.elems)
  <2>1. IsSeq(v.elems)
    BY <1>2 DEF PlainArray
  <2>2. IsSeq(texts) /\ Len(texts) = N /\ DOMAIN v.elems = 1 .. N
    <3>1. texts = [n \in DOMAIN v.elems |-> texts[n]]
      OBVIOUS
    <3> HIDE DEF texts
    <3> QED BY <2>1, <3>1, MappedSeq
  <2>3. IsSeq(rest) /\ Len(rest) = N
    <3>1. rest = [n \in DOMAIN v.elems |-> rest[n]]
      OBVIOUS
    <3> HIDE DEF rest
    <3> QED BY <2>1, <3>1, MappedSeq
  <2> DEFINE ones == [n \in 1 .. Len(rest) |-> <<rest[n]>>]
  <2>4. IsSeq(ones) /\ Len(ones) = N
    <3>1. DOMAIN rest = 1 .. Len(rest)
      BY <2>2, <2>3
    <3>2. ones = [n \in DOMAIN rest |-> ones[n]]
      BY <3>1
    <3> HIDE DEF ones, rest
    <3> QED BY <2>3, <3>2, MappedSeq
  <2>5. ASSUME NEW n \in 1 .. N PROVE Reads(text, last, after, room, texts[n], ones[n], 1, FALSE)
    <3>1. Reads(text, last, after, room, LeafText(v.elems[n]), <<Tok(v.elems[n])>>, 1, FALSE)
      BY <1>2, ReadsLeaf DEF ElemSpelled
    <3>2. texts[n] = LeafText(v.elems[n]) /\ ones[n] = <<Tok(v.elems[n])>>
      BY <2>2, <2>3
    <3> HIDE DEF texts, ones
    <3> QED BY <3>1, <3>2
  <2>6. FlattenSeq(ones) = rest
    <3> HIDE DEF rest
    <3> QED BY <2>3, FlattenOnes
  <2>7. ElemText(v) = Bracketed(v, texts)
    BY <1>2 DEF ElemText
  <2>8. Shallow(v) = <<Tok(v)>> \o rest
    BY DEF Shallow
  <2> HIDE DEF texts, ones, rest
  <2>9. Reads(text, last, after, room, Bracketed(v, texts), <<Tok(v)>> \o FlattenSeq(ones), 1, FALSE)
    BY <1>2, <2>2, <2>4, <2>5, ReadsArray
  <2> QED BY <2>6, <2>7, <2>8, <2>9
<1>3. CASE PlainArray(v) /\ v.elems = << >>
  <2>1. PlainLeaf(v)
    BY <1>3 DEF PlainArray, PlainLeaf, TokenTypes
  <2> QED BY <1>1, <2>1
<1> QED BY <1>1, <1>2, <1>3 DEF PlainElem

LEMMA ReadsValue ==
  ASSUME NEW L, NEW text, NEW last, NEW after, NEW room, Running(L, text, last, after, room),
         NEW v, PlainValue(v), ValueSpelled(v)
  PROVE  Reads(text, last, after, room, ValueText(v), ValueTokens(v), 1, FALSE)
<1> DEFINE tokens == [n \in DOMAIN v.elems |-> Shallow(v.elems[n])]
<1>1. CASE PlainLeaf(v)
  <2>1. v.elems = << >>
    BY <1>1 DEF PlainLeaf
  <2>2. Reads(text, last, after, room, LeafText(v), <<Tok(v)>>, 1, FALSE)
    BY <1>1, ReadsLeaf DEF ValueSpelled
  <2>3. FlattenSeq(tokens) = << >>
    <3>1. tokens = << >>
      BY <2>1
    <3> HIDE DEF tokens
    <3> QED BY <3>1, NothingIs DEF FlattenSeq
  <2>4. <<Tok(v)>> \o << >> = <<Tok(v)>>
    BY OneIs, ConcatNothing
  <2>5. ValueTokens(v) = <<Tok(v)>>
    BY <2>3, <2>4 DEF ValueTokens
  <2>6. ValueText(v) = LeafText(v)
    BY <2>1 DEF ValueText
  <2> QED BY <2>2, <2>5, <2>6
<1>2. CASE PlainArray(v) /\ v.elems # << >> /\ \A n \in 1 .. Len(v.elems) : PlainElem(v.elems[n])
  <2> DEFINE texts == [n \in DOMAIN v.elems |-> ElemText(v.elems[n])]
             N == Len(v.elems)
  <2>1. IsSeq(v.elems)
    BY <1>2 DEF PlainArray
  <2>2. IsSeq(texts) /\ Len(texts) = N /\ DOMAIN v.elems = 1 .. N
    <3>1. texts = [n \in DOMAIN v.elems |-> texts[n]]
      OBVIOUS
    <3> HIDE DEF texts
    <3> QED BY <2>1, <3>1, MappedSeq
  <2>3. IsSeq(tokens) /\ Len(tokens) = N
    <3>1. tokens = [n \in DOMAIN v.elems |-> tokens[n]]
      OBVIOUS
    <3> HIDE DEF tokens
    <3> QED BY <2>1, <3>1, MappedSeq
  <2>4. ASSUME NEW n \in 1 .. N PROVE Reads(text, last, after, room, texts[n], tokens[n], 1, FALSE)
    <3>1. Reads(text, last, after, room, ElemText(v.elems[n]), Shallow(v.elems[n]), 1, FALSE)
      BY <1>2, ReadsElem DEF ValueSpelled
    <3>2. texts[n] = ElemText(v.elems[n]) /\ tokens[n] = Shallow(v.elems[n])
      BY <2>2
    <3> HIDE DEF texts, tokens
    <3> QED BY <3>1, <3>2
  <2>5. ValueText(v) = Bracketed(v, texts)
    BY <1>2 DEF ValueText
  <2>6. ValueTokens(v) = <<Tok(v)>> \o FlattenSeq(tokens)
    BY DEF ValueTokens
  <2> HIDE DEF texts, tokens
  <2>7. Reads(text, last, after, room, Bracketed(v, texts), <<Tok(v)>> \o FlattenSeq(tokens), 1, FALSE)
    BY <1>2, <2>2, <2>3, <2>4, ReadsArray
  <2> QED BY <2>5, <2>6, <2>7
<1>3. CASE PlainArray(v) /\ v.elems = << >>
  <2>1. PlainLeaf(v)
    BY <1>3 DEF PlainArray, PlainLeaf, TokenTypes
  <2> QED BY <1>1, <2>1
<1> QED BY <1>1, <1>2, <1>3 DEF PlainValue

LEMMA ReadsMember ==
  ASSUME NEW L, NEW text, NEW last, NEW after, NEW room, Running(L, text, last, after, room),
         NEW m, PlainLeaf(m.key), LeafSpelled(m.key), PlainValue(m.value), ValueSpelled(m.value)
  PROVE  Reads(text, last, after, room, MemberText(m), <<Tok(m.key)>> \o ValueTokens(m.value), 2, FALSE)
<1>1. Parsing(text, last, after) /\ room \in Nat
  BY DEF Running
<1>2. Reads(text, last, after, room, ValueText(m.key), <<Tok(m.key)>>, 1, FALSE)
  <2>1. Reads(text, last, after, room, LeafText(m.key), <<Tok(m.key)>>, 1, FALSE)
    BY ReadsLeaf
  <2>2. ValueText(m.key) = LeafText(m.key)
    BY DEF ValueText, PlainLeaf
  <2> QED BY <2>1, <2>2
<1>3. Reads(text, last, after, room, ValueText(m.key) \o <<Colon, Space>>, <<Tok(m.key)>>, 1, TRUE)
  BY <1>2, ReadsMark
<1>4. Reads(text, last, after, room, ValueText(m.value), ValueTokens(m.value), 1, FALSE)
  BY ReadsValue
<1>5. Reads(text, last, after, room, (ValueText(m.key) \o <<Colon, Space>>) \o ValueText(m.value),
            <<Tok(m.key)>> \o ValueTokens(m.value), 1 + 1, FALSE)
  BY <1>1, <1>3, <1>4, ReadsBoth
<1> QED BY <1>5, 1 + 1 = 2 DEF MemberText
-----------------------------------------------------------------------------
(* Documents *)

LEMMA FrontIs ==
  ASSUME NEW s, IsSeq(s), Len(s) # 0
  PROVE  /\ IsSeq(Front(s)) /\ Len(Front(s)) = Len(s) - 1 /\ Len(s) - 1 \in Nat
         /\ \A n \in 1 .. Len(s) - 1 : Front(s)[n] = s[n]
<1> DEFINE S == {s[n] : n \in 1 .. Len(s)}
           N == Len(s) - 1
<1>1. N \in Nat /\ N <= Len(s) /\ Len(s) \in Nat
  BY DEF IsSeq
<1>2. s \in Seq(S)
  <2>1. \A n \in 1 .. Len(s) : s[n] \in S
    OBVIOUS
  <2> HIDE DEF S
  <2> QED BY <2>1, SeqIn
<1> HIDE DEF S, N
<1>3. N \in 1 - 1 .. Len(s) /\ 1 \in 1 .. Len(s) + 1 /\ N - 1 + 1 = N
  BY <1>1
<1>4. SubSeq(s, 1, N) = [i \in 1 .. N - 1 + 1 |-> s[1 + i - 1]] /\ SubSeq(s, 1, N) \in Seq(S)
      /\ Len(SubSeq(s, 1, N)) = N - 1 + 1
  BY <1>2, <1>3, SubSeqProperties
<1>5. Front(s) = SubSeq(s, 1, N)
  BY DEF Front, N
<1>6. \A n \in 1 .. N : Front(s)[n] = s[n]
  <2> TAKE n \in 1 .. N
  <2>1. 1 + n - 1 = n /\ n \in 1 .. N - 1 + 1
    BY <1>1
  <2>2. SubSeq(s, 1, N)[n] = s[1 + n - 1]
    BY <1>4, <2>1
  <2> QED BY <1>5, <2>1, <2>2
<1>7. IsSeq(Front(s)) /\ Len(Front(s)) = N
  BY <1>3, <1>4, <1>5, SeqIs
<1> QED BY <1>1, <1>6, <1>7 DEF N

\* The names in front of a block.
NamesText(names) == [n \in DOMAIN names |-> ValueText(names[n]) \o <<Colon, Space>>]
NamesTokens(names) == [n \in DOMAIN names |-> Tok(names[n])]

LEMMA ReadsNames ==
  ASSUME NEW L, NEW text, NEW last, NEW after, NEW room, Running(L, text, last, after, room),
         NEW names, IsSeq(names),
         \A n \in 1 .. Len(names) : PlainLeaf(names[n]) /\ LeafSpelled(names[n])
  PROVE  Reads(text, last, after, room, FlattenSeq(NamesText(names)), NamesTokens(names), Len(names), TRUE)
<1> DEFINE texts == NamesText(names)
           tokens == NamesTokens(names)
           ones == [n \in 1 .. Len(tokens) |-> <<tokens[n]>>]
           N == Len(names)
<1>1. Parsing(text, last, after) /\ room \in Nat
  BY DEF Running
<1>2. /\ IsSeq(texts) /\ Len(texts) = N /\ DOMAIN names = 1 .. N /\ N \in Nat
      /\ \A n \in 1 .. N : texts[n] = ValueText(names[n]) \o <<Colon, Space>>
  <2>1. texts = [n \in DOMAIN names |-> texts[n]] /\ DOMAIN names = 1 .. N /\ N \in Nat
    BY DEF IsSeq, NamesText
  <2>2. \A n \in 1 .. N : texts[n] = ValueText(names[n]) \o <<Colon, Space>>
    BY <2>1 DEF NamesText
  <2> HIDE DEF texts
  <2> QED BY <2>1, <2>2, MappedSeq
<1>3. IsSeq(tokens) /\ Len(tokens) = N /\ \A n \in 1 .. N : tokens[n] = Tok(names[n])
  <2>1. tokens = [n \in DOMAIN names |-> tokens[n]]
    BY DEF NamesTokens
  <2>2. \A n \in 1 .. N : tokens[n] = Tok(names[n])
    BY <1>2 DEF NamesTokens
  <2> HIDE DEF tokens
  <2> QED BY <2>1, <2>2, MappedSeq
<1> HIDE DEF texts, tokens
<1>4. IsSeq(ones) /\ Len(ones) = N /\ \A n \in 1 .. N : ones[n] = <<Tok(names[n])>>
  <2>1. DOMAIN tokens = 1 .. Len(tokens)
    BY <1>3 DEF IsSeq
  <2>2. ones = [n \in DOMAIN tokens |-> ones[n]]
    BY <2>1
  <2>3. \A n \in 1 .. N : ones[n] = <<Tok(names[n])>>
    BY <1>3
  <2> HIDE DEF ones
  <2> QED BY <1>3, <2>2, <2>3, MappedSeq
<1>5. FlattenSeq(ones) = tokens
  BY <1>3, FlattenOnes
<1> HIDE DEF ones
<1>6. ASSUME NEW n \in 1 .. N
      PROVE  Reads(text, last, after, room, texts[n], ones[n], 1, n < N \/ TRUE)
  <2>1. Reads(text, last, after, room, LeafText(names[n]), <<Tok(names[n])>>, 1, FALSE)
    BY ReadsLeaf
  <2>2. ValueText(names[n]) = LeafText(names[n])
    BY DEF ValueText, PlainLeaf
  <2>3. Reads(text, last, after, room, ValueText(names[n]) \o <<Colon, Space>>, <<Tok(names[n])>>, 1, TRUE)
    BY <2>1, <2>2, ReadsMark
  <2>4. (n < N \/ TRUE) = TRUE
    OBVIOUS
  <2> QED BY <1>2, <1>4, <2>3, <2>4
<1>7. Reads(text, last, after, room, FlattenSeq(texts), FlattenSeq(ones), 1 * N, N = 0 \/ TRUE)
  BY <1>1, <1>2, <1>4, <1>6, ReadsAll
<1>8. 1 * N = N /\ (N = 0 \/ TRUE) = TRUE
  BY <1>2
<1> QED BY <1>5, <1>7, <1>8 DEF texts, tokens

\* The members of a block.
MembersText(members) == [n \in DOMAIN members |-> MemberText(members[n])]
MembersTokens(members) ==
  [n \in DOMAIN members |-> <<Tok(members[n].key)>> \o ValueTokens(members[n].value)]

LEMMA ReadsMembers ==
  ASSUME NEW L, NEW text, NEW last, NEW after, NEW room, Running(L, text, last, after, room),
         NEW members, IsSeq(members),
         \A n \in 1 .. Len(members) :
           /\ PlainLeaf(members[n].key) /\ LeafSpelled(members[n].key)
           /\ PlainValue(members[n].value) /\ ValueSpelled(members[n].value)
  PROVE  Reads(text, last, after, room, Joined(MembersText(members)), FlattenSeq(MembersTokens(members)),
               2 * Len(members), FALSE)
<1> DEFINE texts == MembersText(members)
           tokens == MembersTokens(members)
           N == Len(members)
<1>1. /\ IsSeq(texts) /\ Len(texts) = N
      /\ \A n \in 1 .. N : texts[n] = MemberText(members[n])
  <2>1. texts = [n \in DOMAIN members |-> texts[n]] /\ DOMAIN members = 1 .. N
    BY DEF IsSeq, MembersText
  <2>2. \A n \in 1 .. N : texts[n] = MemberText(members[n])
    BY <2>1 DEF MembersText
  <2> HIDE DEF texts
  <2> QED BY <2>1, <2>2, MappedSeq
<1>2. /\ IsSeq(tokens) /\ Len(tokens) = N
      /\ \A n \in 1 .. N : tokens[n] = <<Tok(members[n].key)>> \o ValueTokens(members[n].value)
  <2>1. tokens = [n \in DOMAIN members |-> tokens[n]] /\ DOMAIN members = 1 .. N
    BY DEF IsSeq, MembersTokens
  <2>2. \A n \in 1 .. N : tokens[n] = <<Tok(members[n].key)>> \o ValueTokens(members[n].value)
    BY <2>1 DEF MembersTokens
  <2> HIDE DEF tokens
  <2> QED BY <2>1, <2>2, MappedSeq
<1> HIDE DEF texts, tokens
<1>3. ASSUME NEW n \in 1 .. N PROVE Reads(text, last, after, room, texts[n], tokens[n], 2, FALSE)
  <2> DEFINE m == members[n]
  <2>1. PlainLeaf(m.key) /\ LeafSpelled(m.key) /\ PlainValue(m.value) /\ ValueSpelled(m.value)
    OBVIOUS
  <2>2. texts[n] = MemberText(m) /\ tokens[n] = <<Tok(m.key)>> \o ValueTokens(m.value)
    BY <1>1, <1>2
  <2> HIDE DEF m
  <2>3. Reads(text, last, after, room, MemberText(m), <<Tok(m.key)>> \o ValueTokens(m.value), 2, FALSE)
    BY <2>1, ReadsMember
  <2> QED BY <2>2, <2>3
<1>4. Reads(text, last, after, room, Joined(texts), FlattenSeq(tokens), 2 * Len(texts), FALSE)
  BY <1>1, <1>2, <1>3, ReadsJoined
<1> QED BY <1>1, <1>4 DEF texts, tokens

\* The object of a block, between the white space around it.
LEMMA ReadsObject ==
  ASSUME NEW L, NEW text, NEW last, NEW after, NEW room, Running(L, text, last, after, room),
         NEW s, NEW new, NEW count, NEW free, Reads(text, last, after, room, s, new, count, free)
  PROVE  Reads(text, last, after, room,
               (<<Opening("object")>> \o (<<Space>> \o s \o <<Space>>) \o <<Closing("object")>>) \o <<Space>>,
               <<Tok(Obj)>> \o new, 1, TRUE)
<1> DEFINE w == <<Space>> \o s \o <<Space>>
           o == <<Opening("object")>> \o w \o <<Closing("object")>>
<1>1. Parsing(text, last, after) /\ room \in Nat
  BY DEF Running
<1>2. PICK less : Reads(text, last, after, room, w, new, count, less)
  <2>1. Pad(<< >>) = <<Space>>
    BY DEF Pad
  <2>2. \E less : Reads(text, last, after, room, Pad(<< >>) \o s \o Pad(<< >>), new, count, less)
    BY ReadsPadded
  <2> QED BY <2>1, <2>2
<1>3. Reads(text, last, after, room, o, <<Container("object", count)>> \o new, 1, TRUE)
  <2>1. "object" \in DOMAIN Brackets
    BY DEF Brackets
  <2> HIDE DEF w
  <2> QED BY <1>2, <2>1, ReadsContainer
<1>4. Container("object", count) = Tok(Obj)
  <2>1. Obj.type = "object" /\ Obj.val = NotNumber /\ Len(Obj.elems) = 0
    BY NothingIs DEF Obj, Value
  <2> QED BY <2>1 DEF Container, Tok
<1> HIDE DEF o
<1> DEFINE t == <<Tok(Obj)>> \o new
<1>5. IsSeq(t)
  BY OneIs, ConcatIs DEF Reads
<1>6. Reads(text, last, after, room, o, t, 1, TRUE)
  BY <1>3, <1>4
<1> HIDE DEF t
<1>7. Reads(text, last, after, room, <<Space>>, << >>, 0, TRUE)
  <2>1. Passed(Space)
    <3>1. Space.class = "space"
      BY DEF Space, Char, Lexeme
    <3> QED BY <3>1 DEF Passed
  <2> QED BY <2>1, ReadsSkip
<1>8. Reads(text, last, after, room, o \o <<Space>>, t \o << >>, 1 + 0, TRUE)
  BY <1>1, <1>6, <1>7, ReadsBoth
<1>9. t \o << >> = t /\ 1 + 0 = 1
  BY <1>5, ConcatNothing
<1> QED BY <1>8, <1>9 DEF o, t
LEMMA TripleIs ==
  ASSUME NEW a, NEW b, NEW c
  PROVE  <<a, b, c>> = (<<a>> \o <<b>>) \o <<c>>
<1> DEFINE s == <<a, b, c>>
           m == <<b>>
           t == <<a>> \o m \o <<c>>
<1>1. IsSeq(m) /\ Len(m) = 1 /\ m[1] = b
  BY OneIs
<1>2. IsSeq(s) /\ Len(s) = 3 /\ s[1] = a /\ s[2] = b /\ s[3] = c
  <2>1. s \in Seq({a, b, c})
    OBVIOUS
  <2>2. Len(s) = 3 /\ s[1] = a /\ s[2] = b /\ s[3] = c
    OBVIOUS
  <2> HIDE DEF s
  <2> QED BY <2>1, <2>2, SeqIs
<1> HIDE DEF s, m
<1>3. Encloses(t, a, m, c)
  BY <1>1, EnclosedIs
<1> HIDE DEF t
<1>4. IsSeq(t) /\ Len(t) = 3 /\ t[1] = a /\ t[2] = b /\ t[3] = c
  <2>1. /\ IsSeq(t) /\ Len(t) = 1 + 2 /\ t[1] = a /\ t[1 + 2] = c
        /\ \A i \in 1 .. 1 : t[1 + i] = m[i]
    BY <1>1, <1>3 DEF Encloses
  <2>2. 1 + 2 = 3 /\ 1 + 1 = 2 /\ 1 \in 1 .. 1
    OBVIOUS
  <2> QED BY <1>1, <2>1, <2>2
<1>5. s = [i \in 1 .. 3 |-> s[i]] /\ t = [i \in 1 .. 3 |-> t[i]]
  BY <1>2, <1>4 DEF IsSeq
<1>6. \A i \in 1 .. 3 : s[i] = t[i]
  <2>1. \A i \in 1 .. 3 : i = 1 \/ i = 2 \/ i = 3
    OBVIOUS
  <2> QED BY <1>2, <1>4, <2>1
<1>7. s = t
  BY <1>5, <1>6
<1> QED BY <1>7 DEF s, t, m

\* The brackets of the block's object belong to what they enclose.
Regrouped(f, o, w, b, c) ==
  ((f \o (o \o w)) \o b) \o ((w \o c) \o w) = f \o (((o \o ((w \o b) \o w)) \o c) \o w)

LEMMA Regroup ==
  ASSUME NEW f, NEW o, NEW w, NEW b, NEW c, IsSeq(f), IsSeq(o), IsSeq(w), IsSeq(b), IsSeq(c)
  PROVE  Regrouped(f, o, w, b, c)
<1> DEFINE x == o \o w
           y == x \o b
           wb == w \o b
           wc == w \o c
           z == wc \o w
           owb == o \o wb
           in == wb \o w
           oin == o \o in
<1>1. IsSeq(x) /\ IsSeq(wb) /\ IsSeq(wc)
  BY ConcatIs
<1>2. IsSeq(y) /\ IsSeq(in) /\ IsSeq(z)
  <2> HIDE DEF x, wb, wc
  <2> QED BY <1>1, ConcatIs
<1>3. y = o \o wb
  <2>1. Associate(o, w, b)
    BY ConcatAssoc
  <2> QED BY <2>1 DEF Associate
<1>4. y \o w = oin
  <2> HIDE DEF wb, y
  <2>1. Associate(o, wb, w)
    BY <1>1, ConcatAssoc
  <2> QED BY <1>3, <2>1 DEF Associate
<1>5. y \o wc = oin \o c
  <2> HIDE DEF y, oin
  <2>1. Associate(y, w, c)
    BY <1>2, ConcatAssoc
  <2> QED BY <1>4, <2>1 DEF Associate
<1>6. y \o z = (oin \o c) \o w
  <2> HIDE DEF y, oin, wc
  <2>1. Associate(y, wc, w)
    BY <1>1, <1>2, ConcatAssoc
  <2> QED BY <1>5, <2>1 DEF Associate
<1>7. (f \o x) \o b = f \o y
  <2> HIDE DEF x
  <2>1. Associate(f, x, b)
    BY <1>1, ConcatAssoc
  <2> QED BY <2>1 DEF Associate
<1>8. (f \o y) \o z = f \o (y \o z)
  <2> HIDE DEF y, z
  <2>1. Associate(f, y, z)
    BY <1>2, ConcatAssoc
  <2> QED BY <2>1 DEF Associate
<1>9. ((f \o x) \o b) \o z = f \o ((oin \o c) \o w)
  <2> HIDE DEF x, y, z, oin
  <2> QED BY <1>6, <1>7, <1>8
<1> QED BY <1>9 DEF Regrouped

\* Documents as the commands write them, and as they may be edited: the values
\* are arrays of arrays at most, and the heads and keys hold no others.
Plain(doc) ==
  /\ IsSeq(doc.head) /\ \A n \in 1 .. Len(doc.head) : PlainLeaf(doc.head[n])
  /\ IsSeq(doc.members)
  /\ \A n \in 1 .. Len(doc.members) :
       PlainLeaf(doc.members[n].key) /\ PlainValue(doc.members[n].value)

DocSpelled(doc) ==
  /\ \A n \in 1 .. Len(doc.head) : LeafSpelled(doc.head[n])
  /\ \A n \in 1 .. Len(doc.members) :
       LeafSpelled(doc.members[n].key) /\ ValueSpelled(doc.members[n].value)

\* The text of a document whose head ends with an object: the names, and the
\* members in the brackets of the object.
InObject(f, b) ==
  f \o ((<<Opening("object")>> \o (<<Space>> \o b \o <<Space>>) \o <<Closing("object")>>) \o <<Space>>)

LEMMA TextInObject ==
  ASSUME NEW doc, IsSeq(doc.head), doc.head # << >>, Last(doc.head) = Obj,
         IsSeq(FlattenSeq(NamesText(Front(doc.head)))), IsSeq(Joined(MembersText(doc.members)))
  PROVE  Text(doc) = InObject(FlattenSeq(NamesText(Front(doc.head))), Joined(MembersText(doc.members)))
<1> DEFINE names == NamesText(doc.head)
           N == Len(doc.head)
           front == Front(doc.head)
           f == FlattenSeq(NamesText(front))
           b == Joined(MembersText(doc.members))
           o == <<Opening("object")>>
           w == <<Space>>
           c == <<Closing("object")>>
           x == (o \o (w \o b \o w) \o c) \o w
<1>1. N # 0 /\ N \in Nat
  <2>1. N # 0
    BY NothingOnly
  <2> QED BY <2>1 DEF IsSeq
<1>2. IsSeq(front) /\ Len(front) = N - 1 /\ \A n \in 1 .. N - 1 : front[n] = doc.head[n]
  BY <1>1, FrontIs
<1>3. IsSeq(names) /\ Len(names) = N /\ DOMAIN doc.head = 1 .. N
  <2>1. names = [n \in DOMAIN doc.head |-> names[n]]
    BY DEF NamesText
  <2> HIDE DEF names
  <2> QED BY <1>1, <2>1, MappedSeq
<1> HIDE DEF front
<1>4. Front(names) = NamesText(front)
  <2> DEFINE s == Front(names)
             u == NamesText(front)
  <2>1. IsSeq(s) /\ Len(s) = N - 1 /\ \A n \in 1 .. N - 1 : s[n] = names[n]
    <3> HIDE DEF names
    <3> QED BY <1>1, <1>3, FrontIs
  <2>2. IsSeq(u) /\ Len(u) = N - 1 /\ DOMAIN front = 1 .. N - 1
    <3>1. u = [n \in DOMAIN front |-> u[n]]
      BY DEF NamesText
    <3> HIDE DEF u
    <3> QED BY <1>2, <3>1, MappedSeq
  <2>3. ASSUME NEW n \in 1 .. N - 1 PROVE s[n] = u[n]
    <3>1. n \in 1 .. N
      BY <1>1
    <3>2. names[n] = ValueText(doc.head[n]) \o <<Colon, Space>>
      BY <1>3, <3>1 DEF NamesText
    <3>3. u[n] = ValueText(front[n]) \o <<Colon, Space>>
      BY <2>2 DEF NamesText
    <3> HIDE DEF s, u, names
    <3> QED BY <1>2, <2>1, <3>2, <3>3
  <2> HIDE DEF s, u, names
  <2>4. s = [n \in 1 .. N - 1 |-> s[n]] /\ u = [n \in 1 .. N - 1 |-> u[n]]
    BY <2>1, <2>2 DEF IsSeq
  <2>5. s = u
    BY <2>3, <2>4
  <2> QED BY <2>5 DEF s, u
<1>5. Text(doc) = FlattenSeq(Front(names)) \o <<Opening("object"), Space>> \o b
                    \o <<Space, Closing("object"), Space>>
  BY DEF Text, NamesText, MembersText
<1>6. IsSeq(f) /\ IsSeq(b) /\ IsSeq(o) /\ IsSeq(w) /\ IsSeq(c)
  BY OneIs DEF front
<1> HIDE DEF b
<1>7. Text(doc) = f \o x
  <2>1. Text(doc) = ((f \o (o \o w)) \o b) \o ((w \o c) \o w)
    <3>1. <<Opening("object"), Space>> = o \o w
      BY PairIs
    <3>2. <<Space, Closing("object"), Space>> = (w \o c) \o w
      BY TripleIs
    <3>3. Text(doc) = FlattenSeq(Front(names)) \o <<Opening("object"), Space>> \o b
                        \o <<Space, Closing("object"), Space>>
      BY <1>5
    <3> HIDE DEF o, w, c, names
    <3> QED BY <1>4, <3>1, <3>2, <3>3 DEF f
  <2> HIDE DEF f, o, w, c
  <2>2. Regrouped(f, o, w, b, c)
    BY <1>6, Regroup
  <2> QED BY <2>1, <2>2 DEF Regrouped
<1> QED BY <1>7 DEF InObject, b, front

LEMMA ReadsDoc ==
  ASSUME NEW L, NEW text, NEW last, NEW after, NEW room, Running(L, text, last, after, room),
         NEW doc, Plain(doc), DocSpelled(doc)
  PROVE  \E count : Reads(text, last, after, room, Text(doc), Tokens(doc), count, FALSE)
<1> DEFINE names == NamesText(doc.head)
           N == Len(doc.head)
           b == Joined(MembersText(doc.members))
           t == FlattenSeq(MembersTokens(doc.members))
           k == 2 * Len(doc.members)
<1>1. Parsing(text, last, after) /\ room \in Nat
  BY DEF Running
<1>2. Text(doc) = IF doc.head # << >> /\ Last(doc.head) = Obj
                  THEN FlattenSeq(Front(names)) \o <<Opening("object"), Space>> \o b
                         \o <<Space, Closing("object"), Space>>
                  ELSE FlattenSeq(names) \o b
  BY DEF Text, NamesText, MembersText
<1>3. Tokens(doc) = NamesTokens(doc.head) \o t
  BY DEF Tokens, NamesTokens, MembersTokens
<1>4. Reads(text, last, after, room, b, t, k, FALSE)
  BY ReadsMembers DEF Plain, DocSpelled
<1>5. IsSeq(b) /\ IsSeq(t)
  BY <1>4 DEF Reads
<1> HIDE DEF b, t, k
<1>6. CASE ~ (doc.head # << >> /\ Last(doc.head) = Obj)
  <2>1. Reads(text, last, after, room, FlattenSeq(names), NamesTokens(doc.head), N, TRUE)
    BY ReadsNames DEF Plain, DocSpelled
  <2>2. Reads(text, last, after, room, FlattenSeq(names) \o b, NamesTokens(doc.head) \o t, N + k, FALSE)
    BY <1>1, <1>4, <2>1, ReadsBoth
  <2> QED BY <1>2, <1>3, <1>6, <2>2
<1>7. CASE doc.head # << >> /\ Last(doc.head) = Obj
  <2> DEFINE front == Front(doc.head)
             f == FlattenSeq(NamesText(front))
             ft == NamesTokens(front)
             o == <<Opening("object")>>
             w == <<Space>>
             c == <<Closing("object")>>
             x == (o \o (w \o b \o w) \o c) \o w
             xt == <<Tok(Obj)>> \o t
  <2>1. IsSeq(doc.head) /\ N # 0 /\ N \in Nat
    <3>1. IsSeq(doc.head)
      BY DEF Plain
    <3>2. N # 0
      BY <1>7, <3>1, NothingOnly
    <3> QED BY <3>1, <3>2 DEF IsSeq
  <2>2. IsSeq(front) /\ Len(front) = N - 1 /\ \A n \in 1 .. N - 1 : front[n] = doc.head[n]
    BY <2>1, FrontIs
  <2>3. IsSeq(names) /\ Len(names) = N /\ DOMAIN doc.head = 1 .. N
    <3>1. names = [n \in DOMAIN doc.head |-> names[n]]
      BY DEF NamesText
    <3> HIDE DEF names
    <3> QED BY <2>1, <3>1, MappedSeq
  <2> HIDE DEF front
  <2>5. Reads(text, last, after, room, f, ft, N - 1, TRUE)
    <3>1. \A n \in 1 .. Len(front) : PlainLeaf(front[n]) /\ LeafSpelled(front[n])
      BY <2>1, <2>2 DEF Plain, DocSpelled
    <3> QED BY <2>2, <3>1, ReadsNames
  <2>6. Reads(text, last, after, room, x, xt, 1, TRUE)
    BY <1>4, ReadsObject
  <2>7. Reads(text, last, after, room, f \o x, ft \o xt, (N - 1) + 1, TRUE)
    <3> HIDE DEF f, ft, x, xt
    <3> QED BY <1>1, <2>5, <2>6, ReadsBoth
  <2>8. Text(doc) = f \o x
    <3>1. IsSeq(f)
      BY <2>5 DEF Reads
    <3> QED BY <1>5, <1>7, <2>1, <3>1, TextInObject DEF InObject, b, front
  <2>9. Tokens(doc) = ft \o xt
    <3> DEFINE e == <<Tok(Obj)>>
               h == NamesTokens(doc.head)
    <3>1. IsSeq(ft) /\ IsSeq(e) /\ Len(e) = 1 /\ e[1] = Tok(Obj)
      BY <2>5, OneIs DEF Reads
    <3>2. Len(ft) = N - 1 /\ \A n \in 1 .. N - 1 : ft[n] = Tok(doc.head[n])
      <4>1. ft = [n \in DOMAIN front |-> ft[n]] /\ DOMAIN front = 1 .. N - 1
        BY <2>2 DEF IsSeq, NamesTokens
      <4>2. \A n \in 1 .. N - 1 : ft[n] = Tok(front[n])
        BY <4>1 DEF NamesTokens
      <4>3. Len(ft) = N - 1
        <5> HIDE DEF ft
        <5> QED BY <2>2, <4>1, MappedSeq
      <4> HIDE DEF ft
      <4> QED BY <2>2, <4>2, <4>3
    <3>3. h = ft \o e
      <4>1. IsSeq(h) /\ Len(h) = N /\ \A n \in 1 .. N : h[n] = Tok(doc.head[n])
        <5>1. h = [n \in DOMAIN doc.head |-> h[n]]
          BY DEF NamesTokens
        <5>2. \A n \in 1 .. N : h[n] = Tok(doc.head[n])
          BY <2>3 DEF NamesTokens
        <5> HIDE DEF h
        <5> QED BY <2>1, <5>1, <5>2, MappedSeq
      <4> HIDE DEF ft, e, h
      <4>2. /\ IsSeq(ft \o e) /\ Len(ft \o e) = Len(ft) + Len(e)
            /\ \A i \in 1 .. Len(ft) : (ft \o e)[i] = ft[i]
            /\ \A i \in 1 .. Len(e) : (ft \o e)[Len(ft) + i] = e[i]
        <5>1. IsSeq(ft) /\ IsSeq(e)
          BY <3>1
        <5> QED BY <5>1, ConcatIs
      <4>3. Len(ft \o e) = N /\ (ft \o e)[N] = e[1]
        <5>1. 1 \in 1 .. Len(e) /\ Len(ft) + 1 = N
          BY <2>1, <3>1, <3>2
        <5> QED BY <3>1, <4>2, <5>1
      <4>4. doc.head[N] = Obj
        BY <1>7 DEF Last
      <4>5. ASSUME NEW n \in 1 .. N PROVE h[n] = (ft \o e)[n]
        <5>1. CASE n = N
          BY <3>1, <4>1, <4>3, <4>4, <5>1
        <5>2. CASE n # N
          <6>1. n \in 1 .. N - 1
            BY <2>1, <5>2
          <6> QED BY <3>2, <4>1, <4>2, <6>1
        <5> QED BY <5>1, <5>2
      <4>6. h = [n \in 1 .. N |-> h[n]] /\ ft \o e = [n \in 1 .. N |-> (ft \o e)[n]]
        BY <4>1, <4>2, <4>3 DEF IsSeq
      <4> QED BY <4>5, <4>6
    <3>4. Associate(ft, e, t)
      <4> HIDE DEF ft, e
      <4> QED BY <1>5, <3>1, ConcatAssoc
    <3> HIDE DEF ft, e, h
    <3>5. Tokens(doc) = (ft \o e) \o t
      BY <1>3, <3>3 DEF h
    <3>6. Tokens(doc) = ft \o (e \o t)
      BY <3>4, <3>5 DEF Associate
    <3> QED BY <3>6 DEF e
  <2> HIDE DEF f, ft, x, xt
  <2>10. Reads(text, last, after, room, Text(doc), Tokens(doc), (N - 1) + 1, TRUE)
    BY <2>7, <2>8, <2>9
  <2>11. Reads(text, last, after, room, Text(doc), Tokens(doc), (N - 1) + 1, FALSE)
    BY <2>10, ReadsAnyway
  <2> QED BY <2>11
<1> QED BY <1>6, <1>7

\* Of the text of a document the parser gets to the end, with the tokens it ought
\* to have, where there is room for them.
LEMMA ReadsThrough ==
  ASSUME NEW L, NEW doc, Plain(doc), DocSpelled(doc), NEW last, NEW after, NEW room,
         Running(L, Text(doc), last, after, room), Len(Tokens(doc)) <= room
  PROVE  LET p == jsmn_parse(Text(doc))
         IN  p.error = "none" /\ SeenTokens(Text(doc), p.tokens) = Tokens(doc)
<1> DEFINE text == Text(doc)
           new == Tokens(doc)
<1>1. Parsing(text, last, after)
  BY DEF Running
<1>2. Running(L, text, last, after, room)
  OBVIOUS
<1>3. PICK count : Reads(text, last, after, room, text, new, count, FALSE)
  BY <1>2, ReadsDoc
<1> HIDE DEF text, new
<1>4. Len(text) \in Nat /\ last \in Nat /\ after[0] = jsmn_init
  BY <1>1 DEF Parsing
<1> DEFINE p == jsmn_init
<1>5. p.pos = 1 /\ p.tokens = << >> /\ p.super = 0 /\ p.error = "none" /\ Len(p.tokens) = 0
  BY NothingIs DEF jsmn_init
<1> HIDE DEF p
<1>6. Reached(last, after, p)
  <2>1. 0 \in 0 .. last /\ p = after[0] /\ 0 < p.pos
    BY <1>4, <1>5 DEF p
  <2> QED BY <1>5, <2>1 DEF Reached
<1>7. Placed(text, p.pos, text)
  <2>1. 1 + Len(text) <= Len(text) + 1
    BY <1>4
  <2>2. \A i \in 1 .. Len(text) : 1 + i - 1 = i
    BY <1>4
  <2> QED BY <1>5, <2>1, <2>2 DEF Placed
<1>8. IsSeq(new) /\ Len(new) \in Nat
  BY <1>3 DEF Reads, IsSeq
<1>9. Len(p.tokens) + Len(new) <= room
  <2>1. 0 + Len(new) = Len(new)
    BY <1>8
  <2> QED BY <1>5, <2>1 DEF new
<1>10. 1 + Len(text) > Len(text)
  BY <1>4
<1>11. EndsWord(text, p.pos + Len(text))
  BY <1>5, <1>10 DEF EndsWord
<1>12. PICK q : Reached(last, after, q) /\ Took(text, p, q, Len(text), new, count)
  BY <1>3, <1>6, <1>7, <1>9, <1>11 DEF Reads
<1>13. q.pos = 1 + Len(text) /\ Len(q.tokens) = Len(new)
       /\ \A i \in 1 .. Len(new) : q.tokens[i].end # 0 /\ Seen(text, q.tokens[i]) = new[i]
  <2>1. q.pos = p.pos + Len(text) /\ Len(q.tokens) = Len(p.tokens) + Len(new)
    BY <1>12 DEF Took
  <2>2. 0 + Len(new) = Len(new) /\ \A i \in 1 .. Len(new) : 0 + i = i
    BY <1>8
  <2>3. \A i \in 1 .. Len(new) :
          /\ q.tokens[Len(p.tokens) + i].end # 0
          /\ Seen(text, q.tokens[Len(p.tokens) + i]) = new[i]
    BY <1>12 DEF Took
  <2> QED BY <1>5, <2>1, <2>2, <2>3
<1>14. IsSeq(q.tokens) /\ q.error = "none" /\ DOMAIN q.tokens = 1 .. Len(new)
  <2>1. IsSeq(q.tokens) /\ q.error = "none"
    BY <1>1, <1>12, ReachedInv
  <2> QED BY <1>13, <2>1 DEF IsSeq
<1>15. Unclosed(q) = {}
  BY <1>13, <1>14 DEF Unclosed
<1>16. jsmn_parse(text) = q
  BY <1>2, <1>10, <1>12, <1>13, <1>15, ReachedLast
<1>17. SeenTokens(text, q.tokens) = new
  <2>1. SeenTokens(text, q.tokens) = [n \in 1 .. Len(new) |-> Seen(text, q.tokens[n])]
    BY <1>14 DEF SeenTokens
  <2>2. new = [n \in 1 .. Len(new) |-> new[n]]
    BY <1>8 DEF IsSeq
  <2> QED BY <1>13, <2>1, <2>2
<1> QED BY <1>14, <1>16, <1>17 DEF text, new

\* Of a document that is plain, and whose strings stand for themselves, jsmn makes
\* the tokens it ought to, if there is room for them, and none if there is not.
THEOREM PlainReadBack ==
  ASSUME NEW L, Unending(L), NEW doc, Text(doc) \in Seq(L), Plain(doc), DocSpelled(doc)
  PROVE  LET p == jsmn_parse(Text(doc))
         IN  /\ p.error = "none" <=> Len(Tokens(doc)) <= MaxTokens
             /\ p.error = "none" => SeenTokens(Text(doc), p.tokens) = Tokens(doc)
<1> DEFINE text == Text(doc)
           new == Tokens(doc)
           p == jsmn_parse(text)
<1>1. Lexicon(L) /\ text \in Seq(L)
  BY DEF Unending
<1> HIDE DEF text, new, p
<1>2. PICK last, after : Parsing(text, last, after)
  BY <1>1, ParseTurns
<1>3. Running(L, text, last, after, MaxTokens)
  BY <1>1, <1>2, TokensAssumption DEF Running
<1>4. PICK count : Reads(text, last, after, MaxTokens, text, new, count, FALSE)
  BY <1>3, ReadsDoc DEF text, new
<1>5. IsSeq(new) /\ Len(new) \in Nat
  BY <1>4 DEF Reads, IsSeq
<1>6. ASSUME Len(new) <= MaxTokens PROVE p.error = "none" /\ SeenTokens(text, p.tokens) = new
  BY <1>3, <1>6, ReadsThrough DEF text, new, p
<1>7. ASSUME p.error = "none" PROVE Len(new) <= MaxTokens /\ SeenTokens(text, p.tokens) = new
  <2>1. after[last].error = "none"
    BY <1>2, <1>7 DEF Parsing, LastCheck, Stop, p
  <2>2. Running(L, text, last, after, Len(new))
    BY <1>1, <1>2, <1>5, <2>1 DEF Running
  <2>3. Len(new) <= Len(new)
    BY <1>5
  <2>4. SeenTokens(text, p.tokens) = new
    BY <2>2, <2>3, ReadsThrough DEF text, new, p
  <2>5. p.tokens \in Seq(JsmnToken) /\ Len(p.tokens) <= MaxTokens
    BY <1>1, ParsedInv DEF ParserInv, JsmnParser, p
  <2>6. DOMAIN new = 1 .. Len(p.tokens) /\ Len(p.tokens) \in Nat
    BY <2>4, <2>5 DEF SeenTokens
  <2>7. DOMAIN new = 1 .. Len(new)
    BY <1>5 DEF IsSeq
  <2>8. Len(new) = Len(p.tokens)
    BY <1>5, <2>6, <2>7
  <2> QED BY <2>4, <2>5, <2>8
<1> QED BY <1>6, <1>7 DEF text, new, p

-----------------------------------------------------------------------------
(* The strings of a document *)

\* A string is the one its spelling is of.
LEMMA SpelledAsIs ==
  ASSUME NEW s, IsSeq(Spell(s)), Legible(Spell(s))
  PROVE  Spelled(s)
<1>1. CASE s \in DOMAIN Spelling
  <2>1. Spell(s) = Spelling[s]
    BY <1>1 DEF Spell
  <2>2. /\ Classes(Spell(s)) # <<"word">>
        /\ \A t \in DOMAIN Spelling :
              Classes(Spelling[t]) = Classes(Spell(s)) /\ Spelling[t] = Spell(s) => t = s
    BY <1>1, <2>1, SpellingAssumption
  <2> DEFINE same == {x \in DOMAIN Spelling :
                        Classes(Spelling[x]) = Classes(Spell(s)) /\ Spelling[x] = Spell(s)}
  <2>3. same = {s}
    BY <1>1, <2>1, <2>2
  <2>4. StringOf(Spell(s)) =
          IF Classes(Spell(s)) = <<"word">> THEN Spell(s)[1].val
          ELSE IF same # {} THEN CHOOSE x \in same : TRUE ELSE "other"
    BY DEF StringOf
  <2>5. StringOf(Spell(s)) = CHOOSE x \in {s} : TRUE
    BY <2>2, <2>3, <2>4
  <2>6. (CHOOSE x \in {s} : TRUE) = s
    OBVIOUS
  <2> QED BY <2>5, <2>6 DEF Spelled
<1>2. CASE s \notin DOMAIN Spelling
  <2>1. Spell(s) = <<Word(s)>>
    BY <1>2 DEF Spell
  <2>2. Word(s).class = "word" /\ Word(s).val = s
    BY DEF Word, Lexeme
  <2>3. Classes(<<Word(s)>>) = <<"word">>
    BY <2>2 DEF Classes
  <2>4. StringOf(<<Word(s)>>) = s
    BY <2>2, <2>3 DEF StringOf
  <2> QED BY <2>1, <2>4 DEF Spelled
<1> QED BY <1>1, <1>2


\* The strings of a value, taken apart.
LEMMA StringsAre ==
  ASSUME NEW v
  PROVE  /\ v.type = "string" => v.val \in StringsIn(v)
         /\ \A n \in DOMAIN v.elems :
              /\ v.elems[n].type = "string" => v.elems[n].val \in StringsIn(v)
              /\ \A m \in DOMAIN v.elems[n].elems :
                   v.elems[n].elems[m].type = "string" => v.elems[n].elems[m].val \in StringsIn(v)
<1> DEFINE ones(w) == IF w.type = "string" THEN {w.val} ELSE {}
           twos(w) == ones(w) \cup UNION {ones(w.elems[n]) : n \in DOMAIN w.elems}
<1>1. StringsIn(v) = ones(v) \cup UNION {twos(v.elems[n]) : n \in DOMAIN v.elems}
  BY DEF StringsIn
<1>2. \A w : w.type = "string" => w.val \in ones(w)
  OBVIOUS
<1> HIDE DEF ones
<1>3. ASSUME NEW w PROVE ones(w) \subseteq twos(w)
                         /\ \A n \in DOMAIN w.elems : ones(w.elems[n]) \subseteq twos(w)
  OBVIOUS
<1> HIDE DEF twos
<1> QED BY <1>1, <1>2, <1>3

\* A document whose strings are legible is read as it is.
LEMMA LegibleSpelled ==
  ASSUME NEW L, NEW doc, DocumentOf(L, doc), Plain(doc), AllLegible(doc)
  PROVE  DocSpelled(doc)
<1>1. /\ DOMAIN doc.head = 1 .. Len(doc.head)
      /\ DOMAIN doc.members = 1 .. Len(doc.members)
  BY DEF Plain, IsSeq
<1>2. ASSUME NEW w, LeafOf(L, w), w.type = "string" => w.val \in StringsOfDoc(doc)
      PROVE  LeafSpelled(w)
  <2> SUFFICES ASSUME w.type = "string" PROVE Spelled(w.val)
    BY DEF LeafSpelled
  <2>1. Spell(w.val) \in Seq(L)
    BY <1>2 DEF LeafOf
  <2>2. IsSeq(Spell(w.val))
    BY <2>1, SeqIs
  <2>3. Legible(Spell(w.val))
    BY <1>2 DEF AllLegible
  <2> QED BY <2>2, <2>3, SpelledAsIs
<1>3. ASSUME NEW v, ValueOf(L, v), PlainLeaf(v), StringsIn(v) \subseteq StringsOfDoc(doc)
      PROVE  LeafSpelled(v)
  BY <1>2, <1>3, StringsAre DEF PlainLeaf, ValueOf
<1>4. ASSUME NEW v, v.type \notin {"string"} PROVE LeafSpelled(v)
  BY <1>4 DEF LeafSpelled
<1>5. ASSUME NEW v, ValueOf(L, v), PlainValue(v), StringsIn(v) \subseteq StringsOfDoc(doc)
      PROVE  ValueSpelled(v)
  <2>1. CASE v.elems = << >>
    <3>1. LeafSpelled(v)
      BY <1>2, <1>5, <2>1, StringsAre DEF ValueOf
    <3> QED BY <2>1, <3>1, NothingIs DEF ValueSpelled
  <2>2. CASE v.elems # << >>
    <3>1. PlainArray(v) /\ DOMAIN v.elems = 1 .. Len(v.elems)
          /\ \A n \in 1 .. Len(v.elems) : ElemOf(L, v.elems[n]) /\ PlainElem(v.elems[n])
      BY <1>5, <2>2 DEF PlainValue, PlainLeaf, ValueOf, PlainArray, IsSeq
    <3>2. LeafSpelled(v)
      BY <3>1 DEF PlainArray, LeafSpelled
    <3>3. ASSUME NEW n \in 1 .. Len(v.elems) PROVE ElemSpelled(v.elems[n])
      <4> DEFINE e == v.elems[n]
      <4>1. e.type = "string" => e.val \in StringsOfDoc(doc)
        BY <1>5, <3>1, StringsAre
      <4>2. \A m \in DOMAIN e.elems :
              e.elems[m].type = "string" => e.elems[m].val \in StringsOfDoc(doc)
        BY <1>5, <3>1, StringsAre
      <4>3. ElemOf(L, e) /\ PlainElem(e)
        BY <3>1
      <4> HIDE DEF e
      <4>4. CASE e.elems = << >>
        <5>1. LeafSpelled(e)
          BY <1>2, <4>1, <4>3, <4>4 DEF ElemOf
        <5> QED BY <4>4, <5>1, NothingIs DEF ElemSpelled, e
      <4>5. CASE e.elems # << >>
        <5>1. PlainArray(e) /\ DOMAIN e.elems = 1 .. Len(e.elems)
              /\ \A m \in 1 .. Len(e.elems) : LeafOf(L, e.elems[m])
          BY <4>3, <4>5 DEF PlainElem, PlainLeaf, ElemOf, PlainArray, IsSeq
        <5>2. LeafSpelled(e)
          BY <5>1 DEF PlainArray, LeafSpelled
        <5>3. \A m \in 1 .. Len(e.elems) : LeafSpelled(e.elems[m])
          BY <1>2, <4>2, <5>1
        <5> QED BY <5>2, <5>3 DEF ElemSpelled, e
      <4> QED BY <4>4, <4>5
    <3> QED BY <3>2, <3>3 DEF ValueSpelled
  <2> QED BY <2>1, <2>2
<1>6. ASSUME NEW n \in 1 .. Len(doc.head) PROVE LeafSpelled(doc.head[n])
  <2>1. StringsIn(doc.head[n]) \subseteq StringsOfDoc(doc)
    BY <1>1 DEF StringsOfDoc
  <2>2. ValueOf(L, doc.head[n]) /\ PlainLeaf(doc.head[n])
    BY DEF DocumentOf, Plain
  <2> QED BY <1>3, <2>1, <2>2
<1>7. ASSUME NEW n \in 1 .. Len(doc.members)
      PROVE  LeafSpelled(doc.members[n].key) /\ ValueSpelled(doc.members[n].value)
  <2>1. /\ StringsIn(doc.members[n].key) \subseteq StringsOfDoc(doc)
        /\ StringsIn(doc.members[n].value) \subseteq StringsOfDoc(doc)
    <3> DEFINE both(k) == StringsIn(doc.members[k].key) \cup StringsIn(doc.members[k].value)
               all == {both(k) : k \in DOMAIN doc.members}
    <3>1. UNION all \subseteq StringsOfDoc(doc)
      <4> DEFINE heads == {StringsIn(doc.head[k]) : k \in DOMAIN doc.head}
      <4>1. StringsOfDoc(doc) = (UNION heads) \cup UNION all
        BY DEF StringsOfDoc
      <4> HIDE DEF all, heads
      <4> QED BY <4>1
    <3>2. both(n) \in all
      BY <1>1
    <3>3. both(n) = StringsIn(doc.members[n].key) \cup StringsIn(doc.members[n].value)
      OBVIOUS
    <3> HIDE DEF both, all
    <3> QED BY <3>1, <3>2, <3>3
  <2>2. /\ ValueOf(L, doc.members[n].key) /\ PlainLeaf(doc.members[n].key)
        /\ ValueOf(L, doc.members[n].value) /\ PlainValue(doc.members[n].value)
    BY DEF DocumentOf, Plain
  <2> QED BY <1>3, <1>5, <2>1, <2>2
<1> QED BY <1>6, <1>7 DEF DocSpelled

\* What was written is read back: jsmn makes of the text of a document, if no
\* string needs escaping, the tokens that stand for its values; it accepts the
\* text if and only if there is room for them.
LEMMA WrittenIsRead ==
  ASSUME NEW L, Unending(L), Marks(L), NEW doc, DocumentOf(L, doc), Plain(doc), AllLegible(doc)
  PROVE  LET p == jsmn_parse(Text(doc))
         IN  /\ p.error = "none" <=> Len(Tokens(doc)) <= MaxTokens
             /\ p.error = "none" => SeenTokens(Text(doc), p.tokens) = Tokens(doc)
<1>1. Text(doc) \in Seq(L)
  BY TextIn
<1>2. DocSpelled(doc)
  BY LegibleSpelled
<1> QED BY <1>1, <1>2, PlainReadBack

-----------------------------------------------------------------------------
(* The strings that are read *)

\* A string that was scanned without an error ends where the scan was, or behind.
LEMMA ScanEnds ==
  ASSUME NEW L, NEW text \in Seq(L), NEW start \in 1 .. Len(text) + 2,
         NEW scan, Scans(text, start, scan), NEW pos \in start .. Len(text) + 2,
         scan[pos].error = "none"
  PROVE  scan[pos].end \in pos .. Len(text)
<1> DEFINE N == Len(text) + 2
           Fine(x) == scan[x].error = "none" => scan[x].end \in x .. Len(text)
           S == {j \in 0 .. N - start : \A i \in 0 .. j : Fine(N - i)}
<1>1. N \in Nat /\ Len(text) \in Nat /\ start \in Nat /\ N - start \in Nat /\ N = Len(text) + 2
  OBVIOUS
<1>2. \A x \in start .. N : scan[x] = ScanAt(text, scan, x)
  BY DEF Scans
<1>3. ASSUME NEW x \in start .. N, \A y \in x + 1 .. N : Fine(y)
      PROVE  Fine(x)
  <2>1. CASE EndOfText(text, x)
    <3>1. scan[x] = [end |-> 0, error |-> "part"]
      BY <1>2, <2>1 DEF ScanAt
    <3> QED BY <3>1
  <2>2. CASE ~ EndOfText(text, x)
    <3>1. x \in 1 .. Len(text) /\ x + 1 \in x + 1 .. N /\ x + 2 \in x + 1 .. N
      BY <1>1, <2>2 DEF EndOfText
    <3>2. Fine(x + 1) /\ Fine(x + 2)
      BY <1>3, <3>1
    <3>3. \/ scan[x] = [end |-> x, error |-> "none"]
          \/ scan[x] = scan[x + 1]
          \/ scan[x] = scan[x + 2]
          \/ scan[x] = [end |-> 0, error |-> "part"]
          \/ scan[x] = [end |-> 0, error |-> "inval"]
      BY <1>2, <2>2 DEF ScanAt
    <3>4. CASE scan[x] = [end |-> x, error |-> "none"]
      BY <1>1, <3>1, <3>4
    <3>5. CASE scan[x] = scan[x + 1] \/ scan[x] = scan[x + 2]
      BY <1>1, <3>1, <3>2, <3>5
    <3>6. CASE scan[x] = [end |-> 0, error |-> "part"] \/ scan[x] = [end |-> 0, error |-> "inval"]
      BY <3>6
    <3> HIDE DEF Fine
    <3> QED BY <3>3, <3>4, <3>5, <3>6
  <2> QED BY <2>1, <2>2
<1>4. 0 .. N - start \subseteq S
  <2>1. 0 \in S
    <3>1. N \in start .. N /\ N - 0 = N /\ \A y \in N + 1 .. N : FALSE
      BY <1>1
    <3>2. Fine(N)
      <4> HIDE DEF Fine
      <4> QED BY <1>3, <3>1
    <3> HIDE DEF Fine, N
    <3> QED BY <1>1, <3>1, <3>2
  <2>2. ASSUME NEW j \in 0 .. N - start - 1, j \in S PROVE j + 1 \in S
    <3> DEFINE x == N - (j + 1)
    <3>1. x \in start .. N /\ j + 1 \in 0 .. N - start
      BY <1>1
    <3>2. ASSUME NEW y \in x + 1 .. N PROVE Fine(y)
      <4>1. N - y \in 0 .. j /\ N - (N - y) = y
        BY <1>1, <3>1
      <4>2. Fine(N - (N - y))
        <5> HIDE DEF Fine
        <5> QED BY <2>2, <4>1
      <4> HIDE DEF Fine
      <4> QED BY <4>1, <4>2
    <3>3. Fine(x)
      <4> HIDE DEF Fine, x
      <4> QED BY <1>3, <3>1, <3>2
    <3>4. \A i \in 0 .. j + 1 : i \in 0 .. j \/ i = j + 1
      OBVIOUS
    <3> HIDE DEF Fine, N
    <3> QED BY <2>2, <3>1, <3>3, <3>4
  <2> HIDE DEF S, N
  <2> QED BY <1>1, <2>1, <2>2, UpTo
<1>5. N - pos \in 0 .. N - start /\ N - pos \in 0 .. N - pos /\ N - (N - pos) = pos
  BY <1>1
<1>6. Fine(pos)
  <2>1. N - pos \in S
    <3> HIDE DEF S, N
    <3> QED BY <1>4, <1>5
  <2>2. Fine(N - (N - pos))
    <3> HIDE DEF Fine
    <3> QED BY <1>5, <2>1
  <2> HIDE DEF Fine, N
  <2> QED BY <1>5, <2>2
<1> QED BY <1>6

\* What the scan of a string comes through, to the quote at its end, is legible.
LEMMA EndsLegible ==
  ASSUME NEW L, Unending(L), NEW text \in Seq(L), NEW start \in 1 .. Len(text) + 1,
         StringEnd(text, start).error = "none"
  PROVE  LET end == StringEnd(text, start).end
         IN  /\ end \in start .. Len(text) /\ text[end] = Quote
             /\ IsSeq(SubSeq(text, start, end - 1)) /\ Len(SubSeq(text, start, end - 1)) = end - start
             /\ Placed(text, start, SubSeq(text, start, end - 1))
             /\ Legible(SubSeq(text, start, end - 1))
<1> DEFINE end == StringEnd(text, start).end
           s == SubSeq(text, start, end - 1)
           N == end - start
<1>1. end \in start .. Len(text) /\ text[end] = Quote
  BY StringEnds
<1> HIDE DEF end
<1>2. Len(text) \in Nat /\ start \in Nat /\ start > 0 /\ end \in Nat /\ N \in Nat
      /\ end = start + N /\ start \in 1 .. Len(text) + 2
  BY <1>1
<1>3. s \in Seq(L) /\ Len(s) = N /\ \A i \in 1 .. N : s[i] = text[start + i - 1]
  <2>1. start \in 1 .. Len(text) + 1 /\ end - 1 \in start - 1 .. Len(text)
    BY <1>1, <1>2
  <2>2. Len(s) = (end - 1) - start + 1 /\ s \in Seq(L)
        /\ \A i \in 1 .. (end - 1) - start + 1 : s[i] = text[start + i - 1]
    BY <2>1, SubSeqProperties
  <2>3. (end - 1) - start + 1 = N
    BY <1>2
  <2> HIDE DEF N, s
  <2> QED BY <2>2, <2>3
<1> HIDE DEF s, N
<1>4. IsSeq(s) /\ Placed(text, start, s)
  <2>1. start + N <= Len(text) + 1
    BY <1>1, <1>2
  <2> QED BY <1>3, <2>1, SeqIs DEF Placed
<1>5. PICK after : /\ after[0] = "plain" /\ (Legible(s) <=> after[N] = "plain")
                   /\ \A n \in 1 .. N : after[n] = StateBehind(after[n - 1], s[n])
  <2>1. PICK after : /\ after[0] = "plain" /\ (Legible(s) <=> after[Len(s)] = "plain")
                     /\ \A n \in 1 .. Len(s) : after[n] = StateBehind(after[n - 1], s[n])
    BY <1>4, StatesOf
  <2> QED BY <1>3, <2>1
<1>6. PICK scan : Scans(text, start, scan) /\ StringEnd(text, start) = scan[start]
  BY <1>2, StringScan
<1>7. scan[start].error = "none" /\ scan[start].end = end
  BY <1>6 DEF end
<1>8. ASSUME NEW pos \in start .. Len(text)
      PROVE  scan[pos] =
               IF text[pos] = Quote THEN [end |-> pos, error |-> "none"]
               ELSE IF text[pos] # Backslash THEN scan[pos + 1]
               ELSE IF pos = Len(text) THEN [end |-> 0, error |-> "part"]
               ELSE IF text[pos + 1].class \in {"quote", "backslash", "escape"} THEN scan[pos + 2]
               ELSE [end |-> 0, error |-> "inval"]
  <2>1. ~ EndOfText(text, pos)
    BY <1>2, EndIs
  <2>2. scan[pos] = ScanAt(text, scan, pos)
    BY <1>2, <1>6, pos \in start .. Len(text) + 2 DEF Scans
  <2> QED BY <2>1, <2>2 DEF ScanAt
<1>9. Backslash # Quote
  BY DEF Backslash, Quote, Char, Lexeme
\* What a backslash stands before is skipped with it.
<1>10. ASSUME NEW pos \in start .. Len(text), text[pos] = Backslash, scan[start] = scan[pos]
       PROVE  /\ pos + 1 <= Len(text) /\ text[pos + 1].class \in {"quote", "backslash", "escape"}
              /\ scan[start] = scan[pos + 2] /\ pos + 2 <= end
  <2>1. /\ pos # Len(text) /\ text[pos + 1].class \in {"quote", "backslash", "escape"}
        /\ scan[pos] = scan[pos + 2]
    <3>1. text[pos] # Quote /\ scan[pos].error = "none"
      BY <1>7, <1>9, <1>10
    <3>2. scan[pos] = IF pos = Len(text) THEN [end |-> 0, error |-> "part"]
                      ELSE IF text[pos + 1].class \in {"quote", "backslash", "escape"} THEN scan[pos + 2]
                      ELSE [end |-> 0, error |-> "inval"]
      BY <1>8, <1>10, <3>1
    <3>3. pos # Len(text)
      BY <3>1, <3>2
    <3>4. text[pos + 1].class \in {"quote", "backslash", "escape"}
      <4> SUFFICES ASSUME text[pos + 1].class \notin {"quote", "backslash", "escape"} PROVE FALSE
        OBVIOUS
      <4>1. scan[pos] = [end |-> 0, error |-> "inval"]
        BY <3>2, <3>3
      <4> QED BY <3>1, <4>1
    <3> QED BY <3>2, <3>3, <3>4
  <2>2. pos + 1 <= Len(text) /\ pos + 2 \in start .. Len(text) + 2
    BY <1>2, <2>1
  <2>3. scan[pos + 2].error = "none" /\ scan[pos + 2].end = end
    BY <1>7, <1>10, <2>1
  <2>4. end \in pos + 2 .. Len(text)
    BY <1>2, <1>6, <2>2, <2>3, ScanEnds
  <2> QED BY <1>2, <1>10, <2>1, <2>2, <2>4
<1> DEFINE Good(i) == \/ after[i] = "plain" /\ scan[start] = scan[start + i]
                      \/ /\ after[i] = "escape" /\ i > 0 /\ s[i] = Backslash
                         /\ scan[start] = scan[start + (i - 1)]
           S == {i \in 0 .. N : Good(i)}
<1>11. 0 .. N \subseteq S
  <2>1. 0 \in S
    BY <1>2, <1>5
  <2>2. ASSUME NEW i \in 0 .. N - 1, i \in S PROVE i + 1 \in S
    <3>1. i + 1 \in 1 .. N /\ i + 1 \in 0 .. N /\ (i + 1) - 1 = i /\ i \in Nat
      BY <1>2
    <3>2. after[i + 1] = StateBehind(after[i], s[i + 1])
      BY <1>5, <3>1
    <3>3. text[start + i] = s[i + 1] /\ start + i \in start .. Len(text) /\ start + i < end
      <4>1. text[start + (i + 1) - 1] = s[i + 1]
        BY <1>3, <3>1
      <4>2. start + (i + 1) - 1 = start + i
        BY <1>2, <3>1
      <4> QED BY <1>1, <1>2, <3>1, <4>1, <4>2
    <3>4. CASE after[i] = "plain" /\ scan[start] = scan[start + i]
      <4>1. s[i + 1] # Quote
        <5> SUFFICES ASSUME s[i + 1] = Quote PROVE FALSE
          OBVIOUS
        <5>1. scan[start + i] = [end |-> start + i, error |-> "none"]
          BY <1>8, <3>3
        <5> QED BY <1>2, <1>7, <3>3, <3>4, <5>1
      <4>2. CASE s[i + 1] = Backslash
        <5>1. after[i + 1] = "escape" /\ i + 1 > 0
          BY <1>9, <3>1, <3>2, <3>4, <4>2 DEF StateBehind
        <5> QED BY <3>1, <3>4, <4>2, <5>1
      <4>3. CASE s[i + 1] # Backslash
        <5>1. after[i + 1] = "plain"
          BY <3>2, <3>4, <4>1, <4>3 DEF StateBehind
        <5>2. scan[start + i] = scan[(start + i) + 1]
          BY <1>8, <3>3, <4>1, <4>3
        <5>3. (start + i) + 1 = start + (i + 1)
          BY <1>2, <3>1
        <5> QED BY <3>1, <3>4, <5>1, <5>2, <5>3
      <4> QED BY <4>2, <4>3
    <3>5. CASE after[i] = "escape" /\ i > 0 /\ s[i] = Backslash /\ scan[start] = scan[start + (i - 1)]
      <4> DEFINE pos == start + (i - 1)
      <4>1. pos \in start .. Len(text) /\ pos + 1 = start + i /\ pos + 2 = start + (i + 1)
        BY <1>1, <1>2, <3>1, <3>3, <3>5
      <4>2. text[pos] = Backslash
        <5>1. i \in 1 .. N /\ start + i - 1 = pos
          BY <1>2, <3>1, <3>5
        <5> HIDE DEF pos
        <5> QED BY <1>3, <3>5, <5>1
      <4> HIDE DEF pos
      <4>3. text[pos + 1].class \in {"quote", "backslash", "escape"} /\ scan[start] = scan[pos + 2]
        BY <1>10, <3>5, <4>1, <4>2 DEF pos
      <4>4. after[i + 1] = "plain"
        BY <3>2, <3>3, <3>5, <4>1, <4>3 DEF StateBehind
      <4> QED BY <3>1, <4>1, <4>3, <4>4
    <3>6. Good(i)
      BY <2>2
    <3> HIDE DEF S
    <3> QED BY <3>4, <3>5, <3>6
  <2> HIDE DEF S
  <2> QED BY <1>2, <2>1, <2>2, UpTo
<1>12. after[N] = "plain"
  <2>1. Good(N)
    BY <1>2, <1>11
  <2> SUFFICES ASSUME N > 0, s[N] = Backslash, scan[start] = scan[start + (N - 1)] PROVE FALSE
    BY <2>1
  <2>2. start + (N - 1) \in start .. Len(text) /\ start + N - 1 = start + (N - 1)
    BY <1>1, <1>2
  <2>3. text[start + (N - 1)] = Backslash
    BY <1>2, <1>3, <2>2
  <2>4. start + (N - 1) + 2 <= end
    BY <1>10, <2>2, <2>3
  <2> QED BY <1>2, <2>4
<1> QED BY <1>1, <1>3, <1>4, <1>5, <1>12 DEF end, s, N
-----------------------------------------------------------------------------
(* What a parser keeps of the tokens of those before it *)

\* Tokens stay what they are, but for the end of a container that is open; those
\* that q has and p has not begin where p was, or behind.
Later(p, q) ==
  /\ p.pos <= q.pos /\ Len(p.tokens) <= Len(q.tokens)
  /\ \A n \in 1 .. Len(p.tokens) :
       /\ q.tokens[n].type = p.tokens[n].type
       /\ q.tokens[n].start = p.tokens[n].start
       /\ p.tokens[n].end # 0 => q.tokens[n].end = p.tokens[n].end
  /\ \A n \in Len(p.tokens) + 1 .. Len(q.tokens) : p.pos <= q.tokens[n].start

\* The strings that p has not are legible.
StringsAdded(text, p, q) ==
  \A n \in Len(p.tokens) + 1 .. Len(q.tokens) :
    q.tokens[n].type = "string" => Legible(Lexemes(text, q.tokens[n]))

Grown(text, p, q) == Later(p, q) /\ StringsAdded(text, p, q)

LEMMA ParserIs ==
  ASSUME NEW text, NEW p, ParserInv(text, p)
  PROVE  /\ p \in JsmnParser /\ p.pos \in Nat /\ p.pos > 0 /\ Len(text) \in Nat /\ p.pos <= Len(text) + 1
         /\ Len(p.tokens) \in Nat /\ DOMAIN p.tokens = 1 .. Len(p.tokens)
         /\ \A n \in 1 .. Len(p.tokens) :
              /\ p.tokens[n] \in JsmnToken
              /\ p.tokens[n].start \in Nat /\ p.tokens[n].end \in Nat
              /\ p.tokens[n].end <= p.pos
              /\ p.tokens[n].end = 0 => p.tokens[n].type \in DOMAIN Brackets
<1>1. p \in JsmnParser /\ p.pos \in 1 .. Len(text) + 1 /\ InOrder(p)
  BY DEF ParserInv
<1>2. p.pos \in Nat /\ p.pos > 0 /\ p.pos <= Len(text) + 1 /\ p.tokens \in Seq(JsmnToken)
  BY <1>1 DEF JsmnParser
<1>3. Len(p.tokens) \in Nat /\ DOMAIN p.tokens = 1 .. Len(p.tokens)
  BY <1>2
<1>4. ASSUME NEW n \in 1 .. Len(p.tokens)
      PROVE  /\ p.tokens[n] \in JsmnToken
             /\ p.tokens[n].start \in Nat /\ p.tokens[n].end \in Nat
             /\ p.tokens[n].end <= p.pos
             /\ p.tokens[n].end = 0 => p.tokens[n].type \in DOMAIN Brackets
  <2> DEFINE t == p.tokens[n]
  <2>1. t \in JsmnToken
    BY <1>2
  <2>2. IF t.end = 0 THEN t.type \in DOMAIN Brackets ELSE t.end \in t.start .. p.pos
    BY <1>1, <1>3 DEF InOrder
  <2> HIDE DEF t
  <2>3. t.start \in Nat /\ t.end \in Nat
    BY <2>1 DEF JsmnToken
  <2>4. t.end <= p.pos
    BY <1>2, <2>2, <2>3
  <2> QED BY <2>1, <2>2, <2>3, <2>4 DEF t
<1>5. Len(text) \in Nat
  BY DEF ParserInv
<1> QED BY <1>1, <1>2, <1>3, <1>4, <1>5

\* What leaves the tokens alone.
LEMMA SameGrown ==
  ASSUME NEW text, NEW p, ParserInv(text, p), NEW q, q.tokens = p.tokens, q.pos \in Nat, p.pos <= q.pos
  PROVE  Grown(text, p, q)
<1>1. Len(p.tokens) \in Nat
  BY ParserIs
<1>2. Len(p.tokens) <= Len(q.tokens) /\ \A n \in Len(p.tokens) + 1 .. Len(q.tokens) : FALSE
  BY <1>1
<1> QED BY <1>2 DEF Grown, Later, StringsAdded

LEMMA StopGrown ==
  ASSUME NEW text, NEW p, ParserInv(text, p), NEW error
  PROVE  Grown(text, p, Stop(p, error))
<1>1. p \in JsmnParser /\ p.pos \in Nat
  BY ParserIs
<1>2. Stop(p, error).tokens = p.tokens /\ Stop(p, error).pos = p.pos
  BY <1>1 DEF Stop, JsmnParser
<1> HIDE DEF Stop
<1> QED BY <1>1, <1>2, SameGrown

LEMMA AddGrown ==
  ASSUME NEW text, NEW p, ParserInv(text, p),
         NEW type \in TokenTypes, NEW start \in Nat, NEW end \in Nat, NEW next \in Nat,
         p.pos <= start, p.pos <= next,
         type = "string" => Legible(SubSeq(text, start, end - 1))
  PROVE  Grown(text, p, AddToken(p, type, start, end, next))
<1> DEFINE q == AddToken(p, type, start, end, next)
           t == [type |-> type, start |-> start, end |-> end, size |-> 0]
           k == Len(p.tokens)
<1>1. p \in JsmnParser /\ k \in Nat /\ MaxTokens \in Nat
  BY ParserIs, TokensAssumption
<1>2. CASE k >= MaxTokens
  BY <1>2, AddTokenStops, StopGrown
<1>3. CASE ~ (k >= MaxTokens)
  <2>1. k < MaxTokens
    BY <1>1, <1>3
  <2>2. Adds(p, t, next, q)
    BY <2>1, AddedTokens
  <2> HIDE DEF q, t
  <2>3. q.pos = next
    <3>1. q = [p EXCEPT !.tokens = q.tokens, !.pos = next]
      BY <2>2 DEF Adds
    <3> QED BY <1>1, <3>1 DEF JsmnParser
  <2>4. /\ Len(q.tokens) = k + 1 /\ q.tokens[k + 1] = t
        /\ \A n \in 1 .. k :
             /\ q.tokens[n].type = p.tokens[n].type
             /\ q.tokens[n].start = p.tokens[n].start
             /\ q.tokens[n].end = p.tokens[n].end
    BY <2>2 DEF Adds
  <2> HIDE DEF k
  <2>5. k <= k + 1 /\ \A n \in k + 1 .. k + 1 : n = k + 1
    BY <1>1
  <2>6. t.start = start /\ t.type = type /\ Lexemes(text, t) = SubSeq(text, start, end - 1)
    BY DEF t, Lexemes
  <2>7. Later(p, q)
    BY <2>3, <2>4, <2>5, <2>6 DEF Later, k
  <2>8. StringsAdded(text, p, q)
    BY <2>4, <2>5, <2>6 DEF StringsAdded, k
  <2> QED BY <2>7, <2>8 DEF Grown, q
<1> QED BY <1>2, <1>3

LEMMA OpenGrown ==
  ASSUME NEW text, NEW p, ParserInv(text, p), NEW type \in DOMAIN Brackets
  PROVE  Grown(text, p, OpenContainer(p, type))
<1> DEFINE q == AddToken(p, type, p.pos, 0, p.pos + 1)
           r == OpenContainer(p, type)
<1>1. type \in TokenTypes /\ type # "string" /\ p.pos \in Nat /\ p \in JsmnParser
  BY ParserIs DEF TokenTypes, Brackets
<1>2. Grown(text, p, q)
  BY <1>1, AddGrown
<1>3. r.pos = q.pos /\ r.tokens = q.tokens
  <2>0. DOMAIN q = {"pos", "tokens", "super", "error"}
    <3>1. DOMAIN p = {"pos", "tokens", "super", "error"}
      BY <1>1 DEF JsmnParser
    <3>2. q = Stop(p, "nomem") \/ \E tokens, pos : q = [p EXCEPT !.tokens = tokens, !.pos = pos]
      BY DEF AddToken
    <3> HIDE DEF q
    <3> QED BY <3>1, <3>2 DEF Stop
  <2>1. r = q \/ r = [q EXCEPT !.super = Len(q.tokens)]
    BY DEF OpenContainer
  <2> HIDE DEF q, r
  <2> QED BY <2>0, <2>1
<1> HIDE DEF q, r
<1>4. Grown(text, p, r)
  BY <1>2, <1>3 DEF Grown, Later, StringsAdded
<1> QED BY <1>4 DEF r

LEMMA CloseGrown ==
  ASSUME NEW text, NEW p, ParserInv(text, p), NEW type \in DOMAIN Brackets
  PROVE  Grown(text, p, CloseContainer(p, type))
<1> DEFINE open == Unclosed(p)
           last == Max(open)
           q == CloseContainer(p, type)
           N == Len(p.tokens)
           end == p.pos + 1
<1>1. p \in JsmnParser /\ N \in Nat /\ DOMAIN p.tokens = 1 .. N /\ p.pos \in Nat
  BY ParserIs
<1>2. CASE ~ Closes(open, p, type)
  <2>1. q = Stop(p, "inval")
    BY <1>2 DEF CloseContainer
  <2> HIDE DEF q
  <2> QED BY <2>1, StopGrown DEF q
<1>3. CASE Closes(open, p, type)
  <2>1. last \in open
    <3>1. open \in SUBSET (0 .. N) /\ open # {}
      BY <1>1, <1>3 DEF Unclosed, Closes
    <3> HIDE DEF open, N
    <3> QED BY <1>1, <3>1, MaxOf
  <2>2. last \in 1 .. N /\ p.tokens[last].end = 0
    BY <1>1, <2>1 DEF Unclosed
  <2>3. q = [p EXCEPT !.tokens = [p.tokens EXCEPT ![last] = [p.tokens[last] EXCEPT !.end = end]],
                      !.super = Enclosing(last, open), !.pos = end]
    <3>1. q = [p EXCEPT !.tokens[last].end = end, !.super = Enclosing(last, open), !.pos = end]
      BY <1>1, <1>3 DEF CloseContainer, JsmnParser
    <3> HIDE DEF q, last, open, end
    <3> QED BY <1>1, <3>1
  <2> HIDE DEF q, last, open, N
  <2>4. q.pos = p.pos + 1 /\ q.tokens = [p.tokens EXCEPT ![last] = [p.tokens[last] EXCEPT !.end = end]]
    BY <1>1, <2>3 DEF JsmnParser
  <2>5. Len(q.tokens) = N
    <3>1. p.tokens \in Seq(JsmnToken) /\ last \in 1 .. Len(p.tokens)
      BY <1>1, <2>2 DEF JsmnParser, N
    <3> QED BY <2>4, <3>1, ExceptSeq DEF N
  <2>6. ASSUME NEW n \in 1 .. N
        PROVE  /\ q.tokens[n].type = p.tokens[n].type
               /\ q.tokens[n].start = p.tokens[n].start
               /\ p.tokens[n].end # 0 => q.tokens[n].end = p.tokens[n].end
    <3>1. q.tokens[n] = IF n = last THEN [p.tokens[n] EXCEPT !.end = end] ELSE p.tokens[n]
      BY <1>1, <2>4
    <3>2. p.tokens[n] \in JsmnToken
      BY ParserIs DEF N
    <3> QED BY <2>2, <3>1, <3>2 DEF JsmnToken
  <2>7. N <= Len(q.tokens) /\ \A n \in N + 1 .. Len(q.tokens) : FALSE
    BY <1>1, <2>5
  <2>8. p.pos <= q.pos
    BY <1>1, <2>4
  <2>9. Later(p, q) /\ StringsAdded(text, p, q)
    BY <2>6, <2>7, <2>8 DEF Later, StringsAdded, N
  <2> QED BY <2>9 DEF Grown, q
<1> QED BY <1>2, <1>3

\* What goes on with a primitive.
WordBegins(text, pos) ==
  text[pos].class \notin {"{", "[", "}", "]", "quote", "space", "colon", "comma"}

LEMMA TurnGrown ==
  ASSUME NEW L, Unending(L), NEW text \in Seq(L), NEW p, ParserInv(text, p), p.pos <= Len(text)
  PROVE  Grown(text, p, JsmnTurn(text, p))
<1> DEFINE c == text[p.pos].class
<1>1. p \in JsmnParser /\ p.pos \in Nat /\ p.pos > 0 /\ Len(text) \in Nat
  BY ParserIs
<1>2. "object" \in DOMAIN Brackets /\ "array" \in DOMAIN Brackets
  BY DEF Brackets
<1> HIDE DEF c
<1>3. CASE c = "{" \/ c = "[" \/ c = "}" \/ c = "]"
  <2>1. \/ JsmnTurn(text, p) = OpenContainer(p, "object")
        \/ JsmnTurn(text, p) = OpenContainer(p, "array")
        \/ JsmnTurn(text, p) = CloseContainer(p, "object")
        \/ JsmnTurn(text, p) = CloseContainer(p, "array")
    BY <1>3 DEF JsmnTurn, c
  <2> QED BY <1>2, <2>1, OpenGrown, CloseGrown
<1>4. CASE c = "quote"
  <2> DEFINE s == StringEnd(text, p.pos + 1)
  <2>1. JsmnTurn(text, p) = String(text, p)
    BY <1>4 DEF JsmnTurn, c
  <2>2. CASE s.error # "none"
    <3>1. String(text, p) = Stop(p, s.error)
      BY <2>2 DEF String
    <3> QED BY <2>1, <3>1, StopGrown
  <2>3. CASE s.error = "none"
    <3>1. String(text, p) = AddToken(p, "string", p.pos + 1, s.end, s.end + 1)
      BY <2>3 DEF String
    <3>2. p.pos + 1 \in 1 .. Len(text) + 1
      BY <1>1
    <3>3. s.end \in p.pos + 1 .. Len(text) /\ Legible(SubSeq(text, p.pos + 1, s.end - 1))
      BY <2>3, <3>2, EndsLegible
    <3> HIDE DEF s
    <3>4. /\ p.pos + 1 \in Nat /\ s.end \in Nat /\ s.end + 1 \in Nat
          /\ p.pos <= p.pos + 1 /\ p.pos <= s.end + 1
      BY <1>1, <3>3
    <3>5. Grown(text, p, AddToken(p, "string", p.pos + 1, s.end, s.end + 1))
      BY <3>3, <3>4, AddGrown DEF TokenTypes
    <3> QED BY <2>1, <3>1, <3>5
  <2> QED BY <2>2, <2>3
<1>5. CASE c \in {"space", "colon", "comma"}
  <2>1. JsmnTurn(text, p) = [p EXCEPT !.pos = p.pos + 1]
    BY <1>5 DEF JsmnTurn, c
  <2> DEFINE q == [p EXCEPT !.pos = p.pos + 1]
  <2>2. q.tokens = p.tokens /\ q.pos = p.pos + 1
    BY <1>1 DEF JsmnParser
  <2> HIDE DEF q
  <2>3. q.pos \in Nat /\ p.pos <= q.pos
    BY <1>1, <2>2
  <2> QED BY <2>1, <2>2, <2>3, SameGrown DEF q
<1>6. CASE WordBegins(text, p.pos)
  <2> DEFINE e == WordEnd(text, p.pos)
  <2>1. JsmnTurn(text, p) = Primitive(text, p)
    BY <1>6 DEF JsmnTurn, WordBegins
  <2>2. Primitive(text, p) =
          IF ~ EndOfText(text, e) /\ text[e].class = "control" THEN Stop(p, "inval")
          ELSE AddToken(p, "primitive", p.pos, e, e)
    BY DEF Primitive, WordEnd
  <2>3. e \in p.pos .. Len(text) + 1
    <3>1. p.pos \in 1 .. Len(text) + 1
      BY <1>1
    <3> QED BY <3>1, WordEnds
  <2> HIDE DEF e
  <2>4. e \in Nat /\ p.pos <= e /\ p.pos <= p.pos
    BY <1>1, <2>3
  <2>5. Grown(text, p, AddToken(p, "primitive", p.pos, e, e))
    BY <1>1, <2>4, AddGrown DEF TokenTypes
  <2> QED BY <2>1, <2>2, <2>5, StopGrown
<1> QED BY <1>3, <1>4, <1>5, <1>6 DEF WordBegins, c
LEMMA GrownAgain ==
  ASSUME NEW text, NEW p, ParserInv(text, p), NEW q, ParserInv(text, q), NEW r, ParserInv(text, r),
         Grown(text, p, q), Grown(text, q, r)
  PROVE  Grown(text, p, r)
<1> DEFINE k == Len(p.tokens)
           m == Len(q.tokens)
           l == Len(r.tokens)
<1>1. /\ k \in Nat /\ m \in Nat /\ l \in Nat /\ p.pos \in Nat /\ q.pos \in Nat /\ r.pos \in Nat
      /\ k <= m /\ m <= l /\ p.pos <= q.pos /\ q.pos <= r.pos
  BY ParserIs DEF Grown, Later
<1> HIDE DEF k, m, l
<1>2. k <= l /\ p.pos <= r.pos
  BY <1>1
<1>3. ASSUME NEW n \in 1 .. k
      PROVE  /\ r.tokens[n].type = p.tokens[n].type
             /\ r.tokens[n].start = p.tokens[n].start
             /\ p.tokens[n].end # 0 => r.tokens[n].end = p.tokens[n].end
  <2>1. n \in 1 .. m
    BY <1>1
  <2>2. /\ q.tokens[n].type = p.tokens[n].type
        /\ q.tokens[n].start = p.tokens[n].start
        /\ p.tokens[n].end # 0 => q.tokens[n].end = p.tokens[n].end
    BY DEF Grown, Later, k
  <2>3. /\ r.tokens[n].type = q.tokens[n].type
        /\ r.tokens[n].start = q.tokens[n].start
        /\ q.tokens[n].end # 0 => r.tokens[n].end = q.tokens[n].end
    BY <2>1 DEF Grown, Later, m
  <2> QED BY <2>2, <2>3
<1>4. ASSUME NEW n \in k + 1 .. l
      PROVE  /\ p.pos <= r.tokens[n].start
             /\ r.tokens[n].type = "string" => Legible(Lexemes(text, r.tokens[n]))
  <2>1. CASE n \in k + 1 .. m
    <3>1. n \in 1 .. m
      BY <1>1, <2>1
    <3>2. /\ p.pos <= q.tokens[n].start
          /\ q.tokens[n].type = "string" => Legible(Lexemes(text, q.tokens[n]))
      BY <2>1 DEF Grown, Later, StringsAdded, k, m
    <3>3. /\ r.tokens[n].type = q.tokens[n].type
          /\ r.tokens[n].start = q.tokens[n].start
          /\ q.tokens[n].end # 0 => r.tokens[n].end = q.tokens[n].end
      BY <3>1 DEF Grown, Later, m
    <3>4. q.tokens[n].type = "string" => q.tokens[n].end # 0
      BY <3>1, ParserIs DEF m, Brackets
    <3> QED BY <3>2, <3>3, <3>4 DEF Lexemes
  <2>2. CASE n \notin k + 1 .. m
    <3>1. n \in m + 1 .. l /\ n \in 1 .. l
      BY <1>1, <2>2
    <3>2. /\ q.pos <= r.tokens[n].start
          /\ r.tokens[n].type = "string" => Legible(Lexemes(text, r.tokens[n]))
      BY <3>1 DEF Grown, Later, StringsAdded, l, m
    <3>3. r.tokens[n].start \in Nat
      BY <3>1, ParserIs DEF l
    <3> QED BY <1>1, <3>2, <3>3
  <2> QED BY <2>1, <2>2
<1> QED BY <1>2, <1>3, <1>4 DEF Grown, Later, StringsAdded, k, l

\* What a parser has, those behind it have; one that has stopped stays as it is.
LEMMA ChainGrown ==
  ASSUME NEW L, Unending(L), NEW text \in Seq(L), NEW last, NEW after, Parsing(text, last, after),
         NEW i \in 0 .. last, NEW j \in i .. last
  PROVE  /\ Grown(text, after[i], after[j])
         /\ after[i].error # "none" => after[j] = after[i]
<1> DEFINE N == last - i
           Good(n) == /\ Grown(text, after[i], after[i + n])
                      /\ after[i].error # "none" => after[i + n] = after[i]
           S == {n \in 0 .. N : Good(n)}
<1>1. last \in Nat /\ i \in Nat /\ N \in Nat
  BY DEF Parsing
<1>2. \A n \in 0 .. N : i + n \in 0 .. last /\ ParserInv(text, after[i + n])
  BY <1>1 DEF Parsing
<1>3. ParserInv(text, after[i])
  BY <1>1, i \in 0 .. last DEF Parsing
<1> HIDE DEF N
<1>4. 0 \in S
  <2>1. 0 \in 0 .. N /\ after[i + 0] = after[i]
    BY <1>1
  <2>2. Grown(text, after[i], after[i])
    <3>1. after[i].pos \in Nat /\ after[i].pos <= after[i].pos
      BY <1>3, ParserIs
    <3> QED BY <1>3, <3>1, SameGrown
  <2> QED BY <2>1, <2>2
<1>5. ASSUME NEW n \in 0 .. N - 1, n \in S PROVE n + 1 \in S
  <2> DEFINE p == after[i + n]
             q == after[i + (n + 1)]
  <2>1. n \in 0 .. N /\ n + 1 \in 0 .. N /\ Good(n)
    BY <1>1, <1>5
  <2>2. ParserInv(text, p) /\ ParserInv(text, q)
    BY <1>2, <2>1
  <2>3. q = ParserTurn(text, p)
    <3>1. i + (n + 1) \in 1 .. last /\ (i + (n + 1)) - 1 = i + n
      BY <1>1, <1>2, <2>1
    <3> QED BY <3>1 DEF Parsing
  <2>4. Grown(text, p, q) /\ (p.error # "none" => q = p)
    <3>1. CASE q = p
      <4>1. p.pos \in Nat /\ p.pos <= p.pos
        BY <2>2, ParserIs
      <4> HIDE DEF p, q
      <4> QED BY <2>2, <3>1, <4>1, SameGrown
    <3>2. CASE q # p
      <4>1. p.error = "none" /\ ~ EndOfText(text, p.pos) /\ q = JsmnTurn(text, p)
        BY <2>3, <3>2 DEF ParserTurn
      <4>2. p.pos <= Len(text)
        <5>1. p.pos \in Nat \ {0} /\ Len(text) \in Nat
          BY <2>2, ParserIs
        <5> HIDE DEF p
        <5> QED BY <4>1, <5>1, EndIs
      <4> HIDE DEF p, q
      <4> QED BY <2>2, <4>1, <4>2, TurnGrown
    <3> QED BY <3>1, <3>2
  <2>5. Good(n + 1)
    <3> HIDE DEF p, q
    <3>1. Grown(text, after[i], p) /\ (after[i].error # "none" => p = after[i])
      BY <2>1 DEF p
    <3>2. Grown(text, after[i], q)
      BY <1>3, <2>2, <2>4, <3>1, GrownAgain
    <3> QED BY <2>4, <3>1, <3>2 DEF q
  <2> HIDE DEF Good
  <2> QED BY <2>1, <2>5
<1>6. 0 .. N \subseteq S
  <2> HIDE DEF S
  <2> QED BY <1>1, <1>4, <1>5, UpTo
<1>7. j - i \in 0 .. N /\ i + (j - i) = j
  BY <1>1 DEF N
<1>8. Good(j - i)
  <2> HIDE DEF Good
  <2> QED BY <1>6, <1>7
<1> QED BY <1>7, <1>8

\* Whatever the text, the strings the parser finds in it are legible.
LEMMA StringsLegible ==
  ASSUME NEW L, Unending(L), NEW text \in Seq(L)
  PROVE  LET tokens == jsmn_parse(text).tokens
         IN  \A n \in 1 .. Len(tokens) :
               tokens[n].type = "string" => Legible(Lexemes(text, tokens[n]))
<1>1. PICK last, after : Parsing(text, last, after)
  BY ParseTurns DEF Unending
<1>2. last \in Nat /\ 0 \in 0 .. last /\ last \in 0 .. last /\ after[0] = jsmn_init
      /\ jsmn_parse(text) = LastCheck(after[last]) /\ ParserInv(text, after[last])
  BY <1>1 DEF Parsing
<1>3. jsmn_parse(text).tokens = after[last].tokens
  <2>1. after[last] \in JsmnParser
    BY <1>2, ParserIs
  <2>2. \/ jsmn_parse(text) = after[last]
        \/ jsmn_parse(text) = [after[last] EXCEPT !.error = "part"]
    BY <1>2 DEF LastCheck, Stop
  <2> QED BY <2>1, <2>2 DEF JsmnParser
<1>4. Grown(text, jsmn_init, after[last])
  BY <1>1, <1>2, ChainGrown
<1>5. Len(jsmn_init.tokens) = 0
  BY DEF jsmn_init
<1>6. \A n \in 1 .. Len(after[last].tokens) : n \in 0 + 1 .. Len(after[last].tokens)
  OBVIOUS
<1> QED BY <1>3, <1>4, <1>5, <1>6 DEF Grown, StringsAdded
-----------------------------------------------------------------------------
(* Texts that are cut *)

\* What is joined lies in the whole, one behind the other.
LEMMA PlacedBoth ==
  ASSUME NEW text, Len(text) \in Nat, NEW pos \in Nat, NEW s, NEW t, IsSeq(s), IsSeq(t), Placed(text, pos, s \o t)
  PROVE  Placed(text, pos, s) /\ Placed(text, pos + Len(s), t)
<1> DEFINE k == Len(s)
           l == Len(t)
           u == s \o t
<1>1. k \in Nat /\ l \in Nat
  BY DEF IsSeq
<1>2. Len(u) = k + l /\ (\A i \in 1 .. k : u[i] = s[i]) /\ \A i \in 1 .. l : u[k + i] = t[i]
  BY ConcatIs
<1> HIDE DEF k, l, u
<1>3. pos + (k + l) <= Len(text) + 1 /\ \A i \in 1 .. k + l : text[pos + i - 1] = u[i]
  <2>1. pos + Len(u) <= Len(text) + 1 /\ \A i \in 1 .. Len(u) : text[pos + i - 1] = u[i]
    BY DEF Placed, u
  <2> QED BY <1>2, <2>1
<1>4. pos + k <= Len(text) + 1
  BY <1>1, <1>3
<1>5. (pos + k) + l <= Len(text) + 1
  BY <1>1, <1>3
<1>6. ASSUME NEW i \in 1 .. k PROVE text[pos + i - 1] = s[i]
  <2>1. i \in 1 .. k + l
    BY <1>1
  <2> QED BY <1>2, <1>3, <2>1
<1>7. ASSUME NEW i \in 1 .. l PROVE text[(pos + k) + i - 1] = t[i]
  <2>1. k + i \in 1 .. k + l /\ pos + (k + i) - 1 = (pos + k) + i - 1
    BY <1>1
  <2> QED BY <1>2, <1>3, <2>1
<1> QED BY <1>4, <1>5, <1>6, <1>7 DEF Placed, k, l

LEMMA PlacedOnce ==
  ASSUME NEW text, Len(text) \in Nat, NEW pos \in Nat, NEW e, Placed(text, pos, <<e>>)
  PROVE  pos <= Len(text) /\ text[pos] = e
<1>1. Len(<<e>>) = 1 /\ <<e>>[1] = e /\ 1 \in 1 .. 1
  BY OneIs
<1>2. pos + 1 <= Len(text) + 1 /\ text[pos + 1 - 1] = e
  BY <1>1 DEF Placed
<1>3. pos + 1 - 1 = pos
  OBVIOUS
<1> QED BY <1>2, <1>3

\* The object of a document's members stays open until the text comes to the
\* bracket that closes it, which only white space follows.
LEMMA OpenToTheEnd ==
  ASSUME NEW L, NEW doc, Plain(doc), DocSpelled(doc), Len(doc.head) = 2, doc.head[2] = Obj,
         NEW last, NEW after, NEW room, Running(L, Text(doc), last, after, room),
         Len(Tokens(doc)) <= room
  PROVE  \E m : /\ Reached(last, after, m) /\ m.pos = Len(Text(doc)) - 1
                /\ Len(m.tokens) >= 2 /\ m.tokens[2].type = "object" /\ m.tokens[2].end = 0
<1> DEFINE text == Text(doc)
           front == Front(doc.head)
           f == FlattenSeq(NamesText(front))
           ft == NamesTokens(front)
           b == Joined(MembersText(doc.members))
           t == FlattenSeq(MembersTokens(doc.members))
           k == 2 * Len(doc.members)
           e == Opening("object")
           c == Closing("object")
           w == <<Space>> \o b \o <<Space>>
           n == Len(f)
           l == Len(w)
<1>1. /\ Running(L, text, last, after, room) /\ Parsing(text, last, after) /\ room \in Nat
      /\ Len(text) \in Nat /\ last \in Nat /\ after[0] = jsmn_init
  BY DEF Running, Parsing
<1>2. IsSeq(doc.head) /\ doc.head # << >> /\ Last(doc.head) = Obj
  BY NothingIs DEF Plain, Last
<1>3. Reads(text, last, after, room, b, t, k, FALSE)
  <2> HIDE DEF text
  <2> QED BY <1>1, ReadsMembers DEF Plain, DocSpelled
<1>4. PICK less : Reads(text, last, after, room, w, t, k, less)
  <2>1. Pad(<< >>) = <<Space>>
    BY DEF Pad
  <2> HIDE DEF text, b, t, k, w
  <2>2. \E less : Reads(text, last, after, room, Pad(<< >>) \o b \o Pad(<< >>), t, k, less)
    BY <1>1, <1>3, ReadsPadded
  <2> QED BY <2>1, <2>2 DEF w
<1>5. IsSeq(front) /\ Len(front) = 1 /\ front[1] = doc.head[1]
  <2>1. 2 # 0 /\ 2 - 1 = 1 /\ 1 \in 1 .. 2 - 1
    OBVIOUS
  <2> QED BY <1>2, <2>1, FrontIs
<1> HIDE DEF front
<1>6. Reads(text, last, after, room, f, ft, 1, TRUE)
  <2>1. \A i \in 1 .. Len(front) : PlainLeaf(front[i]) /\ LeafSpelled(front[i])
    <3>1. \A i \in 1 .. Len(front) : i = 1
      BY <1>5
    <3>2. PlainLeaf(doc.head[1]) /\ LeafSpelled(doc.head[1])
      <4>1. 1 \in 1 .. Len(doc.head)
        OBVIOUS
      <4> QED BY <4>1 DEF Plain, DocSpelled
    <3> QED BY <1>5, <3>1, <3>2
  <2> HIDE DEF text
  <2> QED BY <1>1, <1>5, <2>1, ReadsNames
<1>7. IsSeq(f) /\ IsSeq(ft) /\ IsSeq(b) /\ IsSeq(t) /\ IsSeq(w) /\ n \in Nat /\ l \in Nat /\ Len(t) \in Nat
  BY <1>3, <1>4, <1>6 DEF Reads, IsSeq
<1>8. text = f \o ((<<e>> \o w \o <<c>>) \o <<Space>>)
  BY <1>2, <1>7, TextInObject DEF InObject, front
<1>9. Len(ft) = 1
  <2>1. ft = [i \in DOMAIN front |-> ft[i]]
    BY DEF NamesTokens
  <2> HIDE DEF ft
  <2> QED BY <1>5, <2>1, MappedSeq
<1>10. 2 + Len(t) <= room
  <2> DEFINE h == NamesTokens(doc.head)
  <2>1. h = [i \in DOMAIN doc.head |-> h[i]]
    BY DEF NamesTokens
  <2>2. Tokens(doc) = h \o t
    BY DEF Tokens, NamesTokens, MembersTokens
  <2> HIDE DEF h, t
  <2>3. IsSeq(h) /\ Len(h) = 2
    BY <1>2, <2>1, MappedSeq
  <2>4. IsSeq(t)
    BY <1>7
  <2>5. Len(h \o t) = Len(h) + Len(t)
    BY <2>3, <2>4, ConcatIs
  <2> QED BY <2>2, <2>3, <2>5
<1> DEFINE v == <<e>> \o w \o <<c>>
           x == v \o <<Space>>
<1> HIDE DEF text, f, ft, b, t, k, w, e, c
<1>11. IsSeq(<<e>>) /\ IsSeq(<<c>>) /\ IsSeq(<<Space>>) /\ Len(<<e>>) = 1 /\ Len(<<c>>) = 1 /\ Len(<<Space>>) = 1
  BY OneIs
<1>12. IsSeq(<<e>> \o w) /\ Len(<<e>> \o w) = 1 + l
  BY <1>7, <1>11, ConcatIs
<1>13. IsSeq(v) /\ Len(v) = (1 + l) + 1
  BY <1>11, <1>12, ConcatIs
<1>14. IsSeq(x) /\ Len(x) = ((1 + l) + 1) + 1
  <2> HIDE DEF v
  <2> QED BY <1>11, <1>13, ConcatIs
<1>15. Len(text) = n + (((1 + l) + 1) + 1) /\ Placed(text, 1, f \o x)
  <2> HIDE DEF x
  <2>1. Len(text) = n + Len(x)
    BY <1>7, <1>8, <1>14, ConcatIs DEF x
  <2>2. \A i \in 1 .. Len(text) : 1 + i - 1 = i
    BY <1>1
  <2>3. 1 + Len(text) <= Len(text) + 1
    BY <1>1
  <2> QED BY <1>8, <1>14, <2>1, <2>2, <2>3 DEF Placed, x
<1>16. Placed(text, 1, f) /\ Placed(text, 1 + n, x)
  <2> HIDE DEF x
  <2> QED BY <1>1, <1>7, <1>14, <1>15, PlacedBoth
<1>17. Placed(text, 1 + n, v)
  <2>1. 1 + n \in Nat
    BY <1>7
  <2> HIDE DEF v, n
  <2> QED BY <1>1, <1>11, <1>13, <1>16, <2>1, PlacedBoth
<1>18. Placed(text, 1 + n, <<e>> \o w) /\ Placed(text, (1 + n) + (1 + l), <<c>>)
  <2>1. 1 + n \in Nat
    BY <1>7
  <2> DEFINE y == <<e>> \o w
  <2> HIDE DEF y, n
  <2>2. Placed(text, 1 + n, y \o <<c>>)
    BY <1>17 DEF y
  <2> QED BY <1>1, <1>11, <1>12, <2>1, <2>2, PlacedBoth DEF y
<1>19. Placed(text, 1 + n, <<e>>) /\ Placed(text, (1 + n) + 1, w)
  <2>1. 1 + n \in Nat
    BY <1>7
  <2> HIDE DEF n
  <2> QED BY <1>1, <1>7, <1>11, <1>18, <2>1, PlacedBoth
<1>20. /\ 1 + n <= Len(text) /\ text[1 + n] = e
       /\ (1 + n) + (1 + l) <= Len(text) /\ text[(1 + n) + (1 + l)] = c
  <2>1. 1 + n \in Nat /\ (1 + n) + (1 + l) \in Nat
    BY <1>7
  <2> HIDE DEF n, l
  <2> QED BY <1>1, <1>18, <1>19, <2>1, PlacedOnce
<1> HIDE DEF x, v, n, l
<1> DEFINE p == jsmn_init
<1>21. p.pos = 1 /\ p.tokens = << >> /\ p.super = 0 /\ p.error = "none" /\ Len(p.tokens) = 0
  BY NothingIs DEF jsmn_init
<1> HIDE DEF p
<1>22. Reached(last, after, p)
  <2>1. 0 \in 0 .. last /\ p = after[0] /\ 0 < p.pos
    BY <1>1, <1>21 DEF p
  <2> QED BY <1>21, <2>1 DEF Reached
<1>23. PICK q : Reached(last, after, q) /\ Took(text, p, q, n, ft, 1)
  <2>1. Len(p.tokens) + Len(ft) <= room
    BY <1>1, <1>7, <1>9, <1>10, <1>21
  <2> QED BY <1>6, <1>16, <1>21, <1>22, <2>1 DEF Reads, n
<1>24. q.pos = 1 + n /\ Len(q.tokens) = 1
  BY <1>9, <1>21, <1>23 DEF Took
<1>25. PICK o : Reached(last, after, o) /\ Opened(q, "object", o)
  <2>1. Len(q.tokens) + 1 <= room
    BY <1>1, <1>7, <1>10, <1>24
  <2>2. "object" \in DOMAIN Brackets
    BY DEF Brackets
  <2> QED BY <1>1, <1>20, <1>23, <1>24, <2>1, <2>2, Opens DEF e
<1>26. /\ o.pos = (1 + n) + 1 /\ Len(o.tokens) = 2
       /\ o.tokens[2].type = "object" /\ o.tokens[2].end = 0
  <2>1. 1 + 1 = 2
    OBVIOUS
  <2> QED BY <1>24, <1>25, <2>1 DEF Opened
<1>27. PICK m : Reached(last, after, m) /\ Took(text, o, m, l, t, k)
  <2>1. EndsWord(text, o.pos + l)
    <3>1. ((1 + n) + 1) + l = (1 + n) + (1 + l)
      BY <1>7
    <3>2. c.class \in EndOfWord
      BY DEF c, Closing, Brackets, Char, Lexeme, EndOfWord
    <3> QED BY <1>20, <1>26, <3>1, <3>2 DEF EndsWord
  <2>2. Len(o.tokens) + Len(t) <= room
    BY <1>10, <1>26
  <2> QED BY <1>4, <1>19, <1>25, <1>26, <2>1, <2>2 DEF Reads, l
<1>28. m.pos = Len(text) - 1
  <2>1. m.pos = ((1 + n) + 1) + l
    BY <1>26, <1>27 DEF Took
  <2> QED BY <1>7, <1>15, <2>1
<1>29. Len(m.tokens) >= 2 /\ m.tokens[2].type = "object" /\ m.tokens[2].end = 0
  <2>1. Len(m.tokens) = 2 + Len(t) /\ 2 \in 1 .. Len(o.tokens)
    BY <1>26, <1>27 DEF Took
  <2> QED BY <1>7, <1>26, <1>27, <2>1 DEF Took
<1> QED BY <1>27, <1>28, <1>29 DEF text

\* A turn that ends well in a text that is cut is a turn of the whole, but for a
\* word that the cut ends.
LEMMA CutTurn ==
  ASSUME NEW L, Unending(L), NEW text \in Seq(L), NEW n \in 0 .. Len(text),
         NEW cut \in Seq(L), Len(cut) = n, \A i \in 1 .. n : cut[i] = text[i],
         NEW p, ParserInv(cut, p), p.pos <= n, JsmnTurn(cut, p).error = "none"
  PROVE  \/ JsmnTurn(cut, p) = JsmnTurn(text, p)
         \/ /\ WordBegins(text, p.pos)
            /\ JsmnTurn(cut, p) = AddToken(p, "primitive", p.pos, n + 1, n + 1)
<1> DEFINE l == text[p.pos].class
           N == Len(text)
<1>1. p \in JsmnParser /\ p.pos \in Nat /\ p.pos > 0 /\ N \in Nat /\ n \in Nat /\ n <= N
  BY ParserIs
<1>2. cut[p.pos] = text[p.pos] /\ p.pos \in 1 .. n /\ p.pos \in 1 .. N
  BY <1>1
<1>3. \A error \in {"nomem", "inval", "part"} : Stop(p, error).error # "none"
  BY StopInv
<1> HIDE DEF l
<1>4. CASE l \in {"{", "[", "}", "]", "space", "colon", "comma"}
  BY <1>2, <1>4 DEF JsmnTurn, l
<1>5. CASE l = "quote"
  <2> DEFINE start == p.pos + 1
             e == StringEnd(cut, start)
             s == SubSeq(cut, start, e.end - 1)
  <2>1. JsmnTurn(cut, p) = String(cut, p) /\ JsmnTurn(text, p) = String(text, p)
    BY <1>2, <1>5 DEF JsmnTurn, l
  <2>2. start \in 1 .. Len(cut) + 1 /\ start \in Nat \ {0}
    BY <1>1, <1>2
  <2>3. e.error = "none"
    <3> SUFFICES ASSUME e.error # "none" PROVE FALSE
      OBVIOUS
    <3>1. e.error \in {"part", "inval"}
      <4>1. e.error \in {"none", "part", "inval"}
        <5> HIDE DEF start
        <5> QED BY <2>2, StringEnds
      <4> QED BY <4>1
    <3>2. String(cut, p) = Stop(p, e.error)
      BY DEF String
    <3> HIDE DEF e
    <3> QED BY <1>3, <2>1, <3>1, <3>2
  <2>4. /\ e.end \in start .. n /\ cut[e.end] = Quote
        /\ IsSeq(s) /\ Len(s) = e.end - start /\ Placed(cut, start, s) /\ Legible(s)
    <3> HIDE DEF start
    <3> QED BY <2>2, <2>3, EndsLegible
  <2> HIDE DEF s, e
  <2>5. start + Len(s) = e.end /\ start + Len(s) <= N /\ text[start + Len(s)] = Quote
    <3>1. start + Len(s) = e.end
      BY <2>2, <2>4
    <3>2. e.end \in 1 .. n /\ e.end <= N
      BY <1>1, <2>2, <2>4
    <3> HIDE DEF start
    <3> QED BY <2>4, <3>1, <3>2
  <2>6. Placed(text, start, s)
    <3>1. \A i \in 1 .. Len(s) : start + i - 1 \in 1 .. n
      BY <2>2, <2>4
    <3>2. start + Len(s) <= N + 1
      <4> HIDE DEF start
      <4>1. Len(s) \in Nat /\ start \in Nat
        BY <2>2, <2>4 DEF IsSeq
      <4> QED BY <1>1, <2>5, <4>1
    <3> HIDE DEF start
    <3>3. \A i \in 1 .. Len(s) : cut[start + i - 1] = s[i]
      BY <2>4 DEF Placed
    <3>4. ASSUME NEW i \in 1 .. Len(s) PROVE text[start + i - 1] = s[i]
      <4>1. start + i - 1 \in 1 .. n
        BY <3>1
      <4>2. cut[start + i - 1] = text[start + i - 1]
        BY <4>1
      <4> QED BY <3>3, <4>2
    <3> QED BY <3>2, <3>4 DEF Placed
  <2>7. StringEnd(text, start) = [end |-> start + Len(s), error |-> "none"]
    <3> HIDE DEF start
    <3> QED BY <2>2, <2>4, <2>5, <2>6, LegibleEnds
  <2>8. String(text, p) = AddToken(p, "string", start, e.end, e.end + 1)
    <3>1. StringEnd(text, start).error = "none" /\ StringEnd(text, start).end = e.end
      BY <2>5, <2>7
    <3> QED BY <3>1 DEF String
  <2>9. String(cut, p) = AddToken(p, "string", start, e.end, e.end + 1)
    BY <2>3 DEF String, e
  <2> QED BY <2>1, <2>8, <2>9
<1>6. CASE WordBegins(text, p.pos)
  <2> DEFINE e == WordEnd(cut, p.pos)
             g == WordEnd(text, p.pos)
  <2>1. JsmnTurn(cut, p) = Primitive(cut, p) /\ JsmnTurn(text, p) = Primitive(text, p)
    BY <1>2, <1>6 DEF JsmnTurn, WordBegins
  <2>2. \A t : Primitive(t, p) =
          IF ~ EndOfText(t, WordEnd(t, p.pos)) /\ t[WordEnd(t, p.pos)].class = "control" THEN Stop(p, "inval")
          ELSE AddToken(p, "primitive", p.pos, WordEnd(t, p.pos), WordEnd(t, p.pos))
    BY DEF Primitive, WordEnd
  <2>3. /\ e \in p.pos .. n + 1 /\ StopsWord(cut, e)
        /\ \A i \in p.pos .. e - 1 : ~ StopsWord(cut, i)
    <3>1. p.pos \in 1 .. Len(cut) + 1
      BY <1>1, <1>2
    <3> QED BY <3>1, WordEnds
  <2>4. /\ g \in p.pos .. N + 1 /\ StopsWord(text, g)
        /\ \A i \in p.pos .. g - 1 : ~ StopsWord(text, i)
    <3>1. p.pos \in 1 .. N + 1
      BY <1>1, <1>2
    <3> QED BY <3>1, WordEnds
  <2>5. ASSUME NEW i \in 1 .. n
        PROVE  /\ EndOfText(cut, i) <=> EndOfText(text, i)
               /\ StopsWord(cut, i) <=> StopsWord(text, i)
    <3>1. i \in Nat \ {0} /\ i <= n /\ i <= N
      BY <1>1
    <3>2. ~ EndOfText(cut, i) /\ ~ EndOfText(text, i)
      BY <1>1, <3>1, EndIs
    <3> QED BY <3>2 DEF StopsWord
  <2>6. JsmnTurn(cut, p) = AddToken(p, "primitive", p.pos, e, e)
    <3> HIDE DEF e, g
    <3> QED BY <1>3, <2>1, <2>2 DEF e
  <2> HIDE DEF e, g
  <2>7. CASE e = n + 1
    BY <1>6, <2>6, <2>7
  <2>8. CASE e # n + 1
    <3>1. e \in 1 .. n /\ e \in Nat /\ g \in Nat
      BY <1>1, <2>3, <2>4, <2>8
    <3>2. e = g
      <4>1. ~ (e < g)
        <5> SUFFICES ASSUME e < g PROVE FALSE
          OBVIOUS
        <5>1. e \in p.pos .. g - 1
          BY <1>1, <2>3, <2>4
        <5> QED BY <2>3, <2>4, <2>5, <3>1, <5>1
      <4>2. ~ (g < e)
        <5> SUFFICES ASSUME g < e PROVE FALSE
          OBVIOUS
        <5>1. g \in p.pos .. e - 1 /\ g \in 1 .. n
          BY <1>1, <2>3, <2>4, <3>1
        <5> QED BY <2>3, <2>4, <2>5, <5>1
      <4> QED BY <3>1, <4>1, <4>2
    <3>3. /\ EndOfText(cut, e) <=> EndOfText(text, g)
          /\ cut[e] = text[g]
      BY <2>5, <3>1, <3>2
    <3>4. Primitive(cut, p) = Primitive(text, p)
      BY <2>2, <3>2, <3>3 DEF e, g
    <3> QED BY <2>1, <3>4
  <2> QED BY <2>7, <2>8
<1> QED BY <1>4, <1>5, <1>6 DEF WordBegins, l

\* What the parser of a text that is cut comes to, it comes to in the whole, but
\* for a word that the cut ends.
CutReached(text, last, after, n, q) ==
  \/ Reached(last, after, q)
  \/ \E p : /\ Reached(last, after, p) /\ p.pos <= n /\ WordBegins(text, p.pos)
            /\ q = AddToken(p, "primitive", p.pos, n + 1, n + 1)

LEMMA CutChain ==
  ASSUME NEW L, NEW text, NEW last, NEW after, NEW room, Running(L, text, last, after, room),
         NEW n \in 0 .. Len(text),
         NEW cut \in Seq(L), Len(cut) = n, \A i \in 1 .. n : cut[i] = text[i],
         NEW end, NEW turns, Parsing(cut, end, turns), turns[end].error = "none"
  PROVE  CutReached(text, last, after, n, turns[end])
<1> DEFINE Good(i) == turns[i].error = "none" => CutReached(text, last, after, n, turns[i])
           S == {i \in 0 .. end : Good(i)}
<1>1. /\ Unending(L) /\ text \in Seq(L) /\ Parsing(text, last, after) /\ room \in Nat
      /\ Len(text) \in Nat /\ end \in Nat /\ last \in Nat /\ after[0] = jsmn_init /\ turns[0] = jsmn_init
      /\ \A i \in 0 .. end : ParserInv(cut, turns[i])
      /\ n \in Nat /\ n <= Len(text)
  BY DEF Running, Parsing
<1>2. 0 \in S
  <2>1. jsmn_init.pos = 1 /\ jsmn_init.error = "none"
    BY DEF jsmn_init
  <2>2. Reached(last, after, jsmn_init)
    <3>1. 0 \in 0 .. last /\ 0 < 1
      BY <1>1
    <3> QED BY <1>1, <2>1, <3>1 DEF Reached
  <2> QED BY <1>1, <2>2 DEF CutReached
<1>3. ASSUME NEW i \in 0 .. end - 1, i \in S PROVE i + 1 \in S
  <2> DEFINE p == turns[i]
             q == turns[i + 1]
  <2>1. i \in 0 .. end /\ i + 1 \in 1 .. end /\ (i + 1) - 1 = i /\ i + 1 \in 0 .. end
    BY <1>1
  <2>2. q = ParserTurn(cut, p) /\ ParserInv(cut, p) /\ p.pos \in Nat /\ p.pos > 0
    BY <1>1, <2>1, ParserIs DEF Parsing
  <2>3. Good(i)
    BY <1>3
  <2> HIDE DEF p, q
  <2>4. CASE q = p
    BY <2>1, <2>3, <2>4 DEF p, q
  <2>5. CASE q # p
    <3>1. p.error = "none" /\ ~ EndOfText(cut, p.pos) /\ q = JsmnTurn(cut, p)
      BY <2>2, <2>5 DEF ParserTurn
    <3>2. p.pos <= n
      BY <1>1, <2>2, <3>1, EndIs
    <3> SUFFICES ASSUME q.error = "none" PROVE CutReached(text, last, after, n, q)
      BY <2>1 DEF q
    <3>3. Reached(last, after, p)
      <4> SUFFICES ASSUME NEW r, Reached(last, after, r), p = AddToken(r, "primitive", r.pos, n + 1, n + 1)
                   PROVE  FALSE
        BY <2>3, <3>1 DEF CutReached, p
      <4>1. r \in JsmnParser
        BY <1>1, ReachedInv
      <4>2. p = Stop(r, "nomem") \/ \E tokens : p = [r EXCEPT !.tokens = tokens, !.pos = n + 1]
        BY DEF AddToken
      <4>3. p.pos = n + 1
        BY <3>1, <4>1, <4>2 DEF Stop, JsmnParser
      <4> QED BY <1>1, <3>2, <4>3
    <3>4. \/ q = JsmnTurn(text, p)
          \/ WordBegins(text, p.pos) /\ q = AddToken(p, "primitive", p.pos, n + 1, n + 1)
      BY <1>1, <2>2, <3>1, <3>2, CutTurn
    <3>5. CASE q = JsmnTurn(text, p)
      <4>1. p.pos <= Len(text)
        BY <1>1, <2>2, <3>2
      <4> QED BY <3>3, <3>5, <4>1, NextTurn DEF CutReached
    <3> QED BY <3>2, <3>3, <3>4, <3>5 DEF CutReached
  <2> QED BY <2>4, <2>5
<1>4. 0 .. end \subseteq S
  <2> HIDE DEF S
  <2> QED BY <1>1, <1>2, <1>3, UpTo
<1>5. Good(end)
  BY <1>1, <1>4
<1> QED BY <1>5

\* Of two parsers the one that is not further was before the other.
LEMMA ReachedOrder ==
  ASSUME NEW L, NEW text, NEW last, NEW after, NEW room, Running(L, text, last, after, room),
         NEW p, Reached(last, after, p), NEW m, Reached(last, after, m),
         p.pos <= m.pos, m.pos <= Len(text)
  PROVE  \E i \in 0 .. last : \E k \in i .. last : p = after[i] /\ m = after[k]
<1>1. /\ Unending(L) /\ Lexicon(L) /\ text \in Seq(L) /\ Parsing(text, last, after) /\ last \in Nat
      /\ Len(text) \in Nat
  BY DEF Running, Unending, Parsing
<1>2. PICK i \in 0 .. last : p = after[i] /\ p.error = "none"
  BY DEF Reached
<1>3. PICK k \in 0 .. last : m = after[k] /\ m.error = "none"
  BY DEF Reached
<1>4. /\ ParserInv(text, p) /\ p.pos \in Nat
      /\ ParserInv(text, m) /\ m.pos \in Nat /\ m.pos > 0
  BY <1>1, ReachedInv
<1>5. CASE i <= k
  <2>1. k \in i .. last
    BY <1>1, <1>5
  <2> QED BY <1>2, <1>3, <2>1
<1>6. CASE k < i
  <2> DEFINE q == after[k + 1]
  <2>1. k + 1 \in 0 .. last /\ k + 1 \in 1 .. last /\ (k + 1) - 1 = k /\ i \in k + 1 .. last
    BY <1>1, <1>6
  <2>2. Grown(text, q, p) /\ (q.error # "none" => p = q)
    BY <1>1, <1>2, <2>1, ChainGrown
  <2>3. q.error = "none"
    BY <1>2, <2>2
  <2>4. q = ParserTurn(text, m) /\ ParserInv(text, q)
    BY <1>1, <1>3, <2>1 DEF Parsing
  <2>5. ~ EndOfText(text, m.pos)
    <3>1. m.pos \in Nat \ {0} /\ ~ (m.pos > Len(text))
      BY <1>1, <1>4
    <3> QED BY <1>1, <3>1, EndIs
  <2>6. q = JsmnTurn(text, m)
    BY <1>3, <2>4, <2>5 DEF ParserTurn
  <2>7. GoesOn(text, m, JsmnTurn(text, m))
    BY <1>1, <1>3, <1>4, <2>5, TurnInv
  <2> HIDE DEF q
  <2>8. m.pos < q.pos
    BY <2>3, <2>6, <2>7 DEF GoesOn
  <2>9. q.pos \in Nat /\ q.pos <= p.pos
    BY <2>2, <2>4, ParserIs DEF Grown, Later
  <2> QED BY <1>4, <2>8, <2>9
<1> QED BY <1>1, <1>5, <1>6

\* A parser that has come to a word fills the next token with it.
LEMMA WordNext ==
  ASSUME NEW L, NEW text, NEW last, NEW after, NEW room, Running(L, text, last, after, room),
         NEW p, Reached(last, after, p), NEW m, Reached(last, after, m),
         p.pos <= m.pos, m.pos <= Len(text),
         WordBegins(text, p.pos), Len(p.tokens) < Len(m.tokens)
  PROVE  m.tokens[Len(p.tokens) + 1].type = "primitive"
<1>1. /\ Unending(L) /\ Lexicon(L) /\ text \in Seq(L) /\ Parsing(text, last, after) /\ last \in Nat
      /\ Len(text) \in Nat
  BY DEF Running, Unending, Parsing
<1>2. PICK i \in 0 .. last : \E k \in i .. last : p = after[i] /\ m = after[k]
  BY ReachedOrder
<1>3. PICK k \in i .. last : p = after[i] /\ m = after[k]
  BY <1>2
<1>4. /\ ParserInv(text, p) /\ p.pos \in Nat /\ p.pos > 0 /\ p.error = "none" /\ m.error = "none"
      /\ m.pos \in Nat /\ Len(p.tokens) \in Nat
  BY <1>1, ReachedInv, ParserIs
<1> DEFINE q == after[i + 1]
           l == Len(p.tokens)
           e == WordEnd(text, p.pos)
<1>5. i + 1 \in 0 .. last /\ i + 1 \in 1 .. last /\ (i + 1) - 1 = i /\ k \in i + 1 .. last
  <2>1. k # i
    BY <1>3, <1>4
  <2> QED BY <1>1, <2>1
<1>6. Grown(text, q, m) /\ (q.error # "none" => m = q)
  BY <1>1, <1>3, <1>5, ChainGrown
<1>7. q.error = "none"
  BY <1>4, <1>6
<1>8. p.pos <= Len(text) /\ p.pos \in Nat \ {0}
  BY <1>1, <1>4
<1>9. q = Primitive(text, p)
  <2>1. q = ParserTurn(text, p)
    BY <1>1, <1>3, <1>5 DEF Parsing
  <2>2. ~ EndOfText(text, p.pos)
    <3>1. ~ (p.pos > Len(text))
      BY <1>1, <1>8
    <3> QED BY <1>1, <1>8, <3>1, EndIs
  <2> QED BY <1>4, <2>1, <2>2 DEF ParserTurn, JsmnTurn, WordBegins
<1> HIDE DEF q
<1>10. q = Stop(p, "inval") \/ q = AddToken(p, "primitive", p.pos, e, e)
  BY <1>9 DEF Primitive, WordEnd
<1>11. e \in Nat
  <2>1. p.pos \in 1 .. Len(text) + 1
    BY <1>1, <1>8
  <2>2. e \in p.pos .. Len(text) + 1
    BY <1>1, <2>1, WordEnds
  <2> HIDE DEF e
  <2> QED BY <1>1, <1>4, <2>2
<1> HIDE DEF e
<1>12. \A error \in {"nomem", "inval", "part"} : Stop(p, error).error # "none"
  BY <1>4, StopInv
<1>13. q = AddToken(p, "primitive", p.pos, e, e)
  BY <1>7, <1>10, <1>12
<1>14. l < MaxTokens
  <2>1. CASE l >= MaxTokens
    BY <1>4, <1>7, <1>12, <1>13, <2>1, AddTokenStops
  <2> QED BY <1>4, <2>1, TokensAssumption
<1>15. Len(q.tokens) = l + 1 /\ q.tokens[l + 1].type = "primitive"
  <2>1. "primitive" \in TokenTypes
    BY DEF TokenTypes
  <2>2. Adds(p, [type |-> "primitive", start |-> p.pos, end |-> e, size |-> 0], e, q)
    BY <1>4, <1>11, <1>13, <1>14, <2>1, AddedTokens
  <2> QED BY <2>2 DEF Adds
<1>16. l + 1 \in 1 .. Len(q.tokens)
  BY <1>4, <1>15
<1> QED BY <1>6, <1>15, <1>16 DEF Grown, Later

\* What jsmn accepts of a document that is cut before the bracket that closes
\* the object of its members is one token at most: it is cut within the name of
\* its type, or behind it.
LEMMA CutTokens ==
  ASSUME NEW L, Unending(L), Marks(L), NEW doc, DocumentOf(L, doc), Plain(doc), AllLegible(doc),
         Len(doc.head) = 2, doc.head[2] = Obj, Len(Tokens(doc)) <= MaxTokens,
         NEW n \in Nat, n < Len(Text(doc)) - 1, NEW cut, cut = SubSeq(Text(doc), 1, n),
         jsmn_parse(cut).error = "none"
  PROVE  Len(jsmn_parse(cut).tokens) <= 1
<1> DEFINE text == Text(doc)
           q == jsmn_parse(cut)
<1>1. text \in Seq(L) /\ Len(text) \in Nat /\ DocSpelled(doc) /\ Lexicon(L)
  BY TextIn, LegibleSpelled DEF Unending
<1>2. n \in 0 .. Len(text) /\ n + 1 <= Len(text) - 1 /\ Len(text) - 1 <= Len(text)
  BY <1>1
<1> HIDE DEF text
<1>3. cut \in Seq(L) /\ Len(cut) = n /\ \A i \in 1 .. n : cut[i] = text[i]
  BY <1>1, <1>2, SubSeqProperties DEF text
<1>4. PICK last, after : Parsing(text, last, after)
  BY <1>1, ParseTurns
<1>5. MaxTokens \in Nat
  BY TokensAssumption
<1>6. Running(L, text, last, after, MaxTokens)
  BY <1>1, <1>4, <1>5 DEF Running
<1>7. PICK m : /\ Reached(last, after, m) /\ m.pos = Len(text) - 1
               /\ Len(m.tokens) >= 2 /\ m.tokens[2].type = "object" /\ m.tokens[2].end = 0
  BY <1>1, <1>6, OpenToTheEnd DEF text
<1>8. PICK end, turns : Parsing(cut, end, turns)
  BY <1>1, <1>3, ParseTurns
<1>9. q = turns[end] /\ q.error = "none" /\ Unclosed(q) = {} /\ ParserInv(cut, q)
  <2>1. end \in 0 .. end /\ ParserInv(cut, turns[end])
    <3>1. end \in 0 .. end
      BY <1>8 DEF Parsing
    <3> QED BY <1>8, <3>1 DEF Parsing
  <2>2. q = LastCheck(turns[end])
    BY <1>8 DEF Parsing
  <2>3. \A p : ParserInv(cut, p) => Stop(p, "part").error # "none"
    BY StopInv
  <2>4. q.error = "none"
    OBVIOUS
  <2> HIDE DEF q
  <2>5. ~ (turns[end].error = "none" /\ Unmatched(turns[end]))
    BY <2>1, <2>2, <2>3, <2>4 DEF LastCheck
  <2>6. q = turns[end]
    BY <2>2, <2>5 DEF LastCheck
  <2> QED BY <2>1, <2>4, <2>5, <2>6 DEF Unmatched
<1>10. CutReached(text, last, after, n, q)
  <2>1. turns[end].error = "none" /\ q = turns[end]
    BY <1>9
  <2> HIDE DEF q
  <2>2. CutReached(text, last, after, n, turns[end])
    BY <1>2, <1>3, <1>6, <1>8, <2>1, CutChain
  <2> QED BY <2>1, <2>2
<1> HIDE DEF q
<1>11. /\ q.pos \in Nat /\ q.pos <= n + 1 /\ Len(q.tokens) \in Nat
       /\ \A i \in 1 .. Len(q.tokens) : q.tokens[i].end # 0
  <2>1. q.pos \in Nat /\ q.pos <= Len(cut) + 1 /\ Len(q.tokens) \in Nat /\ DOMAIN q.tokens = 1 .. Len(q.tokens)
    BY <1>9, ParserIs
  <2> QED BY <1>3, <1>9, <2>1 DEF Unclosed
<1> SUFFICES ASSUME ~ (Len(q.tokens) <= 1) PROVE FALSE
  BY DEF q
<1>12. Len(q.tokens) >= 2 /\ q.tokens[2].end # 0
  BY <1>11
<1>13. m.pos <= Len(text) /\ m.pos \in Nat /\ Len(m.tokens) \in Nat
  BY <1>1, <1>4, <1>7, ReachedInv, ParserIs
<1>14. ASSUME NEW p, Reached(last, after, p), p.pos <= m.pos PROVE Later(p, m)
  <2>1. PICK i \in 0 .. last : \E k \in i .. last : p = after[i] /\ m = after[k]
    BY <1>6, <1>7, <1>13, <1>14, ReachedOrder
  <2>2. PICK k \in i .. last : p = after[i] /\ m = after[k]
    BY <2>1
  <2> QED BY <1>1, <1>4, <2>2, ChainGrown DEF Grown, Running
<1>15. CASE Reached(last, after, q)
  <2>1. q.pos <= m.pos
    BY <1>2, <1>7, <1>11, <1>13
  <2>2. Later(q, m)
    BY <1>14, <1>15, <2>1
  <2>3. 2 \in 1 .. Len(q.tokens)
    BY <1>11, <1>12
  <2> QED BY <1>7, <1>12, <2>2, <2>3 DEF Later
<1>16. ASSUME NEW p, Reached(last, after, p), p.pos <= n, WordBegins(text, p.pos),
              q = AddToken(p, "primitive", p.pos, n + 1, n + 1)
       PROVE  FALSE
  <2> DEFINE l == Len(p.tokens)
             t == [type |-> "primitive", start |-> p.pos, end |-> n + 1, size |-> 0]
  <2>1. ParserInv(text, p) /\ p.pos \in Nat /\ p.pos > 0 /\ l \in Nat
    BY <1>4, <1>16, ReachedInv, ParserIs
  <2>2. l < MaxTokens
    <3>1. CASE l >= MaxTokens
      <4>1. q = Stop(p, "nomem")
        BY <1>16, <2>1, <3>1, AddTokenStops
      <4>2. Stop(p, "nomem").error # "none"
        BY <2>1, StopInv
      <4> QED BY <1>9, <4>1, <4>2
    <3> QED BY <1>5, <2>1, <3>1
  <2>3. Adds(p, t, n + 1, q)
    <3>1. "primitive" \in TokenTypes /\ n + 1 \in Nat
      BY DEF TokenTypes
    <3> QED BY <1>16, <2>1, <2>2, <3>1, AddedTokens
  <2>4. Len(q.tokens) = l + 1 /\ \A i \in 1 .. l : q.tokens[i].end = p.tokens[i].end
    BY <2>3 DEF Adds
  <2>5. p.pos <= m.pos
    BY <1>2, <1>7, <1>13, <1>16, <2>1
  <2> HIDE DEF l, t
  <2>6. CASE l >= 2
    <3>1. 2 \in 1 .. l
      BY <2>1, <2>6
    <3>2. p.tokens[2].end # 0
      BY <1>12, <2>4, <3>1
    <3>3. m.tokens[2].end = p.tokens[2].end
      BY <1>14, <1>16, <2>5, <3>1, <3>2 DEF Later, l
    <3> QED BY <1>7, <3>2, <3>3
  <2>7. CASE l = 1
    <3>1. Len(p.tokens) < Len(m.tokens) /\ Len(p.tokens) + 1 = 2
      BY <1>7, <1>13, <2>7 DEF l
    <3>2. m.tokens[Len(p.tokens) + 1].type = "primitive"
      BY <1>6, <1>7, <1>13, <1>16, <2>5, <3>1, WordNext
    <3> QED BY <1>7, <3>1, <3>2
  <2> QED BY <1>12, <2>1, <2>4, <2>6, <2>7
<1> QED BY <1>10, <1>15, <1>16 DEF CutReached
=============================================================================

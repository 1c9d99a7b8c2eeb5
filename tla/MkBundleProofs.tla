--------------------------- MODULE MkBundleProofs ---------------------------
(***************************************************************************)
(* Proofs about the commands one after the other: for every sequence of    *)
(* options, every set of strings and every edit of the document.           *)
(***************************************************************************)
EXTENDS MkBundle, UnserializeProofs

-----------------------------------------------------------------------------
(* Dictionaries *)

\* The strings of l lie end to end in the dictionary d, the nth one from
\* at[n - 1].
Laid(d, l, at) ==
  /\ IsSeq(l) /\ \A n \in 1 .. Len(l) : l[n] \in Strings
  /\ \A n \in 0 .. Len(l) : at[n] \in Nat
  /\ at[0] = 0 /\ d.pos = at[Len(l)]
  /\ \A n \in 1 .. Len(l) : at[n] = at[n - 1] + LenOf[l[n]] + 1
  /\ \A m, n \in 0 .. Len(l) : m < n => at[m] < at[n]
  /\ DOMAIN d.held = {at[n - 1] : n \in 1 .. Len(l)}
  /\ \A n \in 1 .. Len(l) : d.held[at[n - 1]] = l[n]

DictOK(d) == \E l, at : Laid(d, l, at)

LEMMA LaidNone == DictOK(EmptyDict)
<1> DEFINE at == [n \in 0 .. 0 |-> 0]
           d == EmptyDict
<1>1. /\ d.pos = 0 /\ DOMAIN d.held = {}
  BY DEF EmptyDict
<1>2. IsSeq(<< >>) /\ Len(<< >>) = 0
  BY NothingIs
<1>3. at[0] = 0
  OBVIOUS
<1> HIDE DEF at, d
<1>4. Laid(d, << >>, at)
  BY <1>1, <1>2, <1>3 DEF Laid
<1> QED BY <1>4 DEF DictOK, d

LEMMA LaidAppended ==
  ASSUME NEW d, NEW l, NEW at, Laid(d, l, at), NEW s \in Strings
  PROVE  \E to : Laid(AppendedString(d, s), Append(l, s), to)
<1> DEFINE N == Len(l)
           e == AppendedString(d, s)
           m == Append(l, s)
           size == LenOf[s]
           to == [n \in 0 .. N + 1 |-> IF n = N + 1 THEN d.pos + size + 1 ELSE at[n]]
<1>1. /\ IsSeq(l) /\ \A n \in 1 .. N : l[n] \in Strings
      /\ \A n \in 0 .. N : at[n] \in Nat
      /\ at[0] = 0 /\ d.pos = at[N]
      /\ \A n \in 1 .. N : at[n] = at[n - 1] + LenOf[l[n]] + 1
      /\ \A k, n \in 0 .. N : k < n => at[k] < at[n]
      /\ DOMAIN d.held = {at[n - 1] : n \in 1 .. N}
      /\ \A n \in 1 .. N : d.held[at[n - 1]] = l[n]
  BY DEF Laid
<1>2. N \in Nat /\ d.pos \in Nat
  BY <1>1 DEF IsSeq
<1>3. size \in Nat
  BY StringsAssumption
<1>4. /\ e.pos = d.pos + size + 1
      /\ DOMAIN e.held = DOMAIN d.held \cup {d.pos}
      /\ \A o \in DOMAIN d.held \cup {d.pos} : e.held[o] = IF o = d.pos THEN s ELSE d.held[o]
  BY DEF AppendedString
<1>5. /\ IsSeq(m) /\ Len(m) = N + 1 /\ m[N + 1] = s
      /\ \A i \in 1 .. N : m[i] = l[i]
  <2>1. Len(m) = N + 1 /\ m[N + 1] = s /\ \A i \in 1 .. N : m[i] = l[i]
    BY <1>1, AppendIs
  <2>2. IsSeq(m)
    <3>1. l \in Seq({l[i] : i \in 1 .. N} \cup {s})
      BY <1>1, SeqIn
    <3>2. m \in Seq({l[i] : i \in 1 .. N} \cup {s})
      BY <3>1
    <3> QED BY <3>2, SeqIs
  <2> QED BY <2>1, <2>2
<1>6. /\ to[N + 1] = d.pos + size + 1
      /\ \A n \in 0 .. N : to[n] = at[n]
  BY <1>2
<1> HIDE DEF N, e, m, size, to
<1>7. \A n \in 0 .. N + 1 : n \in 0 .. N \/ n = N + 1
  BY <1>2
<1>8. \A n \in 1 .. N + 1 : n \in 1 .. N \/ n = N + 1
  BY <1>2
<1>9. /\ N \in 0 .. N /\ 0 \in 0 .. N /\ (N + 1) - 1 = N
      /\ \A n \in 1 .. N : n - 1 \in 0 .. N /\ n \in 0 .. N /\ n - 1 < N
  BY <1>2
<1>10. \A n \in 1 .. N + 1 : m[n] \in Strings
  BY <1>1, <1>5, <1>8
<1>11. \A n \in 0 .. N + 1 : to[n] \in Nat
  BY <1>1, <1>2, <1>3, <1>6, <1>7
<1>12. to[0] = 0 /\ e.pos = to[N + 1]
  BY <1>1, <1>4, <1>6, <1>9
<1>13. \A n \in 1 .. N + 1 : to[n] = to[n - 1] + LenOf[m[n]] + 1
  <2> TAKE n \in 1 .. N + 1
  <2>1. CASE n \in 1 .. N
    BY <1>1, <1>5, <1>6, <1>9, <2>1
  <2>2. CASE n = N + 1
    BY <1>1, <1>5, <1>6, <1>9, <2>2 DEF size
  <2> QED BY <1>8, <2>1, <2>2
<1>14. \A k, n \in 0 .. N + 1 : k < n => to[k] < to[n]
  <2> SUFFICES ASSUME NEW k \in 0 .. N + 1, NEW n \in 0 .. N + 1, k < n PROVE to[k] < to[n]
    OBVIOUS
  <2>1. k \in 0 .. N /\ to[k] = at[k] /\ at[k] \in Nat
    BY <1>1, <1>2, <1>6
  <2>2. CASE n \in 0 .. N
    BY <1>1, <1>6, <2>1, <2>2
  <2>3. CASE n = N + 1
    <3>1. k = N \/ at[k] < at[N]
      BY <1>1, <1>2, <1>9, <2>1
    <3> QED BY <1>1, <1>2, <1>3, <1>6, <2>1, <2>3, <3>1
  <2> QED BY <1>7, <2>2, <2>3
<1>15. DOMAIN e.held = {to[n - 1] : n \in 1 .. N + 1}
  <2>1. ASSUME NEW n \in 1 .. N + 1 PROVE to[n - 1] \in DOMAIN e.held
    <3>1. CASE n \in 1 .. N
      BY <1>1, <1>4, <1>6, <1>9, <3>1
    <3>2. CASE n = N + 1
      BY <1>1, <1>4, <1>6, <1>9, <3>2
    <3> QED BY <1>8, <3>1, <3>2
  <2>2. ASSUME NEW o \in DOMAIN e.held PROVE \E n \in 1 .. N + 1 : o = to[n - 1]
    <3>1. CASE o = d.pos
      <4>1. N + 1 \in 1 .. N + 1 /\ o = to[(N + 1) - 1]
        BY <1>1, <1>2, <1>6, <1>9, <3>1
      <4> QED BY <4>1
    <3>2. CASE o # d.pos
      <4>1. PICK n \in 1 .. N : o = at[n - 1]
        BY <1>1, <1>4, <3>2
      <4>2. n \in 1 .. N + 1 /\ o = to[n - 1]
        BY <1>2, <1>6, <1>9, <4>1
      <4> QED BY <4>2
    <3> QED BY <3>1, <3>2
  <2> QED BY <2>1, <2>2
<1>16. \A n \in 1 .. N + 1 : e.held[to[n - 1]] = m[n]
  <2> TAKE n \in 1 .. N + 1
  <2>1. CASE n \in 1 .. N
    <3>1. to[n - 1] = at[n - 1] /\ at[n - 1] < d.pos /\ at[n - 1] \in DOMAIN d.held
      BY <1>1, <1>6, <1>9, <2>1
    <3>2. at[n - 1] # d.pos
      BY <1>1, <1>2, <1>9, <2>1, <3>1
    <3> QED BY <1>1, <1>4, <1>5, <2>1, <3>1, <3>2
  <2>2. CASE n = N + 1
    <3>1. to[n - 1] = d.pos
      BY <1>1, <1>6, <1>9, <2>2
    <3> QED BY <1>4, <1>5, <2>2, <3>1
  <2> QED BY <1>8, <2>1, <2>2
<1>17. Laid(e, m, to)
  BY <1>5, <1>10, <1>11, <1>12, <1>13, <1>14, <1>15, <1>16 DEF Laid
<1> QED BY <1>17 DEF e, m

\* Where the strings are.
LEMMA LaidPlaces ==
  ASSUME NEW d, NEW l, NEW at, Laid(d, l, at)
  PROVE  /\ d.pos \in Nat
         /\ \A o \in DOMAIN d.held : o \in Nat /\ o < d.pos /\ d.held[o] \in Strings
<1>1. /\ IsSeq(l) /\ \A n \in 1 .. Len(l) : l[n] \in Strings
      /\ \A n \in 0 .. Len(l) : at[n] \in Nat
      /\ d.pos = at[Len(l)]
      /\ \A k, n \in 0 .. Len(l) : k < n => at[k] < at[n]
      /\ DOMAIN d.held = {at[n - 1] : n \in 1 .. Len(l)}
      /\ \A n \in 1 .. Len(l) : d.held[at[n - 1]] = l[n]
  BY DEF Laid
<1>2. /\ Len(l) \in Nat /\ Len(l) \in 0 .. Len(l)
      /\ \A n \in 1 .. Len(l) : n - 1 \in 0 .. Len(l) /\ n - 1 < Len(l)
  BY <1>1 DEF IsSeq
<1> QED BY <1>1, <1>2

\* What add_eid does to a dictionary: it holds the string then, and all others
\* where they were.
LEMMA InternedOK ==
  ASSUME NEW d, DictOK(d), NEW s \in Strings
  PROVE  LET e == Interned(d, s)
         IN  /\ DictOK(e)
             /\ OffsetIn(e, s) \in DOMAIN e.held /\ e.held[OffsetIn(e, s)] = s
             /\ \A o \in DOMAIN d.held : o \in DOMAIN e.held /\ e.held[o] = d.held[o]
<1> DEFINE e == Interned(d, s)
<1>1. PICK l, at : Laid(d, l, at)
  BY DEF DictOK
<1>2. DictOK(e) /\ (\A o \in DOMAIN d.held : o \in DOMAIN e.held /\ e.held[o] = d.held[o])
      /\ Holds(e, s)
  <2>1. CASE Holds(d, s)
    <3>1. e = d
      BY <2>1 DEF Interned
    <3> QED BY <2>1, <3>1
  <2>2. CASE ~ Holds(d, s)
    <3>1. e = AppendedString(d, s)
      BY <2>2 DEF Interned
    <3>2. DictOK(e)
      BY <1>1, <3>1, LaidAppended DEF DictOK
    <3>3. /\ DOMAIN e.held = DOMAIN d.held \cup {d.pos}
          /\ \A o \in DOMAIN d.held \cup {d.pos} : e.held[o] = IF o = d.pos THEN s ELSE d.held[o]
      BY <3>1 DEF AppendedString
    <3>4. d.pos \notin DOMAIN d.held
      BY <1>1, LaidPlaces
    <3> HIDE DEF e
    <3>5. Holds(e, s)
      BY <3>3 DEF Holds
    <3> QED BY <3>2, <3>3, <3>4, <3>5
  <2> QED BY <2>1, <2>2
<1> HIDE DEF e
<1>3. OffsetIn(e, s) \in DOMAIN e.held /\ e.held[OffsetIn(e, s)] = s
  BY <1>2 DEF Holds, OffsetIn
<1> QED BY <1>2, <1>3 DEF e

\* The dictionary made of the strings of a list has them where one has that
\* holds them in that order.
Builds(l, after) ==
  after = [n \in 0 .. Len(l) |-> IF n = 0 THEN EmptyDict ELSE AppendedString(after[n - 1], l[n])]

LEMMA DictionaryLaid ==
  ASSUME NEW d, NEW l, NEW at, Laid(d, l, at)
  PROVE  Laid(Dictionary(l), l, at)
<1> DEFINE N == Len(l)
           Held == UNION {[S -> Strings] : S \in SUBSET Nat}
           X == [pos : Nat, held : Held]
           step == [n \in 1 .. N |-> [x \in X |-> AppendedString(x, l[n])]]
<1>1. /\ IsSeq(l) /\ \A n \in 1 .. N : l[n] \in Strings
      /\ \A n \in 0 .. N : at[n] \in Nat
      /\ at[0] = 0
      /\ \A n \in 1 .. N : at[n] = at[n - 1] + LenOf[l[n]] + 1
      /\ \A k, n \in 0 .. N : k < n => at[k] < at[n]
  BY DEF Laid
<1>2. N \in Nat
  BY <1>1 DEF IsSeq
<1>3. ASSUME NEW x \in X, NEW s \in Strings PROVE AppendedString(x, s) \in X
  <2>1. PICK S \in SUBSET Nat : x.held \in [S -> Strings]
    OBVIOUS
  <2> DEFINE held == [o \in DOMAIN x.held \cup {x.pos} |-> IF o = x.pos THEN s ELSE x.held[o]]
  <2>2. S \cup {x.pos} \in SUBSET Nat /\ held \in [S \cup {x.pos} -> Strings]
    BY <2>1
  <2>3. held \in Held
    <3> HIDE DEF held
    <3> QED BY <2>2
  <2>4. x.pos + LenOf[s] + 1 \in Nat
    BY StringsAssumption
  <2> HIDE DEF held, Held
  <2>5. AppendedString(x, s) = [pos |-> x.pos + LenOf[s] + 1, held |-> held]
    BY DEF AppendedString, held
  <2> QED BY <2>3, <2>4, <2>5
<1>4. EmptyDict \in X
  <2>1. << >> \in [{} -> Strings]
    OBVIOUS
  <2>2. << >> \in Held
    BY <2>1
  <2> HIDE DEF Held
  <2> QED BY <2>2 DEF EmptyDict
<1>5. PICK f : Repeats(f, N, X, EmptyDict, step)
  <2>1. step \in [1 .. N -> [X -> X]]
    <3> HIDE DEF X
    <3> QED BY <1>1, <1>3
  <2> HIDE DEF N, X, step
  <2> QED BY <1>2, <1>4, <2>1, Repeated
<1> HIDE DEF X
<1>6. Builds(l, f)
  <2>1. f \in [0 .. N -> X] /\ f[0] = EmptyDict /\ \A n \in 1 .. N : f[n] = step[n][f[n - 1]]
    BY <1>5 DEF Repeats
  <2>2. ASSUME NEW n \in 0 .. N
        PROVE  f[n] = IF n = 0 THEN EmptyDict ELSE AppendedString(f[n - 1], l[n])
    <3>1. CASE n = 0
      BY <2>1, <3>1
    <3>2. CASE n # 0
      <4>1. n \in 1 .. N /\ n - 1 \in 0 .. N
        BY <1>2, <3>2
      <4>2. f[n - 1] \in X /\ f[n] = step[n][f[n - 1]]
        BY <2>1, <4>1
      <4>3. step[n] = [x \in X |-> AppendedString(x, l[n])]
        BY <4>1
      <4> HIDE DEF step
      <4> QED BY <3>2, <4>2, <4>3
    <3> QED BY <3>1, <3>2
  <2>3. f = [n \in 0 .. N |-> f[n]]
    BY <2>1
  <2> QED BY <2>2, <2>3 DEF Builds
<1> DEFINE after == CHOOSE g : Builds(l, g)
<1>7. Builds(l, after)
  BY <1>6
<1>8. Dictionary(l) = after[N]
  BY DEF Dictionary, Builds
<1> HIDE DEF after
<1>9. after[0] = EmptyDict /\ \A n \in 1 .. N : after[n] = AppendedString(after[n - 1], l[n])
  BY <1>2, <1>7 DEF Builds
<1> DEFINE Fine(n) == /\ after[n].pos = at[n]
                      /\ DOMAIN after[n].held = {at[m - 1] : m \in 1 .. n}
                      /\ \A m \in 1 .. n : after[n].held[at[m - 1]] = l[m]
           S == {n \in 0 .. N : Fine(n)}
<1>10. Fine(0)
  BY <1>1, <1>9 DEF EmptyDict
<1>11. ASSUME NEW n \in 0 .. N - 1, Fine(n) PROVE Fine(n + 1)
  <2> DEFINE a == after[n]
             b == after[n + 1]
             s == l[n + 1]
  <2>1. n + 1 \in 1 .. N /\ (n + 1) - 1 = n /\ n \in 0 .. N /\ n \in Nat
    BY <1>2
  <2>2. b = AppendedString(a, s)
    BY <1>9, <2>1
  <2>3. /\ a.pos = at[n]
        /\ DOMAIN a.held = {at[m - 1] : m \in 1 .. n}
        /\ \A m \in 1 .. n : a.held[at[m - 1]] = l[m]
    BY <1>11
  <2> HIDE DEF a, b
  <2>4. /\ b.pos = at[n + 1]
        /\ DOMAIN b.held = DOMAIN a.held \cup {at[n]}
        /\ \A o \in DOMAIN a.held \cup {at[n]} : b.held[o] = IF o = at[n] THEN s ELSE a.held[o]
    BY <1>1, <2>1, <2>2, <2>3 DEF AppendedString
  <2>5. \A m \in 1 .. n + 1 : m \in 1 .. n \/ m = n + 1
    BY <2>1
  <2>6. DOMAIN b.held = {at[m - 1] : m \in 1 .. n + 1}
    <3>1. ASSUME NEW m \in 1 .. n + 1 PROVE at[m - 1] \in DOMAIN b.held
      BY <2>1, <2>3, <2>4, <2>5
    <3>2. ASSUME NEW o \in DOMAIN b.held PROVE \E m \in 1 .. n + 1 : o = at[m - 1]
      <4>1. CASE o = at[n]
        <5>1. n + 1 \in 1 .. n + 1 /\ o = at[(n + 1) - 1]
          BY <2>1, <4>1
        <5> QED BY <5>1
      <4>2. CASE o # at[n]
        <5>1. PICK m \in 1 .. n : o = at[m - 1]
          BY <2>3, <2>4, <4>2
        <5>2. m \in 1 .. n + 1
          BY <2>1
        <5> QED BY <5>1, <5>2
      <4> QED BY <4>1, <4>2
    <3> QED BY <3>1, <3>2
  <2>7. ASSUME NEW m \in 1 .. n + 1 PROVE b.held[at[m - 1]] = l[m]
    <3>1. CASE m = n + 1
      BY <2>1, <2>4, <3>1
    <3>2. CASE m \in 1 .. n
      <4>1. m - 1 \in 0 .. N /\ m - 1 < n
        BY <2>1, <3>2
      <4>2. at[m - 1] \in Nat /\ at[n] \in Nat /\ at[m - 1] < at[n]
        BY <1>1, <2>1, <4>1
      <4>3. at[m - 1] # at[n]
        BY <4>2
      <4> QED BY <2>3, <2>4, <3>2, <4>3
    <3> QED BY <2>5, <3>1, <3>2
  <2> QED BY <2>4, <2>6, <2>7 DEF b
<1>12. N \in S
  <2>1. 0 \in S
    BY <1>2, <1>10
  <2>2. ASSUME NEW n \in 0 .. N - 1, n \in S PROVE n + 1 \in S
    <3>1. Fine(n)
      BY <2>2
    <3>2. Fine(n + 1)
      BY <1>11, <3>1
    <3>3. n + 1 \in 0 .. N
      BY <1>2
    <3> HIDE DEF Fine
    <3> QED BY <3>2, <3>3
  <2>3. N \in 0 .. N
    BY <1>2
  <2> HIDE DEF S, N
  <2> QED BY <1>2, <2>1, <2>2, <2>3, UpTo
<1> QED BY <1>1, <1>8, <1>12 DEF Laid

\* serialize_eids finds the strings, in their order.
Walks(d, from) ==
  from = [pos \in DOMAIN d.held \cup {d.pos} |->
            IF pos = d.pos THEN << >> ELSE <<d.held[pos]>> \o from[pos + LenOf[d.held[pos]] + 1]]

\* What is left of l behind its first n elements.
Behindmost(l, n) == [i \in 1 .. Len(l) - n |-> l[n + i]]

LEMMA BehindmostIs ==
  ASSUME NEW l, IsSeq(l)
  PROVE  /\ Behindmost(l, 0) = l /\ Behindmost(l, Len(l)) = << >>
         /\ \A n \in 0 .. Len(l) - 1 : Behindmost(l, n) = <<l[n + 1]>> \o Behindmost(l, n + 1)
<1> DEFINE N == Len(l)
<1>1. N \in Nat /\ l = [n \in 1 .. N |-> l[n]]
  BY DEF IsSeq
<1>2. Behindmost(l, 0) = l
  BY <1>1 DEF Behindmost
<1>3. Behindmost(l, N) = << >>
  BY <1>1 DEF Behindmost
<1>4. ASSUME NEW n \in 0 .. N - 1 PROVE Behindmost(l, n) = <<l[n + 1]>> \o Behindmost(l, n + 1)
  <2> DEFINE one == <<l[n + 1]>>
             rest == Behindmost(l, n + 1)
             all == Behindmost(l, n)
             k == N - n
  <2>1. k \in Nat /\ k - 1 \in Nat /\ n \in Nat /\ N - (n + 1) = k - 1
    BY <1>1
  <2>2. /\ all = [i \in 1 .. k |-> l[n + i]]
        /\ rest = [i \in 1 .. k - 1 |-> l[(n + 1) + i]]
    BY <2>1 DEF Behindmost
  <2>3. IsSeq(one) /\ Len(one) = 1 /\ one[1] = l[n + 1]
    BY OneIs
  <2> HIDE DEF one, rest, all, k
  <2>4. IsSeq(rest) /\ Len(rest) = k - 1
    BY <2>1, <2>2 DEF IsSeq
  <2>5. /\ IsSeq(one \o rest) /\ Len(one \o rest) = 1 + (k - 1)
        /\ \A i \in 1 .. 1 : (one \o rest)[i] = one[i]
        /\ \A i \in 1 .. k - 1 : (one \o rest)[1 + i] = rest[i]
    <3>1. IsSeq(one) /\ IsSeq(rest)
      BY <2>3, <2>4
    <3>2. /\ IsSeq(one \o rest) /\ Len(one \o rest) = Len(one) + Len(rest)
          /\ \A i \in 1 .. Len(one) : (one \o rest)[i] = one[i]
          /\ \A i \in 1 .. Len(rest) : (one \o rest)[Len(one) + i] = rest[i]
      BY <3>1, ConcatIs
    <3> QED BY <2>3, <2>4, <3>2
  <2>6. 1 + (k - 1) = k
    BY <2>1
  <2>7. one \o rest = [i \in 1 .. k |-> (one \o rest)[i]]
    BY <2>5, <2>6 DEF IsSeq
  <2>8. ASSUME NEW i \in 1 .. k PROVE (one \o rest)[i] = l[n + i]
    <3>1. CASE i = 1
      BY <2>3, <2>5, <3>1
    <3>2. CASE i # 1
      <4>1. i - 1 \in 1 .. k - 1 /\ 1 + (i - 1) = i /\ (n + 1) + (i - 1) = n + i
        BY <2>1, <3>2
      <4>2. (one \o rest)[1 + (i - 1)] = rest[i - 1] /\ rest[i - 1] = l[(n + 1) + (i - 1)]
        BY <2>2, <2>5, <4>1
      <4> QED BY <4>1, <4>2
    <3> QED BY <3>1, <3>2
  <2>9. all = one \o rest
    BY <2>2, <2>7, <2>8
  <2> QED BY <2>9 DEF one, rest, all
<1> QED BY <1>2, <1>3, <1>4

LEMMA StringsFound ==
  ASSUME NEW d, NEW l, NEW at, Laid(d, l, at)
  PROVE  StringsOf(d) = l
<1> DEFINE N == Len(l)
           D == DOMAIN d.held \cup {d.pos}
           index(pos) == CHOOSE n \in 0 .. N : at[n] = pos
           f == [pos \in D |-> Behindmost(l, index(pos))]
<1>1. /\ IsSeq(l)
      /\ \A n \in 0 .. N : at[n] \in Nat
      /\ at[0] = 0 /\ d.pos = at[N]
      /\ \A n \in 1 .. N : at[n] = at[n - 1] + LenOf[l[n]] + 1
      /\ \A k, n \in 0 .. N : k < n => at[k] < at[n]
      /\ DOMAIN d.held = {at[n - 1] : n \in 1 .. N}
      /\ \A n \in 1 .. N : d.held[at[n - 1]] = l[n]
  BY DEF Laid
<1>2. N \in Nat
  BY <1>1 DEF IsSeq
<1>3. \A n \in 0 .. N : at[n] \in D
  <2> TAKE n \in 0 .. N
  <2>1. CASE n = N
    BY <1>1, <2>1
  <2>2. CASE n # N
    <3>1. n + 1 \in 1 .. N /\ (n + 1) - 1 = n
      BY <1>2, <2>2
    <3> QED BY <1>1, <3>1
  <2> QED BY <2>1, <2>2
<1>4. \A pos \in D : \E n \in 0 .. N : pos = at[n]
  <2> TAKE pos \in D
  <2>1. CASE pos = d.pos
    <3>1. N \in 0 .. N
      BY <1>2
    <3> QED BY <1>1, <2>1, <3>1
  <2>2. CASE pos # d.pos
    <3>1. PICK n \in 1 .. N : pos = at[n - 1]
      BY <1>1, <2>2
    <3>2. n - 1 \in 0 .. N
      BY <1>2
    <3> QED BY <3>1, <3>2
  <2> QED BY <2>1, <2>2
<1>5. ASSUME NEW m \in 0 .. N, NEW n \in 0 .. N, at[m] = at[n] PROVE m = n
  <2>1. m \in Nat /\ n \in Nat
    BY <1>2
  <2>2. at[m] \in Nat /\ at[n] \in Nat /\ (m < n => at[m] < at[n]) /\ (n < m => at[n] < at[m])
    BY <1>1
  <2> QED BY <1>5, <2>1, <2>2
<1>6. ASSUME NEW n \in 0 .. N PROVE index(at[n]) = n
  BY <1>5
<1>7. \A n \in 0 .. N : f[at[n]] = Behindmost(l, n)
  <2> HIDE DEF D, index
  <2> QED BY <1>3, <1>6
<1> HIDE DEF f, index
<1>8. ASSUME NEW n \in 0 .. N - 1
      PROVE  /\ n \in 0 .. N /\ n + 1 \in 0 .. N
             /\ at[n] # d.pos /\ d.held[at[n]] = l[n + 1]
             /\ at[n] + LenOf[d.held[at[n]]] + 1 = at[n + 1]
  <2>1. n \in 0 .. N /\ n + 1 \in 0 .. N /\ n + 1 \in 1 .. N /\ (n + 1) - 1 = n
    BY <1>2
  <2>2. n # N /\ N \in 0 .. N
    BY <1>2
  <2>3. at[n] # at[N]
    BY <1>5, <2>1, <2>2
  <2> QED BY <1>1, <2>1, <2>3
<1>9. Walks(d, f)
  <2>1. ASSUME NEW pos \in D
        PROVE  f[pos] = IF pos = d.pos THEN << >>
                        ELSE <<d.held[pos]>> \o f[pos + LenOf[d.held[pos]] + 1]
    <3>1. PICK n \in 0 .. N : pos = at[n]
      BY <1>4
    <3>2. CASE n = N
      BY <1>1, <1>7, <3>1, <3>2, BehindmostIs
    <3>3. CASE n # N
      <4>1. n \in 0 .. N - 1
        BY <1>2, <3>3
      <4>2. Behindmost(l, n) = <<l[n + 1]>> \o Behindmost(l, n + 1)
        BY <1>1, <4>1, BehindmostIs
      <4>3. f[at[n + 1]] = Behindmost(l, n + 1) /\ f[at[n]] = Behindmost(l, n)
        BY <1>7, <1>8, <4>1
      <4> QED BY <1>8, <3>1, <4>1, <4>2, <4>3
    <3> QED BY <3>2, <3>3
  <2>2. f = [pos \in D |-> f[pos]]
    BY DEF f
  <2> QED BY <2>1, <2>2 DEF Walks
<1> DEFINE from == CHOOSE g : Walks(d, g)
<1>10. Walks(d, from)
  BY <1>9
<1>11. StringsOf(d) = from[0]
  BY DEF StringsOf, Walks
<1> HIDE DEF from
<1>12. \A pos \in D : from[pos] = IF pos = d.pos THEN << >>
                                  ELSE <<d.held[pos]>> \o from[pos + LenOf[d.held[pos]] + 1]
  BY <1>10 DEF Walks
<1> DEFINE S == {j \in 0 .. N : from[at[N - j]] = Behindmost(l, N - j)}
<1>13. 0 \in S
  <2>1. N - 0 = N /\ N \in 0 .. N /\ 0 \in 0 .. N
    BY <1>2
  <2>2. from[at[N]] = << >>
    BY <1>1, <1>3, <1>12, <2>1
  <2> QED BY <1>1, <2>1, <2>2, BehindmostIs
<1>14. ASSUME NEW j \in 0 .. N - 1, j \in S PROVE j + 1 \in S
  <2> DEFINE n == N - (j + 1)
  <2>1. n \in 0 .. N - 1 /\ n + 1 = N - j /\ j + 1 \in 0 .. N
    BY <1>2
  <2>2. from[at[N - j]] = Behindmost(l, N - j)
    BY <1>14
  <2> HIDE DEF n
  <2>3. from[at[n]] = <<l[n + 1]>> \o from[at[n + 1]]
    <3>1. /\ at[n] \in D /\ at[n] # d.pos /\ d.held[at[n]] = l[n + 1]
          /\ at[n] + LenOf[d.held[at[n]]] + 1 = at[n + 1]
      BY <1>3, <1>8, <2>1
    <3> HIDE DEF D
    <3> QED BY <1>12, <3>1
  <2>4. from[at[n]] = Behindmost(l, n)
    <3>1. Behindmost(l, n) = <<l[n + 1]>> \o Behindmost(l, n + 1)
      BY <1>1, <2>1, BehindmostIs
    <3> QED BY <2>1, <2>2, <2>3, <3>1
  <2> QED BY <2>1, <2>4 DEF n
<1>15. N \in S
  <2>1. N \in 0 .. N
    BY <1>2
  <2> HIDE DEF S, N
  <2> QED BY <1>2, <1>13, <1>14, <2>1, UpTo
<1>16. from[at[0]] = Behindmost(l, 0)
  BY <1>2, <1>15
<1>17. Behindmost(l, 0) = l
  BY <1>1, BehindmostIs
<1>18. at[0] = 0
  BY <1>1
<1> QED BY <1>11, <1>16, <1>17, <1>18

-----------------------------------------------------------------------------
(* What is built *)

\* What the commands are given is of a lexicon without '\0': their strings and
\* symbols, the numbers they write, and what a user puts in.  NotNumber is no
\* number.
CommandLines(M) ==
  /\ Unending(M) /\ Marks(M)
  /\ \A s \in Strings \cup BlockTypes \cup Keys("primary") \cup Keys("extension") :
        Spell(s) \in Seq(M)
  /\ NotNumber \notin U32 /\ \A n \in U32 : Digits(n) \in M
  /\ \A o \in Options : o.opt \in EidKeys /\ o.arg # Malformed =>
        o.arg.scheme \in Strings /\ o.arg.ssp \in Strings
  /\ \A e \in Edits : ValueOf(M, e.value)

\* The block, the dictionary and the options so far.
Building ==
  /\ built = [type |-> built.type, fields |-> built.fields, list |-> built.list]
  /\ built.type \in Commands
  /\ GoodFields(built.type, built.fields)
  /\ IsSeq(built.list) /\ Len(built.list) <= RefCap
  /\ \A n \in 1 .. Len(built.list) : built.list[n] \in EidRecords
  /\ DictOK(dict)
  /\ argv \in Seq(Options) /\ Len(argv) <= MaxOptions

U32Keys == {"flags", "length", "creation-ts", "creation-seq", "lifetime", "eids-size"}

LEMMA PrimaryFieldTypes ==
  /\ DOMAIN NewBlock("primary").fields = {"version"} \cup U32Keys \cup EidKeys
  /\ FieldType("primary", "version") = U8
  /\ \A k \in U32Keys : FieldType("primary", k) = U32
  /\ \A k \in EidKeys : FieldType("primary", k) = EidRecords
<1>1. /\ Keys("primary") = {"version", "eids"} \cup U32Keys \cup EidKeys
      /\ KindOf["primary"] = PrimaryKinds
  BY DEF Keys, KindOf, PrimaryKinds, U32Keys, EidKeys
<1>2. /\ PrimaryKinds["version"] = "u8" /\ PrimaryKinds["eids"] = "eids"
      /\ \A k \in U32Keys : PrimaryKinds[k] = "u32"
      /\ \A k \in EidKeys : PrimaryKinds[k] = "eid"
  BY DEF PrimaryKinds, U32Keys, EidKeys
<1>3. DOMAIN NewBlock("primary").fields
        = {x \in Keys("primary") : KindOf["primary"][x] \in {"u8", "u32", "eid"}}
  BY DEF NewBlock
<1>4. DOMAIN NewBlock("primary").fields = {"version"} \cup U32Keys \cup EidKeys
  BY <1>1, <1>2, <1>3 DEF U32Keys, EidKeys
<1> QED BY <1>1, <1>2, <1>4 DEF FieldType

LEMMA ExtFieldTypes ==
  /\ DOMAIN NewBlock("extension").fields = {"type", "flags", "payload-length", "ref-count"}
  /\ \A k \in {"type", "flags"} : FieldType("extension", k) = U8
  /\ \A k \in {"payload-length", "ref-count"} : FieldType("extension", k) = U32
<1>1. /\ Keys("extension") = {"type", "flags", "payload-length", "ref-count", "refs"}
      /\ KindOf["extension"] = ExtKinds
  BY DEF Keys, KindOf, ExtKinds
<1>2. /\ \A k \in {"type", "flags"} : ExtKinds[k] = "u8"
      /\ \A k \in {"payload-length", "ref-count"} : ExtKinds[k] = "u32"
      /\ ExtKinds["refs"] = "refs"
  BY DEF ExtKinds
<1>3. DOMAIN NewBlock("extension").fields
        = {x \in Keys("extension") : KindOf["extension"][x] \in {"u8", "u32", "eid"}}
  BY DEF NewBlock
<1>4. DOMAIN NewBlock("extension").fields = {"type", "flags", "payload-length", "ref-count"}
  BY <1>1, <1>2, <1>3
<1> QED BY <1>1, <1>2, <1>4 DEF FieldType

\* Assigning to a field leaves the block what it is otherwise.
LEMMA FieldSet ==
  ASSUME Building, NEW k \in DOMAIN NewBlock(built.type).fields,
         NEW v \in FieldType(built.type, k), Field(k, v), DictOK(dict'),
         argv' \in Seq(Options), Len(argv') <= MaxOptions
  PROVE  /\ Building' /\ built'.type = built.type /\ built'.list = built.list
         /\ built'.fields[k] = v
         /\ \A l \in DOMAIN built.fields : l # k => built'.fields[l] = built.fields[l]
<1>1. built' = [built EXCEPT !.fields[k] = v]
  BY DEF Field
<1>2. /\ built = [type |-> built.type, fields |-> built.fields, list |-> built.list]
      /\ GoodFields(built.type, built.fields)
  BY DEF Building
<1>3. built' = [type |-> built.type, fields |-> [built.fields EXCEPT ![k] = v], list |-> built.list]
  BY <1>1, <1>2
<1>4. built'.type = built.type /\ built'.list = built.list
      /\ built'.fields = [built.fields EXCEPT ![k] = v]
  BY <1>3
<1>5. k \in DOMAIN built.fields
  BY <1>2 DEF GoodFields
<1>6. /\ DOMAIN built'.fields = DOMAIN built.fields
      /\ built'.fields[k] = v
      /\ \A l \in DOMAIN built.fields : l # k => built'.fields[l] = built.fields[l]
  BY <1>4, <1>5
<1>7. GoodFields(built'.type, built'.fields)
  BY <1>2, <1>4, <1>6 DEF GoodFields
<1> QED BY <1>3, <1>4, <1>6, <1>7 DEF Building

\* The symbols of each option stand for bits of the field it goes into.
LEMMA SymbolBits ==
  /\ \A a : SymParse(PrimaryFlags, a) \in U32 /\ SymParse(Reports, a) \in U32
  /\ \A a : SymParse(Prios, a) \in U32
  /\ \A a : Knows(ExtTypes, a) => SymParse(ExtTypes, a) \in U8
<1>1. ASSUME NEW table, NEW W, NEW a, \A p \in table : p[2] \in W, Knows(table, a)
      PROVE  SymParse(table, a) \in W
  <2>1. \E p \in table : p[1] = a
    BY <1>1 DEF Knows
  <2>2. (CHOOSE p \in table : p[1] = a) \in table
    BY <2>1
  <2>3. SymParse(table, a) = (CHOOSE p \in table : p[1] = a)[2]
    BY <1>1 DEF SymParse
  <2> QED BY <1>1, <2>2, <2>3
<1>2. FLAG_INVALID \in U32
  BY DEF FLAG_INVALID, U32
<1>3. \A p \in PrimaryFlags : p[2] \in U32
  BY DEF PrimaryFlags, U32
<1>4. \A p \in Reports : p[2] \in U32
  BY DEF Reports, U32
<1>5. \A p \in Prios : p[2] \in U32
  BY DEF Prios, U32
<1>6. \A p \in ExtTypes : p[2] \in U8
  BY DEF ExtTypes, U8
<1>7. ASSUME NEW table, NEW a, \A p \in table : p[2] \in U32 PROVE SymParse(table, a) \in U32
  BY <1>1, <1>2, <1>7 DEF SymParse
<1> QED BY <1>1, <1>3, <1>4, <1>5, <1>6, <1>7

LEMMA Casts ==
  ASSUME NEW n
  PROVE  Cast32(n) \in U32 /\ Cast8(n) \in U8
BY DEF Cast32, Cast8, U32, U8

LEMMA BitsAre ==
  ASSUME NEW n
  PROVE  Bits(n) \in U32
BY DEF Bits, U32

\* What an option leaves alone.
LEMMA OptionTaken ==
  ASSUME Building, NEW o \in Options, NEW c, NEW opts, NEW valid, Option(c, opts, o, valid)
  PROVE  /\ pc = "options" /\ built.type = c /\ o.opt \in opts
         /\ argv' = Append(argv, o) /\ argv' \in Seq(Options) /\ Len(argv') <= MaxOptions
         /\ pc' \in {"options", "died"}
         /\ UNCHANGED <<doc, text, par, block, symbols, left, wrote, out>>
<1>1. argv \in Seq(Options) /\ Len(argv) < MaxOptions /\ argv' = Append(argv, o)
  BY DEF Building, Option
<1>2. argv' \in Seq(Options) /\ Len(argv') = Len(argv) + 1 /\ Len(argv) \in Nat
  BY <1>1
<1>3. Len(argv') <= MaxOptions
  BY <1>1, <1>2, MkBundleAssumption
<1> QED BY <1>1, <1>2, <1>3 DEF Option

\* The EID an option gives.
LEMMA EidAdded ==
  ASSUME NEW M, CommandLines(M), Building, NEW o \in Options, EidOption(o), o.arg # Malformed
  PROVE  /\ DictOK(dict')
         /\ \A p \in {"scheme", "ssp"} :
              OffsetIn(dict', o.arg[p]) \in DOMAIN dict'.held
                /\ dict'.held[OffsetIn(dict', o.arg[p])] = o.arg[p]
         /\ \A x \in DOMAIN dict.held : x \in DOMAIN dict'.held /\ dict'.held[x] = dict.held[x]
<1>1. o.opt \in EidKeys
  BY DEF EidOption, Option
<1>2. o.arg.scheme \in Strings /\ o.arg.ssp \in Strings
  BY <1>1 DEF CommandLines
<1>3. PICK a \in Strings, b \in Strings :
         /\ dict' = Interned(Interned(dict, a), b)
         /\ {a, b} = {o.arg.scheme, o.arg.ssp}
  <2>1. PICK schemeFirst \in BOOLEAN :
           dict' = IF schemeFirst THEN Interned(Interned(dict, o.arg.scheme), o.arg.ssp)
                   ELSE Interned(Interned(dict, o.arg.ssp), o.arg.scheme)
    BY DEF EidOption
  <2> QED BY <1>2, <2>1
<1> DEFINE one == Interned(dict, a)
           two == Interned(one, b)
<1>4. DictOK(dict)
  BY DEF Building
<1>5. /\ DictOK(one)
      /\ OffsetIn(one, a) \in DOMAIN one.held /\ one.held[OffsetIn(one, a)] = a
      /\ \A x \in DOMAIN dict.held : x \in DOMAIN one.held /\ one.held[x] = dict.held[x]
  BY <1>4, InternedOK
<1> HIDE DEF one
<1>6. /\ DictOK(two)
      /\ OffsetIn(two, b) \in DOMAIN two.held /\ two.held[OffsetIn(two, b)] = b
      /\ \A x \in DOMAIN one.held : x \in DOMAIN two.held /\ two.held[x] = one.held[x]
  BY <1>5, InternedOK
<1>7. dict' = two
  BY <1>3 DEF one
<1> HIDE DEF two
<1>8. OffsetIn(two, a) \in DOMAIN two.held /\ two.held[OffsetIn(two, a)] = a
  <2>1. \E x \in DOMAIN two.held : two.held[x] = a
    BY <1>5, <1>6
  <2> QED BY <2>1 DEF OffsetIn
<1>9. \A p \in {"scheme", "ssp"} : o.arg[p] \in {a, b}
  BY <1>3
<1> QED BY <1>5, <1>6, <1>7, <1>8, <1>9

\* Options keep the types of what is built.
LEMMA OptionBuilds ==
  ASSUME NEW M, CommandLines(M), Building, NEW o \in Options,
         \/ PrimaryNumber(o) \/ PrimaryFlag(o) \/ Prio(o) \/ EidOption(o)
         \/ ExtType(o) \/ ExtFlag(o) \/ ExtLength(o) \/ RefOption(o)
         \/ UnknownOption(o)
  PROVE  /\ Building' /\ pc = "options" /\ pc' \in {"options", "died"}
         /\ UNCHANGED <<doc, text, par, block, symbols, left, wrote, out>>
<1> DEFINE taken == /\ argv' \in Seq(Options) /\ Len(argv') <= MaxOptions
                    /\ pc = "options" /\ pc' \in {"options", "died"}
                    /\ UNCHANGED <<doc, text, par, block, symbols, left, wrote, out>>
<1>1. CASE PrimaryNumber(o)
  <2> DEFINE v == IF o.opt = "version" THEN Cast8(Number(o.arg)) ELSE Cast32(Number(o.arg))
  <2>1. PICK valid : Option("primary", {"version", "creation-ts", "creation-seq", "lifetime"}, o, valid)
    BY <1>1 DEF PrimaryNumber
  <2>2. /\ taken /\ built.type = "primary"
        /\ o.opt \in {"version", "creation-ts", "creation-seq", "lifetime"}
    BY <2>1, OptionTaken
  <2>3. Field(o.opt, v) /\ dict' = dict
    BY <1>1 DEF PrimaryNumber
  <2>4. /\ o.opt \in DOMAIN NewBlock("primary").fields
        /\ FieldType("primary", o.opt) = IF o.opt = "version" THEN U8 ELSE U32
    BY <2>2, PrimaryFieldTypes DEF U32Keys
  <2>5. v \in FieldType("primary", o.opt)
    BY <2>4, Casts
  <2>6. DictOK(dict')
    BY <2>3 DEF Building
  <2> HIDE DEF v
  <2> QED BY <2>2, <2>3, <2>4, <2>5, <2>6, FieldSet
<1>2. ASSUME NEW v \in U32, Field("flags", v), dict' = dict,
             built.type = "primary", taken
      PROVE  Building'
  <2>1. "flags" \in DOMAIN NewBlock("primary").fields /\ FieldType("primary", "flags") = U32
    BY PrimaryFieldTypes DEF U32Keys
  <2>2. DictOK(dict')
    BY <1>2 DEF Building
  <2> QED BY <1>2, <2>1, <2>2, FieldSet
<1>3. built.type = "primary" => built.fields["flags"] \in U32
  BY PrimaryFieldTypes DEF U32Keys, Building, GoodFields
<1>4. CASE PrimaryFlag(o)
  <2> DEFINE table == IF o.opt = "flag" THEN PrimaryFlags ELSE Reports
             flags == built.fields["flags"] \cup SymParse(table, o.arg)
  <2>1. Option("primary", {"flag", "report"}, o, flags \cap FLAG_INVALID = {})
    BY <1>4 DEF PrimaryFlag
  <2>2. taken /\ built.type = "primary"
    BY <2>1, OptionTaken
  <2>3. Field("flags", flags) /\ dict' = dict
    BY <1>4 DEF PrimaryFlag
  <2>4. SymParse(table, o.arg) \in U32
    BY SymbolBits
  <2>5. flags \in U32
    BY <1>3, <2>2, <2>4 DEF U32
  <2> HIDE DEF flags
  <2> QED BY <1>2, <2>2, <2>3, <2>5
<1>5. CASE Prio(o)
  <2> DEFINE flags == PrioSet(built.fields["flags"], SymParse(Prios, o.arg))
  <2>1. Option("primary", {"prio"}, o, flags \cap FLAG_INVALID = {})
    BY <1>5 DEF Prio
  <2>2. taken /\ built.type = "primary"
    BY <2>1, OptionTaken
  <2>3. Field("flags", flags) /\ dict' = dict
    BY <1>5 DEF Prio
  <2>4. SymParse(Prios, o.arg) \in U32
    BY SymbolBits
  <2>5. flags \in U32
    BY <1>3, <2>2, <2>4 DEF U32, PrioSet
  <2> HIDE DEF flags
  <2> QED BY <1>2, <2>2, <2>3, <2>5
<1>6. CASE EidOption(o)
  <2>1. Option("primary", EidKeys, o, o.arg # Malformed)
    BY <1>6 DEF EidOption
  <2>2. taken /\ built.type = "primary" /\ o.opt \in EidKeys
    BY <2>1, OptionTaken
  <2>3. CASE o.arg = Malformed
    <3>1. UNCHANGED <<built, dict>>
      BY <1>6, <2>3 DEF EidOption
    <3> QED BY <2>2, <3>1 DEF Building
  <2>4. CASE o.arg # Malformed
    <3> DEFINE v == [ scheme |-> Bits(OffsetIn(dict', o.arg.scheme)),
                      ssp    |-> Bits(OffsetIn(dict', o.arg.ssp)) ]
    <3>1. Field(o.opt, v)
      BY <1>6, <2>4 DEF EidOption
    <3>2. DictOK(dict')
      BY <1>6, <2>4, EidAdded
    <3>3. v \in EidRecords
      BY BitsAre DEF EidRecords
    <3>4. o.opt \in DOMAIN NewBlock("primary").fields /\ FieldType("primary", o.opt) = EidRecords
      BY <2>2, PrimaryFieldTypes
    <3> HIDE DEF v
    <3> QED BY <2>2, <3>1, <3>2, <3>3, <3>4, FieldSet
  <2> QED BY <2>2, <2>3, <2>4
<1>7. ASSUME NEW k \in {"type", "flags", "payload-length"}, NEW v \in FieldType("extension", k),
             Field(k, v), dict' = dict, built.type = "extension", taken
      PROVE  Building'
  <2>1. k \in DOMAIN NewBlock("extension").fields
    BY ExtFieldTypes
  <2>2. DictOK(dict')
    BY <1>7 DEF Building
  <2> QED BY <1>7, <2>1, <2>2, FieldSet
<1>8. CASE ExtType(o)
  <2> DEFINE type == IF Knows(ExtTypes, o.arg.sym) THEN SymParse(ExtTypes, o.arg.sym)
                     ELSE Cast8(Number(o.arg.num))
  <2>1. Option("extension", {"type"}, o, Knows(ExtTypes, o.arg.sym) \/ o.arg.num # Malformed)
    BY <1>8 DEF ExtType
  <2>2. taken /\ built.type = "extension"
    BY <2>1, OptionTaken
  <2>3. Field("type", type) /\ dict' = dict
    BY <1>8 DEF ExtType
  <2>4. type \in FieldType("extension", "type")
    BY SymbolBits, Casts, ExtFieldTypes
  <2> HIDE DEF type
  <2> QED BY <1>7, <2>2, <2>3, <2>4
<1>9. CASE ExtFlag(o)
  <2> DEFINE flags == built.fields["flags"] \cup Cast8(SymParse(ExtFlags, o.arg))
  <2>1. Option("extension", {"flag"}, o, flags \cap FLAG_INVALID = {})
    BY <1>9 DEF ExtFlag
  <2>2. taken /\ built.type = "extension"
    BY <2>1, OptionTaken
  <2>3. Field("flags", flags) /\ dict' = dict
    BY <1>9 DEF ExtFlag
  <2>4. built.fields["flags"] \in U8
    BY <2>2, ExtFieldTypes DEF Building, GoodFields
  <2>5. flags \in U8
    BY <2>4, Casts DEF U8
  <2>6. flags \in FieldType("extension", "flags")
    BY <2>5, ExtFieldTypes
  <2> HIDE DEF flags
  <2> QED BY <1>7, <2>2, <2>3, <2>6
<1>10. CASE ExtLength(o)
  <2>1. Option("extension", {"payload-length"}, o, o.arg # Malformed)
    BY <1>10 DEF ExtLength
  <2>2. taken /\ built.type = "extension"
    BY <2>1, OptionTaken
  <2>3. Field("payload-length", Cast32(Number(o.arg))) /\ dict' = dict
    BY <1>10 DEF ExtLength
  <2>4. Cast32(Number(o.arg)) \in FieldType("extension", "payload-length")
    BY Casts, ExtFieldTypes
  <2> QED BY <1>7, <2>2, <2>3, <2>4
<1>11. CASE RefOption(o)
  <2> DEFINE room == Len(built.list) < RefCap
             e == IF o.arg = Malformed THEN ZeroEid
                  ELSE [scheme |-> Cast32(o.arg.scheme), ssp |-> Cast32(o.arg.ssp)]
  <2>1. Option("extension", {"ref"}, o, room /\ o.arg # Malformed)
    BY <1>11 DEF RefOption
  <2>2. taken /\ built.type = "extension"
    BY <2>1, OptionTaken
  <2>3. /\ built' = IF room THEN [built EXCEPT !.list = Append(@, e)] ELSE built
        /\ dict' = dict
    BY <1>11 DEF RefOption
  <2>4. e \in EidRecords
    BY Casts DEF EidRecords, ZeroEid, Zero, U32
  <2>5. CASE room
    <3> DEFINE list == Append(built.list, e)
    <3>1. /\ IsSeq(built.list) /\ \A n \in 1 .. Len(built.list) : built.list[n] \in EidRecords
          /\ built = [type |-> built.type, fields |-> built.fields, list |-> built.list]
      BY DEF Building
    <3>2. built' = [type |-> built.type, fields |-> built.fields, list |-> list]
      BY <2>3, <2>5, <3>1
    <3>3. built.list \in Seq(EidRecords)
      BY <3>1, SeqIn
    <3> HIDE DEF e
    <3>4. list \in Seq(EidRecords) /\ Len(list) = Len(built.list) + 1 /\ Len(built.list) \in Nat
      BY <2>4, <3>3
    <3>5. Len(list) <= RefCap
      <4>1. Len(built.list) < RefCap /\ RefCap \in Nat
        BY <2>5, UnserializeAssumption
      <4> HIDE DEF list
      <4> QED BY <3>4, <4>1
    <3>6. IsSeq(list) /\ \A n \in 1 .. Len(list) : list[n] \in EidRecords
      BY <3>4, SeqIs
    <3> HIDE DEF list
    <3>7. built'.type = built.type /\ built'.fields = built.fields /\ built'.list = list
      BY <3>2
    <3>8. built' = [type |-> built'.type, fields |-> built'.fields, list |-> built'.list]
      BY <3>2, <3>7
    <3>9. /\ built.type \in Commands /\ GoodFields(built.type, built.fields)
          /\ DictOK(dict) /\ dict' = dict
      BY <2>3 DEF Building
    <3> HIDE DEF e, room
    <3> QED BY <2>2, <3>5, <3>6, <3>7, <3>8, <3>9 DEF Building
  <2>6. CASE ~ room
    <3>1. UNCHANGED <<built, dict>>
      BY <2>3, <2>6
    <3> QED BY <2>2, <3>1 DEF Building
  <2> QED BY <2>2, <2>5, <2>6
<1>12. CASE UnknownOption(o)
  <2>1. taken /\ UNCHANGED <<built, dict>>
    BY <1>12, OptionTaken DEF UnknownOption
  <2> QED BY <2>1 DEF Building
<1> QED BY <1>1, <1>4, <1>5, <1>6, <1>8, <1>9, <1>10, <1>11, <1>12

LEMMA BuildingInit ==
  ASSUME CmdInit
  PROVE  Building
<1>1. PICK c \in Commands : built = NewBlock(c)
  BY DEF CmdInit
<1>2. c \in BlockTypes
  BY MkBundleAssumption
<1>3. /\ GoodBlock(built, {}) /\ built.type = c
      /\ built = [type |-> built.type, fields |-> built.fields, list |-> << >>]
  BY <1>1, <1>2, NewBlockOK
<1>4. GoodFields(built.type, built.fields) /\ built.list = << >>
  BY <1>3 DEF GoodBlock
<1>5. IsSeq(<< >>) /\ Len(<< >>) = 0 /\ 0 <= RefCap /\ 0 <= MaxOptions
  BY NothingIs, UnserializeAssumption, MkBundleAssumption
<1>6. dict = EmptyDict /\ argv = << >>
  BY DEF CmdInit
<1>7. argv \in Seq(Options) /\ Len(argv) <= MaxOptions
  BY <1>5, <1>6
<1>8. \A n \in 1 .. Len(built.list) : built.list[n] \in EidRecords
  BY <1>4, <1>5
<1> QED BY <1>3, <1>4, <1>5, <1>6, <1>7, <1>8, LaidNone DEF Building
-----------------------------------------------------------------------------
(* The document that is written *)

Made ==
  [ head    |-> <<Str(built.type), Obj>>,
    members |-> IF built.type = "primary" THEN PrimaryMembers ELSE ExtMembers ]

\* The order of the members.
Order(type) ==
  IF type = "primary"
  THEN << "version", "flags", "length", "dest", "src", "report-to", "custodian",
          "creation-ts", "creation-seq", "lifetime", "eids-size", "eids" >>
  ELSE << "type", "flags", "payload-length", "ref-count", "refs" >>

\* The fields that are written: the length and the size of the dictionary are
\* computed then.
MadeField(k) ==
  CASE k = "length" -> Bits(calc_length)
    [] k = "eids-size" -> Bits(dict.pos)
    [] OTHER -> built.fields[k]

MadeEids == Arr([n \in DOMAIN StringsOf(dict) |-> Str(StringsOf(dict)[n])])
MadeRefs == Arr([n \in DOMAIN built.list |-> EidArr(built.list[n])])

MadeValue(k) ==
  CASE k = "eids" -> MadeEids
    [] k = "refs" -> MadeRefs
    [] k \in EidKeys -> EidArr(built.fields[k])
    [] OTHER -> Num(MadeField(k))

\* The members of a block are those of these keys, in order.
InOrderOf(members, type) ==
  /\ IsSeq(members) /\ IsSeq(Order(type)) /\ Len(members) = Len(Order(type))
  /\ \A n \in 1 .. Len(Order(type)) :
       members[n] = [key |-> Str(Order(type)[n]), value |-> MadeValue(Order(type)[n])]

TwelveAre(s, a, b, c, d, e, f, g, h, i, j, k, l) ==
  /\ IsSeq(s) /\ Len(s) = 12
  /\ s[1] = a /\ s[2] = b /\ s[3] = c /\ s[4] = d /\ s[5] = e /\ s[6] = f
  /\ s[7] = g /\ s[8] = h /\ s[9] = i /\ s[10] = j /\ s[11] = k /\ s[12] = l

LEMMA TwelveIs ==
  ASSUME NEW a, NEW b, NEW c, NEW d, NEW e, NEW f, NEW g, NEW h, NEW i, NEW j, NEW k, NEW l
  PROVE  TwelveAre(<<a, b, c, d, e, f, g, h, i, j, k, l>>, a, b, c, d, e, f, g, h, i, j, k, l)
<1> DEFINE s == <<a, b, c, d, e, f, g, h, i, j, k, l>>
<1>1. s \in Seq({a, b, c, d, e, f, g, h, i, j, k, l})
  OBVIOUS
<1>2. IsSeq(s)
  BY <1>1, SeqIs
<1>3. Len(s) = 12
  OBVIOUS
<1>4. /\ s[1] = a /\ s[2] = b /\ s[3] = c /\ s[4] = d /\ s[5] = e /\ s[6] = f
      /\ s[7] = g /\ s[8] = h /\ s[9] = i /\ s[10] = j /\ s[11] = k /\ s[12] = l
  OBVIOUS
<1> QED BY <1>2, <1>3, <1>4 DEF TwelveAre

FiveAre(s, a, b, c, d, e) ==
  IsSeq(s) /\ Len(s) = 5 /\ s[1] = a /\ s[2] = b /\ s[3] = c /\ s[4] = d /\ s[5] = e

LEMMA FiveIs ==
  ASSUME NEW a, NEW b, NEW c, NEW d, NEW e
  PROVE  FiveAre(<<a, b, c, d, e>>, a, b, c, d, e)
<1> DEFINE s == <<a, b, c, d, e>>
<1>1. s \in Seq({a, b, c, d, e})
  OBVIOUS
<1>2. IsSeq(s)
  BY <1>1, SeqIs
<1>3. Len(s) = 5 /\ s[1] = a /\ s[2] = b /\ s[3] = c /\ s[4] = d /\ s[5] = e
  OBVIOUS
<1> QED BY <1>2, <1>3 DEF FiveAre

\* No key comes twice, and all keys come.
LEMMA OrderIs ==
  ASSUME NEW type \in BlockTypes
  PROVE  /\ IsSeq(Order(type)) /\ Len(Order(type)) \in Nat
         /\ \A n \in 1 .. Len(Order(type)) : Order(type)[n] \in Keys(type)
         /\ \A m, n \in 1 .. Len(Order(type)) : Order(type)[m] = Order(type)[n] => m = n
         /\ \A k \in Keys(type) : \E n \in 1 .. Len(Order(type)) : Order(type)[n] = k
<1> DEFINE s == Order(type)
<1>1. CASE type = "primary"
  <2>1. s = << "version", "flags", "length", "dest", "src", "report-to", "custodian",
               "creation-ts", "creation-seq", "lifetime", "eids-size", "eids" >>
    BY <1>1 DEF Order
  <2> HIDE DEF s
  <2>2. TwelveAre(s, "version", "flags", "length", "dest", "src", "report-to", "custodian",
                  "creation-ts", "creation-seq", "lifetime", "eids-size", "eids")
    BY <2>1, TwelveIs
  <2>3. Keys(type) = {"version", "flags", "length", "dest", "src", "report-to", "custodian",
                      "creation-ts", "creation-seq", "lifetime", "eids-size", "eids"}
    BY <1>1 DEF Keys, KindOf, PrimaryKinds
  <2>4. 1 .. Len(s) = {1, 2, 3, 4, 5, 6, 7, 8, 9, 10, 11, 12} /\ IsSeq(s)
    BY <2>2 DEF TwelveAre
  <2>5. /\ \A n \in 1 .. Len(s) : s[n] \in Keys(type)
        /\ \A k \in Keys(type) : \E n \in 1 .. Len(s) : s[n] = k
    BY <2>2, <2>3, <2>4 DEF TwelveAre
  <2>6. \A m, n \in 1 .. Len(s) : s[m] = s[n] => m = n
    BY <2>2, <2>4 DEF TwelveAre
  <2> QED BY <2>4, <2>5, <2>6 DEF s, IsSeq
<1>2. CASE type = "extension"
  <2>1. s = << "type", "flags", "payload-length", "ref-count", "refs" >>
    BY <1>2 DEF Order
  <2> HIDE DEF s
  <2>2. FiveAre(s, "type", "flags", "payload-length", "ref-count", "refs")
    BY <2>1, FiveIs
  <2>3. Keys(type) = {"type", "flags", "payload-length", "ref-count", "refs"}
    BY <1>2 DEF Keys, KindOf, ExtKinds
  <2>4. 1 .. Len(s) = {1, 2, 3, 4, 5} /\ IsSeq(s)
    BY <2>2 DEF FiveAre
  <2>5. /\ \A n \in 1 .. Len(s) : s[n] \in Keys(type)
        /\ \A k \in Keys(type) : \E n \in 1 .. Len(s) : s[n] = k
        /\ \A m, n \in 1 .. Len(s) : s[m] = s[n] => m = n
    BY <2>2, <2>3, <2>4 DEF FiveAre
  <2> QED BY <2>4, <2>5 DEF s, IsSeq
<1> QED BY <1>1, <1>2 DEF BlockTypes

LEMMA MadeInOrder ==
  ASSUME built.type \in BlockTypes
  PROVE  InOrderOf(Made.members, built.type)
<1> DEFINE f == built.fields
           type == built.type
           m(k) == [key |-> Str(k), value |-> MadeValue(k)]
<1>1. \A k \in {"version", "flags", "creation-ts", "creation-seq", "lifetime", "type",
                "payload-length", "ref-count"} : m(k) = Member(k, Num(f[k]))
  BY DEF MadeValue, MadeField, EidKeys, Member
<1>2. \A k \in EidKeys : m(k) = Member(k, EidArr(f[k]))
  BY DEF MadeValue, EidKeys, Member
<1>3. /\ m("length") = Member("length", Num(Bits(calc_length)))
      /\ m("eids-size") = Member("eids-size", Num(Bits(dict.pos)))
      /\ m("eids") = Member("eids", MadeEids)
      /\ m("refs") = Member("refs", MadeRefs)
  BY DEF MadeValue, MadeField, EidKeys, Member
<1>4. CASE type = "primary"
  <2>1. Made.members = << m("version"), m("flags"), m("length"), m("dest"), m("src"),
           m("report-to"), m("custodian"), m("creation-ts"), m("creation-seq"), m("lifetime"),
           m("eids-size"), m("eids") >>
    BY <1>1, <1>2, <1>3, <1>4 DEF Made, PrimaryMembers, EidKeys, MadeEids
  <2>2. TwelveAre(Made.members, m("version"), m("flags"), m("length"), m("dest"), m("src"),
           m("report-to"), m("custodian"), m("creation-ts"), m("creation-seq"), m("lifetime"),
           m("eids-size"), m("eids"))
    BY <2>1, TwelveIs
  <2>3. Order(type) = << "version", "flags", "length", "dest", "src", "report-to", "custodian",
               "creation-ts", "creation-seq", "lifetime", "eids-size", "eids" >>
    BY <1>4 DEF Order
  <2>4. TwelveAre(Order(type), "version", "flags", "length", "dest", "src", "report-to", "custodian",
                  "creation-ts", "creation-seq", "lifetime", "eids-size", "eids")
    BY <2>3, TwelveIs
  <2> HIDE DEF m, type
  <2>5. 1 .. Len(Order(type)) = {1, 2, 3, 4, 5, 6, 7, 8, 9, 10, 11, 12}
    BY <2>4 DEF TwelveAre
  <2>6. /\ IsSeq(Made.members) /\ IsSeq(Order(type)) /\ Len(Made.members) = Len(Order(type))
    BY <2>2, <2>4 DEF TwelveAre
  <2>7. \A n \in 1 .. Len(Order(type)) : Made.members[n] = m(Order(type)[n])
    BY <2>2, <2>4, <2>5 DEF TwelveAre
  <2> QED BY <2>6, <2>7 DEF InOrderOf, m, type
<1>5. CASE type = "extension"
  <2>1. Made.members = << m("type"), m("flags"), m("payload-length"), m("ref-count"), m("refs") >>
    BY <1>1, <1>3, <1>5 DEF Made, ExtMembers, MadeRefs
  <2>2. FiveAre(Made.members, m("type"), m("flags"), m("payload-length"), m("ref-count"), m("refs"))
    BY <2>1, FiveIs
  <2>3. Order(type) = << "type", "flags", "payload-length", "ref-count", "refs" >>
    BY <1>5 DEF Order
  <2>4. FiveAre(Order(type), "type", "flags", "payload-length", "ref-count", "refs")
    BY <2>3, FiveIs
  <2> HIDE DEF m, type
  <2>5. 1 .. Len(Order(type)) = {1, 2, 3, 4, 5}
    BY <2>4 DEF FiveAre
  <2>6. IsSeq(Made.members) /\ IsSeq(Order(type)) /\ Len(Made.members) = Len(Order(type))
    BY <2>2, <2>4 DEF FiveAre
  <2>7. \A n \in 1 .. Len(Order(type)) : Made.members[n] = m(Order(type)[n])
    BY <2>2, <2>4, <2>5 DEF FiveAre
  <2> QED BY <2>6, <2>7 DEF InOrderOf, m, type
<1> QED BY <1>4, <1>5 DEF BlockTypes

\* Numbers, strings and arrays, as they are written.
LEMMA NumIs ==
  ASSUME NEW M, CommandLines(M), NEW n \in U32
  PROVE  /\ LeafOf(M, Num(n)) /\ PlainLeaf(Num(n))
         /\ \A W \in {U8, U32} : n \in W => IsNum(Num(n), W)
         /\ Num(n).type = "primitive" /\ Num(n).val = n /\ Num(n).elems = << >>
<1>1. Num(n).type = "primitive" /\ Num(n).val = n /\ Num(n).elems = << >>
  BY DEF Num, Value
<1>2. n # NotNumber /\ Digits(n) \in M
  BY DEF CommandLines
<1> HIDE DEF Num
<1>3. LeafOf(M, Num(n))
  BY <1>1, <1>2 DEF LeafOf
<1>4. PlainLeaf(Num(n))
  BY <1>1 DEF PlainLeaf, TokenTypes, Brackets
<1> QED BY <1>1, <1>2, <1>3, <1>4 DEF IsNum

LEMMA StrIs ==
  ASSUME NEW M, NEW s, Spell(s) \in Seq(M)
  PROVE  /\ LeafOf(M, Str(s)) /\ PlainLeaf(Str(s))
         /\ Str(s).type = "string" /\ Str(s).val = s /\ Str(s).elems = << >>
<1>1. Str(s).type = "string" /\ Str(s).val = s /\ Str(s).elems = << >>
  BY DEF Str, Value
<1> HIDE DEF Str
<1>2. LeafOf(M, Str(s))
  BY <1>1 DEF LeafOf
<1>3. PlainLeaf(Str(s))
  BY <1>1 DEF PlainLeaf, TokenTypes, Brackets
<1> QED BY <1>1, <1>2, <1>3

LEMMA ArrIs ==
  ASSUME NEW es
  PROVE  Arr(es).type = "array" /\ Arr(es).val = NotNumber /\ Arr(es).elems = es
BY DEF Arr, Value

LEMMA LeafIsElem ==
  ASSUME NEW M, NEW v, LeafOf(M, v), PlainLeaf(v)
  PROVE  ElemOf(M, v) /\ PlainElem(v) /\ ValueOf(M, v) /\ PlainValue(v)
BY DEF ElemOf, PlainElem, ValueOf, PlainValue, PlainLeaf

LEMMA ArrOfElems ==
  ASSUME NEW M, NEW es, IsSeq(es), \A n \in 1 .. Len(es) : ElemOf(M, es[n]) /\ PlainElem(es[n])
  PROVE  ValueOf(M, Arr(es)) /\ PlainValue(Arr(es))
<1>1. Arr(es).type = "array" /\ Arr(es).val = NotNumber /\ Arr(es).elems = es
  BY ArrIs
<1> HIDE DEF Arr
<1>2. ValueOf(M, Arr(es))
  BY <1>1 DEF ValueOf, LeafOf, Brackets
<1>3. PlainValue(Arr(es))
  BY <1>1 DEF PlainValue, PlainArray
<1> QED BY <1>2, <1>3

\* The array that is written of an EID, and what it is read as.
LEMMA EidArrIs ==
  ASSUME NEW M, CommandLines(M), NEW e \in EidRecords
  PROVE  /\ ElemOf(M, EidArr(e)) /\ PlainElem(EidArr(e))
         /\ ValueOf(M, EidArr(e)) /\ PlainValue(EidArr(e))
         /\ IsEid(EidArr(e)) /\ EidOf(EidArr(e)) = e
         /\ EidArr(e).type = "array" /\ EidArr(e).val = NotNumber
         /\ IsSeq(EidArr(e).elems) /\ Len(EidArr(e).elems) = 2
         /\ EidArr(e).elems[1] = Num(e.scheme) /\ EidArr(e).elems[2] = Num(e.ssp)
<1> DEFINE v == EidArr(e)
           es == <<Num(e.scheme), Num(e.ssp)>>
<1>1. e.scheme \in U32 /\ e.ssp \in U32 /\ e = [scheme |-> e.scheme, ssp |-> e.ssp]
  BY DEF EidRecords
<1>2. v.type = "array" /\ v.val = NotNumber /\ v.elems = es
  BY ArrIs DEF EidArr
<1>3. \A x \in {Num(e.scheme), Num(e.ssp)} :
         LeafOf(M, x) /\ PlainLeaf(x) /\ IsNum(x, U32) /\ ElemOf(M, x) /\ PlainElem(x)
  BY <1>1, NumIs, LeafIsElem
<1>4. Num(e.scheme).val = e.scheme /\ Num(e.ssp).val = e.ssp
  BY <1>1, NumIs
<1> HIDE DEF Num, v
<1>5. /\ es \in Seq({Num(e.scheme), Num(e.ssp)}) /\ Len(es) = 2
      /\ es[1] = Num(e.scheme) /\ es[2] = Num(e.ssp)
  OBVIOUS
<1> HIDE DEF es
<1>6. IsSeq(es) /\ 1 .. Len(es) = {1, 2} /\ DOMAIN es = {1, 2} /\ es # << >>
  BY <1>5, SeqIs, NothingIs
<1>7. ElemOf(M, v) /\ PlainElem(v)
  <2>1. ElemOf(M, v)
    BY <1>2, <1>3, <1>5, <1>6 DEF ElemOf, Brackets
  <2>2. PlainElem(v)
    BY <1>2, <1>3, <1>5, <1>6 DEF PlainElem, PlainArray
  <2> QED BY <2>1, <2>2
<1>8. ValueOf(M, v) /\ PlainValue(v)
  <2>1. ValueOf(M, v)
    BY <1>2, <1>3, <1>5, <1>6 DEF ValueOf, Brackets
  <2>2. PlainValue(v)
    BY <1>2, <1>3, <1>5, <1>6 DEF PlainValue, PlainArray
  <2> QED BY <2>1, <2>2
<1>9. IsEid(v)
  BY <1>2, <1>3, <1>5, <1>6 DEF IsEid, Elems
<1>10. EidOf(v) = e
  BY <1>1, <1>2, <1>4, <1>5 DEF EidOf
<1> QED BY <1>2, <1>5, <1>6, <1>7, <1>8, <1>9, <1>10 DEF v

\* What kinds of keys there are.
LEMMA KeyKinds ==
  ASSUME NEW type \in BlockTypes, NEW k \in Keys(type)
  PROVE  /\ KindOf[type][k] \in {"u8", "u32", "eid", "eids", "refs"}
         /\ KindOf[type][k] \in {"u8", "u32"} =>
              /\ k \notin EidKeys \cup {"eids", "refs"}
              /\ FieldType(type, k) = IF KindOf[type][k] = "u8" THEN U8 ELSE U32
         /\ KindOf[type][k] = "eid" => k \in EidKeys /\ FieldType(type, k) = EidRecords
         /\ KindOf[type][k] = "eids" => k = "eids" /\ type = "primary"
         /\ KindOf[type][k] = "refs" => k = "refs" /\ type = "extension"
         /\ k \in DOMAIN NewBlock(type).fields <=> KindOf[type][k] \in {"u8", "u32", "eid"}
         /\ k \in {"length", "eids-size"} => KindOf[type][k] = "u32"
<1>1. DOMAIN NewBlock(type).fields = {x \in Keys(type) : KindOf[type][x] \in {"u8", "u32", "eid"}}
  BY DEF NewBlock
<1>2. /\ KindOf[type][k] = "u8" => FieldType(type, k) = U8
      /\ KindOf[type][k] = "u32" => FieldType(type, k) = U32
      /\ KindOf[type][k] = "eid" => FieldType(type, k) = EidRecords
  BY DEF FieldType
<1>3. CASE type = "primary"
  <2>1. /\ k \in {"version", "eids"} \cup U32Keys \cup EidKeys
        /\ KindOf["primary"] = PrimaryKinds
    BY <1>3 DEF Keys, KindOf, PrimaryKinds, U32Keys, EidKeys
  <2>2. /\ PrimaryKinds["version"] = "u8" /\ PrimaryKinds["eids"] = "eids"
        /\ \A x \in U32Keys : PrimaryKinds[x] = "u32"
        /\ \A x \in EidKeys : PrimaryKinds[x] = "eid"
    BY DEF PrimaryKinds, U32Keys, EidKeys
  <2>3. /\ \A x \in U32Keys \cup {"version"} : x \notin EidKeys \cup {"eids", "refs"}
        /\ "length" \in U32Keys /\ "eids-size" \in U32Keys
    BY DEF U32Keys, EidKeys
  <2> QED BY <1>1, <1>2, <1>3, <2>1, <2>2, <2>3
<1>4. CASE type = "extension"
  <2>1. /\ k \in {"type", "flags", "payload-length", "ref-count", "refs"}
        /\ KindOf["extension"] = ExtKinds
    BY <1>4 DEF Keys, KindOf, ExtKinds
  <2>2. /\ \A x \in {"type", "flags"} : ExtKinds[x] = "u8"
        /\ \A x \in {"payload-length", "ref-count"} : ExtKinds[x] = "u32"
        /\ ExtKinds["refs"] = "refs"
    BY DEF ExtKinds
  <2>3. \A x \in {"type", "flags", "payload-length", "ref-count"} : x \notin EidKeys \cup {"eids", "refs"}
    BY DEF EidKeys
  <2> QED BY <1>1, <1>2, <1>4, <2>1, <2>2, <2>3
<1> QED BY <1>3, <1>4 DEF BlockTypes

LEMMA MadeFieldIs ==
  ASSUME Building, NEW k \in DOMAIN built.fields
  PROVE  /\ MadeField(k) \in FieldType(built.type, k)
         /\ k \in Keys(built.type) /\ KindOf[built.type][k] \in {"u8", "u32", "eid"}
         /\ MadeValue(k) = IF KindOf[built.type][k] = "eid" THEN EidArr(MadeField(k))
                           ELSE Num(MadeField(k))
<1>1. /\ built.type \in BlockTypes /\ k \in DOMAIN NewBlock(built.type).fields
      /\ built.fields[k] \in FieldType(built.type, k)
  BY MkBundleAssumption DEF Building, GoodFields
<1>2. k \in Keys(built.type)
  BY <1>1 DEF NewBlock
<1>3. /\ KindOf[built.type][k] \in {"u8", "u32", "eid"}
      /\ k \in {"length", "eids-size"} => FieldType(built.type, k) = U32
      /\ KindOf[built.type][k] = "eid" => k \in EidKeys
      /\ KindOf[built.type][k] \in {"u8", "u32"} => k \notin EidKeys
      /\ k # "eids" /\ k # "refs"
  BY <1>1, <1>2, KeyKinds DEF EidKeys
<1>4. MadeField(k) \in FieldType(built.type, k)
  <2>1. CASE k \in {"length", "eids-size"}
    BY <1>3, <2>1, BitsAre DEF MadeField
  <2>2. CASE k \notin {"length", "eids-size"}
    BY <1>1, <2>2 DEF MadeField
  <2> QED BY <2>1, <2>2
<1>5. CASE KindOf[built.type][k] = "eid"
  <2>1. k \in EidKeys /\ k # "length" /\ k # "eids-size"
    BY <1>3, <1>5 DEF EidKeys
  <2>2. MadeField(k) = built.fields[k]
    BY <2>1 DEF MadeField
  <2>3. MadeValue(k) = EidArr(built.fields[k])
    BY <1>3, <2>1 DEF MadeValue
  <2> QED BY <1>2, <1>3, <1>4, <1>5, <2>2, <2>3
<1>6. CASE KindOf[built.type][k] # "eid"
  <2>1. k \notin EidKeys
    BY <1>3, <1>6
  <2>2. MadeValue(k) = Num(MadeField(k))
    BY <1>3, <2>1 DEF MadeValue
  <2> QED BY <1>2, <1>3, <1>4, <1>6, <2>2
<1> QED BY <1>5, <1>6

LEMMA DictStrings ==
  ASSUME NEW d, DictOK(d)
  PROVE  IsSeq(StringsOf(d)) /\ \A n \in 1 .. Len(StringsOf(d)) : StringsOf(d)[n] \in Strings
<1>1. PICK l, at : Laid(d, l, at)
  BY DEF DictOK
<1>2. StringsOf(d) = l
  BY <1>1, StringsFound
<1> QED BY <1>1, <1>2 DEF Laid

\* The lists that are written.
ListIs(k, es, items) ==
  /\ MadeValue(k) = Arr(es) /\ IsSeq(es) /\ Len(es) = Len(items) /\ IsSeq(items)
  /\ \A n \in 1 .. Len(items) : es[n] = IF k = "eids" THEN Str(items[n]) ELSE EidArr(items[n])

LEMMA MadeListIs ==
  ASSUME Building
  PROVE  /\ \E es : ListIs("eids", es, StringsOf(dict))
         /\ \E es : ListIs("refs", es, built.list)
<1>1. IsSeq(StringsOf(dict)) /\ IsSeq(built.list)
  BY DictStrings DEF Building
<1>2. \E es : ListIs("eids", es, StringsOf(dict))
  <2> DEFINE l == StringsOf(dict)
             es == [n \in DOMAIN l |-> Str(l[n])]
  <2>1. MadeValue("eids") = Arr(es)
    <3>1. MadeValue("eids") = MadeEids
      BY DEF MadeValue, EidKeys
    <3>2. MadeEids = Arr(es)
      BY DEF MadeEids
    <3> QED BY <3>1, <3>2
  <2> HIDE DEF l
  <2>2. IsSeq(es) /\ Len(es) = Len(l) /\ DOMAIN l = 1 .. Len(l)
    BY <1>1, MappedSeq DEF l
  <2>3. \A n \in 1 .. Len(l) : es[n] = Str(l[n])
    BY <2>2
  <2> QED BY <1>1, <2>1, <2>2, <2>3 DEF ListIs, l
<1>3. \E es : ListIs("refs", es, built.list)
  <2> DEFINE l == built.list
             es == [n \in DOMAIN l |-> EidArr(l[n])]
  <2>1. MadeValue("refs") = Arr(es)
    <3>1. MadeValue("refs") = MadeRefs
      BY DEF MadeValue, EidKeys
    <3>2. MadeRefs = Arr(es)
      BY DEF MadeRefs
    <3> QED BY <3>1, <3>2
  <2> HIDE DEF l
  <2>2. IsSeq(es) /\ Len(es) = Len(l) /\ DOMAIN l = 1 .. Len(l)
    BY <1>1, MappedSeq DEF l
  <2>3. \A n \in 1 .. Len(l) : es[n] = EidArr(l[n])
    BY <2>2
  <2> QED BY <1>1, <2>1, <2>2, <2>3 DEF ListIs, l
<1> QED BY <1>2, <1>3

\* Every value that is written is of the lexicon, plain, and of the kind its
\* key takes.
LEMMA MadeValueFits ==
  ASSUME NEW M, CommandLines(M), Building, NEW k \in Keys(built.type)
  PROVE  /\ ValueOf(M, MadeValue(k)) /\ PlainValue(MadeValue(k))
         /\ Fits(KindOf[built.type][k], MadeValue(k))
<1> DEFINE kind == KindOf[built.type][k]
           v == MadeValue(k)
<1>1. built.type \in BlockTypes
  BY MkBundleAssumption DEF Building
<1>2. kind \in {"u8", "u32", "eid", "eids", "refs"}
  BY <1>1, KeyKinds
<1>3. DOMAIN built.fields = DOMAIN NewBlock(built.type).fields
  BY DEF Building, GoodFields
<1>4. CASE kind \in {"u8", "u32"}
  <2>1. k \in DOMAIN built.fields /\ FieldType(built.type, k) = IF kind = "u8" THEN U8 ELSE U32
    BY <1>1, <1>3, <1>4, KeyKinds
  <2>2. v = Num(MadeField(k)) /\ MadeField(k) \in (IF kind = "u8" THEN U8 ELSE U32)
    BY <1>4, <2>1, MadeFieldIs
  <2>3. U8 \subseteq U32
    BY DEF U8, U32
  <2>4. MadeField(k) \in U32
    BY <2>2, <2>3
  <2>5. /\ LeafOf(M, v) /\ PlainLeaf(v)
        /\ kind = "u8" => IsNum(v, U8)
        /\ kind = "u32" => IsNum(v, U32)
    BY <2>2, <2>4, NumIs
  <2>6. Fits(kind, v)
    BY <1>4, <2>5 DEF Fits
  <2> QED BY <2>5, <2>6, LeafIsElem
<1>5. CASE kind = "eid"
  <2>1. k \in DOMAIN built.fields /\ FieldType(built.type, k) = EidRecords
    BY <1>1, <1>3, <1>5, KeyKinds
  <2>2. v = EidArr(MadeField(k)) /\ MadeField(k) \in EidRecords
    BY <1>5, <2>1, MadeFieldIs
  <2>3. ValueOf(M, v) /\ PlainValue(v) /\ IsEid(v)
    BY <2>2, EidArrIs
  <2> QED BY <1>5, <2>3 DEF Fits
<1>6. CASE kind = "eids"
  <2>1. k = "eids"
    BY <1>1, <1>6, KeyKinds
  <2>2. PICK es : ListIs("eids", es, StringsOf(dict))
    BY MadeListIs
  <2>3. \A n \in 1 .. Len(StringsOf(dict)) : StringsOf(dict)[n] \in Strings
    BY DictStrings DEF Building
  <2>4. v = Arr(es) /\ IsSeq(es) /\ \A n \in 1 .. Len(es) : \E s \in Strings : es[n] = Str(s)
    BY <2>1, <2>2, <2>3 DEF ListIs
  <2>5. ASSUME NEW n \in 1 .. Len(es)
        PROVE  ElemOf(M, es[n]) /\ PlainElem(es[n]) /\ es[n].type = "string"
    <3>1. PICK s \in Strings : es[n] = Str(s)
      BY <2>4
    <3>2. Spell(s) \in Seq(M)
      BY DEF CommandLines
    <3> QED BY <3>1, <3>2, StrIs, LeafIsElem
  <2>6. ValueOf(M, v) /\ PlainValue(v)
    BY <2>4, <2>5, ArrOfElems
  <2>7. v.type = "array" /\ v.elems = es
    BY <2>4, ArrIs
  <2>8. \A e \in Elems(v) : e.type = "string"
    BY <2>4, <2>5, <2>7 DEF Elems, IsSeq
  <2> HIDE DEF v
  <2>9. Fits(kind, v)
    BY <1>6, <2>7, <2>8 DEF Fits
  <2> QED BY <2>6, <2>9 DEF v
<1>7. CASE kind = "refs"
  <2>1. k = "refs"
    BY <1>1, <1>7, KeyKinds
  <2>2. PICK es : ListIs("refs", es, built.list)
    BY MadeListIs
  <2>3. \A n \in 1 .. Len(built.list) : built.list[n] \in EidRecords
    BY DEF Building
  <2>4. v = Arr(es) /\ IsSeq(es) /\ \A n \in 1 .. Len(es) : \E e \in EidRecords : es[n] = EidArr(e)
    BY <2>1, <2>2, <2>3 DEF ListIs
  <2>5. ASSUME NEW n \in 1 .. Len(es)
        PROVE  ElemOf(M, es[n]) /\ PlainElem(es[n]) /\ IsEid(es[n])
    <3>1. PICK e \in EidRecords : es[n] = EidArr(e)
      BY <2>4
    <3> QED BY <3>1, EidArrIs
  <2>6. ValueOf(M, v) /\ PlainValue(v)
    BY <2>4, <2>5, ArrOfElems
  <2>7. v.type = "array" /\ v.elems = es
    BY <2>4, ArrIs
  <2>8. \A e \in Elems(v) : IsEid(e)
    BY <2>4, <2>5, <2>7 DEF Elems, IsSeq
  <2> HIDE DEF v
  <2>9. Fits(kind, v)
    BY <1>7, <2>7, <2>8 DEF Fits
  <2> QED BY <2>6, <2>9 DEF v
<1> HIDE DEF kind, v
<1>8. ValueOf(M, v) /\ PlainValue(v) /\ Fits(kind, v)
  BY <1>2, <1>4, <1>5, <1>6, <1>7 DEF kind, v
<1> QED BY <1>8 DEF kind, v

-----------------------------------------------------------------------------
(* What a user may make of it *)

\* The members have the keys of those that were written, in their order, and
\* the values that were written or some the user put there.
Shaped(d) ==
  /\ d.head = Made.head
  /\ IsSeq(d.members) /\ Len(d.members) = Len(Order(built.type))
  /\ \A n \in 1 .. Len(d.members) :
       /\ d.members[n].key = Str(Order(built.type)[n])
       /\ \/ d.members[n].value = MadeValue(Order(built.type)[n])
          \/ \E e \in Edits : e.key = Str(Order(built.type)[n]) /\ d.members[n].value = e.value

\* One member at most is another.
EditOf(d, w) ==
  \/ d = w
  \/ \E e \in Edits, n \in DOMAIN w.members :
       w.members[n].key = e.key /\ d = [w EXCEPT !.members[n] = e]

\* Where the members are that the user put there.
Replaced(d, w, n, e) ==
  /\ d.head = w.head /\ IsSeq(d.members) /\ Len(d.members) = Len(w.members)
  /\ n \in 1 .. Len(w.members) /\ d.members[n] = e
  /\ \A i \in 1 .. Len(w.members) : i # n => d.members[i] = w.members[i]

LEMMA MemberReplaced ==
  ASSUME NEW w, w = [head |-> w.head, members |-> w.members], IsSeq(w.members),
         NEW n \in DOMAIN w.members, NEW e
  PROVE  Replaced([w EXCEPT !.members[n] = e], w, n, e)
<1> DEFINE d == [w EXCEPT !.members[n] = e]
           s == w.members
           t == [s EXCEPT ![n] = e]
<1>1. d.head = w.head /\ d.members = t
  OBVIOUS
<1>2. DOMAIN s = 1 .. Len(s)
  BY DEF IsSeq
<1>3. t = [i \in DOMAIN s |-> t[i]]
  OBVIOUS
<1>4. t[n] = e /\ \A i \in DOMAIN s : i # n => t[i] = s[i]
  OBVIOUS
<1> HIDE DEF d, s, t
<1>5. IsSeq(s)
  BY DEF s
<1>6. IsSeq(t) /\ Len(t) = Len(s)
  BY <1>3, <1>5, MappedSeq
<1>7. n \in DOMAIN s
  BY DEF s
<1>8. Replaced(d, w, n, e)
  BY <1>1, <1>2, <1>4, <1>6, <1>7 DEF Replaced, s
<1> QED BY <1>8 DEF d

LEMMA EditShaped ==
  ASSUME Building, NEW d, EditOf(d, Made)
  PROVE  Shaped(d)
<1>1. built.type \in BlockTypes
  BY MkBundleAssumption DEF Building
<1>2. InOrderOf(Made.members, built.type)
  BY <1>1, MadeInOrder
<1> DEFINE ord == Order(built.type)
           w == Made
<1>3. /\ IsSeq(w.members) /\ Len(w.members) = Len(ord) /\ Len(ord) \in Nat
      /\ \A n \in 1 .. Len(ord) : w.members[n].key = Str(ord[n])
                                  /\ w.members[n].value = MadeValue(ord[n])
  <2>1. Len(ord) \in Nat
    BY <1>1, OrderIs
  <2>2. /\ IsSeq(w.members) /\ Len(w.members) = Len(ord)
        /\ \A n \in 1 .. Len(ord) : w.members[n] = [key |-> Str(ord[n]), value |-> MadeValue(ord[n])]
    BY <1>2 DEF InOrderOf
  <2> HIDE DEF w, ord
  <2>3. ASSUME NEW n \in 1 .. Len(ord)
        PROVE  w.members[n].key = Str(ord[n]) /\ w.members[n].value = MadeValue(ord[n])
    <3>1. w.members[n] = [key |-> Str(ord[n]), value |-> MadeValue(ord[n])]
      BY <2>2
    <3> QED BY <3>1
  <2> QED BY <2>1, <2>2, <2>3
<1>4. w = [head |-> w.head, members |-> w.members]
  BY DEF Made
<1> HIDE DEF w, ord
<1>5. CASE d = w
  BY <1>3, <1>5 DEF Shaped, w, ord
<1>6. CASE d # w
  <2>1. PICK e \in Edits, n \in DOMAIN w.members :
           w.members[n].key = e.key /\ d = [w EXCEPT !.members[n] = e]
    BY <1>6 DEF EditOf, w
  <2>2. /\ d.head = w.head /\ IsSeq(d.members) /\ Len(d.members) = Len(w.members)
        /\ n \in 1 .. Len(w.members) /\ d.members[n] = e
        /\ \A i \in 1 .. Len(w.members) : i # n => d.members[i] = w.members[i]
    <3>1. Replaced(d, w, n, e)
      BY <1>3, <1>4, <2>1, MemberReplaced
    <3> QED BY <3>1 DEF Replaced
  <2>3. ASSUME NEW i \in 1 .. Len(d.members)
        PROVE  /\ d.members[i].key = Str(ord[i])
               /\ \/ d.members[i].value = MadeValue(ord[i])
                  \/ \E x \in Edits : x.key = Str(ord[i]) /\ d.members[i].value = x.value
    <3>1. i \in 1 .. Len(ord) /\ i \in 1 .. Len(w.members)
      BY <1>3, <2>2
    <3>2. CASE i = n
      <4>1. d.members[i] = e /\ e.key = Str(ord[i]) /\ e \in Edits
        BY <1>3, <2>1, <2>2, <3>1, <3>2
      <4> QED BY <4>1
    <3>3. CASE i # n
      BY <1>3, <2>2, <3>1, <3>3
    <3> QED BY <3>2, <3>3
  <2> QED BY <1>3, <2>2, <2>3 DEF Shaped, w, ord
<1> QED BY <1>5, <1>6

LEMMA HeadIs ==
  ASSUME Building
  PROVE  /\ IsSeq(Made.head) /\ Len(Made.head) = 2
         /\ Made.head[1] = Str(built.type) /\ Made.head[2] = Obj
<1>1. Made.head = <<Str(built.type), Obj>>
  BY DEF Made
<1> DEFINE s == <<Str(built.type), Obj>>
<1>2. s \in Seq({Str(built.type), Obj}) /\ Len(s) = 2 /\ s[1] = Str(built.type) /\ s[2] = Obj
  OBVIOUS
<1> HIDE DEF s
<1> QED BY <1>1, <1>2, SeqIs DEF s

LEMMA ShapedIn ==
  ASSUME NEW M, CommandLines(M), Building, NEW d, Shaped(d)
  PROVE  /\ DocumentOf(M, d) /\ Len(d.head) = 2 /\ TypeOf(d) = built.type
         /\ d.head[1].type = "string"
<1>1. built.type \in BlockTypes
  BY MkBundleAssumption DEF Building
<1>2. Spell(built.type) \in Seq(M)
  BY <1>1 DEF CommandLines
<1>3. /\ IsSeq(d.head) /\ Len(d.head) = 2 /\ 1 .. Len(d.head) = {1, 2}
      /\ d.head[1] = Str(built.type) /\ d.head[2] = Obj
  <2>1. d.head = Made.head
    BY DEF Shaped
  <2>2. IsSeq(d.head) /\ Len(d.head) = 2 /\ d.head[1] = Str(built.type) /\ d.head[2] = Obj
    BY <2>1, HeadIs
  <2>3. 1 .. 2 = {1, 2}
    OBVIOUS
  <2> QED BY <2>2, <2>3
<1>4. ValueOf(M, Str(built.type)) /\ Str(built.type).type = "string" /\ Str(built.type).val = built.type
  BY <1>2, StrIs, LeafIsElem
<1>5. ValueOf(M, Obj)
  BY DEF ValueOf, LeafOf, Obj, Value, Brackets
<1>6. ASSUME NEW n \in 1 .. Len(d.members)
      PROVE  ValueOf(M, d.members[n].key) /\ ValueOf(M, d.members[n].value)
  <2> DEFINE k == Order(built.type)[n]
  <2>1. k \in Keys(built.type)
    BY <1>1, OrderIs DEF Shaped
  <2>2. d.members[n].key = Str(k)
    BY DEF Shaped
  <2>3. d.members[n].value = MadeValue(k) \/ \E e \in Edits : d.members[n].value = e.value
    BY DEF Shaped
  <2> HIDE DEF k
  <2>4. Spell(k) \in Seq(M)
    BY <1>1, <2>1 DEF CommandLines, BlockTypes
  <2>5. ValueOf(M, Str(k))
    BY <2>4, StrIs, LeafIsElem
  <2>6. ValueOf(M, MadeValue(k))
    BY <2>1, MadeValueFits
  <2>7. \A e \in Edits : ValueOf(M, e.value)
    BY DEF CommandLines
  <2> QED BY <2>2, <2>3, <2>5, <2>6, <2>7
<1>7. DocumentOf(M, d)
  BY <1>3, <1>4, <1>5, <1>6 DEF DocumentOf, Shaped
<1> QED BY <1>3, <1>4, <1>7 DEF TypeOf

-----------------------------------------------------------------------------
(* The types *)

\* The types of what is built and read; the document is the one that was made
\* of the block, but for what a user has put in.
CmdTypes ==
  /\ Building
  /\ pc \in {"options", "died", "text", "begin", "member", "eids", "refs", "accepted",
             "rejected", "written"}
  /\ pc = "options" => block = NoBlock /\ symbols = {} /\ left = 0 /\ par = Parser(<< >>)
  /\ pc \notin {"options", "died"} => wrote = Made /\ EditOf(doc, wrote) /\ IsText(doc)
  /\ pc \notin {"options", "died", "written"} => TypeIInv

LEMMA MadeStays ==
  ASSUME UNCHANGED <<built, dict>>
  PROVE  Made' = Made
<1>1. built' = built /\ dict' = dict
  OBVIOUS
<1>2. calc_length' = calc_length
  BY <1>1 DEF calc_length
<1>3. PrimaryMembers' = PrimaryMembers
  BY <1>1, <1>2 DEF PrimaryMembers
<1>4. ExtMembers' = ExtMembers
  BY <1>1 DEF ExtMembers
<1> QED BY <1>1, <1>3, <1>4 DEF Made

LEMMA TextTyped ==
  ASSUME NEW M, CommandLines(M), CmdTypes
  PROVE  TextIInv(M)
<1> SUFFICES ASSUME pc = "text" PROVE text \in Seq(M)
  BY DEF TextIInv
<1>1. Building /\ EditOf(doc, Made) /\ text = Text(doc)
  BY DEF CmdTypes, IsText
<1>2. DocumentOf(M, doc)
  BY <1>1, EditShaped, ShapedIn
<1>3. Marks(M)
  BY DEF CommandLines
<1> QED BY <1>1, <1>2, <1>3, TextIn

LEMMA CmdTypesInit == CmdInit => CmdTypes
<1> SUFFICES ASSUME CmdInit PROVE CmdTypes
  OBVIOUS
<1>1. Building
  BY BuildingInit
<1> QED BY <1>1 DEF CmdTypes, CmdInit

LEMMA SerializeTypes ==
  ASSUME CmdTypes, Serialize
  PROVE  CmdTypes'
<1>1. /\ pc = "options" /\ pc' = "text" /\ UNCHANGED <<par, block, symbols, left, argv, built, dict>>
      /\ doc' = Made /\ wrote' = Made /\ text' = Text(doc')
  BY DEF Serialize, Made
<1>2. Building' /\ Made' = Made
  <2>1. Building'
    BY <1>1 DEF CmdTypes, Building
  <2>2. Made' = Made
    BY <1>1, MadeStays
  <2> QED BY <2>1, <2>2
<1>3. IsText(doc)'
  BY <1>1 DEF IsText
<1>4. TypeIInv'
  <2>1. par' = Parser(<< >>) /\ block' = NoBlock /\ symbols' = {} /\ left' = 0
    BY <1>1 DEF CmdTypes
  <2> QED BY <1>1, <2>1, TokensAssumption DEF TypeIInv, Parser
<1>5. EditOf(doc', wrote')
  BY <1>1 DEF EditOf
<1> QED BY <1>1, <1>2, <1>3, <1>4, <1>5 DEF CmdTypes

LEMMA EditTypes ==
  ASSUME CmdTypes, Edit
  PROVE  CmdTypes'
<1>1. /\ pc = "text" /\ doc = wrote /\ text' = Text(doc')
      /\ UNCHANGED <<pc, par, block, symbols, left, argv, built, dict, wrote>>
      /\ \E e \in Edits, n \in DOMAIN doc.members :
           doc.members[n].key = e.key /\ doc' = [doc EXCEPT !.members[n] = e]
  BY DEF Edit, cmdVars
<1>2. Building' /\ Made' = Made
  <2>1. Building'
    BY <1>1 DEF CmdTypes, Building
  <2>2. Made' = Made
    BY <1>1, MadeStays
  <2> QED BY <2>1, <2>2
<1>3. IsText(doc)'
  BY <1>1 DEF IsText
<1>4. TypeIInv'
  BY <1>1 DEF CmdTypes, TypeIInv, TypedBlock
<1>5. EditOf(doc', wrote')
  BY <1>1 DEF EditOf
<1>6. wrote = Made
  BY <1>1 DEF CmdTypes
<1> QED BY <1>1, <1>2, <1>3, <1>4, <1>5, <1>6 DEF CmdTypes

\* No turn of the loops comes before the document or after the output.
LEMMA StepsFrom ==
  ASSUME Step
  PROVE  pc \in {"text", "begin", "member", "eids", "refs"}
BY DEF Step, Parse, Begin, U8Member, U32Member, EidMember, ListMember, BadMember, EidsTurn,
   RefsTurn, ListDone, EndOfBlock, Turn

LEMMA ReadsDocument ==
  ASSUME TypeIInv, Step
  PROVE  UNCHANGED <<doc, text>> /\ pc' # "text"
<1>1. CASE Parse
  BY <1>1 DEF Parse
<1>2. CASE ~ Parse
  <2>1. pc # "text"
    BY <1>2 DEF Step, Parse, Begin, U8Member, U32Member, EidMember, ListMember, BadMember, EidsTurn,
       RefsTurn, ListDone, EndOfBlock, Turn
  <2>2. Next
    BY DEF Next
  <2> QED BY <2>1, <2>2, TokensKept
<1> QED BY <1>1, <1>2

LEMMA StepCmdTypes ==
  ASSUME NEW M, CommandLines(M), CmdTypes, Step, UNCHANGED cmdVars
  PROVE  CmdTypes'
<1>1. pc \in {"text", "begin", "member", "eids", "refs"} /\ TypeIInv
  BY StepsFrom DEF CmdTypes
<1>2. UNCHANGED <<argv, built, dict, wrote>>
  BY DEF cmdVars
<1>3. TypeIInv'
  <2>1. TextIInv(M)
    BY TextTyped
  <2>2. Lexicon(M)
    BY DEF CommandLines, Unending
  <2> QED BY <1>1, <2>1, <2>2, StepTypes
<1>4. UNCHANGED <<doc, text>>
  BY <1>1, ReadsDocument
<1>5. Building' /\ Made' = Made
  <2>1. Building'
    BY <1>2 DEF CmdTypes, Building
  <2>2. Made' = Made
    BY <1>2, MadeStays
  <2> QED BY <2>1, <2>2
<1>6. pc' \in {"text", "begin", "member", "eids", "refs", "accepted", "rejected"}
  BY <1>3 DEF TypeIInv
<1>7. wrote = Made /\ EditOf(doc, wrote) /\ IsText(doc)
  BY <1>1 DEF CmdTypes
<1>8. wrote' = Made' /\ EditOf(doc', wrote') /\ IsText(doc)'
  BY <1>2, <1>4, <1>5, <1>7 DEF IsText
<1> QED BY <1>3, <1>5, <1>6, <1>8 DEF CmdTypes

LEMMA OtherCmdTypes ==
  ASSUME CmdTypes, Write \/ Ended \/ UNCHANGED <<vars, cmdVars>>
  PROVE  CmdTypes'
<1>1. /\ UNCHANGED <<doc, text, par, block, symbols, left, argv, built, dict, wrote>>
      /\ pc' = pc \/ (pc = "accepted" /\ pc' = "written")
  BY DEF Write, Ended, vars, cmdVars
<1>2. Building' /\ Made' = Made
  <2>1. Building'
    BY <1>1 DEF CmdTypes, Building
  <2>2. Made' = Made
    BY <1>1, MadeStays
  <2> QED BY <2>1, <2>2
<1>3. IsText(doc)' <=> IsText(doc)
  BY <1>1 DEF IsText
<1>4. EditOf(doc', wrote') <=> EditOf(doc, wrote)
  BY <1>1
<1>5. pc' = pc => (TypeIInv' <=> TypeIInv)
  BY <1>1 DEF TypeIInv, TypedBlock
<1>6. CASE pc' = pc
  BY <1>1, <1>2, <1>3, <1>4, <1>5, <1>6 DEF CmdTypes
<1>7. CASE pc = "accepted" /\ pc' = "written"
  BY <1>1, <1>2, <1>3, <1>4, <1>7 DEF CmdTypes
<1> QED BY <1>1, <1>6, <1>7

\* The kinds of steps.
OptionGiven ==
  \E o \in Options :
    \/ PrimaryNumber(o) \/ PrimaryFlag(o) \/ Prio(o) \/ EidOption(o)
    \/ ExtType(o) \/ ExtFlag(o) \/ ExtLength(o) \/ RefOption(o)
    \/ UnknownOption(o)

LEMMA CmdSteps ==
  ASSUME [CmdNext]_<<vars, cmdVars>>
  PROVE  \/ OptionGiven \/ Serialize \/ Edit
         \/ Step /\ UNCHANGED cmdVars
         \/ Write \/ Ended \/ UNCHANGED <<vars, cmdVars>>
BY DEF CmdNext, OptionGiven, Compile

LEMMA CmdTypesAlways ==
  ASSUME NEW M, CommandLines(M)
  PROVE  CmdSpec => []CmdTypes
<1>1. CmdTypes /\ [CmdNext]_<<vars, cmdVars>> => CmdTypes'
  <2> SUFFICES ASSUME CmdTypes, [CmdNext]_<<vars, cmdVars>> PROVE CmdTypes'
    OBVIOUS
  <2>1. CASE OptionGiven
    <3>1. Building
      BY DEF CmdTypes
    <3>2. PICK o \in Options :
             \/ PrimaryNumber(o) \/ PrimaryFlag(o) \/ Prio(o) \/ EidOption(o)
             \/ ExtType(o) \/ ExtFlag(o) \/ ExtLength(o) \/ RefOption(o)
             \/ UnknownOption(o)
      BY <2>1 DEF OptionGiven
    <3>3. /\ Building' /\ pc = "options" /\ pc' \in {"options", "died"}
          /\ UNCHANGED <<doc, text, par, block, symbols, left, wrote, out>>
      BY <3>1, <3>2, OptionBuilds
    <3> QED BY <3>3 DEF CmdTypes
  <2>2. CASE Serialize
    BY <2>2, SerializeTypes
  <2>3. CASE Edit
    BY <2>3, EditTypes
  <2>4. CASE Step /\ UNCHANGED cmdVars
    BY <2>4, StepCmdTypes
  <2>5. CASE Write \/ Ended \/ UNCHANGED <<vars, cmdVars>>
    BY <2>5, OtherCmdTypes
  <2> QED BY <2>1, <2>2, <2>3, <2>4, <2>5, CmdSteps
<1> QED BY <1>1, CmdTypesInit, PTL DEF CmdSpec

\* Whatever the options, in whatever order, and whatever a user makes of the
\* document, fields hold numbers of their width, the list of references does not
\* exceed its capacity, and the parser's current token is one of those there are.
THEOREM CmdTypeCorrect ==
  ASSUME NEW M, CommandLines(M)
  PROVE  CmdSpec => []CmdTypeOK
<1>1. CmdTypes => CmdTypeOK
  <2> SUFFICES ASSUME CmdTypes PROVE CmdTypeOK
    OBVIOUS
  <2>1. pc \in {"options", "died", "written"} \/ TypeOK
    BY TypeImplied DEF CmdTypes
  <2>2. Building
    BY DEF CmdTypes
  <2>3. \A k \in DOMAIN built.fields :
           built.fields[k] \in CASE KindOf[built.type][k] = "u8" -> U8
                                 [] KindOf[built.type][k] = "u32" -> U32
                                 [] OTHER -> [scheme : U32, ssp : U32]
    BY <2>2 DEF Building, GoodFields, FieldType, EidRecords
  <2>4. Len(argv) <= MaxOptions /\ Elements(argv) \subseteq Options
    BY <2>2 DEF Building, Elements
  <2>5. DOMAIN dict.held \subseteq 0 .. dict.pos
    <3>1. PICK l, at : Laid(dict, l, at)
      BY <2>2 DEF Building, DictOK
    <3>2. /\ dict.pos \in Nat
          /\ \A o \in DOMAIN dict.held : o \in Nat /\ o < dict.pos
      BY <3>1, LaidPlaces
    <3> QED BY <3>2
  <2> QED BY <2>1, <2>2, <2>3, <2>4, <2>5 DEF CmdTypeOK, Building
<1> QED BY <1>1, CmdTypesAlways, PTL

-----------------------------------------------------------------------------
(* What is read of it *)

\* What a user puts in is plain, and where EIDs belong it has EIDs.
PlainEdits ==
  \A e \in Edits :
    /\ PlainValue(e.value)
    /\ \A type \in Commands : \A k \in Keys(type) :
         e.key = Str(k) /\ KindOf[type][k] \in {"eid", "refs"}
           => Fits(KindOf[type][k], e.value)

LEMMA ShapedPlain ==
  ASSUME NEW M, CommandLines(M), PlainEdits, Building, NEW d, Shaped(d)
  PROVE  Plain(d) /\ ~ HasBadEid(d)
<1> DEFINE type == built.type
           key(n) == Order(type)[n]
           val(n) == d.members[n].value
<1>1. type \in BlockTypes /\ type \in Commands
  BY MkBundleAssumption DEF Building
<1>2. /\ IsSeq(d.head) /\ Len(d.head) = 2 /\ DOMAIN d.head = {1, 2}
      /\ d.head[1] = Str(type) /\ d.head[2] = Obj
  <2>1. d.head = Made.head
    BY DEF Shaped
  <2>2. IsSeq(d.head) /\ Len(d.head) = 2 /\ d.head[1] = Str(type) /\ d.head[2] = Obj
    BY <2>1, HeadIs
  <2>3. 1 .. 2 = {1, 2} /\ DOMAIN d.head = 1 .. Len(d.head)
    BY <2>2 DEF IsSeq
  <2> QED BY <2>2, <2>3
<1>3. /\ IsSeq(d.members) /\ DOMAIN d.members = 1 .. Len(d.members)
      /\ \A n \in 1 .. Len(d.members) :
           /\ key(n) \in Keys(type)
           /\ d.members[n].key = Str(key(n))
           /\ \/ val(n) = MadeValue(key(n))
              \/ \E e \in Edits : e.key = Str(key(n)) /\ val(n) = e.value
  <2>1. \A n \in 1 .. Len(Order(type)) : key(n) \in Keys(type)
    BY <1>1, OrderIs
  <2>2. IsSeq(d.members) /\ Len(d.members) = Len(Order(type))
    BY DEF Shaped
  <2>3. DOMAIN d.members = 1 .. Len(d.members)
    BY <2>2 DEF IsSeq
  <2> QED BY <2>1, <2>2, <2>3 DEF Shaped
<1>4. \A s \in BlockTypes \cup Keys(type) : Spell(s) \in Seq(M)
  BY <1>1 DEF CommandLines, BlockTypes
<1>5. \A s \in BlockTypes \cup Keys(type) :
        PlainLeaf(Str(s)) /\ Str(s).type = "string" /\ Str(s).val = s
  BY <1>4, StrIs
<1>6. PlainLeaf(Obj) /\ Obj.type = "object"
  <2>1. Obj.type = "object" /\ Obj.val = NotNumber /\ Obj.elems = << >>
    BY DEF Obj, Value
  <2> QED BY <2>1 DEF PlainLeaf, TokenTypes, Brackets
<1>7. ASSUME NEW n \in 1 .. Len(d.members)
      PROVE  /\ PlainValue(val(n))
             /\ KindOf[type][key(n)] \in {"eid", "refs"} => Fits(KindOf[type][key(n)], val(n))
  <2>1. key(n) \in Keys(type)
    BY <1>3
  <2>2. CASE val(n) = MadeValue(key(n))
    BY <2>1, <2>2, MadeValueFits
  <2>3. CASE \E e \in Edits : e.key = Str(key(n)) /\ val(n) = e.value
    <3>1. PICK e \in Edits : e.key = Str(key(n)) /\ val(n) = e.value
      BY <2>3
    <3> HIDE DEF type, key, val
    <3> QED BY <1>1, <2>1, <3>1 DEF PlainEdits
  <2> QED BY <1>3, <2>2, <2>3
<1>8. Plain(d)
  <2>1. \A n \in 1 .. Len(d.head) : PlainLeaf(d.head[n])
    BY <1>1, <1>2, <1>5, <1>6
  <2>2. \A n \in 1 .. Len(d.members) : PlainLeaf(d.members[n].key) /\ PlainValue(d.members[n].value)
    BY <1>3, <1>5, <1>7
  <2> QED BY <1>2, <1>3, <2>1, <2>2 DEF Plain
<1>9. TypeOf(d) = type
  BY <1>1, <1>2, <1>5 DEF TypeOf
<1>10. ASSUME NEW n \in DOMAIN d.members PROVE BadEids(d, n) = {}
  <2> DEFINE k == key(n)
             v == val(n)
             kind == KindOf[type][k]
  <2>1. n \in 1 .. Len(d.members) /\ k \in Keys(type) /\ d.members[n].key = Str(k)
    BY <1>3
  <2>2. d.members[n].key.type = "string" /\ d.members[n].key.val = k
    BY <1>5, <2>1
  <2>3. kind \in {"eid", "refs"} => Fits(kind, v)
    BY <1>7, <2>1
  <2>4. BadEids(d, n) = CASE kind = "eid" -> {x \in {v} : ~ IsEid(x)}
                          [] kind = "refs" -> {x \in Elems(v) : ~ IsEid(x)}
                          [] OTHER -> {}
    <3> HIDE DEF type, k
    <3> QED BY <1>9, <2>1, <2>2 DEF BadEids
  <2> HIDE DEF k, v, kind
  <2>5. CASE kind = "eid"
    <3>1. IsEid(v)
      BY <2>3, <2>5 DEF Fits
    <3> QED BY <2>4, <2>5, <3>1
  <2>6. CASE kind = "refs"
    <3>1. \A x \in Elems(v) : IsEid(x)
      BY <2>3, <2>6 DEF Fits
    <3> QED BY <2>4, <2>6, <3>1
  <2>7. CASE kind \notin {"eid", "refs"}
    BY <2>4, <2>7
  <2> QED BY <2>5, <2>6, <2>7
<1>11. ~ HasBadEid(d)
  BY <1>10 DEF HasBadEid
<1> QED BY <1>8, <1>11

-----------------------------------------------------------------------------
(* What is written *)

\* compile goes through the stages of a document, if no string in it needs
\* escaping, and writes the block the document describes.
CmdStage ==
  AllLegible(doc) =>
  /\ pc \in {"begin", "member", "eids", "refs", "accepted", "rejected"} => Stage
  /\ pc = "written" => WellFormed(doc) /\ block = Meaning(doc) /\ out = BlockOut(block)

LEMMA CmdJudged ==
  ASSUME NEW M, CommandLines(M), PlainEdits, CmdTypes, AllLegible(doc),
         pc \notin {"options", "died"}
  PROVE  Plain(doc) /\ DocumentOf(M, doc) /\ Judged /\ Shaped(doc)
<1>1. Building /\ EditOf(doc, Made) /\ IsText(doc)
  BY DEF CmdTypes
<1>2. Shaped(doc)
  BY <1>1, EditShaped
<1>3. Plain(doc) /\ ~ HasBadEid(doc)
  BY <1>1, <1>2, ShapedPlain
<1>4. DocumentOf(M, doc) /\ Len(doc.head) = 2
  BY <1>1, <1>2, ShapedIn
<1> QED BY <1>1, <1>2, <1>3, <1>4 DEF Judged

LEMMA StageStays ==
  ASSUME UNCHANGED <<pc, doc, par, block, symbols, left>>
  PROVE  Stage' <=> Stage
<1>1. \A n, c : Filled(n, c)' <=> Filled(n, c)
  BY DEF Filled
<1>2. \A n : AtMember(n)' <=> AtMember(n)
  BY <1>1 DEF AtMember
<1>3. \A n, j : AtElem(n, j)' <=> AtElem(n, j)
  BY <1>1 DEF AtElem
<1> QED BY <1>2, <1>3 DEF Stage, Doomed, Failing

LEMMA StepCmdStage ==
  ASSUME NEW M, CommandLines(M), PlainEdits, SchemeFirst = {TRUE}, CmdTypes, CmdStage,
         Step, UNCHANGED cmdVars
  PROVE  CmdStage'
<1>1. pc \in {"text", "begin", "member", "eids", "refs"} /\ TypeIInv
  BY StepsFrom DEF CmdTypes
<1>2. UNCHANGED <<doc, text>> /\ TypeIInv'
  <2>1. TextIInv(M) /\ Lexicon(M)
    BY TextTyped DEF CommandLines, Unending
  <2> QED BY <1>1, <2>1, ReadsDocument, StepTypes
<1>3. CASE ~ AllLegible(doc)
  BY <1>2, <1>3 DEF CmdStage
<1> SUFFICES ASSUME AllLegible(doc) PROVE CmdStage'
  BY <1>3
<1>4. Plain(doc) /\ DocumentOf(M, doc) /\ Judged
  BY <1>1, CmdJudged
<1>5. pc' # "written"
  BY <1>2 DEF TypeIInv
<1>6. CASE Parse
  <2>1. \/ pc' = "rejected" /\ ~ Len(Tokens(doc)) <= MaxTokens
        \/ pc' = "begin" /\ Cursor(par', Tokens(doc), 1) /\ Len(Tokens(doc)) <= MaxTokens
    <3>1. Unending(M) /\ Marks(M)
      BY DEF CommandLines
    <3> QED BY <1>4, <1>6, <3>1, ParseCursor DEF Judged
  <2>2. Len(Tokens(doc)) <= MaxTokens \/ ~ WellFormed(doc)
    BY DEF WellFormed
  <2>3. Stage'
    BY <1>2, <2>1, <2>2 DEF Stage
  <2> QED BY <1>5, <2>3 DEF CmdStage
<1>7. CASE ~ Parse
  <2>1. pc # "text"
    BY <1>7 DEF Step, Parse, Begin, U8Member, U32Member, EidMember, ListMember, BadMember, EidsTurn,
       RefsTurn, ListDone, EndOfBlock, Turn
  <2>2. Stage /\ Next
    BY <1>1, <2>1 DEF CmdStage, Next
  <2>3. Stage'
    BY <1>1, <1>4, <2>1, <2>2, StageStep
  <2> QED BY <1>5, <2>3 DEF CmdStage
<1> QED BY <1>6, <1>7

LEMMA WriteStage ==
  ASSUME CmdStage, Write
  PROVE  CmdStage'
<1>1. /\ pc = "accepted" /\ pc' = "written" /\ UNCHANGED <<doc, block>> /\ out' = BlockOut(block)
  BY DEF Write
<1>2. AllLegible(doc) => WellFormed(doc) /\ block = Meaning(doc)
  BY <1>1 DEF CmdStage, Stage, AtMember, AtElem, ListKey, Doomed, Failing
<1> QED BY <1>1, <1>2 DEF CmdStage

LEMMA CmdStageAlways ==
  ASSUME NEW M, CommandLines(M), PlainEdits, SchemeFirst = {TRUE}
  PROVE  CmdSpec => [](CmdTypes /\ CmdStage)
<1>1. CmdInit => CmdStage
  BY DEF CmdInit, CmdStage
<1>2. CmdTypes /\ CmdStage /\ [CmdNext]_<<vars, cmdVars>> => CmdStage'
  <2> SUFFICES ASSUME CmdTypes, CmdStage, [CmdNext]_<<vars, cmdVars>> PROVE CmdStage'
    OBVIOUS
  <2>1. CASE OptionGiven
    <3>1. PICK o \in Options :
             \/ PrimaryNumber(o) \/ PrimaryFlag(o) \/ Prio(o) \/ EidOption(o)
             \/ ExtType(o) \/ ExtFlag(o) \/ ExtLength(o) \/ RefOption(o)
             \/ UnknownOption(o)
      BY <2>1 DEF OptionGiven
    <3>2. pc' \in {"options", "died"}
      BY <3>1, OptionBuilds DEF CmdTypes
    <3> QED BY <3>2 DEF CmdStage
  <2>2. CASE Serialize \/ Edit
    <3>1. pc' = "text"
      BY <2>2 DEF Serialize, Edit
    <3> QED BY <3>1 DEF CmdStage
  <2>3. CASE Step /\ UNCHANGED cmdVars
    BY <2>3, StepCmdStage
  <2>4. CASE Write
    BY <2>4, WriteStage
  <2>5. CASE Ended \/ UNCHANGED <<vars, cmdVars>>
    <3>1. UNCHANGED <<pc, doc, par, block, symbols, left, out>>
      BY <2>5 DEF Ended, vars, cmdVars
    <3>2. Stage' <=> Stage
      BY <3>1, StageStays
    <3> QED BY <3>1, <3>2 DEF CmdStage
  <2> QED BY <2>1, <2>2, <2>3, <2>4, <2>5, CmdSteps
<1>3. CmdSpec => []CmdTypes
  BY CmdTypesAlways
<1> QED BY <1>1, <1>2, <1>3, PTL DEF CmdSpec
-----------------------------------------------------------------------------
(* Sequences laid end to end *)

SeqOfSeqs(seqs) == IsSeq(seqs) /\ \A n \in 1 .. Len(seqs) : IsSeq(seqs[n])

\* There is but one way to lay them.
LEMMA FlattenUnique ==
  ASSUME NEW seqs, SeqOfSeqs(seqs),
         NEW g, g[0] = << >>, \A n \in 1 .. Len(seqs) : g[n] = g[n - 1] \o seqs[n]
  PROVE  FlattenSeq(seqs) = g[Len(seqs)]
<1> DEFINE N == Len(seqs)
<1>1. N \in Nat
  BY DEF SeqOfSeqs, IsSeq
<1>2. PICK f : Flattening(seqs, f)
  BY FlattenIs DEF SeqOfSeqs
<1>3. f[0] = << >> /\ (\A n \in 1 .. N : f[n] = f[n - 1] \o seqs[n]) /\ FlattenSeq(seqs) = f[N]
  BY <1>2 DEF Flattening
<1> DEFINE S == {n \in 0 .. N : f[n] = g[n]}
<1>4. 0 \in S
  BY <1>1, <1>3
<1>5. ASSUME NEW n \in 0 .. N - 1, n \in S PROVE n + 1 \in S
  <2>1. n + 1 \in 1 .. N /\ n + 1 \in 0 .. N /\ (n + 1) - 1 = n
    BY <1>1
  <2>2. f[n] = g[n]
    BY <1>5
  <2>3. f[n + 1] = g[n + 1]
    BY <1>3, <2>1, <2>2
  <2> QED BY <2>1, <2>3
<1>6. N \in S
  <2>1. N \in 0 .. N
    BY <1>1
  <2> HIDE DEF S, N
  <2> QED BY <1>1, <1>4, <1>5, <2>1, UpTo
<1> QED BY <1>3, <1>6

\* Of sequences that are all empty but one.
LEMMA FlattenOnly ==
  ASSUME NEW seqs, SeqOfSeqs(seqs), NEW k \in 1 .. Len(seqs),
         \A n \in 1 .. Len(seqs) : n # k => seqs[n] = << >>
  PROVE  FlattenSeq(seqs) = seqs[k]
<1> DEFINE N == Len(seqs)
           g == [n \in 0 .. N |-> IF n < k THEN << >> ELSE seqs[k]]
<1>1. N \in Nat /\ k \in Nat /\ IsSeq(seqs[k])
  BY DEF SeqOfSeqs, IsSeq
<1>2. g[0] = << >> /\ g[N] = seqs[k]
  BY <1>1
<1>3. ASSUME NEW n \in 1 .. N PROVE g[n] = g[n - 1] \o seqs[n]
  <2>1. /\ n < k => g[n] = << >> /\ g[n - 1] = << >>
        /\ n = k => g[n] = seqs[k] /\ g[n - 1] = << >>
        /\ n > k => g[n] = seqs[k] /\ g[n - 1] = seqs[k]
    BY <1>1
  <2>2. (n < k \/ n = k \/ n > k) /\ (n < k => n # k) /\ (n > k => n # k)
    BY <1>1
  <2> HIDE DEF g
  <2>3. << >> \o << >> = << >> /\ << >> \o seqs[k] = seqs[k] /\ seqs[k] \o << >> = seqs[k]
    BY <1>1, ConcatNothing, NothingIs
  <2>4. n # k => seqs[n] = << >>
    OBVIOUS
  <2> QED BY <2>1, <2>2, <2>3, <2>4
<1> HIDE DEF g
<1> QED BY <1>2, <1>3, FlattenUnique

\* And but two, one behind the other.
LEMMA FlattenTwo ==
  ASSUME NEW seqs, SeqOfSeqs(seqs), NEW k \in 1 .. Len(seqs), k + 1 \in 1 .. Len(seqs),
         \A n \in 1 .. Len(seqs) : n # k /\ n # k + 1 => seqs[n] = << >>
  PROVE  FlattenSeq(seqs) = seqs[k] \o seqs[k + 1]
<1> DEFINE N == Len(seqs)
           s == seqs[k]
           two == s \o seqs[k + 1]
           g == [n \in 0 .. N |-> IF n < k THEN << >> ELSE IF n = k THEN s ELSE two]
<1>1. N \in Nat /\ k \in Nat
  BY DEF SeqOfSeqs, IsSeq
<1>2. IsSeq(s) /\ IsSeq(seqs[k + 1])
  BY DEF SeqOfSeqs
<1>3. IsSeq(two)
  BY <1>2, ConcatIs
<1> HIDE DEF two, s
<1>4. g[0] = << >> /\ g[N] = two
  BY <1>1
<1>5. ASSUME NEW n \in 1 .. N PROVE g[n] = g[n - 1] \o seqs[n]
  <2>1. /\ n < k => g[n] = << >> /\ g[n - 1] = << >>
        /\ n = k => g[n] = s /\ g[n - 1] = << >>
        /\ n = k + 1 => g[n] = two /\ g[n - 1] = s
        /\ n > k + 1 => g[n] = two /\ g[n - 1] = two
    BY <1>1
  <2>2. /\ n < k \/ n = k \/ n = k + 1 \/ n > k + 1
        /\ n < k \/ n > k + 1 => n # k /\ n # k + 1
    BY <1>1
  <2> HIDE DEF g
  <2>3. << >> \o << >> = << >> /\ << >> \o s = s /\ two \o << >> = two
    BY <1>2, <1>3, ConcatNothing, NothingIs
  <2>4. n # k /\ n # k + 1 => seqs[n] = << >>
    OBVIOUS
  <2>5. two = s \o seqs[k + 1] /\ s = seqs[k]
    BY DEF two, s
  <2> QED BY <2>1, <2>2, <2>3, <2>4, <2>5
<1> HIDE DEF g
<1>6. FlattenSeq(seqs) = g[N]
  BY <1>4, <1>5, FlattenUnique
<1> QED BY <1>4, <1>6 DEF two, s

\* And none.
LEMMA FlattenNone ==
  ASSUME NEW seqs, SeqOfSeqs(seqs), \A n \in 1 .. Len(seqs) : seqs[n] = << >>
  PROVE  FlattenSeq(seqs) = << >>
<1> DEFINE g == [n \in 0 .. Len(seqs) |-> << >>]
<1>1. Len(seqs) \in Nat
  BY DEF SeqOfSeqs, IsSeq
<1>2. \A n \in 0 .. Len(seqs) : g[n] = << >>
  OBVIOUS
<1> HIDE DEF g
<1>3. ASSUME NEW n \in 1 .. Len(seqs) PROVE g[n] = g[n - 1] \o seqs[n]
  <2>1. n - 1 \in 0 .. Len(seqs) /\ n \in 0 .. Len(seqs)
    BY <1>1
  <2> QED BY <1>2, <2>1, ConcatNothing, NothingIs
<1>4. g[0] = << >> /\ g[Len(seqs)] = << >>
  BY <1>1, <1>2
<1> QED BY <1>3, <1>4, FlattenUnique

LEMMA FlattenBoth ==
  ASSUME NEW s, SeqOfSeqs(s), NEW t, SeqOfSeqs(t)
  PROVE  FlattenSeq(s \o t) = FlattenSeq(s) \o FlattenSeq(t) /\ SeqOfSeqs(s \o t)
<1> DEFINE M == Len(s)
           N == Len(t)
           u == s \o t
<1>1. M \in Nat /\ N \in Nat
  BY DEF SeqOfSeqs, IsSeq
<1>2. /\ IsSeq(u) /\ Len(u) = M + N
      /\ \A i \in 1 .. M : u[i] = s[i]
      /\ \A i \in 1 .. N : u[M + i] = t[i]
  BY ConcatIs DEF SeqOfSeqs
<1>3. PICK f : Flattening(s, f)
  BY FlattenIs DEF SeqOfSeqs
<1>4. PICK h : Flattening(t, h)
  BY FlattenIs DEF SeqOfSeqs
<1>5. /\ f[0] = << >> /\ (\A n \in 1 .. M : f[n] = f[n - 1] \o s[n]) /\ FlattenSeq(s) = f[M]
      /\ h[0] = << >> /\ (\A n \in 1 .. N : h[n] = h[n - 1] \o t[n]) /\ FlattenSeq(t) = h[N]
  BY <1>3, <1>4 DEF Flattening
<1>6. IsSeq(f[M]) /\ \A n \in 0 .. N : IsSeq(h[n])
  <2>1. Places(s, f) /\ Places(t, h)
    BY <1>3, <1>4, FlattenPlaces DEF SeqOfSeqs
  <2>2. M \in 0 .. M
    BY <1>1
  <2> QED BY <2>1, <2>2 DEF Places
<1> HIDE DEF u
<1>7. \A n \in 1 .. M + N : n \in 1 .. M \/ (n - M \in 1 .. N /\ n = M + (n - M))
  BY <1>1
<1>8. SeqOfSeqs(u)
  <2>1. ASSUME NEW n \in 1 .. M + N PROVE IsSeq(u[n])
    <3>1. CASE n \in 1 .. M
      BY <1>2, <3>1 DEF SeqOfSeqs
    <3>2. CASE n - M \in 1 .. N /\ n = M + (n - M)
      BY <1>2, <3>2 DEF SeqOfSeqs
    <3> QED BY <1>7, <3>1, <3>2
  <2> QED BY <1>2, <2>1 DEF SeqOfSeqs
<1> DEFINE g == [n \in 0 .. M + N |-> IF n <= M THEN f[n] ELSE f[M] \o h[n - M]]
<1>9. /\ \A n \in 0 .. M : g[n] = f[n]
      /\ \A n \in 1 .. N : g[M + n] = f[M] \o h[n]
  <2>1. \A n \in 0 .. M : n \in 0 .. M + N /\ n <= M
    BY <1>1
  <2>2. \A n \in 1 .. N : M + n \in 0 .. M + N /\ ~ (M + n <= M) /\ (M + n) - M = n
    BY <1>1
  <2>3. \A n \in 0 .. M : g[n] = f[n]
    BY <2>1
  <2>4. ASSUME NEW n \in 1 .. N PROVE g[M + n] = f[M] \o h[n]
    <3>1. g[M + n] = IF M + n <= M THEN f[M + n] ELSE f[M] \o h[(M + n) - M]
      BY <2>2
    <3> QED BY <2>2, <3>1
  <2> QED BY <2>3, <2>4
<1> HIDE DEF g
<1>10. \A n \in 0 .. N : g[M + n] = f[M] \o h[n]
  <2> TAKE n \in 0 .. N
  <2>1. CASE n = 0
    <3>1. M + n = M /\ M \in 0 .. M
      BY <1>1, <2>1
    <3> QED BY <1>5, <1>6, <1>9, <2>1, <3>1, ConcatNothing
  <2>2. CASE n # 0
    <3>1. n \in 1 .. N
      BY <1>1, <2>2
    <3> QED BY <1>9, <3>1
  <2> QED BY <2>1, <2>2
<1>11. ASSUME NEW n \in 1 .. M + N PROVE g[n] = g[n - 1] \o u[n]
  <2>1. CASE n \in 1 .. M
    <3>1. n \in 0 .. M /\ n - 1 \in 0 .. M
      BY <1>1, <2>1
    <3> QED BY <1>2, <1>5, <1>9, <2>1, <3>1
  <2>2. CASE n - M \in 1 .. N /\ n = M + (n - M)
    <3> DEFINE k == n - M
    <3>1. k \in 1 .. N /\ k \in 0 .. N /\ k - 1 \in 0 .. N /\ n = M + k /\ n - 1 = M + (k - 1)
      BY <1>1, <2>2
    <3> HIDE DEF k
    <3>2. g[n] = f[M] \o h[k] /\ g[n - 1] = f[M] \o h[k - 1] /\ u[n] = t[k]
      BY <1>2, <1>10, <3>1
    <3>3. h[k] = h[k - 1] \o t[k]
      BY <1>5, <3>1
    <3>4. IsSeq(f[M]) /\ IsSeq(h[k - 1]) /\ IsSeq(t[k])
      BY <1>6, <3>1 DEF SeqOfSeqs
    <3>5. Associate(f[M], h[k - 1], t[k])
      BY <3>4, ConcatAssoc
    <3> QED BY <3>2, <3>3, <3>5 DEF Associate
  <2> QED BY <1>7, <2>1, <2>2
<1>12. g[0] = << >> /\ g[M + N] = f[M] \o h[N]
  <2>1. 0 \in 0 .. M /\ N \in 0 .. N
    BY <1>1
  <2> QED BY <1>5, <1>9, <1>10, <2>1
<1>13. FlattenSeq(u) = g[M + N]
  BY <1>2, <1>8, <1>11, <1>12, FlattenUnique
<1> QED BY <1>5, <1>8, <1>12, <1>13 DEF u

\* One sequence that holds one value, or none.
LEMMA FlattenOne ==
  ASSUME NEW s, IsSeq(s)
  PROVE  SeqOfSeqs(<<s>>) /\ FlattenSeq(<<s>>) = s
<1>1. IsSeq(<<s>>) /\ Len(<<s>>) = 1 /\ <<s>>[1] = s
  BY OneIs
<1> DEFINE t == <<s>>
<1>2. SeqOfSeqs(t)
  BY <1>1 DEF SeqOfSeqs
<1>3. 1 \in 1 .. Len(t) /\ t[1] = s /\ \A n \in 1 .. Len(t) : n = 1
  BY <1>1
<1> HIDE DEF t
<1>4. FlattenSeq(t) = t[1]
  BY <1>2, <1>3, FlattenOnly
<1> QED BY <1>2, <1>3, <1>4 DEF t

-----------------------------------------------------------------------------
(* What is picked from a sequence, end to end *)

\* What f makes of each element.
Mapped(f, s) == [n \in DOMAIN s |-> f[s[n]]]
Chosen(f, s) == FlattenSeq(Mapped(f, s))
Chooses(f, s) == IsSeq(s) /\ \A n \in 1 .. Len(s) : IsSeq(f[s[n]])

LEMMA MappedIs ==
  ASSUME NEW f, NEW s, Chooses(f, s)
  PROVE  /\ SeqOfSeqs(Mapped(f, s)) /\ Len(Mapped(f, s)) = Len(s)
         /\ \A n \in 1 .. Len(s) : Mapped(f, s)[n] = f[s[n]]
<1> DEFINE m == Mapped(f, s)
<1>1. Len(s) \in Nat /\ DOMAIN s = 1 .. Len(s) /\ \A n \in 1 .. Len(s) : IsSeq(f[s[n]])
  BY DEF Chooses, IsSeq
<1>2. m = [n \in 1 .. Len(s) |-> f[s[n]]]
  BY <1>1 DEF Mapped
<1>3. Len(m) = Len(s) /\ \A n \in 1 .. Len(s) : m[n] = f[s[n]]
  BY <1>1, <1>2
<1> HIDE DEF m
<1>4. IsSeq(m)
  BY <1>1, <1>2, <1>3 DEF IsSeq
<1>5. SeqOfSeqs(m)
  BY <1>1, <1>3, <1>4 DEF SeqOfSeqs
<1> QED BY <1>3, <1>5 DEF m

LEMMA ChosenBoth ==
  ASSUME NEW f, NEW s, NEW t, Chooses(f, s), Chooses(f, t)
  PROVE  Chosen(f, s \o t) = Chosen(f, s) \o Chosen(f, t) /\ Chooses(f, s \o t)
<1> DEFINE u == s \o t
           a == Mapped(f, s)
           b == Mapped(f, t)
           c == Mapped(f, u)
           M == Len(s)
           N == Len(t)
<1>1. /\ IsSeq(u) /\ Len(u) = M + N
      /\ \A i \in 1 .. M : u[i] = s[i]
      /\ \A i \in 1 .. N : u[M + i] = t[i]
  BY ConcatIs DEF Chooses
<1>2. M \in Nat /\ N \in Nat
  BY DEF Chooses, IsSeq
<1>3. \A n \in 1 .. M + N : n \in 1 .. M \/ (n - M \in 1 .. N /\ n = M + (n - M))
  BY <1>2
<1> HIDE DEF u
<1>4. Chooses(f, u)
  <2>1. ASSUME NEW n \in 1 .. M + N PROVE IsSeq(f[u[n]])
    <3>1. CASE n \in 1 .. M
      <4>1. u[n] = s[n]
        BY <1>1, <3>1
      <4> QED BY <3>1, <4>1 DEF Chooses
    <3>2. CASE n - M \in 1 .. N /\ n = M + (n - M)
      <4>1. u[n] = t[n - M]
        BY <1>1, <3>2
      <4> QED BY <3>2, <4>1 DEF Chooses
    <3> QED BY <1>3, <3>1, <3>2
  <2> QED BY <1>1, <2>1 DEF Chooses
<1>5. /\ SeqOfSeqs(a) /\ Len(a) = M /\ \A n \in 1 .. M : a[n] = f[s[n]]
      /\ SeqOfSeqs(b) /\ Len(b) = N /\ \A n \in 1 .. N : b[n] = f[t[n]]
      /\ SeqOfSeqs(c) /\ Len(c) = M + N /\ \A n \in 1 .. M + N : c[n] = f[u[n]]
  BY <1>1, <1>4, MappedIs
<1> HIDE DEF a, b, c
<1>6. /\ IsSeq(a \o b) /\ Len(a \o b) = M + N
      /\ \A i \in 1 .. M : (a \o b)[i] = a[i]
      /\ \A i \in 1 .. N : (a \o b)[M + i] = b[i]
  <2>1. IsSeq(a) /\ IsSeq(b)
    BY <1>5 DEF SeqOfSeqs
  <2>2. /\ IsSeq(a \o b) /\ Len(a \o b) = Len(a) + Len(b)
        /\ \A i \in 1 .. Len(a) : (a \o b)[i] = a[i]
        /\ \A i \in 1 .. Len(b) : (a \o b)[Len(a) + i] = b[i]
    BY <2>1, ConcatIs
  <2> QED BY <1>5, <2>2
<1>7. ASSUME NEW n \in 1 .. M + N PROVE (a \o b)[n] = c[n]
  <2>1. CASE n \in 1 .. M
    BY <1>1, <1>5, <1>6, <2>1
  <2>2. CASE n - M \in 1 .. N /\ n = M + (n - M)
    <3>1. (a \o b)[n] = b[n - M] /\ u[n] = t[n - M]
      BY <1>1, <1>6, <2>2
    <3> QED BY <1>5, <2>2, <3>1
  <2> QED BY <1>3, <2>1, <2>2
<1>8. a \o b = c
  <2>1. a \o b = [n \in 1 .. M + N |-> (a \o b)[n]] /\ c = [n \in 1 .. M + N |-> c[n]]
    BY <1>5, <1>6 DEF SeqOfSeqs, IsSeq
  <2> QED BY <1>7, <2>1
<1>9. FlattenSeq(a \o b) = FlattenSeq(a) \o FlattenSeq(b)
  BY <1>5, FlattenBoth
<1> QED BY <1>4, <1>8, <1>9 DEF Chosen, a, b, c, u

LEMMA ChosenOne ==
  ASSUME NEW f, NEW x, IsSeq(f[x])
  PROVE  Chosen(f, <<x>>) = f[x] /\ Chooses(f, <<x>>)
<1> DEFINE s == <<x>>
<1>1. IsSeq(s) /\ Len(s) = 1 /\ s[1] = x
  BY OneIs
<1> HIDE DEF s
<1>2. Chooses(f, s)
  BY <1>1 DEF Chooses
<1>3. 1 \in 1 .. Len(s) /\ \A n \in 1 .. Len(s) : n = 1
  BY <1>1
<1>4. SeqOfSeqs(Mapped(f, s)) /\ Len(Mapped(f, s)) = Len(s) /\ Mapped(f, s)[1] = f[x]
  BY <1>1, <1>2, <1>3, MappedIs
<1>5. FlattenSeq(Mapped(f, s)) = Mapped(f, s)[1]
  BY <1>3, <1>4, FlattenOnly
<1> QED BY <1>2, <1>4, <1>5 DEF Chosen, s

LEMMA ChosenNothing ==
  ASSUME NEW f
  PROVE  Chosen(f, << >>) = << >> /\ Chooses(f, << >>)
<1>1. Chooses(f, << >>)
  BY NothingIs DEF Chooses
<1>2. SeqOfSeqs(Mapped(f, << >>)) /\ Len(Mapped(f, << >>)) = 0
  BY <1>1, MappedIs, NothingIs
<1>3. FlattenSeq(Mapped(f, << >>)) = << >>
  BY <1>2, FlattenNone
<1> QED BY <1>1, <1>3 DEF Chosen

LEMMA ChosenIs ==
  ASSUME NEW f, NEW s, Chooses(f, s)
  PROVE  IsSeq(Chosen(f, s))
<1> DEFINE m == Mapped(f, s)
<1>1. SeqOfSeqs(m)
  BY MappedIs
<1> HIDE DEF m
<1>2. IsSeq(m) /\ \A n \in 1 .. Len(m) : IsSeq(m[n])
  BY <1>1 DEF SeqOfSeqs
<1>3. PICK g : Flattening(m, g)
  BY <1>2, FlattenIs
<1>4. Places(m, g)
  BY <1>2, <1>3, FlattenPlaces
<1>5. Len(m) \in 0 .. Len(m)
  BY <1>2 DEF IsSeq
<1>6. IsSeq(g[Len(m)]) /\ FlattenSeq(m) = g[Len(m)]
  BY <1>3, <1>4, <1>5 DEF Places, Flattening
<1> QED BY <1>6 DEF Chosen, m

LEMMA ConcatWithin ==
  ASSUME NEW S, NEW s, NEW t, IsSeq(s), IsSeq(t),
         \A n \in 1 .. Len(s) : s[n] \in S, \A n \in 1 .. Len(t) : t[n] \in S
  PROVE  IsSeq(s \o t) /\ \A n \in 1 .. Len(s \o t) : (s \o t)[n] \in S
<1> DEFINE u == s \o t
<1>1. /\ IsSeq(u) /\ Len(u) = Len(s) + Len(t)
      /\ \A i \in 1 .. Len(s) : u[i] = s[i]
      /\ \A i \in 1 .. Len(t) : u[Len(s) + i] = t[i]
  BY ConcatIs
<1>2. Len(s) \in Nat /\ Len(t) \in Nat
  BY DEF IsSeq
<1> HIDE DEF u
<1>3. ASSUME NEW n \in 1 .. Len(u) PROVE u[n] \in S
  <2>1. n \in 1 .. Len(s) \/ (n - Len(s) \in 1 .. Len(t) /\ n = Len(s) + (n - Len(s)))
    BY <1>1, <1>2
  <2> QED BY <1>1, <2>1
<1> QED BY <1>1, <1>3 DEF u

\* The values of the items of a name, the items that have none of these names,
\* and the arguments of an option.
Picks(k, S) == [x \in S |-> IF x.name = k THEN <<x.val>> ELSE << >>]
Leaves(by, S) == [x \in S |-> IF x.name \in by THEN << >> ELSE <<x>>]
Gives(k, S) == [x \in S |-> IF x.opt = k THEN <<x.arg>> ELSE << >>]
Picked(k, items) ==
  FlattenSeq([n \in DOMAIN items |-> IF items[n].name = k THEN <<items[n].val>> ELSE << >>])
Rest(by, items) ==
  FlattenSeq([n \in DOMAIN items |-> IF items[n].name \in by THEN << >> ELSE <<items[n]>>])
ArgsIn(k, args) ==
  FlattenSeq([n \in DOMAIN args |-> IF args[n].opt = k THEN <<args[n].arg>> ELSE << >>])

LEMMA PickedIs ==
  ASSUME NEW k, NEW S, NEW s, IsSeq(s), \A n \in 1 .. Len(s) : s[n] \in S
  PROVE  Picked(k, s) = Chosen(Picks(k, S), s) /\ Chooses(Picks(k, S), s)
<1> DEFINE f == Picks(k, S)
<1>1. DOMAIN s = 1 .. Len(s)
  BY DEF IsSeq
<1>2. \A n \in 1 .. Len(s) : f[s[n]] = IF s[n].name = k THEN <<s[n].val>> ELSE << >>
  BY DEF Picks
<1>3. Chooses(f, s)
  <2>1. \A n \in 1 .. Len(s) : IsSeq(f[s[n]])
    BY <1>2, OneIs, NothingIs
  <2> QED BY <2>1 DEF Chooses
<1> QED BY <1>1, <1>2, <1>3 DEF Picked, Chosen, Mapped

LEMMA PickedBoth ==
  ASSUME NEW k, NEW s, NEW t, IsSeq(s), IsSeq(t)
  PROVE  Picked(k, s \o t) = Picked(k, s) \o Picked(k, t)
<1> DEFINE S == {s[i] : i \in 1 .. Len(s)} \cup {t[i] : i \in 1 .. Len(t)}
           f == Picks(k, S)
           u == s \o t
<1>2. (\A n \in 1 .. Len(s) : s[n] \in S) /\ (\A n \in 1 .. Len(t) : t[n] \in S)
  OBVIOUS
<1>3. IsSeq(u) /\ \A n \in 1 .. Len(u) : u[n] \in S
  BY <1>2, ConcatWithin
<1> HIDE DEF S, u
<1>4. /\ Picked(k, s) = Chosen(f, s) /\ Chooses(f, s)
      /\ Picked(k, t) = Chosen(f, t) /\ Chooses(f, t)
      /\ Picked(k, u) = Chosen(f, u)
  BY <1>2, <1>3, PickedIs
<1> HIDE DEF f
<1> QED BY <1>4, ChosenBoth DEF u

LEMMA PickedOne ==
  ASSUME NEW k, NEW x
  PROVE  Picked(k, <<x>>) = IF x.name = k THEN <<x.val>> ELSE << >>
<1> DEFINE f == Picks(k, {x})
           s == <<x>>
<1>1. f[x] = IF x.name = k THEN <<x.val>> ELSE << >>
  BY DEF Picks
<1>2. IsSeq(s) /\ \A n \in 1 .. Len(s) : s[n] \in {x}
  BY OneIs
<1>3. IsSeq(f[x])
  BY <1>1, OneIs, NothingIs
<1> HIDE DEF s
<1>4. Chosen(f, s) = f[x]
  BY <1>3, ChosenOne DEF s
<1>5. Picked(k, s) = Chosen(f, s)
  BY <1>2, PickedIs
<1> QED BY <1>1, <1>4, <1>5 DEF s

LEMMA RestIs ==
  ASSUME NEW by, NEW S, NEW s, IsSeq(s), \A n \in 1 .. Len(s) : s[n] \in S
  PROVE  Rest(by, s) = Chosen(Leaves(by, S), s) /\ Chooses(Leaves(by, S), s)
<1> DEFINE f == Leaves(by, S)
<1>1. DOMAIN s = 1 .. Len(s)
  BY DEF IsSeq
<1>2. \A n \in 1 .. Len(s) : f[s[n]] = IF s[n].name \in by THEN << >> ELSE <<s[n]>>
  BY DEF Leaves
<1>3. Chooses(f, s)
  <2>1. \A n \in 1 .. Len(s) : IsSeq(f[s[n]])
    BY <1>2, OneIs, NothingIs
  <2> QED BY <2>1 DEF Chooses
<1> QED BY <1>1, <1>2, <1>3 DEF Rest, Chosen, Mapped

LEMMA RestBoth ==
  ASSUME NEW by, NEW s, NEW t, IsSeq(s), IsSeq(t)
  PROVE  Rest(by, s \o t) = Rest(by, s) \o Rest(by, t)
<1> DEFINE S == {s[i] : i \in 1 .. Len(s)} \cup {t[i] : i \in 1 .. Len(t)}
           f == Leaves(by, S)
           u == s \o t
<1>2. (\A n \in 1 .. Len(s) : s[n] \in S) /\ (\A n \in 1 .. Len(t) : t[n] \in S)
  OBVIOUS
<1>3. IsSeq(u) /\ \A n \in 1 .. Len(u) : u[n] \in S
  BY <1>2, ConcatWithin
<1> HIDE DEF S, u
<1>4. /\ Rest(by, s) = Chosen(f, s) /\ Chooses(f, s)
      /\ Rest(by, t) = Chosen(f, t) /\ Chooses(f, t)
      /\ Rest(by, u) = Chosen(f, u)
  BY <1>2, <1>3, RestIs
<1> HIDE DEF f
<1> QED BY <1>4, ChosenBoth DEF u

LEMMA RestOne ==
  ASSUME NEW by, NEW x
  PROVE  Rest(by, <<x>>) = IF x.name \in by THEN << >> ELSE <<x>>
<1> DEFINE f == Leaves(by, {x})
           s == <<x>>
<1>1. f[x] = IF x.name \in by THEN << >> ELSE <<x>>
  BY DEF Leaves
<1>2. IsSeq(s) /\ \A n \in 1 .. Len(s) : s[n] \in {x}
  BY OneIs
<1>3. IsSeq(f[x])
  BY <1>1, OneIs, NothingIs
<1> HIDE DEF s
<1>4. Chosen(f, s) = f[x]
  BY <1>3, ChosenOne DEF s
<1>5. Rest(by, s) = Chosen(f, s)
  BY <1>2, RestIs
<1> QED BY <1>1, <1>4, <1>5 DEF s

LEMMA ArgsInIs ==
  ASSUME NEW k, NEW S, NEW s, IsSeq(s), \A n \in 1 .. Len(s) : s[n] \in S
  PROVE  ArgsIn(k, s) = Chosen(Gives(k, S), s) /\ Chooses(Gives(k, S), s)
<1> DEFINE f == Gives(k, S)
<1>1. DOMAIN s = 1 .. Len(s)
  BY DEF IsSeq
<1>2. \A n \in 1 .. Len(s) : f[s[n]] = IF s[n].opt = k THEN <<s[n].arg>> ELSE << >>
  BY DEF Gives
<1>3. Chooses(f, s)
  <2>1. \A n \in 1 .. Len(s) : IsSeq(f[s[n]])
    BY <1>2, OneIs, NothingIs
  <2> QED BY <2>1 DEF Chooses
<1> QED BY <1>1, <1>2, <1>3 DEF ArgsIn, Chosen, Mapped

LEMMA ArgsInBoth ==
  ASSUME NEW k, NEW s, NEW t, IsSeq(s), IsSeq(t)
  PROVE  ArgsIn(k, s \o t) = ArgsIn(k, s) \o ArgsIn(k, t)
<1> DEFINE S == {s[i] : i \in 1 .. Len(s)} \cup {t[i] : i \in 1 .. Len(t)}
           f == Gives(k, S)
           u == s \o t
<1>2. (\A n \in 1 .. Len(s) : s[n] \in S) /\ (\A n \in 1 .. Len(t) : t[n] \in S)
  OBVIOUS
<1>3. IsSeq(u) /\ \A n \in 1 .. Len(u) : u[n] \in S
  BY <1>2, ConcatWithin
<1> HIDE DEF S, u
<1>4. /\ ArgsIn(k, s) = Chosen(f, s) /\ Chooses(f, s)
      /\ ArgsIn(k, t) = Chosen(f, t) /\ Chooses(f, t)
      /\ ArgsIn(k, u) = Chosen(f, u)
  BY <1>2, <1>3, ArgsInIs
<1> HIDE DEF f
<1> QED BY <1>4, ChosenBoth DEF u

LEMMA ArgsInOne ==
  ASSUME NEW k, NEW x
  PROVE  ArgsIn(k, <<x>>) = IF x.opt = k THEN <<x.arg>> ELSE << >>
<1> DEFINE f == Gives(k, {x})
           s == <<x>>
<1>1. f[x] = IF x.opt = k THEN <<x.arg>> ELSE << >>
  BY DEF Gives
<1>2. IsSeq(s) /\ \A n \in 1 .. Len(s) : s[n] \in {x}
  BY OneIs
<1>3. IsSeq(f[x])
  BY <1>1, OneIs, NothingIs
<1> HIDE DEF s
<1>4. Chosen(f, s) = f[x]
  BY <1>3, ChosenOne DEF s
<1>5. ArgsIn(k, s) = Chosen(f, s)
  BY <1>2, ArgsInIs
<1> QED BY <1>1, <1>4, <1>5 DEF s

-----------------------------------------------------------------------------
(* What is in the output *)

LEMMA TwoIs ==
  ASSUME NEW x, NEW y
  PROVE  /\ <<x, y>> = <<x>> \o <<y>> /\ IsSeq(<<x, y>>) /\ Len(<<x, y>>) = 2
         /\ <<x, y>>[1] = x /\ <<x, y>>[2] = y
<1> DEFINE s == <<x>>
           t == <<y>>
           u == <<x, y>>
<1>1. u \in Seq({x, y}) /\ Len(u) = 2 /\ u[1] = x /\ u[2] = y
  OBVIOUS
<1>2. IsSeq(s) /\ Len(s) = 1 /\ s[1] = x /\ IsSeq(t) /\ Len(t) = 1 /\ t[1] = y
  BY OneIs
<1> HIDE DEF s, t, u
<1>3. IsSeq(u)
  BY <1>1, SeqIs
<1>4. /\ IsSeq(s \o t) /\ Len(s \o t) = Len(s) + Len(t)
      /\ \A i \in 1 .. Len(s) : (s \o t)[i] = s[i]
      /\ \A i \in 1 .. Len(t) : (s \o t)[Len(s) + i] = t[i]
  <2>1. IsSeq(s) /\ IsSeq(t)
    BY <1>2
  <2> QED BY <2>1, ConcatIs
<1>5. Len(s \o t) = 2 /\ (s \o t)[1] = x /\ (s \o t)[2] = y
  <2>1. /\ Len(s \o t) = 1 + 1 /\ \A i \in 1 .. 1 : (s \o t)[i] = s[i]
        /\ \A i \in 1 .. 1 : (s \o t)[1 + i] = t[i]
    BY <1>2, <1>4
  <2>2. 1 \in 1 .. 1 /\ 1 + 1 = 2
    OBVIOUS
  <2> QED BY <1>2, <2>1, <2>2
<1>6. \A i \in 1 .. 2 : (s \o t)[i] = u[i]
  BY <1>1, <1>5
<1>7. u = [i \in 1 .. 2 |-> u[i]] /\ s \o t = [i \in 1 .. 2 |-> (s \o t)[i]]
  BY <1>1, <1>3, <1>4, <1>5 DEF IsSeq
<1>8. u = s \o t
  BY <1>6, <1>7
<1> QED BY <1>1, <1>3, <1>8 DEF s, t, u

LEMMA PickedJoined ==
  ASSUME NEW k, NEW s, NEW t, IsSeq(s), IsSeq(t)
  PROVE  IsSeq(s \o t) /\ Picked(k, s \o t) = Picked(k, s) \o Picked(k, t)
BY PickedBoth, ConcatIs

\* The values, where the name is the one that is looked for.
Where(k, name, vals) == IF name = k THEN vals ELSE << >>

LEMMA EidPicked ==
  ASSUME NEW k, NEW name, NEW e
  PROVE  IsSeq(EidItems(name, e)) /\ Picked(k, EidItems(name, e)) = Where(k, name, Parts(e))
<1> DEFINE x == Item(name, e.scheme)
           y == Item(name, e.ssp)
<1>1. x.name = name /\ x.val = e.scheme /\ y.name = name /\ y.val = e.ssp
  BY DEF Item
<1>2. EidItems(name, e) = <<x, y>>
  BY DEF EidItems
<1> HIDE DEF x, y
<1>3. Picked(k, <<x>> \o <<y>>) = Picked(k, <<x>>) \o Picked(k, <<y>>)
  <2>1. IsSeq(<<x>>) /\ IsSeq(<<y>>)
    BY OneIs
  <2> QED BY <2>1, PickedBoth
<1>4. <<x, y>> = <<x>> \o <<y>> /\ IsSeq(<<x, y>>)
  BY TwoIs
<1>5. /\ Picked(k, <<x>>) = IF name = k THEN <<e.scheme>> ELSE << >>
      /\ Picked(k, <<y>>) = IF name = k THEN <<e.ssp>> ELSE << >>
  BY <1>1, PickedOne
<1>6. Parts(e) = <<e.scheme>> \o <<e.ssp>>
  BY TwoIs DEF Parts
<1>7. << >> \o << >> = << >>
  BY ConcatNothing, NothingIs
<1>8. Picked(k, <<x, y>>) = Where(k, name, Parts(e))
  BY <1>3, <1>4, <1>5, <1>6, <1>7 DEF Where
<1> QED BY <1>2, <1>4, <1>8

LEMMA OnePicked ==
  ASSUME NEW k, NEW x
  PROVE  IsSeq(<<x>>) /\ Picked(k, <<x>>) = Where(k, x.name, <<x.val>>)
BY OneIs, PickedOne DEF Where

\* What is written of a primary block.
LEMMA PrimaryPicked ==
  ASSUME NEW b, NEW k
  PROVE  Picked(k, PrimaryOut(b))
           = Where(k, "version", <<b.fields["version"]>>)
               \o Where(k, "flags", <<b.fields["flags"]>>)
               \o Where(k, "length", <<b.fields["length"]>>)
               \o Where(k, "dest", Parts(b.fields["dest"]))
               \o Where(k, "src", Parts(b.fields["src"]))
               \o Where(k, "report-to", Parts(b.fields["report-to"]))
               \o Where(k, "custodian", Parts(b.fields["custodian"]))
               \o Where(k, "creation-ts", <<b.fields["creation-ts"]>>)
               \o Where(k, "creation-seq", <<b.fields["creation-seq"]>>)
               \o Where(k, "lifetime", <<b.fields["lifetime"]>>)
               \o Where(k, "eids-size", <<b.fields["eids-size"]>>)
               \o Where(k, "eids", <<b.list>>)
<1> DEFINE p1 == <<Byte("version", b.fields["version"])>>
           p2 == <<Item("flags", b.fields["flags"])>>
           p3 == <<Item("length", b.fields["length"])>>
           p4 == EidItems("dest", b.fields["dest"])
           p5 == EidItems("src", b.fields["src"])
           p6 == EidItems("report-to", b.fields["report-to"])
           p7 == EidItems("custodian", b.fields["custodian"])
           p8 == <<Item("creation-ts", b.fields["creation-ts"])>>
           p9 == <<Item("creation-seq", b.fields["creation-seq"])>>
           p10 == <<Item("lifetime", b.fields["lifetime"])>>
           p11 == <<Item("eids-size", b.fields["eids-size"])>>
           p12 == <<[name |-> "eids", val |-> b.list, len |-> Dictionary(b.list).pos]>>
           s1 == p1
           s2 == s1 \o p2
           s3 == s2 \o p3
           s4 == s3 \o p4
           s5 == s4 \o p5
           s6 == s5 \o p6
           s7 == s6 \o p7
           s8 == s7 \o p8
           s9 == s8 \o p9
           s10 == s9 \o p10
           s11 == s10 \o p11
           s12 == s11 \o p12
<1>1. PrimaryOut(b) = s12
  BY DEF PrimaryOut
<1>2. /\ IsSeq(p1) /\ Picked(k, p1) = Where(k, "version", <<b.fields["version"]>>)
      /\ IsSeq(p2) /\ Picked(k, p2) = Where(k, "flags", <<b.fields["flags"]>>)
      /\ IsSeq(p3) /\ Picked(k, p3) = Where(k, "length", <<b.fields["length"]>>)
      /\ IsSeq(p4) /\ Picked(k, p4) = Where(k, "dest", Parts(b.fields["dest"]))
      /\ IsSeq(p5) /\ Picked(k, p5) = Where(k, "src", Parts(b.fields["src"]))
      /\ IsSeq(p6) /\ Picked(k, p6) = Where(k, "report-to", Parts(b.fields["report-to"]))
      /\ IsSeq(p7) /\ Picked(k, p7) = Where(k, "custodian", Parts(b.fields["custodian"]))
      /\ IsSeq(p8) /\ Picked(k, p8) = Where(k, "creation-ts", <<b.fields["creation-ts"]>>)
      /\ IsSeq(p9) /\ Picked(k, p9) = Where(k, "creation-seq", <<b.fields["creation-seq"]>>)
      /\ IsSeq(p10) /\ Picked(k, p10) = Where(k, "lifetime", <<b.fields["lifetime"]>>)
      /\ IsSeq(p11) /\ Picked(k, p11) = Where(k, "eids-size", <<b.fields["eids-size"]>>)
      /\ IsSeq(p12) /\ Picked(k, p12) = Where(k, "eids", <<b.list>>)
  <2>1. IsSeq(p1) /\ Picked(k, p1) = Where(k, "version", <<b.fields["version"]>>)
    BY OnePicked DEF Byte
  <2>2. IsSeq(p2) /\ Picked(k, p2) = Where(k, "flags", <<b.fields["flags"]>>)
    BY OnePicked DEF Item
  <2>3. IsSeq(p3) /\ Picked(k, p3) = Where(k, "length", <<b.fields["length"]>>)
    BY OnePicked DEF Item
  <2>4. IsSeq(p4) /\ Picked(k, p4) = Where(k, "dest", Parts(b.fields["dest"]))
    BY EidPicked
  <2>5. IsSeq(p5) /\ Picked(k, p5) = Where(k, "src", Parts(b.fields["src"]))
    BY EidPicked
  <2>6. IsSeq(p6) /\ Picked(k, p6) = Where(k, "report-to", Parts(b.fields["report-to"]))
    BY EidPicked
  <2>7. IsSeq(p7) /\ Picked(k, p7) = Where(k, "custodian", Parts(b.fields["custodian"]))
    BY EidPicked
  <2>8. IsSeq(p8) /\ Picked(k, p8) = Where(k, "creation-ts", <<b.fields["creation-ts"]>>)
    BY OnePicked DEF Item
  <2>9. IsSeq(p9) /\ Picked(k, p9) = Where(k, "creation-seq", <<b.fields["creation-seq"]>>)
    BY OnePicked DEF Item
  <2>10. IsSeq(p10) /\ Picked(k, p10) = Where(k, "lifetime", <<b.fields["lifetime"]>>)
    BY OnePicked DEF Item
  <2>11. IsSeq(p11) /\ Picked(k, p11) = Where(k, "eids-size", <<b.fields["eids-size"]>>)
    BY OnePicked DEF Item
  <2>12. IsSeq(p12) /\ Picked(k, p12) = Where(k, "eids", <<b.list>>)
    BY OnePicked DEF Item
  <2> HIDE DEF p1, p2, p3, p4, p5, p6, p7, p8, p9, p10, p11, p12
  <2> QED BY <2>1, <2>2, <2>3, <2>4, <2>5, <2>6, <2>7, <2>8, <2>9, <2>10, <2>11, <2>12
<1> HIDE DEF p1, p2, p3, p4, p5, p6, p7, p8, p9, p10, p11, p12
<1>3. IsSeq(s1) /\ Picked(k, s1) = Picked(k, p1)
  BY <1>2
<1>15. IsSeq(p1) /\ IsSeq(p2) /\ IsSeq(p3) /\ IsSeq(p4) /\ IsSeq(p5) /\ IsSeq(p6) /\ IsSeq(p7) /\ IsSeq(p8) /\ IsSeq(p9) /\ IsSeq(p10) /\ IsSeq(p11) /\ IsSeq(p12)
  BY <1>2
<1> HIDE DEF s1
<1>4. IsSeq(s2) /\ Picked(k, s2) = Picked(k, s1) \o Picked(k, p2)
  BY <1>3, <1>15, PickedJoined DEF s2
<1> HIDE DEF s2
<1>5. IsSeq(s3) /\ Picked(k, s3) = Picked(k, s2) \o Picked(k, p3)
  BY <1>4, <1>15, PickedJoined DEF s3
<1> HIDE DEF s3
<1>6. IsSeq(s4) /\ Picked(k, s4) = Picked(k, s3) \o Picked(k, p4)
  BY <1>5, <1>15, PickedJoined DEF s4
<1> HIDE DEF s4
<1>7. IsSeq(s5) /\ Picked(k, s5) = Picked(k, s4) \o Picked(k, p5)
  BY <1>6, <1>15, PickedJoined DEF s5
<1> HIDE DEF s5
<1>8. IsSeq(s6) /\ Picked(k, s6) = Picked(k, s5) \o Picked(k, p6)
  BY <1>7, <1>15, PickedJoined DEF s6
<1> HIDE DEF s6
<1>9. IsSeq(s7) /\ Picked(k, s7) = Picked(k, s6) \o Picked(k, p7)
  BY <1>8, <1>15, PickedJoined DEF s7
<1> HIDE DEF s7
<1>10. IsSeq(s8) /\ Picked(k, s8) = Picked(k, s7) \o Picked(k, p8)
  BY <1>9, <1>15, PickedJoined DEF s8
<1> HIDE DEF s8
<1>11. IsSeq(s9) /\ Picked(k, s9) = Picked(k, s8) \o Picked(k, p9)
  BY <1>10, <1>15, PickedJoined DEF s9
<1> HIDE DEF s9
<1>12. IsSeq(s10) /\ Picked(k, s10) = Picked(k, s9) \o Picked(k, p10)
  BY <1>11, <1>15, PickedJoined DEF s10
<1> HIDE DEF s10
<1>13. IsSeq(s11) /\ Picked(k, s11) = Picked(k, s10) \o Picked(k, p11)
  BY <1>12, <1>15, PickedJoined DEF s11
<1> HIDE DEF s11
<1>14. IsSeq(s12) /\ Picked(k, s12) = Picked(k, s11) \o Picked(k, p12)
  BY <1>13, <1>15, PickedJoined DEF s12
<1> HIDE DEF s12
<1> QED BY <1>1, <1>2, <1>3, <1>4, <1>5, <1>6, <1>7, <1>8, <1>9, <1>10, <1>11, <1>12, <1>13, <1>14

LEMMA PrimaryWritten ==
  ASSUME NEW b
  PROVE  /\ \A k \in {"version", "flags", "creation-ts", "creation-seq", "lifetime",
                      "eids-size"} :
              Picked(k, PrimaryOut(b)) = <<b.fields[k]>>
         /\ \A k \in EidKeys : Picked(k, PrimaryOut(b)) = Parts(b.fields[k])
<1>1. Picked("version", PrimaryOut(b)) = <<b.fields["version"]>>
  <2> DEFINE v == <<b.fields["version"]>>
  <2>1. Picked("version", PrimaryOut(b)) = v \o << >> \o << >> \o << >> \o << >> \o << >> \o << >> \o << >> \o << >> \o << >> \o << >> \o << >>
    BY PrimaryPicked DEF Where
  <2>2. IsSeq(v)
    BY OneIs
  <2> HIDE DEF v
  <2>3. IsSeq(v) => << >> \o v = v /\ v \o << >> = v /\ << >> \o << >> = << >>
    BY ConcatNothing, NothingIs
  <2> QED BY <2>1, <2>2, <2>3 DEF v
<1>2. Picked("flags", PrimaryOut(b)) = <<b.fields["flags"]>>
  <2> DEFINE v == <<b.fields["flags"]>>
  <2>1. Picked("flags", PrimaryOut(b)) = << >> \o v \o << >> \o << >> \o << >> \o << >> \o << >> \o << >> \o << >> \o << >> \o << >> \o << >>
    BY PrimaryPicked DEF Where
  <2>2. IsSeq(v)
    BY OneIs
  <2> HIDE DEF v
  <2>3. IsSeq(v) => << >> \o v = v /\ v \o << >> = v /\ << >> \o << >> = << >>
    BY ConcatNothing, NothingIs
  <2> QED BY <2>1, <2>2, <2>3 DEF v
<1>3. Picked("dest", PrimaryOut(b)) = Parts(b.fields["dest"])
  <2> DEFINE v == Parts(b.fields["dest"])
  <2>1. Picked("dest", PrimaryOut(b)) = << >> \o << >> \o << >> \o v \o << >> \o << >> \o << >> \o << >> \o << >> \o << >> \o << >> \o << >>
    BY PrimaryPicked DEF Where
  <2>2. IsSeq(v)
    BY TwoIs DEF Parts
  <2> HIDE DEF v
  <2>3. IsSeq(v) => << >> \o v = v /\ v \o << >> = v /\ << >> \o << >> = << >>
    BY ConcatNothing, NothingIs
  <2> QED BY <2>1, <2>2, <2>3 DEF v
<1>4. Picked("src", PrimaryOut(b)) = Parts(b.fields["src"])
  <2> DEFINE v == Parts(b.fields["src"])
  <2>1. Picked("src", PrimaryOut(b)) = << >> \o << >> \o << >> \o << >> \o v \o << >> \o << >> \o << >> \o << >> \o << >> \o << >> \o << >>
    BY PrimaryPicked DEF Where
  <2>2. IsSeq(v)
    BY TwoIs DEF Parts
  <2> HIDE DEF v
  <2>3. IsSeq(v) => << >> \o v = v /\ v \o << >> = v /\ << >> \o << >> = << >>
    BY ConcatNothing, NothingIs
  <2> QED BY <2>1, <2>2, <2>3 DEF v
<1>5. Picked("report-to", PrimaryOut(b)) = Parts(b.fields["report-to"])
  <2> DEFINE v == Parts(b.fields["report-to"])
  <2>1. Picked("report-to", PrimaryOut(b)) = << >> \o << >> \o << >> \o << >> \o << >> \o v \o << >> \o << >> \o << >> \o << >> \o << >> \o << >>
    BY PrimaryPicked DEF Where
  <2>2. IsSeq(v)
    BY TwoIs DEF Parts
  <2> HIDE DEF v
  <2>3. IsSeq(v) => << >> \o v = v /\ v \o << >> = v /\ << >> \o << >> = << >>
    BY ConcatNothing, NothingIs
  <2> QED BY <2>1, <2>2, <2>3 DEF v
<1>6. Picked("custodian", PrimaryOut(b)) = Parts(b.fields["custodian"])
  <2> DEFINE v == Parts(b.fields["custodian"])
  <2>1. Picked("custodian", PrimaryOut(b)) = << >> \o << >> \o << >> \o << >> \o << >> \o << >> \o v \o << >> \o << >> \o << >> \o << >> \o << >>
    BY PrimaryPicked DEF Where
  <2>2. IsSeq(v)
    BY TwoIs DEF Parts
  <2> HIDE DEF v
  <2>3. IsSeq(v) => << >> \o v = v /\ v \o << >> = v /\ << >> \o << >> = << >>
    BY ConcatNothing, NothingIs
  <2> QED BY <2>1, <2>2, <2>3 DEF v
<1>7. Picked("creation-ts", PrimaryOut(b)) = <<b.fields["creation-ts"]>>
  <2> DEFINE v == <<b.fields["creation-ts"]>>
  <2>1. Picked("creation-ts", PrimaryOut(b)) = << >> \o << >> \o << >> \o << >> \o << >> \o << >> \o << >> \o v \o << >> \o << >> \o << >> \o << >>
    BY PrimaryPicked DEF Where
  <2>2. IsSeq(v)
    BY OneIs
  <2> HIDE DEF v
  <2>3. IsSeq(v) => << >> \o v = v /\ v \o << >> = v /\ << >> \o << >> = << >>
    BY ConcatNothing, NothingIs
  <2> QED BY <2>1, <2>2, <2>3 DEF v
<1>8. Picked("creation-seq", PrimaryOut(b)) = <<b.fields["creation-seq"]>>
  <2> DEFINE v == <<b.fields["creation-seq"]>>
  <2>1. Picked("creation-seq", PrimaryOut(b)) = << >> \o << >> \o << >> \o << >> \o << >> \o << >> \o << >> \o << >> \o v \o << >> \o << >> \o << >>
    BY PrimaryPicked DEF Where
  <2>2. IsSeq(v)
    BY OneIs
  <2> HIDE DEF v
  <2>3. IsSeq(v) => << >> \o v = v /\ v \o << >> = v /\ << >> \o << >> = << >>
    BY ConcatNothing, NothingIs
  <2> QED BY <2>1, <2>2, <2>3 DEF v
<1>9. Picked("lifetime", PrimaryOut(b)) = <<b.fields["lifetime"]>>
  <2> DEFINE v == <<b.fields["lifetime"]>>
  <2>1. Picked("lifetime", PrimaryOut(b)) = << >> \o << >> \o << >> \o << >> \o << >> \o << >> \o << >> \o << >> \o << >> \o v \o << >> \o << >>
    BY PrimaryPicked DEF Where
  <2>2. IsSeq(v)
    BY OneIs
  <2> HIDE DEF v
  <2>3. IsSeq(v) => << >> \o v = v /\ v \o << >> = v /\ << >> \o << >> = << >>
    BY ConcatNothing, NothingIs
  <2> QED BY <2>1, <2>2, <2>3 DEF v
<1>10. Picked("eids-size", PrimaryOut(b)) = <<b.fields["eids-size"]>>
  <2> DEFINE v == <<b.fields["eids-size"]>>
  <2>1. Picked("eids-size", PrimaryOut(b)) = << >> \o << >> \o << >> \o << >> \o << >> \o << >> \o << >> \o << >> \o << >> \o << >> \o v \o << >>
    BY PrimaryPicked DEF Where
  <2>2. IsSeq(v)
    BY OneIs
  <2> HIDE DEF v
  <2>3. IsSeq(v) => << >> \o v = v /\ v \o << >> = v /\ << >> \o << >> = << >>
    BY ConcatNothing, NothingIs
  <2> QED BY <2>1, <2>2, <2>3 DEF v
<1> QED BY <1>1, <1>2, <1>3, <1>4, <1>5, <1>6, <1>7, <1>8, <1>9, <1>10 DEF EidKeys

-----------------------------------------------------------------------------
(* What edits leave of the output *)

LEMMA RestJoined ==
  ASSUME NEW by, NEW s, NEW t, IsSeq(s), IsSeq(t)
  PROVE  IsSeq(s \o t) /\ Rest(by, s \o t) = Rest(by, s) \o Rest(by, t)
BY RestBoth, ConcatIs

\* Nothing is different but what has a name of these.
SameRest(by, s, t) == IsSeq(s) /\ IsSeq(t) /\ Rest(by, s) = Rest(by, t)

LEMMA SameBoth ==
  ASSUME NEW by, NEW s, NEW t, NEW u, NEW v, SameRest(by, s, t), SameRest(by, u, v)
  PROVE  SameRest(by, s \o u, t \o v)
<1>1. /\ IsSeq(s) /\ IsSeq(t) /\ IsSeq(u) /\ IsSeq(v)
      /\ Rest(by, s) = Rest(by, t) /\ Rest(by, u) = Rest(by, v)
  BY DEF SameRest
<1>2. IsSeq(s \o u) /\ Rest(by, s \o u) = Rest(by, s) \o Rest(by, u)
  BY <1>1, RestJoined
<1>3. IsSeq(t \o v) /\ Rest(by, t \o v) = Rest(by, t) \o Rest(by, v)
  BY <1>1, RestJoined
<1> QED BY <1>1, <1>2, <1>3 DEF SameRest

LEMMA SameOne ==
  ASSUME NEW by, NEW x, NEW y, x.name = y.name, x.name \notin by => x = y
  PROVE  SameRest(by, <<x>>, <<y>>)
<1>1. IsSeq(<<x>>) /\ IsSeq(<<y>>)
  BY OneIs
<1>2. /\ Rest(by, <<x>>) = IF x.name \in by THEN << >> ELSE <<x>>
      /\ Rest(by, <<y>>) = IF y.name \in by THEN << >> ELSE <<y>>
  BY RestOne
<1>3. Rest(by, <<x>>) = Rest(by, <<y>>)
  BY <1>2
<1> QED BY <1>1, <1>3 DEF SameRest

LEMMA SameNumber ==
  ASSUME NEW by, NEW k, NEW m, NEW n, k \notin by => m = n
  PROVE  /\ SameRest(by, <<Item(k, m)>>, <<Item(k, n)>>)
         /\ SameRest(by, <<Byte(k, m)>>, <<Byte(k, n)>>)
<1>1. Item(k, m).name = k /\ Item(k, n).name = k /\ Byte(k, m).name = k /\ Byte(k, n).name = k
  BY DEF Item, Byte
<1>2. k \notin by => Item(k, m) = Item(k, n) /\ Byte(k, m) = Byte(k, n)
  OBVIOUS
<1> QED BY <1>1, <1>2, SameOne

LEMMA SameEid ==
  ASSUME NEW by, NEW k, NEW e, NEW f, k \notin by => e = f
  PROVE  SameRest(by, EidItems(k, e), EidItems(k, f))
<1>1. /\ EidItems(k, e) = <<Item(k, e.scheme)>> \o <<Item(k, e.ssp)>>
      /\ EidItems(k, f) = <<Item(k, f.scheme)>> \o <<Item(k, f.ssp)>>
  BY TwoIs DEF EidItems
<1>2. /\ SameRest(by, <<Item(k, e.scheme)>>, <<Item(k, f.scheme)>>)
      /\ SameRest(by, <<Item(k, e.ssp)>>, <<Item(k, f.ssp)>>)
  BY SameNumber
<1> QED BY <1>1, <1>2, SameBoth

\* An element that all sequences have in common of which nothing is left.
LEMMA RestNone ==
  ASSUME NEW by, NEW s, IsSeq(s), \A n \in 1 .. Len(s) : s[n].name \in by
  PROVE  Rest(by, s) = << >>
<1> DEFINE q == [n \in DOMAIN s |-> IF s[n].name \in by THEN << >> ELSE <<s[n]>>]
<1>1. DOMAIN s = 1 .. Len(s) /\ Len(s) \in Nat
  BY DEF IsSeq
<1>2. Len(q) = Len(s) /\ \A n \in 1 .. Len(s) : q[n] = << >>
  BY <1>1
<1>3. q = [n \in 1 .. Len(s) |-> q[n]]
  BY <1>1
<1>4. Rest(by, s) = FlattenSeq(q)
  BY DEF Rest
<1> HIDE DEF q
<1>5. SeqOfSeqs(q)
  BY <1>1, <1>2, <1>3, NothingIs DEF SeqOfSeqs, IsSeq
<1> QED BY <1>2, <1>4, <1>5, FlattenNone

LEMMA PickedNone ==
  ASSUME NEW k, NEW s, IsSeq(s), \A n \in 1 .. Len(s) : s[n].name # k
  PROVE  Picked(k, s) = << >>
<1> DEFINE q == [n \in DOMAIN s |-> IF s[n].name = k THEN <<s[n].val>> ELSE << >>]
<1>1. DOMAIN s = 1 .. Len(s) /\ Len(s) \in Nat
  BY DEF IsSeq
<1>2. Len(q) = Len(s) /\ \A n \in 1 .. Len(s) : q[n] = << >>
  BY <1>1
<1>3. q = [n \in 1 .. Len(s) |-> q[n]]
  BY <1>1
<1>4. Picked(k, s) = FlattenSeq(q)
  BY DEF Picked
<1> HIDE DEF q
<1>5. SeqOfSeqs(q)
  BY <1>1, <1>2, <1>3, NothingIs DEF SeqOfSeqs, IsSeq
<1> QED BY <1>2, <1>4, <1>5, FlattenNone

\* The references that are written.
RefItems(l) == FlattenSeq([n \in DOMAIN l |-> EidItems("refs", l[n])])

LEMMA RefsNamed ==
  ASSUME NEW l, IsSeq(l)
  PROVE  IsSeq(RefItems(l)) /\ \A n \in 1 .. Len(RefItems(l)) : RefItems(l)[n].name = "refs"
<1> DEFINE N == Len(l)
           q == [n \in DOMAIN l |-> EidItems("refs", l[n])]
           S == {Item("refs", l[n].scheme) : n \in 1 .. N} \cup {Item("refs", l[n].ssp) : n \in 1 .. N}
<1>1. DOMAIN l = 1 .. N /\ N \in Nat
  BY DEF IsSeq
<1>2. ASSUME NEW n \in 1 .. N
      PROVE  IsSeq(EidItems("refs", l[n])) /\ \A i \in 1 .. Len(EidItems("refs", l[n])) :
                                                EidItems("refs", l[n])[i] \in S
  <2> DEFINE x == Item("refs", l[n].scheme)
             y == Item("refs", l[n].ssp)
             t == <<x, y>>
  <2>1. x \in S /\ y \in S
    OBVIOUS
  <2>2. EidItems("refs", l[n]) = t
    BY DEF EidItems
  <2> HIDE DEF x, y, S
  <2>3. IsSeq(t) /\ Len(t) = 2 /\ t[1] = x /\ t[2] = y
    BY TwoIs
  <2> HIDE DEF t
  <2>4. \A i \in 1 .. Len(t) : i = 1 \/ i = 2
    BY <2>3
  <2> QED BY <2>1, <2>2, <2>3, <2>4
<1>3. \A x \in S : x.name = "refs"
  BY DEF Item
<1> HIDE DEF S
<1>4. Len(q) = N /\ q = [n \in 1 .. N |-> q[n]] /\ \A n \in 1 .. N : q[n] = EidItems("refs", l[n])
  BY <1>1
<1>5. RefItems(l) = FlattenSeq(q)
  BY DEF RefItems
<1> HIDE DEF q
<1>6. IsSeq(q) /\ \A n \in 1 .. N : IsSeq(q[n]) /\ \A i \in 1 .. Len(q[n]) : q[n][i] \in S
  <2>1. IsSeq(q)
    BY <1>1, <1>4 DEF IsSeq
  <2> QED BY <1>2, <1>4, <2>1
<1>7. PICK f : Flattening(q, f)
  BY <1>4, <1>6, FlattenIs
<1>8. f[0] = << >> /\ (\A n \in 1 .. N : f[n] = f[n - 1] \o q[n]) /\ FlattenSeq(q) = f[N]
  BY <1>4, <1>7 DEF Flattening
<1> DEFINE Good(n) == IsSeq(f[n]) /\ \A i \in 1 .. Len(f[n]) : f[n][i] \in S
           T == {n \in 0 .. N : Good(n)}
<1>9. 0 \in T
  BY <1>1, <1>8, NothingIs
<1>10. ASSUME NEW n \in 0 .. N - 1, n \in T PROVE n + 1 \in T
  <2>1. n + 1 \in 1 .. N /\ n + 1 \in 0 .. N /\ (n + 1) - 1 = n
    BY <1>1
  <2>2. f[n + 1] = f[n] \o q[n + 1]
    BY <1>8, <2>1
  <2>3. Good(n) /\ IsSeq(q[n + 1]) /\ \A i \in 1 .. Len(q[n + 1]) : q[n + 1][i] \in S
    BY <1>6, <1>10, <2>1
  <2>4. IsSeq(f[n] \o q[n + 1]) /\ \A i \in 1 .. Len(f[n] \o q[n + 1]) : (f[n] \o q[n + 1])[i] \in S
    BY <2>3, ConcatWithin
  <2> QED BY <2>1, <2>2, <2>4
<1>11. N \in T
  <2>1. N \in 0 .. N
    BY <1>1
  <2> HIDE DEF T, N
  <2> QED BY <1>1, <1>9, <1>10, <2>1, UpTo
<1> QED BY <1>3, <1>5, <1>8, <1>11

\* Two primary blocks, or two extension blocks, that differ in fields of these
\* names only, are written with the same items of other names.
LEMMA PrimaryRest ==
  ASSUME NEW by, NEW b, NEW c,
         \A k \in {"version"} \cup U32Keys \cup EidKeys : k \notin by => b.fields[k] = c.fields[k],
         "eids" \notin by => b.list = c.list
  PROVE  Rest(by, PrimaryOut(b)) = Rest(by, PrimaryOut(c))
<1> DEFINE p1 == <<Byte("version", b.fields["version"])>>
           p2 == <<Item("flags", b.fields["flags"])>>
           p3 == <<Item("length", b.fields["length"])>>
           p4 == EidItems("dest", b.fields["dest"])
           p5 == EidItems("src", b.fields["src"])
           p6 == EidItems("report-to", b.fields["report-to"])
           p7 == EidItems("custodian", b.fields["custodian"])
           p8 == <<Item("creation-ts", b.fields["creation-ts"])>>
           p9 == <<Item("creation-seq", b.fields["creation-seq"])>>
           p10 == <<Item("lifetime", b.fields["lifetime"])>>
           p11 == <<Item("eids-size", b.fields["eids-size"])>>
           p12 == <<[name |-> "eids", val |-> b.list, len |-> Dictionary(b.list).pos]>>
           q1 == <<Byte("version", c.fields["version"])>>
           q2 == <<Item("flags", c.fields["flags"])>>
           q3 == <<Item("length", c.fields["length"])>>
           q4 == EidItems("dest", c.fields["dest"])
           q5 == EidItems("src", c.fields["src"])
           q6 == EidItems("report-to", c.fields["report-to"])
           q7 == EidItems("custodian", c.fields["custodian"])
           q8 == <<Item("creation-ts", c.fields["creation-ts"])>>
           q9 == <<Item("creation-seq", c.fields["creation-seq"])>>
           q10 == <<Item("lifetime", c.fields["lifetime"])>>
           q11 == <<Item("eids-size", c.fields["eids-size"])>>
           q12 == <<[name |-> "eids", val |-> c.list, len |-> Dictionary(c.list).pos]>>
           s1 == p1
           s2 == s1 \o p2
           s3 == s2 \o p3
           s4 == s3 \o p4
           s5 == s4 \o p5
           s6 == s5 \o p6
           s7 == s6 \o p7
           s8 == s7 \o p8
           s9 == s8 \o p9
           s10 == s9 \o p10
           s11 == s10 \o p11
           s12 == s11 \o p12
           t1 == q1
           t2 == t1 \o q2
           t3 == t2 \o q3
           t4 == t3 \o q4
           t5 == t4 \o q5
           t6 == t5 \o q6
           t7 == t6 \o q7
           t8 == t7 \o q8
           t9 == t8 \o q9
           t10 == t9 \o q10
           t11 == t10 \o q11
           t12 == t11 \o q12
<1>1. PrimaryOut(b) = s12 /\ PrimaryOut(c) = t12
  BY DEF PrimaryOut
<1>2. SameRest(by, p1, q1)
  BY SameNumber
<1>3. SameRest(by, p2, q2)
  BY SameNumber DEF U32Keys
<1>4. SameRest(by, p3, q3)
  BY SameNumber DEF U32Keys
<1>5. SameRest(by, p4, q4)
  BY SameEid DEF EidKeys
<1>6. SameRest(by, p5, q5)
  BY SameEid DEF EidKeys
<1>7. SameRest(by, p6, q6)
  BY SameEid DEF EidKeys
<1>8. SameRest(by, p7, q7)
  BY SameEid DEF EidKeys
<1>9. SameRest(by, p8, q8)
  BY SameNumber DEF U32Keys
<1>10. SameRest(by, p9, q9)
  BY SameNumber DEF U32Keys
<1>11. SameRest(by, p10, q10)
  BY SameNumber DEF U32Keys
<1>12. SameRest(by, p11, q11)
  BY SameNumber DEF U32Keys
<1>13. SameRest(by, p12, q12)
  <2> DEFINE x == [name |-> "eids", val |-> b.list, len |-> Dictionary(b.list).pos]
             y == [name |-> "eids", val |-> c.list, len |-> Dictionary(c.list).pos]
  <2>1. x.name = "eids" /\ y.name = "eids" /\ ("eids" \notin by => x = y)
    OBVIOUS
  <2>2. p12 = <<x>> /\ q12 = <<y>>
    OBVIOUS
  <2> HIDE DEF x, y, p12, q12
  <2>3. SameRest(by, <<x>>, <<y>>)
    BY <2>1, SameOne
  <2> QED BY <2>2, <2>3
<1> HIDE DEF p1, p2, p3, p4, p5, p6, p7, p8, p9, p10, p11, p12, q1, q2, q3, q4, q5, q6, q7, q8, q9, q10, q11, q12
<1>14. SameRest(by, s1, t1)
  BY <1>2
<1> HIDE DEF s1, t1
<1>15. SameRest(by, s2, t2)
  BY <1>3, <1>14, SameBoth
<1> HIDE DEF s2, t2
<1>16. SameRest(by, s3, t3)
  BY <1>4, <1>15, SameBoth
<1> HIDE DEF s3, t3
<1>17. SameRest(by, s4, t4)
  BY <1>5, <1>16, SameBoth
<1> HIDE DEF s4, t4
<1>18. SameRest(by, s5, t5)
  BY <1>6, <1>17, SameBoth
<1> HIDE DEF s5, t5
<1>19. SameRest(by, s6, t6)
  BY <1>7, <1>18, SameBoth
<1> HIDE DEF s6, t6
<1>20. SameRest(by, s7, t7)
  BY <1>8, <1>19, SameBoth
<1> HIDE DEF s7, t7
<1>21. SameRest(by, s8, t8)
  BY <1>9, <1>20, SameBoth
<1> HIDE DEF s8, t8
<1>22. SameRest(by, s9, t9)
  BY <1>10, <1>21, SameBoth
<1> HIDE DEF s9, t9
<1>23. SameRest(by, s10, t10)
  BY <1>11, <1>22, SameBoth
<1> HIDE DEF s10, t10
<1>24. SameRest(by, s11, t11)
  BY <1>12, <1>23, SameBoth
<1> HIDE DEF s11, t11
<1>25. SameRest(by, s12, t12)
  BY <1>13, <1>24, SameBoth
<1> HIDE DEF s12, t12
<1> QED BY <1>1, <1>25 DEF SameRest

LEMMA ExtRest ==
  ASSUME NEW by, NEW b, NEW c, IsSeq(b.list), IsSeq(c.list),
         \A k \in {"type", "flags", "payload-length", "ref-count"} :
           k \notin by => b.fields[k] = c.fields[k],
         "refs" \notin by => b.list = c.list,
         "ref-count" \in by => "refs" \in by
  PROVE  Rest(by, ExtOut(b)) = Rest(by, ExtOut(c))
<1> DEFINE two(x) == <<Byte("type", x.fields["type"]), Item("flags", x.fields["flags"])>>
           count(x) == <<Item("ref-count", x.fields["ref-count"])>>
           refs(x) == IF x.fields["ref-count"] # Zero THEN count(x) \o RefItems(x.list) ELSE << >>
           length(x) == <<Item("payload-length", x.fields["payload-length"])>>
<1>1. ExtOut(b) = (two(b) \o refs(b)) \o length(b) /\ ExtOut(c) = (two(c) \o refs(c)) \o length(c)
  BY DEF ExtOut, RefItems
<1>2. SameRest(by, two(b), two(c))
  <2>1. SameRest(by, <<Byte("type", b.fields["type"])>>, <<Byte("type", c.fields["type"])>>)
    BY SameNumber
  <2>2. SameRest(by, <<Item("flags", b.fields["flags"])>>, <<Item("flags", c.fields["flags"])>>)
    BY SameNumber
  <2>3. /\ two(b) = <<Byte("type", b.fields["type"])>> \o <<Item("flags", b.fields["flags"])>>
        /\ two(c) = <<Byte("type", c.fields["type"])>> \o <<Item("flags", c.fields["flags"])>>
    BY TwoIs
  <2> HIDE DEF two
  <2> QED BY <2>1, <2>2, <2>3, SameBoth
<1>3. SameRest(by, length(b), length(c)) /\ SameRest(by, count(b), count(c))
  BY SameNumber
<1>4. /\ IsSeq(RefItems(b.list)) /\ \A n \in 1 .. Len(RefItems(b.list)) : RefItems(b.list)[n].name = "refs"
      /\ IsSeq(RefItems(c.list)) /\ \A n \in 1 .. Len(RefItems(c.list)) : RefItems(c.list)[n].name = "refs"
  BY RefsNamed
<1>5. SameRest(by, RefItems(b.list), RefItems(c.list))
  <2>1. CASE "refs" \in by
    <3>1. Rest(by, RefItems(b.list)) = << >> /\ Rest(by, RefItems(c.list)) = << >>
      BY <1>4, <2>1, RestNone
    <3> QED BY <1>4, <3>1 DEF SameRest
  <2>2. CASE "refs" \notin by
    BY <1>4, <2>2 DEF SameRest
  <2> QED BY <2>1, <2>2
<1>6. \A x \in {b, c} : "ref-count" \in by => IsSeq(refs(x)) /\ Rest(by, refs(x)) = << >>
  <2> SUFFICES ASSUME NEW x \in {b, c}, "ref-count" \in by
               PROVE  IsSeq(refs(x)) /\ Rest(by, refs(x)) = << >>
    OBVIOUS
  <2>1. IsSeq(RefItems(x.list)) /\ Rest(by, RefItems(x.list)) = << >>
    BY <1>4, RestNone
  <2>2. IsSeq(count(x)) /\ Rest(by, count(x)) = << >>
    <3> DEFINE y == Item("ref-count", x.fields["ref-count"])
    <3>1. y.name = "ref-count"
      BY DEF Item
    <3> HIDE DEF y
    <3>2. IsSeq(<<y>>) /\ Rest(by, <<y>>) = << >>
      BY <3>1, OneIs, RestOne
    <3> QED BY <3>2 DEF y
  <2> HIDE DEF count
  <2>3. IsSeq(count(x) \o RefItems(x.list)) /\ Rest(by, count(x) \o RefItems(x.list)) = << >>
    <3>1. << >> \o << >> = << >>
      BY ConcatNothing, NothingIs
    <3> QED BY <2>1, <2>2, <3>1, RestJoined
  <2>4. IsSeq(<< >>) /\ Rest(by, << >>) = << >>
    BY NothingIs, RestNone
  <2> QED BY <2>3, <2>4
<1>7. SameRest(by, refs(b), refs(c))
  <2>1. CASE "ref-count" \in by
    BY <1>6, <2>1 DEF SameRest
  <2>2. CASE "ref-count" \notin by
    <3>1. b.fields["ref-count"] = c.fields["ref-count"]
      BY <2>2
    <3>2. SameRest(by, count(b) \o RefItems(b.list), count(c) \o RefItems(c.list))
      <4> HIDE DEF count
      <4> QED BY <1>3, <1>5, SameBoth
    <3>3. SameRest(by, << >>, << >>)
      BY NothingIs DEF SameRest
    <3> HIDE DEF count
    <3> QED BY <3>1, <3>2, <3>3
  <2> QED BY <2>1, <2>2
<1> HIDE DEF two, refs, length, count
<1>8. SameRest(by, two(b) \o refs(b), two(c) \o refs(c))
  BY <1>2, <1>7, SameBoth
<1>9. SameRest(by, (two(b) \o refs(b)) \o length(b), (two(c) \o refs(c)) \o length(c))
  BY <1>3, <1>8, SameBoth
<1> QED BY <1>1, <1>9 DEF SameRest

-----------------------------------------------------------------------------
(* The block a document of the shape that was written describes *)

\* Each key is given once.
OnceGiven(d, k, v) == Given(d, k) = <<v>> /\ ListOf(d, k) = v.elems /\ IsSeq(v.elems)

LEMMA GivenOnce ==
  ASSUME Building, NEW d, Shaped(d), Plain(d), NEW n \in 1 .. Len(d.members)
  PROVE  OnceGiven(d, Order(built.type)[n], d.members[n].value)
<1> DEFINE ord == Order(built.type)
           N == Len(d.members)
           k == ord[n]
           p == GivenParts(d, k)
           q == ListParts(d, k)
<1>1. built.type \in BlockTypes
  BY MkBundleAssumption DEF Building
<1>2. /\ IsSeq(d.members) /\ N = Len(ord) /\ DOMAIN d.members = 1 .. N
      /\ \A i \in 1 .. N : d.members[i].key = Str(ord[i])
  BY DEF Shaped, IsSeq
<1>3. \A i, j \in 1 .. N : ord[i] = ord[j] => i = j
  BY <1>1, <1>2, OrderIs
<1>4. \A i \in 1 .. N : IsSeq(d.members[i].value.elems)
  <2>1. \A i \in 1 .. N : PlainValue(d.members[i].value)
    BY DEF Plain
  <2> QED BY <2>1, PlainElems
<1> HIDE DEF ord, N
<1>5. ASSUME NEW i \in 1 .. N PROVE HasKey(d.members[i], k) <=> i = n
  <2>1. d.members[i].key.type = "string" /\ d.members[i].key.val = ord[i]
    <3>1. d.members[i].key = Str(ord[i])
      BY <1>2
    <3>2. Str(ord[i]).type = "string" /\ Str(ord[i]).val = ord[i]
      BY DEF Str, Value
    <3> HIDE DEF Str
    <3> QED BY <3>1, <3>2
  <2>2. ord[i] = ord[n] <=> i = n
    BY <1>3 DEF N
  <2> QED BY <2>1, <2>2 DEF HasKey
<1> HIDE DEF k
<1>6. IsSeq(p) /\ Len(p) = N /\ \A i \in 1 .. N : p[i] = IF i = n THEN <<d.members[n].value>> ELSE << >>
  <2>1. /\ p = [i \in DOMAIN d.members |-> p[i]]
        /\ \A i \in 1 .. N : p[i] = IF HasKey(d.members[i], k) THEN <<d.members[i].value>> ELSE << >>
    BY <1>2 DEF GivenParts
  <2>2. IsSeq(p) /\ Len(p) = N
    <3> HIDE DEF p
    <3> QED BY <1>2, <2>1, MappedSeq DEF N
  <2> HIDE DEF p
  <2> QED BY <1>5, <2>1, <2>2
<1>7. IsSeq(q) /\ Len(q) = N /\ \A i \in 1 .. N : q[i] = IF i = n THEN d.members[n].value.elems ELSE << >>
  <2>1. /\ q = [i \in DOMAIN d.members |-> q[i]]
        /\ \A i \in 1 .. N : q[i] = IF HasKey(d.members[i], k) THEN d.members[i].value.elems ELSE << >>
    BY <1>2 DEF ListParts
  <2>2. IsSeq(q) /\ Len(q) = N
    <3> HIDE DEF q
    <3> QED BY <1>2, <2>1, MappedSeq DEF N
  <2> HIDE DEF q
  <2> QED BY <1>5, <2>1, <2>2
<1>8. Given(d, k) = FlattenSeq(p) /\ ListOf(d, k) = FlattenSeq(q)
  BY DEF Given, ListOf, GivenParts, ListParts
<1> HIDE DEF p, q
<1>9. n \in 1 .. N
  BY DEF N
<1>10. Given(d, k) = <<d.members[n].value>>
  <2>1. SeqOfSeqs(p)
    BY <1>6, OneIs, NothingIs DEF SeqOfSeqs
  <2>2. FlattenSeq(p) = p[n]
    BY <1>6, <1>9, <2>1, FlattenOnly
  <2> QED BY <1>6, <1>8, <1>9, <2>2
<1>11. ListOf(d, k) = d.members[n].value.elems
  <2>1. SeqOfSeqs(q)
    BY <1>4, <1>7, <1>9, NothingIs DEF SeqOfSeqs
  <2>2. FlattenSeq(q) = q[n]
    BY <1>7, <1>9, <2>1, FlattenOnly
  <2> QED BY <1>7, <1>8, <1>9, <2>2
<1> QED BY <1>4, <1>9, <1>10, <1>11 DEF OnceGiven, k, ord

LEMMA KeysGiven ==
  ASSUME Building, NEW d, Shaped(d), Plain(d), NEW k \in Keys(built.type)
  PROVE  \E v : OnceGiven(d, k, v)
<1>1. built.type \in BlockTypes
  BY MkBundleAssumption DEF Building
<1>2. PICK n \in 1 .. Len(Order(built.type)) : Order(built.type)[n] = k
  BY <1>1, OrderIs
<1>3. n \in 1 .. Len(d.members)
  BY DEF Shaped
<1> QED BY <1>2, <1>3, GivenOnce

\* Of the document as it was written.
LEMMA MadeGiven ==
  ASSUME Building, Shaped(Made), Plain(Made), NEW k \in Keys(built.type)
  PROVE  OnceGiven(Made, k, MadeValue(k))
<1>1. built.type \in BlockTypes
  BY MkBundleAssumption DEF Building
<1>2. PICK n \in 1 .. Len(Order(built.type)) : Order(built.type)[n] = k
  BY <1>1, OrderIs
<1>3. n \in 1 .. Len(Made.members)
  BY DEF Shaped
<1>4. OnceGiven(Made, k, Made.members[n].value)
  BY <1>2, <1>3, GivenOnce
<1>5. Made.members[n].value = MadeValue(k)
  <2>1. Made.members[n] = [key |-> Str(Order(built.type)[n]), value |-> MadeValue(Order(built.type)[n])]
    BY <1>1, MadeInOrder DEF InOrderOf
  <2> QED BY <1>2, <2>1
<1> QED BY <1>4, <1>5

\* What becomes of the value of a key.
LEMMA MeaningField ==
  ASSUME NEW d, NEW k \in DOMAIN NewBlock(TypeOf(d)).fields, NEW v, OnceGiven(d, k, v)
  PROVE  Meaning(d).fields[k] = IF KindOf[TypeOf(d)][k] = "eid" THEN EidOf(v) ELSE v.val
<1>1. Given(d, k) = <<v>> /\ Len(<<v>>) = 1 /\ <<v>>[1] = v
  BY OneIs DEF OnceGiven
<1> HIDE DEF OnceGiven
<1>2. Given(d, k)[Len(Given(d, k))] = v
  BY <1>1
<1> QED BY <1>2 DEF Meaning

LEMMA MeaningList ==
  ASSUME NEW d, TypeOf(d) \in BlockTypes,
         NEW v, OnceGiven(d, IF TypeOf(d) = "primary" THEN "eids" ELSE "refs", v)
  PROVE  /\ Meaning(d).type = TypeOf(d)
         /\ IsSeq(Meaning(d).list) /\ Len(Meaning(d).list) = Len(v.elems)
         /\ \A n \in 1 .. Len(v.elems) :
              Meaning(d).list[n] = IF TypeOf(d) = "primary" THEN v.elems[n].val ELSE EidOf(v.elems[n])
<1> DEFINE l == v.elems
           m == Meaning(d).list
<1>1. /\ ListOf(d, IF TypeOf(d) = "primary" THEN "eids" ELSE "refs") = l
      /\ IsSeq(l) /\ DOMAIN l = 1 .. Len(l)
  BY DEF OnceGiven, IsSeq
<1>2. Meaning(d).type = TypeOf(d)
  BY DEF Meaning
<1>3. m = IF TypeOf(d) = "primary" THEN [n \in DOMAIN l |-> l[n].val] ELSE [n \in DOMAIN l |-> EidOf(l[n])]
  BY <1>1 DEF Meaning
<1> HIDE DEF l, m
<1>4. m = [n \in DOMAIN l |-> m[n]]
      /\ \A n \in 1 .. Len(l) : m[n] = IF TypeOf(d) = "primary" THEN l[n].val ELSE EidOf(l[n])
  BY <1>1, <1>3
<1>5. IsSeq(m) /\ Len(m) = Len(l)
  BY <1>1, <1>4, MappedSeq
<1> QED BY <1>2, <1>4, <1>5 DEF l, m

-----------------------------------------------------------------------------
(* What edits change *)

LEMMA EditKept ==
  ASSUME NEW M, CommandLines(M), PlainEdits, CmdTypes, CmdStage, pc = "written", AllLegible(doc)
  PROVE  EditStays
<1> DEFINE type == built.type
           by == Edited \cup (IF "ref-count" \in Edited THEN {"refs"} ELSE {})
           a == Meaning(doc)
           b == Meaning(wrote)
<1>1. Building /\ wrote = Made /\ type \in BlockTypes
  BY MkBundleAssumption DEF CmdTypes, Building
<1>2. Shaped(doc) /\ Plain(doc) /\ DocumentOf(M, doc)
  BY CmdJudged
<1>3. Shaped(wrote) /\ Plain(wrote) /\ DocumentOf(M, wrote)
  <2>1. EditOf(Made, Made)
    BY DEF EditOf
  <2>2. Shaped(Made)
    BY <1>1, <2>1, EditShaped
  <2>3. Plain(Made) /\ DocumentOf(M, Made)
    BY <1>1, <2>2, ShapedPlain, ShapedIn
  <2> QED BY <1>1, <2>2, <2>3
<1>4. TypeOf(doc) = type /\ TypeOf(wrote) = type
  BY <1>1, <1>2, <1>3, ShapedIn
<1>5. block = a /\ out = BlockOut(a) /\ block.type = type /\ a.type = type /\ b.type = type
  <2>1. block = a /\ out = BlockOut(a)
    BY DEF CmdStage
  <2>2. a.type = TypeOf(doc) /\ b.type = TypeOf(wrote)
    BY DEF Meaning
  <2> HIDE DEF a, b
  <2> QED BY <1>4, <2>1, <2>2
<1>6. Edited = {k \in Keys(type) : Given(doc, k) # Given(wrote, k)}
  BY <1>5 DEF Edited
<1>7. ASSUME NEW k \in Keys(type), k \notin Edited
      PROVE  \E v : OnceGiven(doc, k, v) /\ OnceGiven(wrote, k, v)
  <2>1. PICK v : OnceGiven(doc, k, v)
    BY <1>1, <1>2, KeysGiven
  <2>2. PICK w : OnceGiven(wrote, k, w)
    BY <1>1, <1>3, KeysGiven
  <2>3. Given(doc, k) = Given(wrote, k)
    BY <1>6, <1>7
  <2>4. <<v>> = <<w>>
    BY <2>1, <2>2, <2>3 DEF OnceGiven
  <2>5. v = w
    BY <2>4
  <2> QED BY <2>1, <2>2, <2>5
<1>8. DOMAIN NewBlock(type).fields \subseteq Keys(type)
  BY DEF NewBlock
<1>9. ASSUME NEW k \in DOMAIN NewBlock(type).fields, k \notin Edited
      PROVE  a.fields[k] = b.fields[k]
  <2>1. PICK v : OnceGiven(doc, k, v) /\ OnceGiven(wrote, k, v)
    BY <1>7, <1>8, <1>9
  <2>2. a.fields[k] = IF KindOf[type][k] = "eid" THEN EidOf(v) ELSE v.val
    BY <1>4, <2>1, MeaningField
  <2>3. b.fields[k] = IF KindOf[type][k] = "eid" THEN EidOf(v) ELSE v.val
    BY <1>4, <2>1, MeaningField
  <2> HIDE DEF a, b
  <2> QED BY <2>2, <2>3
<1> DEFINE list == IF type = "primary" THEN "eids" ELSE "refs"
<1>10. list \in Keys(type)
  BY <1>1 DEF BlockTypes, Keys, KindOf, PrimaryKinds, ExtKinds
<1>11. IsSeq(a.list) /\ IsSeq(b.list)
  <2>1. PICK v : OnceGiven(doc, list, v)
    BY <1>1, <1>2, <1>10, KeysGiven
  <2>2. PICK w : OnceGiven(wrote, list, w)
    BY <1>1, <1>3, <1>10, KeysGiven
  <2>3. IsSeq(a.list)
    BY <1>1, <1>4, <2>1, MeaningList
  <2>4. IsSeq(b.list)
    BY <1>1, <1>4, <2>2, MeaningList
  <2> QED BY <2>3, <2>4
<1>12. ASSUME list \notin Edited PROVE a.list = b.list
  <2>1. PICK v : OnceGiven(doc, list, v) /\ OnceGiven(wrote, list, v)
    BY <1>7, <1>10, <1>12
  <2>2. ListOf(doc, list) = v.elems /\ ListOf(wrote, list) = v.elems
    BY <2>1 DEF OnceGiven
  <2> QED BY <1>4, <2>2 DEF Meaning
<1>13. Rest(by, out) = Rest(by, BlockOut(b))
  <2> HIDE DEF a, b
  <2>1. Edited \subseteq by /\ ("ref-count" \in by => "refs" \in by)
    BY DEF by
  <2>2. CASE type = "primary"
    <3>1. DOMAIN NewBlock(type).fields = {"version"} \cup U32Keys \cup EidKeys /\ list = "eids"
      BY <2>2, PrimaryFieldTypes
    <3>2. \A k \in {"version"} \cup U32Keys \cup EidKeys : k \notin by => a.fields[k] = b.fields[k]
      BY <1>9, <2>1, <3>1
    <3>3. "eids" \notin by => a.list = b.list
      BY <1>12, <2>1, <3>1
    <3>4. BlockOut(a) = PrimaryOut(a) /\ BlockOut(b) = PrimaryOut(b)
      BY <1>5, <2>2 DEF BlockOut
    <3> HIDE DEF by
    <3> QED BY <1>5, <3>2, <3>3, <3>4, PrimaryRest
  <2>3. CASE type = "extension"
    <3>1. /\ DOMAIN NewBlock(type).fields = {"type", "flags", "payload-length", "ref-count"}
          /\ list = "refs"
      BY <2>3, ExtFieldTypes
    <3>2. \A k \in {"type", "flags", "payload-length", "ref-count"} :
            k \notin by => a.fields[k] = b.fields[k]
      BY <1>9, <2>1, <3>1
    <3>3. "refs" \notin by => a.list = b.list
      BY <1>12, <2>1, <3>1
    <3>4. BlockOut(a) = ExtOut(a) /\ BlockOut(b) = ExtOut(b)
      BY <1>5, <2>3 DEF BlockOut
    <3> HIDE DEF by
    <3> QED BY <1>5, <1>11, <2>1, <3>2, <3>3, <3>4, ExtRest
  <2> QED BY <1>1, <2>2, <2>3 DEF BlockTypes
<1>14. out = BlockOut(Meaning(doc))
  BY <1>5
<1> QED BY <1>13, <1>14 DEF EditStays, Rest

\* Whatever a user makes of the document, as long as compile takes it and no
\* string needs escaping, the block
\* that is written is the one it describes, and has what was not edited from the
\* block that was written as a document: no length and no offset is computed
\* again.
THEOREM EditsStay ==
  ASSUME NEW M, CommandLines(M), PlainEdits, SchemeFirst = {TRUE}
  PROVE  CmdSpec => []EditStays
<1>1. CmdTypes /\ CmdStage => EditStays
  <2>1. CASE pc = "written" /\ AllLegible(doc)
    BY <2>1, EditKept
  <2>2. CASE ~ (pc = "written" /\ AllLegible(doc))
    BY <2>2 DEF EditStays
  <2> QED BY <2>1, <2>2
<1> QED BY <1>1, CmdStageAlways, PTL

-----------------------------------------------------------------------------
(* What compile refuses *)

\* What a user puts in is what its key takes, and no more references than there
\* is room for.
FittingEdits ==
  \A e \in Edits, type \in Commands : \A k \in Keys(type) :
    e.key = Str(k) => /\ Fits(KindOf[type][k], e.value)
                      /\ k = "refs" => Len(e.value.elems) <= RefCap

LEMMA ShapedWellFormed ==
  ASSUME NEW M, CommandLines(M), PlainEdits, FittingEdits, Building, NEW d, Shaped(d),
         Len(Tokens(d)) <= MaxTokens
  PROVE  WellFormed(d)
<1> DEFINE type == built.type
           key(n) == Order(type)[n]
           val(n) == d.members[n].value
<1>1. type \in BlockTypes /\ type \in Commands
  BY MkBundleAssumption DEF Building
<1>2. Plain(d) /\ Len(d.head) = 2 /\ TypeOf(d) = type /\ d.head[1].type = "string"
  BY ShapedPlain, ShapedIn
<1>3. DOMAIN d.members = 1 .. Len(d.members) /\ Len(d.members) = Len(Order(type))
  BY DEF Shaped, IsSeq
<1>4. \A n \in 1 .. Len(Order(type)) : key(n) \in Keys(type)
  BY <1>1, OrderIs
<1>5. ASSUME NEW n \in 1 .. Len(d.members)
      PROVE  /\ d.members[n].key.type = "string" /\ d.members[n].key.val = key(n)
             /\ Fits(KindOf[type][key(n)], val(n))
             /\ key(n) = "refs" => Len(val(n).elems) <= RefCap
  <2> DEFINE k == key(n)
             v == val(n)
  <2>1. /\ k \in Keys(type) /\ d.members[n].key = Str(k)
        /\ v = MadeValue(k) \/ \E e \in Edits : e.key = Str(k) /\ v = e.value
    BY <1>3, <1>4 DEF Shaped
  <2>2. Str(k).type = "string" /\ Str(k).val = k
    BY DEF Str, Value
  <2> HIDE DEF k, v
  <2>3. CASE v = MadeValue(k)
    <3>1. Fits(KindOf[type][k], v)
      BY <2>1, <2>3, MadeValueFits
    <3>2. ASSUME k = "refs" PROVE Len(v.elems) <= RefCap
      <4>1. PICK es : ListIs("refs", es, built.list)
        BY <3>2, MadeListIs
      <4>2. MadeValue("refs") = Arr(es) /\ Len(es) = Len(built.list)
        BY <4>1 DEF ListIs
      <4>3. v.elems = es
        BY <2>3, <3>2, <4>2, ArrIs
      <4> QED BY <4>2, <4>3 DEF Building
    <3> QED BY <2>1, <2>2, <3>1, <3>2 DEF k, v
  <2>4. CASE \E e \in Edits : e.key = Str(k) /\ v = e.value
    <3>1. PICK e \in Edits : e.key = Str(k) /\ v = e.value
      BY <2>4
    <3>2. Fits(KindOf[type][k], v) /\ (k = "refs" => Len(v.elems) <= RefCap)
      <4> HIDE DEF type
      <4> QED BY <1>1, <2>1, <3>1 DEF FittingEdits
    <3> QED BY <2>1, <2>2, <3>2 DEF k, v
  <2> QED BY <2>1, <2>3, <2>4
<1>6. \A k \in Keys(type) : Given(d, k) # << >>
  <2> TAKE k \in Keys(type)
  <2>1. PICK v : OnceGiven(d, k, v)
    BY <1>2, KeysGiven
  <2> QED BY <2>1 DEF OnceGiven
<1>7. ASSUME type = "extension" PROVE Len(ListOf(d, "refs")) <= RefCap
  <2>1. "refs" \in Keys(type)
    BY <1>7 DEF Keys, KindOf, ExtKinds
  <2>2. PICK n \in 1 .. Len(Order(type)) : key(n) = "refs"
    BY <1>1, <2>1, OrderIs
  <2>3. OnceGiven(d, "refs", val(n))
    BY <1>2, <1>3, <2>2, GivenOnce
  <2>4. Len(val(n).elems) <= RefCap
    BY <1>3, <1>5, <2>2
  <2> HIDE DEF val
  <2> QED BY <2>3, <2>4 DEF OnceGiven
<1> HIDE DEF type, key, val
<1>8. \A n \in DOMAIN d.members :
         /\ d.members[n].key.type = "string" /\ d.members[n].key.val \in Keys(type)
         /\ Fits(KindOf[type][d.members[n].key.val], d.members[n].value)
  BY <1>3, <1>4, <1>5 DEF val
<1> QED BY <1>1, <1>2, <1>6, <1>7, <1>8 DEF WellFormed

\* Whatever the options and their strings, compile refuses no document of the
\* other commands, edited or not, whose strings need no escaping and whose tokens
\* fit; and of those whose strings need none it compiles none that does not fit.
\* That it ends is model-checked.
THEOREM JudgedRightly ==
  ASSUME NEW M, CommandLines(M), PlainEdits, FittingEdits, SchemeFirst = {TRUE}
  PROVE  CmdSpec => []Judgement
<1>1. CmdTypes /\ CmdStage => Judgement
  <2> SUFFICES ASSUME CmdTypes, CmdStage PROVE Judgement
    OBVIOUS
  <2>1. ASSUME pc = "rejected", Compilable(doc) PROVE FALSE
    <3>1. Building /\ EditOf(doc, Made)
      BY <2>1 DEF CmdTypes
    <3>2. Shaped(doc)
      BY <3>1, EditShaped
    <3>3. AllLegible(doc) /\ Len(Tokens(doc)) <= MaxTokens
      BY <2>1 DEF Compilable
    <3>4. WellFormed(doc)
      BY <3>1, <3>2, <3>3, ShapedWellFormed
    <3>5. ~ WellFormed(doc)
      BY <2>1, <3>3 DEF CmdStage, Stage, AtMember, AtElem, ListKey, Doomed, Failing
    <3> QED BY <3>4, <3>5
  <2>2. ASSUME pc = "written", AllLegible(doc) PROVE Compilable(doc)
    BY <2>2 DEF CmdStage, WellFormed, Compilable
  <2> QED BY <2>1, <2>2 DEF Judgement
<1> QED BY <1>1, CmdStageAlways, PTL

-----------------------------------------------------------------------------
(* What the document that was written describes *)

LEMMA MadeReadable ==
  ASSUME NEW M, CommandLines(M), PlainEdits, Building
  PROVE  Shaped(Made) /\ Plain(Made) /\ TypeOf(Made) = built.type /\ built.type \in BlockTypes
<1>1. EditOf(Made, Made)
  BY DEF EditOf
<1>2. Shaped(Made)
  BY <1>1, EditShaped
<1>3. Plain(Made) /\ TypeOf(Made) = built.type
  BY <1>2, ShapedPlain, ShapedIn
<1> QED BY <1>2, <1>3, MkBundleAssumption DEF Building

LEMMA MadeFields ==
  ASSUME NEW M, CommandLines(M), PlainEdits, Building, NEW k \in DOMAIN built.fields
  PROVE  Meaning(Made).fields[k] = MadeField(k)
<1>1. Shaped(Made) /\ Plain(Made) /\ TypeOf(Made) = built.type
  BY MadeReadable
<1>2. /\ MadeField(k) \in FieldType(built.type, k) /\ k \in Keys(built.type)
      /\ KindOf[built.type][k] \in {"u8", "u32", "eid"}
      /\ MadeValue(k) = IF KindOf[built.type][k] = "eid" THEN EidArr(MadeField(k)) ELSE Num(MadeField(k))
  BY MadeFieldIs
<1>3. k \in DOMAIN NewBlock(built.type).fields
  BY DEF Building, GoodFields
<1>4. OnceGiven(Made, k, MadeValue(k))
  BY <1>1, <1>2, MadeGiven
<1>5. Meaning(Made).fields[k]
        = IF KindOf[built.type][k] = "eid" THEN EidOf(MadeValue(k)) ELSE MadeValue(k).val
  BY <1>1, <1>3, <1>4, MeaningField
<1>6. CASE KindOf[built.type][k] = "eid"
  <2>1. MadeField(k) \in EidRecords
    BY <1>2, <1>6 DEF FieldType
  <2>2. EidOf(EidArr(MadeField(k))) = MadeField(k)
    BY <2>1, EidArrIs
  <2> QED BY <1>2, <1>5, <1>6, <2>2
<1>7. CASE KindOf[built.type][k] # "eid"
  <2>1. MadeValue(k) = Num(MadeField(k))
    BY <1>2, <1>7
  <2>2. Num(MadeField(k)).val = MadeField(k)
    BY DEF Num, Value
  <2> QED BY <1>5, <1>7, <2>1, <2>2
<1> QED BY <1>6, <1>7

LEMMA MadeLists ==
  ASSUME NEW M, CommandLines(M), PlainEdits, Building
  PROVE  /\ Meaning(Made).type = built.type
         /\ Meaning(Made).list = IF built.type = "primary" THEN StringsOf(dict) ELSE built.list
<1> DEFINE type == built.type
           k == IF type = "primary" THEN "eids" ELSE "refs"
           items == IF type = "primary" THEN StringsOf(dict) ELSE built.list
           m == Meaning(Made)
<1>1. Shaped(Made) /\ Plain(Made) /\ TypeOf(Made) = type /\ type \in BlockTypes
  BY MadeReadable
<1>2. k \in Keys(type)
  BY <1>1 DEF BlockTypes, Keys, KindOf, PrimaryKinds, ExtKinds
<1>3. OnceGiven(Made, k, MadeValue(k))
  BY <1>1, <1>2, MadeGiven
<1>4. PICK es : ListIs(k, es, items)
  BY <1>1, MadeListIs DEF BlockTypes
<1>5. /\ MadeValue(k) = Arr(es) /\ Len(es) = Len(items) /\ IsSeq(items)
      /\ \A n \in 1 .. Len(items) : es[n] = IF k = "eids" THEN Str(items[n]) ELSE EidArr(items[n])
  BY <1>4 DEF ListIs
<1>6. Arr(es).elems = es
  BY ArrIs
<1> HIDE DEF m
<1>7. /\ m.type = type /\ IsSeq(m.list) /\ Len(m.list) = Len(es)
      /\ \A n \in 1 .. Len(es) : m.list[n] = IF type = "primary" THEN es[n].val ELSE EidOf(es[n])
  <2> DEFINE v == MadeValue(k)
  <2>1. v.elems = es
    BY <1>5, <1>6
  <2>2. OnceGiven(Made, IF TypeOf(Made) = "primary" THEN "eids" ELSE "refs", v)
    BY <1>1, <1>3
  <2> HIDE DEF v, k
  <2>3. /\ m.type = TypeOf(Made) /\ IsSeq(m.list) /\ Len(m.list) = Len(v.elems)
        /\ \A n \in 1 .. Len(v.elems) :
             m.list[n] = IF TypeOf(Made) = "primary" THEN v.elems[n].val ELSE EidOf(v.elems[n])
    BY <1>1, <2>2, MeaningList DEF m
  <2> QED BY <1>1, <2>1, <2>3
<1>8. ASSUME NEW n \in 1 .. Len(items) PROVE m.list[n] = items[n]
  <2>1. CASE type = "primary"
    <3>1. es[n] = Str(items[n])
      BY <1>5, <2>1
    <3>2. Str(items[n]).val = items[n]
      BY DEF Str, Value
    <3> HIDE DEF items
    <3> QED BY <1>5, <1>7, <2>1, <3>1, <3>2
  <2>2. CASE type # "primary"
    <3>1. es[n] = EidArr(items[n])
      BY <1>5, <2>2
    <3>2. items[n] \in EidRecords
      BY <2>2 DEF Building
    <3>3. EidOf(EidArr(items[n])) = items[n]
      BY <3>2, EidArrIs
    <3> HIDE DEF items
    <3> QED BY <1>5, <1>7, <2>2, <3>1, <3>3
  <2> QED BY <2>1, <2>2
<1>9. m.list = items
  <2> HIDE DEF items
  <2>1. /\ m.list = [n \in 1 .. Len(m.list) |-> m.list[n]] /\ items = [n \in 1 .. Len(items) |-> items[n]]
        /\ Len(m.list) = Len(items)
    BY <1>5, <1>7 DEF IsSeq
  <2> QED BY <1>8, <2>1
<1> QED BY <1>7, <1>9 DEF m

\* The strings that are written make the dictionary they came from.
LEMMA MadeDictionary ==
  ASSUME Building
  PROVE  /\ Dictionary(StringsOf(dict)).pos = dict.pos
         /\ DOMAIN Dictionary(StringsOf(dict)).held = DOMAIN dict.held
         /\ \A o \in DOMAIN dict.held : Dictionary(StringsOf(dict)).held[o] = dict.held[o]
<1>1. PICK l, at : Laid(dict, l, at)
  BY DEF Building, DictOK
<1>2. StringsOf(dict) = l /\ Laid(Dictionary(l), l, at)
  BY <1>1, StringsFound, DictionaryLaid
<1> DEFINE d == Dictionary(l)
<1> HIDE DEF d
<1>3. /\ d.pos = at[Len(l)] /\ DOMAIN d.held = {at[n - 1] : n \in 1 .. Len(l)}
      /\ \A n \in 1 .. Len(l) : d.held[at[n - 1]] = l[n]
  BY <1>2 DEF Laid, d
<1>4. /\ dict.pos = at[Len(l)] /\ DOMAIN dict.held = {at[n - 1] : n \in 1 .. Len(l)}
      /\ \A n \in 1 .. Len(l) : dict.held[at[n - 1]] = l[n]
  BY <1>1 DEF Laid
<1>5. d.pos = dict.pos /\ DOMAIN d.held = DOMAIN dict.held
      /\ \A o \in DOMAIN dict.held : d.held[o] = dict.held[o]
  BY <1>3, <1>4
<1> QED BY <1>2, <1>5 DEF d

-----------------------------------------------------------------------------
(* Lengths *)

LEMMA SdnvLenIs ==
  ASSUME NEW n \in U32
  PROVE  SdnvLen(n) \in Nat
<1>1. CASE n = {}
  BY <1>1 DEF SdnvLen
<1>2. CASE n # {}
  <2> DEFINE T == {31 - b : b \in n}
  <2>1. \A b \in n : b \in 0 .. 31
    BY DEF U32
  <2>2. T \in SUBSET Nat /\ T # {}
    BY <1>2, <2>1
  <2>3. PICK m \in T : \A x \in T : m <= x
    <3> HIDE DEF T
    <3> QED BY <2>2, LeastNumber
  <2>4. PICK x \in n : m = 31 - x
    BY <2>3
  <2>5. \A y \in n : x >= y
    <3> TAKE y \in n
    <3>1. m <= 31 - y /\ y \in 0 .. 31 /\ x \in 0 .. 31
      BY <2>1, <2>3
    <3> QED BY <2>4, <3>1
  <2>6. Max(n) \in n
    BY <2>5 DEF Max
  <2>7. Max(n) \in Nat
    BY <2>1, <2>6
  <2> QED BY <1>2, <2>7 DEF SdnvLen
<1> QED BY <1>1, <1>2

\* The sums of the first lengths of a sequence.
Sums(lens, f) ==
  /\ f[0] = 0 /\ f[Len(lens)] = Total(lens)
  /\ \A n \in 1 .. Len(lens) : f[n] = f[n - 1] + lens[n]
  /\ \A n \in 0 .. Len(lens) : f[n] \in Nat

SumsUp(lens, f) ==
  f = [n \in 0 .. Len(lens) |-> IF n = 0 THEN 0 ELSE f[n - 1] + lens[n]]

Lengths(lens) == IsSeq(lens) /\ \A n \in 1 .. Len(lens) : lens[n] \in Nat

LEMMA TotalSteps ==
  ASSUME NEW lens, Lengths(lens)
  PROVE  \E f : Sums(lens, f)
<1> DEFINE N == Len(lens)
           step == [n \in 1 .. N |-> [x \in Nat |-> x + lens[n]]]
<1>1. N \in Nat /\ \A n \in 1 .. N : lens[n] \in Nat
  BY DEF Lengths, IsSeq
<1>2. step \in [1 .. N -> [Nat -> Nat]] /\ 0 \in Nat
  BY <1>1
<1>3. PICK f : Repeats(f, N, Nat, 0, step)
  <2> HIDE DEF N, step
  <2> QED BY <1>1, <1>2, Repeated
<1>4. f \in [0 .. N -> Nat] /\ f[0] = 0 /\ \A n \in 1 .. N : f[n] = step[n][f[n - 1]]
  BY <1>3 DEF Repeats
<1>5. \A n \in 1 .. N : f[n] = f[n - 1] + lens[n]
  <2> TAKE n \in 1 .. N
  <2>1. n - 1 \in 0 .. N /\ f[n - 1] \in Nat
    BY <1>1, <1>4
  <2>2. step[n][f[n - 1]] = f[n - 1] + lens[n]
    BY <2>1
  <2> QED BY <1>4, <2>2
<1>6. SumsUp(lens, f)
  <2>1. ASSUME NEW n \in 0 .. N PROVE f[n] = IF n = 0 THEN 0 ELSE f[n - 1] + lens[n]
    BY <1>1, <1>4, <1>5
  <2>2. f = [n \in 0 .. N |-> f[n]]
    BY <1>4
  <2> QED BY <2>1, <2>2 DEF SumsUp
<1> DEFINE sum == CHOOSE g : SumsUp(lens, g)
<1>7. SumsUp(lens, sum)
  BY <1>6
<1>8. Total(lens) = sum[N]
  BY DEF Total, SumsUp
<1> HIDE DEF sum
<1>9. /\ sum[0] = 0
      /\ \A n \in 1 .. N : sum[n] = sum[n - 1] + lens[n]
  <2>1. \A n \in 0 .. N : sum[n] = IF n = 0 THEN 0 ELSE sum[n - 1] + lens[n]
    BY <1>7 DEF SumsUp
  <2> QED BY <1>1, <2>1
<1> DEFINE S == {n \in 0 .. N : sum[n] \in Nat}
<1>10. 0 .. N \subseteq S
  <2>1. 0 \in S
    BY <1>1, <1>9
  <2>2. ASSUME NEW n \in 0 .. N - 1, n \in S PROVE n + 1 \in S
    <3>1. n + 1 \in 1 .. N /\ n + 1 \in 0 .. N /\ (n + 1) - 1 = n
      BY <1>1
    <3>2. sum[n + 1] = sum[n] + lens[n + 1] /\ sum[n] \in Nat /\ lens[n + 1] \in Nat
      BY <1>1, <1>9, <2>2, <3>1
    <3> QED BY <3>1, <3>2
  <2> HIDE DEF S, N
  <2> QED BY <1>1, <2>1, <2>2, UpTo
<1>11. Sums(lens, sum)
  BY <1>8, <1>9, <1>10 DEF Sums
<1> QED BY <1>11

LEMMA TotalAppended ==
  ASSUME NEW lens, Lengths(lens), NEW x \in Nat, NEW all, Lengths(all),
         Len(all) = Len(lens) + 1, all[Len(all)] = x,
         \A n \in 1 .. Len(lens) : all[n] = lens[n]
  PROVE  Total(all) = Total(lens) + x
<1> DEFINE N == Len(lens)
<1>1. N \in Nat
  BY DEF Lengths, IsSeq
<1>2. PICK f : Sums(lens, f)
  BY TotalSteps
<1>3. PICK g : Sums(all, g)
  BY TotalSteps
<1>4. /\ f[0] = 0 /\ f[N] = Total(lens) /\ \A n \in 1 .. N : f[n] = f[n - 1] + lens[n]
      /\ g[0] = 0 /\ g[N + 1] = Total(all) /\ \A n \in 1 .. N + 1 : g[n] = g[n - 1] + all[n]
  BY <1>2, <1>3 DEF Sums
<1> DEFINE S == {n \in 0 .. N : f[n] = g[n]}
<1>5. 0 \in S
  BY <1>1, <1>4
<1>6. ASSUME NEW n \in 0 .. N - 1, n \in S PROVE n + 1 \in S
  <2>1. n + 1 \in 1 .. N /\ n + 1 \in 1 .. N + 1 /\ n + 1 \in 0 .. N /\ (n + 1) - 1 = n
    BY <1>1
  <2>2. f[n + 1] = f[n] + lens[n + 1] /\ g[n + 1] = g[n] + all[n + 1] /\ f[n] = g[n]
    BY <1>4, <1>6, <2>1
  <2>3. all[n + 1] = lens[n + 1]
    BY <2>1
  <2>4. f[n + 1] = g[n + 1]
    BY <2>2, <2>3
  <2> QED BY <2>1, <2>4
<1>7. N \in S
  <2>1. N \in 0 .. N
    BY <1>1
  <2> HIDE DEF S, N
  <2> QED BY <1>1, <1>5, <1>6, <2>1, UpTo
<1>8. N + 1 \in 1 .. N + 1 /\ (N + 1) - 1 = N
  BY <1>1
<1>9. g[N + 1] = g[N] + all[N + 1]
  BY <1>4, <1>8
<1> QED BY <1>4, <1>7, <1>9

\* Items, and the numbers whose SDNVs they are.
Itemized(items, ns) ==
  /\ IsSeq(items) /\ IsSeq(ns) /\ Len(items) = Len(ns)
  /\ \A n \in 1 .. Len(ns) : items[n].len = SdnvLen(ns[n]) /\ ns[n] \in U32

LEMMA ItemizedBoth ==
  ASSUME NEW s, NEW m, NEW t, NEW n, Itemized(s, m), Itemized(t, n)
  PROVE  Itemized(s \o t, m \o n)
<1>1. /\ IsSeq(s) /\ IsSeq(t) /\ IsSeq(m) /\ IsSeq(n) /\ Len(s) = Len(m) /\ Len(t) = Len(n)
      /\ \A i \in 1 .. Len(m) : s[i].len = SdnvLen(m[i]) /\ m[i] \in U32
      /\ \A i \in 1 .. Len(n) : t[i].len = SdnvLen(n[i]) /\ n[i] \in U32
  BY DEF Itemized
<1> DEFINE u == s \o t
           o == m \o n
<1>2. /\ IsSeq(u) /\ Len(u) = Len(s) + Len(t)
      /\ \A i \in 1 .. Len(s) : u[i] = s[i]
      /\ \A i \in 1 .. Len(t) : u[Len(s) + i] = t[i]
  <2>1. IsSeq(s) /\ IsSeq(t)
    BY <1>1
  <2> QED BY <2>1, ConcatIs
<1>3. /\ IsSeq(o) /\ Len(o) = Len(m) + Len(n)
      /\ \A i \in 1 .. Len(m) : o[i] = m[i]
      /\ \A i \in 1 .. Len(n) : o[Len(m) + i] = n[i]
  <2>1. IsSeq(m) /\ IsSeq(n)
    BY <1>1
  <2> QED BY <2>1, ConcatIs
<1>4. Len(m) \in Nat /\ Len(n) \in Nat
  BY <1>1 DEF IsSeq
<1> HIDE DEF u, o
<1>5. ASSUME NEW i \in 1 .. Len(o) PROVE u[i].len = SdnvLen(o[i]) /\ o[i] \in U32
  <2>1. i \in 1 .. Len(m) \/ (i - Len(m) \in 1 .. Len(n) /\ i = Len(m) + (i - Len(m)))
    BY <1>3, <1>4
  <2>2. CASE i \in 1 .. Len(m)
    BY <1>1, <1>2, <1>3, <2>2
  <2>3. CASE i - Len(m) \in 1 .. Len(n) /\ i = Len(m) + (i - Len(m))
    <3>1. u[i] = t[i - Len(m)] /\ o[i] = n[i - Len(m)]
      BY <1>1, <1>2, <1>3, <2>3
    <3> QED BY <1>1, <2>3, <3>1
  <2> QED BY <2>1, <2>2, <2>3
<1>6. Len(u) = Len(o)
  BY <1>1, <1>2, <1>3
<1>7. Itemized(u, o)
  BY <1>2, <1>3, <1>5, <1>6 DEF Itemized
<1> QED BY <1>7 DEF u, o

LEMMA ItemizedOne ==
  ASSUME NEW k, NEW n \in U32
  PROVE  Itemized(<<Item(k, n)>>, <<n>>)
<1> DEFINE s == <<Item(k, n)>>
           t == <<n>>
<1>1. IsSeq(s) /\ Len(s) = 1 /\ s[1] = Item(k, n) /\ IsSeq(t) /\ Len(t) = 1 /\ t[1] = n
  BY OneIs
<1>2. Item(k, n).len = SdnvLen(n)
  BY DEF Item
<1> HIDE DEF s, t
<1>3. \A i \in 1 .. Len(t) : i = 1
  BY <1>1
<1>4. Itemized(s, t)
  BY <1>1, <1>2, <1>3 DEF Itemized
<1> QED BY <1>4 DEF s, t

LEMMA ItemizedEid ==
  ASSUME NEW k, NEW e \in EidRecords
  PROVE  Itemized(EidItems(k, e), Parts(e))
<1>1. e.scheme \in U32 /\ e.ssp \in U32
  BY DEF EidRecords
<1>2. Itemized(<<Item(k, e.scheme)>>, <<e.scheme>>) /\ Itemized(<<Item(k, e.ssp)>>, <<e.ssp>>)
  BY <1>1, ItemizedOne
<1>3. /\ EidItems(k, e) = <<Item(k, e.scheme)>> \o <<Item(k, e.ssp)>>
      /\ Parts(e) = <<e.scheme>> \o <<e.ssp>>
  BY TwoIs DEF EidItems, Parts
<1> QED BY <1>2, <1>3, ItemizedBoth

LEMMA FourIs ==
  ASSUME NEW a, NEW b, NEW c, NEW d
  PROVE  <<a, b, c, d>> = <<a, b>> \o <<c, d>> /\ IsSeq(<<a, b, c, d>>)
<1> DEFINE s == <<a, b>>
           t == <<c, d>>
           u == <<a, b, c, d>>
<1>1. u \in Seq({a, b, c, d}) /\ Len(u) = 4 /\ u[1] = a /\ u[2] = b /\ u[3] = c /\ u[4] = d
  OBVIOUS
<1>2. IsSeq(s) /\ Len(s) = 2 /\ s[1] = a /\ s[2] = b /\ IsSeq(t) /\ Len(t) = 2 /\ t[1] = c /\ t[2] = d
  BY TwoIs
<1> HIDE DEF s, t, u
<1>3. IsSeq(u)
  BY <1>1, SeqIs
<1>4. /\ IsSeq(s \o t) /\ Len(s \o t) = Len(s) + Len(t)
      /\ \A i \in 1 .. Len(s) : (s \o t)[i] = s[i]
      /\ \A i \in 1 .. Len(t) : (s \o t)[Len(s) + i] = t[i]
  <2>1. IsSeq(s) /\ IsSeq(t)
    BY <1>2
  <2> QED BY <2>1, ConcatIs
<1>5. /\ Len(s \o t) = 2 + 2 /\ \A i \in 1 .. 2 : (s \o t)[i] = s[i]
      /\ \A i \in 1 .. 2 : (s \o t)[2 + i] = t[i]
  BY <1>2, <1>4
<1>6. 1 \in 1 .. 2 /\ 2 \in 1 .. 2 /\ 2 + 1 = 3 /\ 2 + 2 = 4
  OBVIOUS
<1>7. Len(s \o t) = 4 /\ \A i \in {1, 2, 3, 4} : (s \o t)[i] = u[i]
  BY <1>1, <1>2, <1>5, <1>6
<1>8. 1 .. 4 = {1, 2, 3, 4}
  OBVIOUS
<1>9. u = [i \in {1, 2, 3, 4} |-> u[i]] /\ s \o t = [i \in {1, 2, 3, 4} |-> (s \o t)[i]]
  BY <1>1, <1>3, <1>4, <1>7, <1>8 DEF IsSeq
<1>10. u = s \o t
  BY <1>7, <1>9
<1> QED BY <1>3, <1>10 DEF s, t, u

\* The numbers calc_length adds up, and what comes behind the length.
CountedNumbers(f) ==
  Eids(f) \o <<f["creation-ts"], f["creation-seq"], f["lifetime"], f["eids-size"]>>
LengthsOf(ns) == [n \in DOMAIN ns |-> SdnvLen(ns[n])]
Behind3(items) == [x \in 1 .. Len(items) - 3 |-> items[3 + x].len]

LEMMA CountedIs ==
  ASSUME NEW f
  PROVE  CountedNumbers(f) = (((Eids(f) \o <<f["creation-ts"]>>) \o <<f["creation-seq"]>>)
                                \o <<f["lifetime"]>>) \o <<f["eids-size"]>>
<1> DEFINE e == Eids(f)
           a == f["creation-ts"]
           b == f["creation-seq"]
           c == f["lifetime"]
           d == f["eids-size"]
<1>1. IsSeq(e)
  <2>1. \A k \in EidKeys : IsSeq(Parts(f[k]))
    BY TwoIs DEF Parts
  <2>2. IsSeq(Parts(f["dest"]) \o Parts(f["src"]))
    BY <2>1, ConcatIs DEF EidKeys
  <2>3. IsSeq((Parts(f["dest"]) \o Parts(f["src"])) \o Parts(f["report-to"]))
    BY <2>1, <2>2, ConcatIs DEF EidKeys
  <2> QED BY <2>1, <2>3, ConcatIs DEF Eids, EidKeys
<1>2. CountedNumbers(f) = e \o <<a, b, c, d>>
  BY DEF CountedNumbers
<1> HIDE DEF e, a, b, c, d
<1>3. /\ <<a, b, c, d>> = <<a, b>> \o <<c, d>>
      /\ <<a, b>> = <<a>> \o <<b>> /\ <<c, d>> = <<c>> \o <<d>>
      /\ IsSeq(<<a, b>>) /\ IsSeq(<<c, d>>)
  <2>1. <<a, b, c, d>> = <<a, b>> \o <<c, d>>
    BY FourIs
  <2>2. <<a, b>> = <<a>> \o <<b>> /\ IsSeq(<<a, b>>)
    BY TwoIs
  <2>3. <<c, d>> = <<c>> \o <<d>> /\ IsSeq(<<c, d>>)
    BY TwoIs
  <2> QED BY <2>1, <2>2, <2>3
<1>4. IsSeq(<<a>>) /\ IsSeq(<<b>>) /\ IsSeq(<<c>>) /\ IsSeq(<<d>>)
  BY OneIs
<1>5. Associate(e, <<a, b>>, <<c, d>>) /\ Associate(e, <<a>>, <<b>>)
  BY <1>1, <1>3, <1>4, ConcatAssoc
<1>6. e \o <<a, b, c, d>> = ((e \o <<a>>) \o <<b>>) \o <<c, d>>
  BY <1>3, <1>5 DEF Associate
<1> DEFINE g == (e \o <<a>>) \o <<b>>
<1>7. IsSeq(g)
  <2>1. IsSeq(e \o <<a>>)
    BY <1>1, <1>4, ConcatIs
  <2> QED BY <1>4, <2>1, ConcatIs
<1> HIDE DEF g
<1>8. Associate(g, <<c>>, <<d>>)
  BY <1>4, <1>7, ConcatAssoc
<1>9. g \o <<c, d>> = (g \o <<c>>) \o <<d>>
  BY <1>3, <1>8 DEF Associate
<1> QED BY <1>2, <1>6, <1>9 DEF g, e, a, b, c, d

\* Before the length are the version, of a byte, and the flags; behind it the
\* numbers, and the dictionary.
LEMMA PrimaryLengths ==
  ASSUME NEW b, NEW f, f = b.fields, \A k \in EidKeys : f[k] \in EidRecords,
         \A k \in U32Keys : f[k] \in U32, Dictionary(b.list).pos \in Nat
  PROVE  LET items == PrimaryOut(b)
         IN  /\ Len(items) \in Nat /\ 3 \in 1 .. Len(items) /\ DOMAIN items = 1 .. Len(items)
             /\ items[3].name = "length" /\ items[3].val = f["length"]
             /\ Total(Behind3(items)) = Total(LengthsOf(CountedNumbers(f))) + Dictionary(b.list).pos
<1> DEFINE p1 == <<Byte("version", f["version"])>>
           p2 == <<Item("flags", f["flags"])>>
           p3 == <<Item("length", f["length"])>>
           p4 == EidItems("dest", f["dest"])
           p5 == EidItems("src", f["src"])
           p6 == EidItems("report-to", f["report-to"])
           p7 == EidItems("custodian", f["custodian"])
           p8 == <<Item("creation-ts", f["creation-ts"])>>
           p9 == <<Item("creation-seq", f["creation-seq"])>>
           p10 == <<Item("lifetime", f["lifetime"])>>
           p11 == <<Item("eids-size", f["eids-size"])>>
           p12 == <<[name |-> "eids", val |-> b.list, len |-> Dictionary(b.list).pos]>>
           head == (p1 \o p2) \o p3
           t4 == p4
           t5 == t4 \o p5
           t6 == t5 \o p6
           t7 == t6 \o p7
           t8 == t7 \o p8
           t9 == t8 \o p9
           t10 == t9 \o p10
           t11 == t10 \o p11
           t12 == t11 \o p12
           s4 == head \o p4
           s5 == s4 \o p5
           s6 == s5 \o p6
           s7 == s6 \o p7
           s8 == s7 \o p8
           s9 == s8 \o p9
           s10 == s9 \o p10
           s11 == s10 \o p11
           s12 == s11 \o p12
           n4 == Parts(f["dest"])
           n5 == n4 \o Parts(f["src"])
           n6 == n5 \o Parts(f["report-to"])
           n7 == n6 \o Parts(f["custodian"])
           n8 == n7 \o <<f["creation-ts"]>>
           n9 == n8 \o <<f["creation-seq"]>>
           n10 == n9 \o <<f["lifetime"]>>
           n11 == n10 \o <<f["eids-size"]>>
<1>1. PrimaryOut(b) = s12
  BY DEF PrimaryOut
<1>2. CountedNumbers(f) = n11
  BY CountedIs DEF Eids
<1>3. /\ Itemized(p4, Parts(f["dest"]))
      /\ Itemized(p5, Parts(f["src"]))
      /\ Itemized(p6, Parts(f["report-to"]))
      /\ Itemized(p7, Parts(f["custodian"]))
      /\ Itemized(p8, <<f["creation-ts"]>>)
      /\ Itemized(p9, <<f["creation-seq"]>>)
      /\ Itemized(p10, <<f["lifetime"]>>)
      /\ Itemized(p11, <<f["eids-size"]>>)
  <2>1. Itemized(p4, Parts(f["dest"]))
    BY ItemizedEid DEF EidKeys
  <2>2. Itemized(p5, Parts(f["src"]))
    BY ItemizedEid DEF EidKeys
  <2>3. Itemized(p6, Parts(f["report-to"]))
    BY ItemizedEid DEF EidKeys
  <2>4. Itemized(p7, Parts(f["custodian"]))
    BY ItemizedEid DEF EidKeys
  <2>5. Itemized(p8, <<f["creation-ts"]>>)
    BY ItemizedOne DEF U32Keys
  <2>6. Itemized(p9, <<f["creation-seq"]>>)
    BY ItemizedOne DEF U32Keys
  <2>7. Itemized(p10, <<f["lifetime"]>>)
    BY ItemizedOne DEF U32Keys
  <2>8. Itemized(p11, <<f["eids-size"]>>)
    BY ItemizedOne DEF U32Keys
  <2> HIDE DEF p4, p5, p6, p7, p8, p9, p10, p11
  <2> QED BY <2>1, <2>2, <2>3, <2>4, <2>5, <2>6, <2>7, <2>8
<1>4. IsSeq(head) /\ Len(head) = 3 /\ head[3].name = "length" /\ head[3].val = f["length"]
  <2> DEFINE x == Byte("version", f["version"])
             y == Item("flags", f["flags"])
             z == Item("length", f["length"])
             two == <<x>> \o <<y>>
  <2>1. head = two \o <<z>> /\ z.name = "length" /\ z.val = f["length"]
    BY DEF Item
  <2> HIDE DEF x, y, z, head
  <2>2. two = <<x, y>> /\ IsSeq(<<x, y>>) /\ Len(<<x, y>>) = 2
    BY TwoIs
  <2>3. IsSeq(<<z>>) /\ Len(<<z>>) = 1 /\ <<z>>[1] = z
    BY OneIs
  <2>4. IsSeq(two) /\ Len(two) = 2
    BY <2>2
  <2> HIDE DEF two
  <2>5. /\ IsSeq(two \o <<z>>) /\ Len(two \o <<z>>) = Len(two) + Len(<<z>>)
        /\ \A i \in 1 .. Len(<<z>>) : (two \o <<z>>)[Len(two) + i] = <<z>>[i]
    <3>1. IsSeq(two) /\ IsSeq(<<z>>)
      BY <2>3, <2>4
    <3> QED BY <3>1, ConcatIs
  <2>6. 1 \in 1 .. Len(<<z>>) /\ 2 + 1 = 3
    BY <2>3
  <2>7. Len(two \o <<z>>) = 3 /\ (two \o <<z>>)[3] = z
    BY <2>3, <2>4, <2>5, <2>6
  <2> QED BY <2>1, <2>5, <2>7
<1> DEFINE x == [name |-> "eids", val |-> b.list, len |-> Dictionary(b.list).pos]
           ns == CountedNumbers(f)
           N == Len(ns)
<1>5. p12 = <<x>> /\ x.len = Dictionary(b.list).pos
  OBVIOUS
<1> HIDE DEF head, x, ns, p1, p2, p3, p4, p5, p6, p7, p8, p9, p10, p11, p12
<1>6. IsSeq(p12) /\ IsSeq(p4) /\ IsSeq(p5) /\ IsSeq(p6) /\ IsSeq(p7) /\ IsSeq(p8) /\ IsSeq(p9) /\ IsSeq(p10) /\ IsSeq(p11)
  BY <1>3, <1>5, OneIs DEF Itemized
<1>7. Itemized(t4, n4)
  BY <1>3
<1>8. IsSeq(t4) /\ s4 = head \o t4
  BY <1>6
<1> HIDE DEF t4, n4, s4
<1>9. Itemized(t5, n5)
  BY <1>3, <1>7, ItemizedBoth
<1>10. IsSeq(t5) /\ s5 = head \o t5
  <2>1. IsSeq(head) /\ IsSeq(t4) /\ IsSeq(p5)
    BY <1>4, <1>6, <1>8
  <2>2. Associate(head, t4, p5) /\ IsSeq(t4 \o p5)
    BY <2>1, ConcatAssoc, ConcatIs
  <2> QED BY <1>8, <2>2 DEF Associate
<1> HIDE DEF t5, n5, s5
<1>11. Itemized(t6, n6)
  BY <1>3, <1>9, ItemizedBoth
<1>12. IsSeq(t6) /\ s6 = head \o t6
  <2>1. IsSeq(head) /\ IsSeq(t5) /\ IsSeq(p6)
    BY <1>4, <1>6, <1>10
  <2>2. Associate(head, t5, p6) /\ IsSeq(t5 \o p6)
    BY <2>1, ConcatAssoc, ConcatIs
  <2> QED BY <1>10, <2>2 DEF Associate
<1> HIDE DEF t6, n6, s6
<1>13. Itemized(t7, n7)
  BY <1>3, <1>11, ItemizedBoth
<1>14. IsSeq(t7) /\ s7 = head \o t7
  <2>1. IsSeq(head) /\ IsSeq(t6) /\ IsSeq(p7)
    BY <1>4, <1>6, <1>12
  <2>2. Associate(head, t6, p7) /\ IsSeq(t6 \o p7)
    BY <2>1, ConcatAssoc, ConcatIs
  <2> QED BY <1>12, <2>2 DEF Associate
<1> HIDE DEF t7, n7, s7
<1>15. Itemized(t8, n8)
  BY <1>3, <1>13, ItemizedBoth
<1>16. IsSeq(t8) /\ s8 = head \o t8
  <2>1. IsSeq(head) /\ IsSeq(t7) /\ IsSeq(p8)
    BY <1>4, <1>6, <1>14
  <2>2. Associate(head, t7, p8) /\ IsSeq(t7 \o p8)
    BY <2>1, ConcatAssoc, ConcatIs
  <2> QED BY <1>14, <2>2 DEF Associate
<1> HIDE DEF t8, n8, s8
<1>17. Itemized(t9, n9)
  BY <1>3, <1>15, ItemizedBoth
<1>18. IsSeq(t9) /\ s9 = head \o t9
  <2>1. IsSeq(head) /\ IsSeq(t8) /\ IsSeq(p9)
    BY <1>4, <1>6, <1>16
  <2>2. Associate(head, t8, p9) /\ IsSeq(t8 \o p9)
    BY <2>1, ConcatAssoc, ConcatIs
  <2> QED BY <1>16, <2>2 DEF Associate
<1> HIDE DEF t9, n9, s9
<1>19. Itemized(t10, n10)
  BY <1>3, <1>17, ItemizedBoth
<1>20. IsSeq(t10) /\ s10 = head \o t10
  <2>1. IsSeq(head) /\ IsSeq(t9) /\ IsSeq(p10)
    BY <1>4, <1>6, <1>18
  <2>2. Associate(head, t9, p10) /\ IsSeq(t9 \o p10)
    BY <2>1, ConcatAssoc, ConcatIs
  <2> QED BY <1>18, <2>2 DEF Associate
<1> HIDE DEF t10, n10, s10
<1>21. Itemized(t11, n11)
  BY <1>3, <1>19, ItemizedBoth
<1>22. IsSeq(t11) /\ s11 = head \o t11
  <2>1. IsSeq(head) /\ IsSeq(t10) /\ IsSeq(p11)
    BY <1>4, <1>6, <1>20
  <2>2. Associate(head, t10, p11) /\ IsSeq(t10 \o p11)
    BY <2>1, ConcatAssoc, ConcatIs
  <2> QED BY <1>20, <2>2 DEF Associate
<1> HIDE DEF t11, n11, s11
<1>23. IsSeq(t12) /\ s12 = head \o t12
  <2>1. IsSeq(head) /\ IsSeq(t11) /\ IsSeq(p12)
    BY <1>4, <1>6, <1>22
  <2>2. Associate(head, t11, p12) /\ IsSeq(t11 \o p12)
    BY <2>1, ConcatAssoc, ConcatIs
  <2> QED BY <1>22, <2>2 DEF Associate
<1> DEFINE items == PrimaryOut(b)
<1>30. /\ IsSeq(t11) /\ IsSeq(ns) /\ Len(t11) = N /\ N \in Nat
       /\ \A n \in 1 .. N : t11[n].len = SdnvLen(ns[n]) /\ ns[n] \in U32
  BY <1>2, <1>21 DEF Itemized, IsSeq, ns
<1>31. /\ Len(t12) = N + 1 /\ t12[N + 1] = x
       /\ \A n \in 1 .. N : t12[n] = t11[n]
  <2>1. IsSeq(t11) /\ IsSeq(<<x>>) /\ Len(<<x>>) = 1 /\ <<x>>[1] = x /\ t12 = t11 \o <<x>>
    BY <1>5, <1>30, OneIs
  <2> HIDE DEF t12
  <2>2. /\ Len(t11 \o <<x>>) = Len(t11) + Len(<<x>>)
        /\ \A i \in 1 .. Len(t11) : (t11 \o <<x>>)[i] = t11[i]
        /\ \A i \in 1 .. Len(<<x>>) : (t11 \o <<x>>)[Len(t11) + i] = <<x>>[i]
    <3>1. IsSeq(t11) /\ IsSeq(<<x>>)
      BY <2>1
    <3> QED BY <3>1, ConcatIs
  <2>3. 1 \in 1 .. Len(<<x>>)
    BY <2>1
  <2> QED BY <1>30, <2>1, <2>2, <2>3
<1> HIDE DEF t12, s12
<1>32. /\ IsSeq(items) /\ Len(items) = 3 + (N + 1)
       /\ \A i \in 1 .. 3 : items[i] = head[i]
       /\ \A i \in 1 .. N + 1 : items[3 + i] = t12[i]
  <2>1. IsSeq(head) /\ IsSeq(t12) /\ items = head \o t12
    BY <1>1, <1>4, <1>23
  <2> HIDE DEF items
  <2>2. /\ IsSeq(head \o t12) /\ Len(head \o t12) = Len(head) + Len(t12)
        /\ \A i \in 1 .. Len(head) : (head \o t12)[i] = head[i]
        /\ \A i \in 1 .. Len(t12) : (head \o t12)[Len(head) + i] = t12[i]
    <3>1. IsSeq(head) /\ IsSeq(t12)
      BY <2>1
    <3> QED BY <3>1, ConcatIs
  <2> QED BY <1>4, <1>31, <2>1, <2>2
<1> HIDE DEF items
<1>33. /\ Len(items) \in Nat /\ 3 \in 1 .. Len(items) /\ DOMAIN items = 1 .. Len(items)
       /\ Len(items) - 3 = N + 1 /\ 3 \in 1 .. 3
  BY <1>30, <1>32 DEF IsSeq
<1> DEFINE lens == LengthsOf(ns)
           all == Behind3(items)
<1>34. /\ Lengths(lens) /\ Len(lens) = N /\ \A n \in 1 .. N : lens[n] = SdnvLen(ns[n])
  <2>1. DOMAIN ns = 1 .. N
    BY <1>30 DEF IsSeq
  <2>2. lens = [n \in DOMAIN ns |-> lens[n]] /\ \A n \in 1 .. N : lens[n] = SdnvLen(ns[n])
    BY <2>1 DEF LengthsOf
  <2> HIDE DEF lens
  <2>3. IsSeq(lens) /\ Len(lens) = N
    BY <1>30, <2>2, MappedSeq
  <2> QED BY <1>30, <2>2, <2>3, SdnvLenIs DEF Lengths
<1>35. /\ all = [n \in 1 .. N + 1 |-> all[n]] /\ Len(all) = N + 1
       /\ \A n \in 1 .. N + 1 : all[n] = t12[n].len
  BY <1>30, <1>32, <1>33 DEF Behind3
<1>36. /\ all[N + 1] = Dictionary(b.list).pos /\ \A n \in 1 .. N : all[n] = lens[n]
  <2>1. N + 1 \in 1 .. N + 1 /\ \A n \in 1 .. N : n \in 1 .. N + 1
    BY <1>30
  <2> HIDE DEF all, lens
  <2>2. all[N + 1] = Dictionary(b.list).pos
    BY <1>5, <1>31, <1>35, <2>1
  <2>3. \A n \in 1 .. N : all[n] = lens[n]
    BY <1>30, <1>31, <1>34, <1>35, <2>1
  <2> QED BY <2>2, <2>3
<1>37. Lengths(all)
  <2> HIDE DEF all, lens
  <2>1. IsSeq(all)
    BY <1>30, <1>35 DEF IsSeq
  <2>2. \A n \in 1 .. N + 1 : n \in 1 .. N \/ n = N + 1
    BY <1>30
  <2>3. \A n \in 1 .. N : lens[n] \in Nat
    BY <1>34 DEF Lengths
  <2>4. \A n \in 1 .. N + 1 : all[n] \in Nat
    BY <1>36, <2>2, <2>3
  <2> QED BY <1>35, <2>1, <2>4 DEF Lengths
<1>38. Total(all) = Total(lens) + Dictionary(b.list).pos
  <2> DEFINE size == Dictionary(b.list).pos
  <2> HIDE DEF all, lens
  <2>1. size \in Nat
    OBVIOUS
  <2>2. Len(all) = Len(lens) + 1 /\ all[Len(all)] = size
    BY <1>34, <1>35, <1>36
  <2>3. \A n \in 1 .. Len(lens) : all[n] = lens[n]
    BY <1>34, <1>36
  <2>4. Lengths(lens)
    BY <1>34
  <2> HIDE DEF size
  <2>5. Total(all) = Total(lens) + size
    BY <1>37, <2>1, <2>2, <2>3, <2>4, TotalAppended
  <2> QED BY <2>5 DEF size
<1>39. items[3] = head[3]
  BY <1>32, <1>33
<1> QED BY <1>4, <1>33, <1>38, <1>39 DEF items, ns

LEMMA LengthKept ==
  ASSUME NEW M, CommandLines(M), PlainEdits, CmdTypes, CmdStage, pc = "written",
         block.type = "primary", Untouched
  PROVE  LengthCounts
<1> DEFINE b == Meaning(Made)
           f == b.fields
<1>1. Building /\ doc = Made /\ AllLegible(doc)
  BY DEF CmdTypes, Untouched
<1>2. block = b /\ out = BlockOut(b)
  BY <1>1 DEF CmdStage
<1>3. b.type = built.type /\ built.type = "primary" /\ b.list = StringsOf(dict)
  BY <1>1, <1>2, MadeLists
<1>4. DOMAIN built.fields = {"version"} \cup U32Keys \cup EidKeys
  BY <1>1, <1>3, PrimaryFieldTypes DEF Building, GoodFields
<1>5. \A k \in U32Keys \cup EidKeys : f[k] = MadeField(k) /\ f[k] \in FieldType("primary", k)
  <2> TAKE k \in U32Keys \cup EidKeys
  <2>1. k \in DOMAIN built.fields
    BY <1>4
  <2>2. f[k] = MadeField(k)
    BY <1>1, <2>1, MadeFields
  <2>3. MadeField(k) \in FieldType("primary", k)
    BY <1>1, <1>3, <2>1, MadeFieldIs
  <2> HIDE DEF f
  <2> QED BY <2>2, <2>3
<1>6. Dictionary(b.list).pos = dict.pos /\ dict.pos \in Nat
  <2>1. dict.pos \in Nat
    BY <1>1, LaidPlaces DEF Building, DictOK
  <2> HIDE DEF b
  <2> QED BY <1>1, <1>3, <2>1, MadeDictionary
<1> DEFINE g == built.fields
<1>7. /\ \A k \in EidKeys \cup {"creation-ts", "creation-seq", "lifetime"} : f[k] = g[k]
      /\ f["eids-size"] = Bits(dict.pos) /\ f["length"] = Bits(calc_length)
  <2> HIDE DEF f, g
  <2>1. \A k \in EidKeys \cup {"creation-ts", "creation-seq", "lifetime"} : MadeField(k) = g[k]
    BY DEF MadeField, EidKeys, g
  <2>2. MadeField("eids-size") = Bits(dict.pos) /\ MadeField("length") = Bits(calc_length)
    BY DEF MadeField
  <2> QED BY <1>5, <2>1, <2>2 DEF U32Keys
<1>8. calc_length = Total(LengthsOf(CountedNumbers(f))) + dict.pos
  <2>1. CountedNumbers(f) = Eids(g) \o <<g["creation-ts"], g["creation-seq"], g["lifetime"], Bits(dict.pos)>>
    <3> HIDE DEF f, g
    <3> QED BY <1>7 DEF CountedNumbers, Eids, EidKeys
  <2> HIDE DEF f
  <2> QED BY <2>1 DEF calc_length, LengthsOf
<1>9. out = PrimaryOut(b)
  BY <1>2, <1>3 DEF BlockOut
<1>10. /\ \A k \in EidKeys : f[k] \in EidRecords
       /\ \A k \in U32Keys : f[k] \in U32
  <2> HIDE DEF f
  <2> QED BY <1>5, PrimaryFieldTypes
<1>11. /\ 3 \in 1 .. Len(out) /\ DOMAIN out = 1 .. Len(out)
       /\ out[3].name = "length" /\ out[3].val = f["length"]
       /\ Total(Behind3(out)) = Total(LengthsOf(CountedNumbers(f))) + dict.pos
  <2> HIDE DEF b
  <2> QED BY <1>6, <1>9, <1>10, PrimaryLengths
<1>12. out[3].val = Bits(Total(Behind3(out)))
  <2> HIDE DEF f
  <2> QED BY <1>7, <1>8, <1>11
<1>13. 3 \in DOMAIN out
  BY <1>11
<1> QED BY <1>11, <1>12, <1>13 DEF LengthCounts, Behind3

\* However the block was built, if no string needs escaping, the length it is written with is the number of
\* bytes that follow it.
THEOREM LengthsCount ==
  ASSUME NEW M, CommandLines(M), PlainEdits, SchemeFirst = {TRUE}
  PROVE  CmdSpec => []LengthCounts
<1>1. CmdTypes /\ CmdStage => LengthCounts
  <2>1. CASE pc = "written" /\ block.type = "primary" /\ Untouched
    BY <2>1, LengthKept
  <2>2. CASE ~ (pc = "written" /\ block.type = "primary" /\ Untouched)
    BY <2>2 DEF LengthCounts
  <2> QED BY <2>1, <2>2
<1> QED BY <1>1, CmdStageAlways, PTL

-----------------------------------------------------------------------------
(* What the options have asked for *)

LastOf(k, args) == ArgsIn(k, args)[Len(ArgsIn(k, args))]

LEMMA ArgGiven ==
  ASSUME NEW s, IsSeq(s), NEW o, NEW k
  PROVE  /\ IsSeq(Append(s, o))
         /\ o.opt = k => /\ ArgsIn(k, Append(s, o)) # << >> /\ LastOf(k, Append(s, o)) = o.arg
                         /\ Elements(ArgsIn(k, Append(s, o))) = Elements(ArgsIn(k, s)) \cup {o.arg}
         /\ o.opt # k => ArgsIn(k, Append(s, o)) = ArgsIn(k, s)
<1> DEFINE a == ArgsIn(k, s)
           t == Append(s, o)
           N == Len(s)
<1>1. N \in Nat
  BY DEF IsSeq
<1>2. t = s \o <<o>> /\ IsSeq(t)
  <2> DEFINE one == <<o>>
             u == s \o one
  <2>1. IsSeq(one) /\ Len(one) = 1 /\ one[1] = o
    BY OneIs
  <2> HIDE DEF one
  <2>2. /\ IsSeq(u) /\ Len(u) = Len(s) + Len(one)
        /\ \A i \in 1 .. Len(s) : u[i] = s[i]
        /\ \A i \in 1 .. Len(one) : u[Len(s) + i] = one[i]
    <3>1. IsSeq(s) /\ IsSeq(one)
      BY <2>1
    <3> QED BY <3>1, ConcatIs
  <2>3. Len(t) = N + 1 /\ t[N + 1] = o /\ \A i \in 1 .. N : t[i] = s[i]
    BY AppendIs
  <2> DEFINE S == {s[i] : i \in 1 .. N} \cup {o}
  <2>4. IsSeq(t)
    <3>1. s \in Seq({s[i] : i \in 1 .. N} \cup {o})
      <4>1. \A i \in 1 .. N : s[i] \in S
        OBVIOUS
      <4> QED BY <4>1, SeqIn
    <3>2. t \in Seq({s[i] : i \in 1 .. N} \cup {o})
      BY <3>1
    <3> HIDE DEF t
    <3> QED BY <3>2, SeqIs
  <2> HIDE DEF t, u, S
  <2>5. \A i \in 1 .. N + 1 : i \in 1 .. N \/ i = N + 1
    BY <1>1
  <2>6. 1 \in 1 .. Len(one) /\ Len(u) = N + 1
    BY <2>1, <2>2
  <2>7. \A i \in 1 .. N + 1 : t[i] = u[i]
    BY <2>1, <2>2, <2>3, <2>5, <2>6
  <2>8. t = [i \in 1 .. N + 1 |-> t[i]] /\ u = [i \in 1 .. N + 1 |-> u[i]]
    BY <2>2, <2>3, <2>4, <2>6 DEF IsSeq
  <2> QED BY <2>4, <2>7, <2>8 DEF u, one
<1> DEFINE last == IF o.opt = k THEN <<o.arg>> ELSE << >>
           b == ArgsIn(k, t)
<1>3. b = a \o last
  <2>1. ArgsIn(k, s \o <<o>>) = a \o ArgsIn(k, <<o>>)
    BY OneIs, ArgsInBoth
  <2> QED BY <1>2, <2>1, ArgsInOne
<1>4. IsSeq(a)
  <2> DEFINE S == {s[i] : i \in 1 .. N}
             f == Gives(k, S)
  <2>1. \A i \in 1 .. N : s[i] \in S
    OBVIOUS
  <2>2. a = Chosen(f, s) /\ Chooses(f, s)
    <3> HIDE DEF S
    <3> QED BY <2>1, ArgsInIs
  <2> HIDE DEF f, a
  <2> QED BY <2>2, ChosenIs
<1>5. CASE o.opt = k
  <2> DEFINE one == <<o.arg>>
  <2>1. b = a \o one
    BY <1>3, <1>5
  <2>2. IsSeq(one) /\ Len(one) = 1 /\ one[1] = o.arg
    BY OneIs
  <2> HIDE DEF one, a
  <2>3. /\ IsSeq(a \o one) /\ Len(a \o one) = Len(a) + Len(one)
        /\ \A i \in 1 .. Len(a) : (a \o one)[i] = a[i]
        /\ \A i \in 1 .. Len(one) : (a \o one)[Len(a) + i] = one[i]
    <3>1. IsSeq(a) /\ IsSeq(one)
      BY <1>4, <2>2
    <3> QED BY <3>1, ConcatIs
  <2> HIDE DEF b
  <2>4. Len(a) \in Nat /\ 1 \in 1 .. Len(one)
    BY <1>4, <2>2 DEF IsSeq
  <2>5. /\ IsSeq(b) /\ Len(b) = Len(a) + 1 /\ b[Len(a) + 1] = o.arg
        /\ \A i \in 1 .. Len(a) : b[i] = a[i]
    BY <2>1, <2>2, <2>3, <2>4
  <2>6. b # << >>
    BY <2>4, <2>5, NothingIs
  <2>7. DOMAIN a = 1 .. Len(a) /\ DOMAIN b = 1 .. Len(a) + 1
    BY <1>4, <2>5 DEF IsSeq
  <2>8. Elements(b) = Elements(a) \cup {o.arg}
    <3>1. \A i \in DOMAIN b : i \in DOMAIN a \/ i = Len(a) + 1
      BY <2>4, <2>7
    <3>2. Len(a) + 1 \in DOMAIN b /\ \A i \in DOMAIN a : i \in DOMAIN b
      BY <2>4, <2>7
    <3> QED BY <2>5, <2>7, <3>1, <3>2 DEF Elements
  <2>9. LastOf(k, t) = o.arg
    BY <2>5 DEF LastOf, b
  <2> QED BY <1>2, <1>5, <2>6, <2>8, <2>9 DEF a, b
<1>6. CASE o.opt # k
  <2>1. b = a \o << >>
    BY <1>3, <1>6
  <2> HIDE DEF a, b
  <2>2. b = a
    BY <1>4, <2>1, ConcatNothing
  <2> QED BY <1>2, <1>6, <2>2 DEF a, b
<1> QED BY <1>5, <1>6

\* The bits of the flags, as AskedFlags has them.
FlagBits(args) ==
  (UNION {SymParse(PrimaryFlags, a) : a \in Elements(ArgsIn("flag", args))})
    \cup (UNION {SymParse(Reports, a) : a \in Elements(ArgsIn("report", args))})
PrioBits(args) ==
  IF ArgsIn("prio", args) = << >> THEN {} ELSE SymParse(Prios, LastOf("prio", args))
ExtBits(args) ==
  UNION {IF Knows(ExtFlags, a) THEN SymParse(ExtFlags, a) ELSE {} : a \in Elements(ArgsIn("flag", args))}

NumberKeys == {"version", "creation-ts", "creation-seq", "lifetime", "payload-length"}
CastOf(k, n) == IF k = "version" THEN Cast8(n) ELSE Cast32(n)

\* The block b and the dictionary d have what the options args ask for.
FlagsAre(b, args) ==
  /\ b.fields["flags"] = IF b.type = "primary" THEN FlagBits(args) \cup PrioBits(args) ELSE ExtBits(args)
  /\ b.fields["flags"] \cap FLAG_INVALID = {}
NumberHas(k, b, args) ==
  ArgsIn(k, args) # << >> =>
    k \in DOMAIN b.fields /\ b.fields[k] = CastOf(k, LastOf(k, args))
EidHas(k, b, d, args) ==
  ArgsIn(k, args) # << >> =>
    /\ b.type = "primary"
    /\ \A p \in {"scheme", "ssp"} : \E o \in DOMAIN d.held :
         Bits(o) = b.fields[k][p] /\ d.held[o] = LastOf(k, args)[p]

Has(b, d, args) ==
  /\ FlagsAre(b, args)
  /\ \A k \in NumberKeys : NumberHas(k, b, args)
  /\ \A k \in EidKeys : EidHas(k, b, d, args)

\* An option leaves what others have asked for.
LEMMA FlagsKept ==
  ASSUME NEW s, IsSeq(s), NEW o, o.opt \notin {"flag", "report", "prio"},
         NEW b, NEW c, c.type = b.type, c.fields["flags"] = b.fields["flags"], FlagsAre(b, s)
  PROVE  FlagsAre(c, Append(s, o))
<1> DEFINE t == Append(s, o)
<1>1. \A k \in {"flag", "report", "prio"} : ArgsIn(k, t) = ArgsIn(k, s)
  BY ArgGiven
<1> HIDE DEF t
<1>2. FlagBits(t) = FlagBits(s) /\ PrioBits(t) = PrioBits(s) /\ ExtBits(t) = ExtBits(s)
  BY <1>1 DEF FlagBits, PrioBits, ExtBits, LastOf
<1> QED BY <1>2 DEF FlagsAre, t

LEMMA NumberKept ==
  ASSUME NEW s, IsSeq(s), NEW o, NEW k, o.opt # k, NEW b, NEW c,
         DOMAIN c.fields = DOMAIN b.fields,
         k \in DOMAIN b.fields => c.fields[k] = b.fields[k], NumberHas(k, b, s)
  PROVE  NumberHas(k, c, Append(s, o))
<1>1. ArgsIn(k, Append(s, o)) = ArgsIn(k, s)
  BY ArgGiven
<1> QED BY <1>1 DEF NumberHas, LastOf

LEMMA EidKept ==
  ASSUME NEW s, IsSeq(s), NEW o, NEW k, o.opt # k, NEW b, NEW c, NEW d, NEW e,
         c.type = b.type, b.type = "primary" => c.fields[k] = b.fields[k], EidHas(k, b, d, s),
         \A x \in DOMAIN d.held : x \in DOMAIN e.held /\ e.held[x] = d.held[x]
  PROVE  EidHas(k, c, e, Append(s, o))
<1>1. ArgsIn(k, Append(s, o)) = ArgsIn(k, s)
  BY ArgGiven
<1>2. LastOf(k, Append(s, o)) = LastOf(k, s)
  BY <1>1 DEF LastOf
<1> SUFFICES ASSUME ArgsIn(k, s) # << >>
             PROVE  /\ c.type = "primary"
                    /\ \A p \in {"scheme", "ssp"} : \E x \in DOMAIN e.held :
                         Bits(x) = c.fields[k][p] /\ e.held[x] = LastOf(k, s)[p]
  BY <1>1, <1>2 DEF EidHas
<1>3. /\ b.type = "primary"
      /\ \A p \in {"scheme", "ssp"} : \E x \in DOMAIN d.held :
           Bits(x) = b.fields[k][p] /\ d.held[x] = LastOf(k, s)[p]
  BY DEF EidHas
<1> QED BY <1>3

\* The symbols of an option stand for no bit of another's.
LEMMA SymbolsApart ==
  /\ \A a : SymParse(PrimaryFlags, a) \cap PRIO_BITS = {} /\ SymParse(Reports, a) \cap PRIO_BITS = {}
  /\ \A a : SymParse(Prios, a) = FLAG_INVALID \/ SymParse(Prios, a) \subseteq PRIO_BITS
  /\ \A a : Cast8(SymParse(ExtFlags, a)) = IF Knows(ExtFlags, a) THEN SymParse(ExtFlags, a) ELSE {}
<1>1. ASSUME NEW table, NEW W, NEW a, \A p \in table : p[2] \in W, Knows(table, a)
      PROVE  SymParse(table, a) \in W
  <2>1. \E p \in table : p[1] = a
    BY <1>1 DEF Knows
  <2>2. (CHOOSE p \in table : p[1] = a) \in table
    BY <2>1
  <2>3. SymParse(table, a) = (CHOOSE p \in table : p[1] = a)[2]
    BY <1>1 DEF SymParse
  <2> QED BY <1>1, <2>2, <2>3
<1>2. ASSUME NEW table, NEW a, ~ Knows(table, a) PROVE SymParse(table, a) = FLAG_INVALID
  BY <1>2 DEF SymParse
<1> DEFINE W == {n \in SUBSET (0 .. 31) : n \cap PRIO_BITS = {}}
<1>3. \A p \in PrimaryFlags : p[2] \in W
  BY DEF PrimaryFlags, PRIO_BITS
<1>4. \A p \in Reports : p[2] \in W
  BY DEF Reports, PRIO_BITS
<1>5. \A p \in Prios : p[2] \in SUBSET PRIO_BITS
  BY DEF Prios, PRIO_BITS
<1>6. \A p \in ExtFlags : p[2] \in SUBSET (0 .. 7)
  BY DEF ExtFlags
<1>7. FLAG_INVALID \in W /\ FLAG_INVALID \cap (0 .. 7) = {}
  BY DEF FLAG_INVALID, PRIO_BITS
<1>8. \A n \in W : n \cap PRIO_BITS = {}
  OBVIOUS
<1> HIDE DEF W
<1>9. ASSUME NEW a PROVE SymParse(PrimaryFlags, a) \in W /\ SymParse(Reports, a) \in W
  BY <1>1, <1>2, <1>3, <1>4, <1>7
<1>10. ASSUME NEW a PROVE SymParse(Prios, a) = FLAG_INVALID \/ SymParse(Prios, a) \subseteq PRIO_BITS
  BY <1>1, <1>2, <1>5
<1>11. ASSUME NEW a
       PROVE  Cast8(SymParse(ExtFlags, a)) = IF Knows(ExtFlags, a) THEN SymParse(ExtFlags, a) ELSE {}
  <2>1. CASE Knows(ExtFlags, a)
    <3>1. SymParse(ExtFlags, a) \in SUBSET (0 .. 7)
      BY <1>1, <1>6, <2>1
    <3> QED BY <2>1, <3>1 DEF Cast8
  <2>2. CASE ~ Knows(ExtFlags, a)
    BY <1>2, <1>7, <2>2 DEF Cast8
  <2> QED BY <2>1, <2>2
<1> QED BY <1>8, <1>9, <1>10, <1>11

LEMMA FlagBitsAre ==
  ASSUME NEW s, NEW x
  PROVE  x \in FlagBits(s) <=>
           \/ \E a \in Elements(ArgsIn("flag", s)) : x \in SymParse(PrimaryFlags, a)
           \/ \E a \in Elements(ArgsIn("report", s)) : x \in SymParse(Reports, a)
BY DEF FlagBits

\* A flag or a report more; a priority in place of the last; and a flag more of
\* an extension block.
LEMMA FlagGiven ==
  ASSUME NEW s, IsSeq(s), NEW o, o.opt \in {"flag", "report"}, NEW b, NEW c,
         b.type = "primary", c.type = "primary", FlagsAre(b, s),
         NEW sym, c.fields["flags"] = b.fields["flags"] \cup sym,
         o.opt = "flag" => sym = SymParse(PrimaryFlags, o.arg),
         o.opt = "report" => sym = SymParse(Reports, o.arg),
         c.fields["flags"] \cap FLAG_INVALID = {}
  PROVE  FlagsAre(c, Append(s, o))
<1> DEFINE t == Append(s, o)
<1>1. PrioBits(t) = PrioBits(s)
  <2>1. ArgsIn("prio", t) = ArgsIn("prio", s)
    BY ArgGiven
  <2> QED BY <2>1 DEF PrioBits, LastOf
<1>2. FlagBits(t) = FlagBits(s) \cup sym
  <2>1. CASE o.opt = "flag"
    <3>1. /\ Elements(ArgsIn("flag", t)) = Elements(ArgsIn("flag", s)) \cup {o.arg}
          /\ ArgsIn("report", t) = ArgsIn("report", s)
      BY <2>1, ArgGiven
    <3>2. sym = SymParse(PrimaryFlags, o.arg)
      BY <2>1
    <3> HIDE DEF t
    <3>3. ASSUME NEW x PROVE x \in FlagBits(t) <=> x \in FlagBits(s) \/ x \in sym
      <4>1. /\ x \in FlagBits(s) <=>
                 \/ \E a \in Elements(ArgsIn("flag", s)) : x \in SymParse(PrimaryFlags, a)
                 \/ \E a \in Elements(ArgsIn("report", s)) : x \in SymParse(Reports, a)
            /\ x \in FlagBits(t) <=>
                 \/ \E a \in Elements(ArgsIn("flag", t)) : x \in SymParse(PrimaryFlags, a)
                 \/ \E a \in Elements(ArgsIn("report", t)) : x \in SymParse(Reports, a)
        BY FlagBitsAre
      <4> QED BY <3>1, <3>2, <4>1
    <3> QED BY <3>3
  <2>2. CASE o.opt = "report"
    <3>1. /\ Elements(ArgsIn("report", t)) = Elements(ArgsIn("report", s)) \cup {o.arg}
          /\ ArgsIn("flag", t) = ArgsIn("flag", s)
      BY <2>2, ArgGiven
    <3>2. sym = SymParse(Reports, o.arg)
      BY <2>2
    <3> HIDE DEF t
    <3>3. ASSUME NEW x PROVE x \in FlagBits(t) <=> x \in FlagBits(s) \/ x \in sym
      <4>1. /\ x \in FlagBits(s) <=>
                 \/ \E a \in Elements(ArgsIn("flag", s)) : x \in SymParse(PrimaryFlags, a)
                 \/ \E a \in Elements(ArgsIn("report", s)) : x \in SymParse(Reports, a)
            /\ x \in FlagBits(t) <=>
                 \/ \E a \in Elements(ArgsIn("flag", t)) : x \in SymParse(PrimaryFlags, a)
                 \/ \E a \in Elements(ArgsIn("report", t)) : x \in SymParse(Reports, a)
        BY FlagBitsAre
      <4> QED BY <3>1, <3>2, <4>1
    <3> QED BY <3>3
  <2> QED BY <2>1, <2>2
<1>3. b.fields["flags"] = FlagBits(s) \cup PrioBits(s)
  BY DEF FlagsAre
<1> HIDE DEF t
<1>4. c.fields["flags"] = FlagBits(t) \cup PrioBits(t)
  BY <1>1, <1>2, <1>3
<1> QED BY <1>4 DEF FlagsAre, t

LEMMA PrioGiven ==
  ASSUME NEW s, IsSeq(s), NEW o, o.opt = "prio", NEW b, NEW c,
         b.type = "primary", c.type = "primary", FlagsAre(b, s),
         c.fields["flags"] = PrioSet(b.fields["flags"], SymParse(Prios, o.arg)),
         c.fields["flags"] \cap FLAG_INVALID = {}
  PROVE  FlagsAre(c, Append(s, o))
<1> DEFINE t == Append(s, o)
<1>1. PrioBits(t) = SymParse(Prios, o.arg)
  <2>1. ArgsIn("prio", t) # << >> /\ LastOf("prio", t) = o.arg
    BY ArgGiven
  <2> QED BY <2>1 DEF PrioBits
<1>2. FlagBits(t) = FlagBits(s)
  <2>1. ArgsIn("flag", t) = ArgsIn("flag", s)
    BY ArgGiven
  <2>2. ArgsIn("report", t) = ArgsIn("report", s)
    BY ArgGiven
  <2> HIDE DEF t
  <2> QED BY <2>1, <2>2 DEF FlagBits
<1>3. b.fields["flags"] = FlagBits(s) \cup PrioBits(s) /\ b.fields["flags"] \cap FLAG_INVALID = {}
  BY DEF FlagsAre
<1>4. FlagBits(s) \cap PRIO_BITS = {}
  <2>1. ASSUME NEW x \in FlagBits(s) PROVE x \notin PRIO_BITS
    BY FlagBitsAre, SymbolsApart
  <2> QED BY <2>1
<1>5. PrioBits(s) \subseteq PRIO_BITS
  <2>1. PrioBits(s) # FLAG_INVALID
    BY <1>3 DEF FLAG_INVALID
  <2> QED BY <2>1, SymbolsApart DEF PrioBits
<1> HIDE DEF t
<1>6. c.fields["flags"] = FlagBits(t) \cup PrioBits(t)
  BY <1>1, <1>2, <1>3, <1>4, <1>5 DEF PrioSet
<1> QED BY <1>6 DEF FlagsAre, t

LEMMA ExtFlagGiven ==
  ASSUME NEW s, IsSeq(s), NEW o, o.opt = "flag", NEW b, NEW c,
         b.type # "primary", c.type # "primary", FlagsAre(b, s),
         c.fields["flags"] = b.fields["flags"] \cup Cast8(SymParse(ExtFlags, o.arg)),
         c.fields["flags"] \cap FLAG_INVALID = {}
  PROVE  FlagsAre(c, Append(s, o))
<1> DEFINE t == Append(s, o)
           sym == IF Knows(ExtFlags, o.arg) THEN SymParse(ExtFlags, o.arg) ELSE {}
<1>1. Elements(ArgsIn("flag", t)) = Elements(ArgsIn("flag", s)) \cup {o.arg}
  BY ArgGiven
<1>2. Cast8(SymParse(ExtFlags, o.arg)) = sym
  BY SymbolsApart
<1> HIDE DEF t
<1>3. ExtBits(t) = ExtBits(s) \cup sym
  BY <1>1 DEF ExtBits
<1>4. b.fields["flags"] = ExtBits(s)
  BY DEF FlagsAre
<1> HIDE DEF sym
<1>5. c.fields["flags"] = ExtBits(t)
  BY <1>2, <1>3, <1>4
<1> QED BY <1>5 DEF FlagsAre, t

\* An assignment to a field leaves what the options for others have asked for.
LEMMA FieldHas ==
  ASSUME Building, Has(built, dict, argv), NEW o, argv' = Append(argv, o),
         NEW k \in DOMAIN NewBlock(built.type).fields,
         NEW v \in FieldType(built.type, k), Field(k, v), DictOK(dict'),
         argv' \in Seq(Options), Len(argv') <= MaxOptions,
         \A x \in DOMAIN dict.held : x \in DOMAIN dict'.held /\ dict'.held[x] = dict.held[x],
         \A l \in NumberKeys \cup EidKeys : l # k => o.opt # l
  PROVE  /\ k # "flags" /\ o.opt \notin {"flag", "report", "prio"} => FlagsAre(built', argv')
         /\ \A l \in NumberKeys : l # k => NumberHas(l, built', argv')
         /\ \A l \in EidKeys : l # k => EidHas(l, built', dict', argv')
<1>1. /\ Building' /\ built'.type = built.type /\ built'.fields[k] = v
      /\ \A l \in DOMAIN built.fields : l # k => built'.fields[l] = built.fields[l]
  BY FieldSet
<1>2. /\ DOMAIN built.fields = DOMAIN NewBlock(built.type).fields
      /\ DOMAIN built'.fields = DOMAIN NewBlock(built.type).fields
  BY <1>1 DEF Building, GoodFields
<1>3. IsSeq(argv)
  BY SeqIs DEF Building
<1>4. built.type \in BlockTypes
  BY MkBundleAssumption DEF Building
<1>5. "flags" \in DOMAIN built.fields
  BY <1>2, <1>4, PrimaryFieldTypes, ExtFieldTypes DEF BlockTypes, U32Keys
<1>6. ASSUME k # "flags", o.opt \notin {"flag", "report", "prio"} PROVE FlagsAre(built', argv')
  <2>1. built'.fields["flags"] = built.fields["flags"] /\ FlagsAre(built, argv)
    BY <1>1, <1>5, <1>6 DEF Has
  <2> QED BY <1>1, <1>3, <1>6, <2>1, FlagsKept
<1>7. ASSUME NEW l \in NumberKeys, l # k PROVE NumberHas(l, built', argv')
  <2>1. /\ o.opt # l /\ NumberHas(l, built, argv)
        /\ l \in DOMAIN built.fields => built'.fields[l] = built.fields[l]
    BY <1>1, <1>7 DEF Has
  <2> QED BY <1>2, <1>3, <2>1, NumberKept
<1>8. ASSUME NEW l \in EidKeys, l # k PROVE EidHas(l, built', dict', argv')
  <2>1. o.opt # l /\ EidHas(l, built, dict, argv)
    BY <1>8 DEF Has
  <2>2. built.type = "primary" => built'.fields[l] = built.fields[l]
    BY <1>1, <1>2, <1>8, PrimaryFieldTypes
  <2> QED BY <1>1, <1>3, <2>1, <2>2, EidKept
<1> QED BY <1>6, <1>7, <1>8

\* An option that assigns to no field leaves it all.
LEMMA NothingHas ==
  ASSUME Building, Has(built, dict, argv), NEW o, argv' = Append(argv, o),
         built'.type = built.type, built'.fields = built.fields, dict' = dict,
         o.opt \notin NumberKeys \cup EidKeys \cup {"flag", "report", "prio"}
  PROVE  Has(built', dict', argv')
<1>1. IsSeq(argv)
  BY SeqIs DEF Building
<1>2. FlagsAre(built', argv')
  BY <1>1, FlagsKept DEF Has
<1>3. ASSUME NEW l \in NumberKeys PROVE NumberHas(l, built', argv')
  <2>1. o.opt # l /\ NumberHas(l, built, argv)
    BY DEF Has
  <2> QED BY <1>1, <2>1, NumberKept
<1>4. ASSUME NEW l \in EidKeys PROVE EidHas(l, built', dict', argv')
  <2>1. o.opt # l /\ EidHas(l, built, dict, argv)
    BY DEF Has
  <2> QED BY <1>1, <2>1, EidKept
<1> QED BY <1>2, <1>3, <1>4 DEF Has

\* An option for the flags assigns to them alone.
LEMMA FlagsHas ==
  ASSUME Building, Has(built, dict, argv), NEW o, argv' = Append(argv, o),
         NEW v \in FieldType(built.type, "flags"), Field("flags", v), dict' = dict,
         argv' \in Seq(Options), Len(argv') <= MaxOptions,
         o.opt \in {"flag", "report", "prio"}
  PROVE  /\ built'.type = built.type /\ built'.fields["flags"] = v
         /\ FlagsAre(built', argv') => Has(built', dict', argv')
<1>1. built.type \in BlockTypes
  BY MkBundleAssumption DEF Building
<1>2. "flags" \in DOMAIN NewBlock(built.type).fields
  BY <1>1, PrimaryFieldTypes, ExtFieldTypes DEF BlockTypes, U32Keys
<1>3. DictOK(dict')
  BY DEF Building
<1>4. built'.type = built.type /\ built'.fields["flags"] = v
  BY <1>2, <1>3, FieldSet
<1>5. \A l \in NumberKeys \cup EidKeys : o.opt # l
  BY DEF NumberKeys, EidKeys
<1>6. /\ \A l \in NumberKeys : l # "flags" => NumberHas(l, built', argv')
      /\ \A l \in EidKeys : l # "flags" => EidHas(l, built', dict', argv')
  BY <1>2, <1>3, <1>5, FieldHas
<1>7. "flags" \notin NumberKeys \cup EidKeys
  BY DEF NumberKeys, EidKeys
<1> QED BY <1>4, <1>6, <1>7 DEF Has

\* The option of a number gives it to its field.
LEMMA NumberGives ==
  ASSUME Building, Has(built, dict, argv), NEW o, argv' = Append(argv, o),
         NEW k \in NumberKeys, o.opt = k, k \in DOMAIN NewBlock(built.type).fields,
         NEW v \in FieldType(built.type, k), v = CastOf(k, o.arg), Field(k, v), dict' = dict,
         argv' \in Seq(Options), Len(argv') <= MaxOptions
  PROVE  Has(built', dict', argv')
<1>1. DictOK(dict') /\ IsSeq(argv)
  BY SeqIs DEF Building
<1>2. Building' /\ built'.fields[k] = v /\ built'.type = built.type
  BY <1>1, FieldSet
<1>3. k \in DOMAIN built'.fields
  BY <1>2 DEF Building, GoodFields
<1>4. /\ k # "flags" /\ o.opt \notin {"flag", "report", "prio"} => FlagsAre(built', argv')
      /\ \A l \in NumberKeys : l # k => NumberHas(l, built', argv')
      /\ \A l \in EidKeys : l # k => EidHas(l, built', dict', argv')
  BY <1>1, FieldHas
<1>5. k \notin {"flags", "flag", "report", "prio"} \cup EidKeys
  BY DEF NumberKeys, EidKeys
<1>6. LastOf(k, argv') = o.arg
  BY <1>1, ArgGiven
<1>7. NumberHas(k, built', argv')
  BY <1>2, <1>3, <1>6 DEF NumberHas
<1> QED BY <1>4, <1>5, <1>7 DEF Has

\* Every option gives what it asks for, unless it ends the command.
LEMMA OptionHas ==
  ASSUME NEW M, CommandLines(M), Building, Has(built, dict, argv), NEW o \in Options,
         \/ PrimaryNumber(o) \/ PrimaryFlag(o) \/ Prio(o) \/ EidOption(o)
         \/ ExtType(o) \/ ExtFlag(o) \/ ExtLength(o) \/ RefOption(o)
         \/ UnknownOption(o),
         pc' # "died"
  PROVE  Has(built', dict', argv')
<1> DEFINE taken(c) == /\ built.type = c /\ argv' = Append(argv, o)
                       /\ argv' \in Seq(Options) /\ Len(argv') <= MaxOptions
<1>1. IsSeq(argv) /\ FlagsAre(built, argv)
  BY SeqIs DEF Building, Has
<1>2. CASE PrimaryNumber(o)
  <2> DEFINE v == IF o.opt = "version" THEN Cast8(Number(o.arg)) ELSE Cast32(Number(o.arg))
  <2>1. Option("primary", {"version", "creation-ts", "creation-seq", "lifetime"}, o, o.arg # Malformed)
    BY <1>2 DEF PrimaryNumber
  <2>2. taken("primary") /\ o.opt \in {"version", "creation-ts", "creation-seq", "lifetime"}
    BY <2>1, OptionTaken
  <2>3. o.arg # Malformed
    BY <2>1 DEF Option
  <2>4. Field(o.opt, v) /\ dict' = dict
    BY <1>2 DEF PrimaryNumber
  <2>5. /\ o.opt \in DOMAIN NewBlock("primary").fields
        /\ FieldType("primary", o.opt) = IF o.opt = "version" THEN U8 ELSE U32
    BY <2>2, PrimaryFieldTypes DEF U32Keys
  <2>6. v \in FieldType("primary", o.opt)
    BY <2>5, Casts
  <2>7. v = CastOf(o.opt, o.arg) /\ o.opt \in NumberKeys
    BY <2>2, <2>3 DEF CastOf, Number, NumberKeys
  <2> HIDE DEF v
  <2> QED BY <2>2, <2>4, <2>5, <2>6, <2>7, NumberGives
<1>3. CASE PrimaryFlag(o)
  <2> DEFINE table == IF o.opt = "flag" THEN PrimaryFlags ELSE Reports
             flags == built.fields["flags"] \cup SymParse(table, o.arg)
  <2>1. Option("primary", {"flag", "report"}, o, flags \cap FLAG_INVALID = {})
    BY <1>3 DEF PrimaryFlag
  <2>2. taken("primary") /\ o.opt \in {"flag", "report"}
    BY <2>1, OptionTaken
  <2>3. flags \cap FLAG_INVALID = {}
    BY <2>1 DEF Option
  <2>4. Field("flags", flags) /\ dict' = dict
    BY <1>3 DEF PrimaryFlag
  <2>5. built.fields["flags"] \in U32 /\ FieldType("primary", "flags") = U32
    BY <2>2, PrimaryFieldTypes DEF U32Keys, Building, GoodFields
  <2>6. SymParse(table, o.arg) \in U32
    BY SymbolBits
  <2>7. flags \in FieldType("primary", "flags")
    BY <2>5, <2>6 DEF U32
  <2> HIDE DEF flags
  <2>8. /\ built'.type = built.type /\ built'.fields["flags"] = flags
        /\ FlagsAre(built', argv') => Has(built', dict', argv')
    BY <2>2, <2>4, <2>7, FlagsHas
  <2>9. FlagsAre(built', Append(argv, o))
    <3> DEFINE sym == SymParse(table, o.arg)
    <3>1. /\ built'.fields["flags"] = built.fields["flags"] \cup sym
          /\ o.opt = "flag" => sym = SymParse(PrimaryFlags, o.arg)
          /\ o.opt = "report" => sym = SymParse(Reports, o.arg)
      BY <2>8 DEF flags
    <3> HIDE DEF sym, table
    <3> QED BY <1>1, <2>2, <2>3, <2>8, <3>1, FlagGiven
  <2> QED BY <2>2, <2>8, <2>9
<1>4. CASE Prio(o)
  <2> DEFINE flags == PrioSet(built.fields["flags"], SymParse(Prios, o.arg))
  <2>1. Option("primary", {"prio"}, o, flags \cap FLAG_INVALID = {})
    BY <1>4 DEF Prio
  <2>2. taken("primary") /\ o.opt = "prio"
    BY <2>1, OptionTaken
  <2>3. flags \cap FLAG_INVALID = {}
    BY <2>1 DEF Option
  <2>4. Field("flags", flags) /\ dict' = dict
    BY <1>4 DEF Prio
  <2>5. built.fields["flags"] \in U32 /\ FieldType("primary", "flags") = U32
    BY <2>2, PrimaryFieldTypes DEF U32Keys, Building, GoodFields
  <2>6. SymParse(Prios, o.arg) \in U32
    BY SymbolBits
  <2>7. flags \in FieldType("primary", "flags")
    BY <2>5, <2>6 DEF U32, PrioSet
  <2> HIDE DEF flags
  <2>8. /\ built'.type = built.type /\ built'.fields["flags"] = flags
        /\ FlagsAre(built', argv') => Has(built', dict', argv')
    BY <2>2, <2>4, <2>7, FlagsHas
  <2>9. FlagsAre(built', Append(argv, o))
    BY <1>1, <2>2, <2>3, <2>8, PrioGiven DEF flags
  <2> QED BY <2>2, <2>8, <2>9
<1>5. CASE EidOption(o)
  <2>1. Option("primary", EidKeys, o, o.arg # Malformed)
    BY <1>5 DEF EidOption
  <2>2. taken("primary") /\ o.opt \in EidKeys
    BY <2>1, OptionTaken
  <2>3. o.arg # Malformed
    BY <2>1 DEF Option
  <2> DEFINE v == [ scheme |-> Bits(OffsetIn(dict', o.arg.scheme)),
                    ssp    |-> Bits(OffsetIn(dict', o.arg.ssp)) ]
  <2>4. Field(o.opt, v)
    BY <1>5, <2>3 DEF EidOption
  <2>5. /\ DictOK(dict')
        /\ \A p \in {"scheme", "ssp"} :
             OffsetIn(dict', o.arg[p]) \in DOMAIN dict'.held
               /\ dict'.held[OffsetIn(dict', o.arg[p])] = o.arg[p]
        /\ \A x \in DOMAIN dict.held : x \in DOMAIN dict'.held /\ dict'.held[x] = dict.held[x]
    BY <1>5, <2>3, EidAdded
  <2>6. v \in EidRecords
    BY BitsAre DEF EidRecords
  <2>7. o.opt \in DOMAIN NewBlock("primary").fields /\ FieldType("primary", o.opt) = EidRecords
    BY <2>2, PrimaryFieldTypes
  <2>8. \A p \in {"scheme", "ssp"} : v[p] = Bits(OffsetIn(dict', o.arg[p]))
    OBVIOUS
  <2> HIDE DEF v
  <2>9. built'.type = "primary" /\ built'.fields[o.opt] = v
    BY <2>2, <2>4, <2>5, <2>6, <2>7, FieldSet
  <2>10. o.opt \notin {"flags", "flag", "report", "prio"} \cup NumberKeys
    BY <2>2 DEF NumberKeys, EidKeys
  <2>11. /\ o.opt # "flags" /\ o.opt \notin {"flag", "report", "prio"} => FlagsAre(built', argv')
         /\ \A l \in NumberKeys : l # o.opt => NumberHas(l, built', argv')
         /\ \A l \in EidKeys : l # o.opt => EidHas(l, built', dict', argv')
    BY <2>2, <2>4, <2>5, <2>6, <2>7, FieldHas
  <2>12. LastOf(o.opt, argv') = o.arg
    BY <1>1, <2>2, ArgGiven
  <2>13. EidHas(o.opt, built', dict', argv')
    BY <2>5, <2>8, <2>9, <2>12 DEF EidHas
  <2> QED BY <2>10, <2>11, <2>13 DEF Has
<1>6. CASE ExtType(o)
  <2> DEFINE type == IF Knows(ExtTypes, o.arg.sym) THEN SymParse(ExtTypes, o.arg.sym)
                     ELSE Cast8(Number(o.arg.num))
  <2>1. Option("extension", {"type"}, o, Knows(ExtTypes, o.arg.sym) \/ o.arg.num # Malformed)
    BY <1>6 DEF ExtType
  <2>2. taken("extension") /\ o.opt = "type"
    BY <2>1, OptionTaken
  <2>3. Field("type", type) /\ dict' = dict
    BY <1>6 DEF ExtType
  <2>4. type \in FieldType("extension", "type") /\ "type" \in DOMAIN NewBlock("extension").fields
    BY SymbolBits, Casts, ExtFieldTypes
  <2> HIDE DEF type
  <2>5. DictOK(dict') /\ \A l \in NumberKeys \cup EidKeys : l # "type"
    BY <2>3 DEF Building, NumberKeys, EidKeys
  <2>6. /\ FlagsAre(built', argv')
        /\ \A l \in NumberKeys : l # "type" => NumberHas(l, built', argv')
        /\ \A l \in EidKeys : l # "type" => EidHas(l, built', dict', argv')
    BY <2>2, <2>3, <2>4, <2>5, FieldHas
  <2> QED BY <2>5, <2>6 DEF Has
<1>7. CASE ExtFlag(o)
  <2> DEFINE flags == built.fields["flags"] \cup Cast8(SymParse(ExtFlags, o.arg))
  <2>1. Option("extension", {"flag"}, o, flags \cap FLAG_INVALID = {})
    BY <1>7 DEF ExtFlag
  <2>2. taken("extension") /\ o.opt = "flag"
    BY <2>1, OptionTaken
  <2>3. flags \cap FLAG_INVALID = {}
    BY <2>1 DEF Option
  <2>4. Field("flags", flags) /\ dict' = dict
    BY <1>7 DEF ExtFlag
  <2>5. built.fields["flags"] \in U8 /\ FieldType("extension", "flags") = U8
    BY <2>2, ExtFieldTypes DEF Building, GoodFields
  <2>6. flags \in FieldType("extension", "flags")
    BY <2>5, Casts DEF U8
  <2> HIDE DEF flags
  <2>7. /\ built'.type = built.type /\ built'.fields["flags"] = flags
        /\ FlagsAre(built', argv') => Has(built', dict', argv')
    BY <2>2, <2>4, <2>6, FlagsHas
  <2>8. FlagsAre(built', Append(argv, o))
    BY <1>1, <2>2, <2>3, <2>7, ExtFlagGiven DEF flags
  <2> QED BY <2>2, <2>7, <2>8
<1>8. CASE ExtLength(o)
  <2> DEFINE v == Cast32(Number(o.arg))
  <2>1. Option("extension", {"payload-length"}, o, o.arg # Malformed)
    BY <1>8 DEF ExtLength
  <2>2. taken("extension") /\ o.opt = "payload-length"
    BY <2>1, OptionTaken
  <2>3. o.arg # Malformed
    BY <2>1 DEF Option
  <2>4. Field("payload-length", v) /\ dict' = dict
    BY <1>8 DEF ExtLength
  <2>5. /\ v \in FieldType("extension", "payload-length")
        /\ "payload-length" \in DOMAIN NewBlock("extension").fields
    BY Casts, ExtFieldTypes
  <2>6. v = CastOf("payload-length", o.arg) /\ "payload-length" \in NumberKeys
    BY <2>3 DEF CastOf, Number, NumberKeys
  <2> HIDE DEF v
  <2> QED BY <2>2, <2>4, <2>5, <2>6, NumberGives
<1>9. CASE RefOption(o)
  <2>1. PICK valid : Option("extension", {"ref"}, o, valid)
    BY <1>9 DEF RefOption
  <2>2. taken("extension") /\ o.opt = "ref"
    BY <2>1, OptionTaken
  <2>3. \E list : built' = [built EXCEPT !.list = list] \/ built' = built
    BY <1>9 DEF RefOption
  <2>4. built = [type |-> built.type, fields |-> built.fields, list |-> built.list]
    BY DEF Building
  <2>5. built'.type = built.type /\ built'.fields = built.fields /\ dict' = dict
    <3>1. dict' = dict
      BY <1>9 DEF RefOption
    <3>2. PICK list : built' = [built EXCEPT !.list = list] \/ built' = built
      BY <2>3
    <3>3. [built EXCEPT !.list = list] = [type |-> built.type, fields |-> built.fields, list |-> list]
      BY <2>4
    <3> QED BY <3>1, <3>2, <3>3
  <2>6. o.opt \notin NumberKeys \cup EidKeys \cup {"flag", "report", "prio"}
    BY <2>2 DEF NumberKeys, EidKeys
  <2> QED BY <2>2, <2>5, <2>6, NothingHas
<1>10. CASE UnknownOption(o)
  <2>1. Option(built.type, {"creation", "unknown"}, o, TRUE) /\ UNCHANGED <<built, dict>>
    BY <1>10 DEF UnknownOption
  <2>2. argv' = Append(argv, o) /\ o.opt \in {"creation", "unknown"}
    BY <2>1, OptionTaken
  <2>3. o.opt \notin NumberKeys \cup EidKeys \cup {"flag", "report", "prio"}
    BY <2>2 DEF NumberKeys, EidKeys
  <2> QED BY <2>1, <2>2, <2>3, NothingHas
<1> QED BY <1>2, <1>3, <1>4, <1>5, <1>6, <1>7, <1>8, <1>9, <1>10

\* The block has what was asked for, unless the command has ended with DIEF.
CmdAsked == pc # "died" => Has(built, dict, argv)

LEMMA CmdAskedInit == CmdInit => CmdAsked
<1> SUFFICES ASSUME CmdInit PROVE Has(built, dict, argv)
  BY DEF CmdAsked
<1>1. PICK c \in Commands : built = NewBlock(c)
  BY DEF CmdInit
<1>2. argv = << >> /\ built.fields["flags"] = Zero /\ Zero = {}
  <2>1. c \in BlockTypes
    BY MkBundleAssumption
  <2>2. "flags" \in DOMAIN NewBlock(c).fields
    BY <2>1, PrimaryFieldTypes, ExtFieldTypes DEF BlockTypes, U32Keys
  <2>3. KindOf[c]["flags"] # "eid"
    BY <2>1 DEF BlockTypes, KindOf, PrimaryKinds, ExtKinds
  <2> QED BY <1>1, <2>2, <2>3 DEF CmdInit, NewBlock, Zero
<1>3. ASSUME NEW k PROVE ArgsIn(k, << >>) = << >>
  <2> DEFINE f == Gives(k, {})
  <2>1. IsSeq(<< >>) /\ \A n \in 1 .. Len(<< >>) : << >>[n] \in {}
    BY NothingIs
  <2>2. ArgsIn(k, << >>) = Chosen(f, << >>)
    BY <2>1, ArgsInIs
  <2> HIDE DEF f
  <2> QED BY <2>2, ChosenNothing
<1>4. FlagsAre(built, argv)
  <2>1. Elements(<< >>) = {}
    BY DEF Elements
  <2>2. FlagBits(<< >>) = {} /\ PrioBits(<< >>) = {} /\ ExtBits(<< >>) = {}
    BY <1>3, <2>1 DEF FlagBits, PrioBits, ExtBits
  <2> QED BY <1>2, <2>2 DEF FlagsAre
<1> QED BY <1>2, <1>3, <1>4 DEF Has, NumberHas, EidHas

LEMMA CmdAskedAlways ==
  ASSUME NEW M, CommandLines(M), PlainEdits, SchemeFirst = {TRUE}
  PROVE  CmdSpec => [](CmdTypes /\ CmdStage /\ CmdAsked)
<1>1. CmdTypes /\ CmdAsked /\ [CmdNext]_<<vars, cmdVars>> => CmdAsked'
  <2> SUFFICES ASSUME CmdTypes, CmdAsked, [CmdNext]_<<vars, cmdVars>> PROVE CmdAsked'
    OBVIOUS
  <2>1. CASE OptionGiven
    <3>1. PICK o \in Options :
             \/ PrimaryNumber(o) \/ PrimaryFlag(o) \/ Prio(o) \/ EidOption(o)
             \/ ExtType(o) \/ ExtFlag(o) \/ ExtLength(o) \/ RefOption(o)
             \/ UnknownOption(o)
      BY <2>1 DEF OptionGiven
    <3>2. Building /\ pc = "options"
      BY <3>1, OptionBuilds DEF CmdTypes
    <3>3. Has(built, dict, argv)
      BY <3>2 DEF CmdAsked
    <3>4. pc' # "died" => Has(built', dict', argv')
      BY <3>1, <3>2, <3>3, OptionHas
    <3> QED BY <3>4 DEF CmdAsked
  <2>2. CASE ~ OptionGiven
    <3>1. built' = built /\ dict' = dict /\ argv' = argv
      BY <2>2, CmdSteps DEF Serialize, Edit, Write, Ended, vars, cmdVars
    <3>2. pc = "died" => pc' = "died"
      BY <2>2, CmdSteps, StepsFrom DEF Serialize, Edit, Write, Ended, vars, cmdVars
    <3> QED BY <3>1, <3>2 DEF CmdAsked
  <2> QED BY <2>1, <2>2
<1> QED BY <1>1, CmdAskedInit, CmdStageAlways, PTL DEF CmdSpec

\* What is in the output of an extension block.
LEMMA ExtWritten ==
  ASSUME NEW b, IsSeq(b.list)
  PROVE  \A k \in {"flags", "payload-length"} : Picked(k, ExtOut(b)) = <<b.fields[k]>>
<1> SUFFICES ASSUME NEW k \in {"flags", "payload-length"} PROVE Picked(k, ExtOut(b)) = <<b.fields[k]>>
  OBVIOUS
<1> DEFINE type == <<Byte("type", b.fields["type"])>>
           flags == <<Item("flags", b.fields["flags"])>>
           count == <<Item("ref-count", b.fields["ref-count"])>>
           refs == IF b.fields["ref-count"] # Zero THEN count \o RefItems(b.list) ELSE << >>
           length == <<Item("payload-length", b.fields["payload-length"])>>
           v == <<b.fields[k]>>
<1>1. ExtOut(b) = ((type \o flags) \o refs) \o length
  <2>1. <<Byte("type", b.fields["type"]), Item("flags", b.fields["flags"])>> = type \o flags
    BY TwoIs
  <2> QED BY <2>1 DEF ExtOut, RefItems
<1>2. /\ IsSeq(type) /\ Picked(k, type) = << >>
      /\ IsSeq(count) /\ Picked(k, count) = << >>
  <2>1. Byte("type", b.fields["type"]).name # k /\ Item("ref-count", b.fields["ref-count"]).name # k
    BY DEF Byte, Item
  <2> QED BY <2>1, OneIs, PickedOne
<1>3. /\ IsSeq(flags) /\ Picked(k, flags) = IF k = "flags" THEN v ELSE << >>
      /\ IsSeq(length) /\ Picked(k, length) = IF k = "payload-length" THEN v ELSE << >>
  <2> DEFINE x == Item("flags", b.fields["flags"])
             y == Item("payload-length", b.fields["payload-length"])
  <2>1. /\ x.name = "flags" /\ x.val = b.fields["flags"]
        /\ y.name = "payload-length" /\ y.val = b.fields["payload-length"]
    BY DEF Item
  <2> HIDE DEF x, y
  <2>2. Picked(k, <<x>>) = IF x.name = k THEN <<x.val>> ELSE << >>
    BY PickedOne
  <2>3. Picked(k, <<y>>) = IF y.name = k THEN <<y.val>> ELSE << >>
    BY PickedOne
  <2>4. IsSeq(<<x>>) /\ IsSeq(<<y>>)
    BY OneIs
  <2> QED BY <2>1, <2>2, <2>3, <2>4 DEF x, y
<1> HIDE DEF type, flags, count, length
<1>4. IsSeq(refs) /\ Picked(k, refs) = << >>
  <2>1. IsSeq(RefItems(b.list)) /\ Picked(k, RefItems(b.list)) = << >>
    <3>1. /\ IsSeq(RefItems(b.list))
          /\ \A n \in 1 .. Len(RefItems(b.list)) : RefItems(b.list)[n].name # k
      BY RefsNamed
    <3> QED BY <3>1, PickedNone
  <2>2. IsSeq(count \o RefItems(b.list)) /\ Picked(k, count \o RefItems(b.list)) = << >>
    <3>1. << >> \o << >> = << >>
      BY ConcatNothing, NothingIs
    <3> QED BY <1>2, <2>1, <3>1, PickedJoined
  <2>3. IsSeq(<< >>) /\ Picked(k, << >>) = << >>
    BY NothingIs, PickedNone
  <2> QED BY <2>2, <2>3
<1> HIDE DEF refs
<1>5. IsSeq(v)
  BY OneIs
<1> HIDE DEF v
<1>6. IsSeq(type \o flags) /\ Picked(k, type \o flags) = Picked(k, type) \o Picked(k, flags)
  BY <1>2, <1>3, PickedJoined
<1>7. /\ IsSeq((type \o flags) \o refs)
      /\ Picked(k, (type \o flags) \o refs) = Picked(k, type \o flags) \o Picked(k, refs)
  BY <1>4, <1>6, PickedJoined
<1>8. Picked(k, ((type \o flags) \o refs) \o length) = Picked(k, (type \o flags) \o refs) \o Picked(k, length)
  BY <1>3, <1>7, PickedJoined
<1>9. << >> \o v = v /\ v \o << >> = v /\ << >> \o << >> = << >>
  BY <1>5, ConcatNothing, NothingIs
<1>10. Picked(k, ExtOut(b)) = v
  <2>1. CASE k = "flags"
    BY <1>1, <1>2, <1>3, <1>4, <1>6, <1>7, <1>8, <1>9, <2>1
  <2>2. CASE k = "payload-length"
    BY <1>1, <1>2, <1>3, <1>4, <1>6, <1>7, <1>8, <1>9, <2>2
  <2> QED BY <2>1, <2>2
<1> QED BY <1>10 DEF v

-----------------------------------------------------------------------------
(* What was asked for is written *)

\* The block that is written, where nothing was edited.
LEMMA Remade ==
  ASSUME NEW M, CommandLines(M), PlainEdits, CmdTypes, CmdStage, pc = "written", Untouched
  PROVE  /\ Building /\ built.type \in BlockTypes /\ out = BlockOut(block) /\ block.type = built.type
         /\ block.list = IF built.type = "primary" THEN StringsOf(dict) ELSE built.list
         /\ \A k \in DOMAIN built.fields : block.fields[k] = MadeField(k)
<1>1. Building /\ wrote = Made /\ doc = wrote /\ AllLegible(doc)
  BY DEF CmdTypes, Untouched
<1>2. block = Meaning(doc) /\ out = BlockOut(block)
  BY <1>1 DEF CmdStage
<1>3. block = Meaning(Made)
  BY <1>1, <1>2
<1>4. built.type \in BlockTypes
  BY <1>1, MadeReadable
<1>5. /\ block.type = built.type
      /\ block.list = IF built.type = "primary" THEN StringsOf(dict) ELSE built.list
  BY <1>1, <1>3, MadeLists
<1>6. \A k \in DOMAIN built.fields : block.fields[k] = MadeField(k)
  BY <1>1, <1>3, MadeFields
<1> QED BY <1>1, <1>2, <1>4, <1>5, <1>6

LEMMA AskedWritten ==
  ASSUME NEW M, CommandLines(M), PlainEdits, CmdTypes, CmdStage, CmdAsked, pc = "written", Untouched
  PROVE  AsAsked
<1>1. /\ Building /\ built.type \in BlockTypes /\ out = BlockOut(block) /\ block.type = built.type
      /\ block.list = IF built.type = "primary" THEN StringsOf(dict) ELSE built.list
      /\ \A k \in DOMAIN built.fields : block.fields[k] = MadeField(k)
  BY Remade
<1>2. Has(built, dict, argv)
  BY DEF CmdAsked
<1>3. DOMAIN built.fields = DOMAIN NewBlock(built.type).fields
  BY <1>1 DEF Building, GoodFields
<1>4. /\ \A k : Written(k) = Picked(k, out)
      /\ \A k : Args(k) = ArgsIn(k, argv) /\ LastArg(k) = LastOf(k, argv)
  BY DEF Written, Picked, Args, ArgsIn, LastArg, LastOf
<1>5. \A k \in {"flags"} \cup NumberKeys : MadeField(k) = built.fields[k]
  BY DEF MadeField, NumberKeys
<1>6. AskedFlags = built.fields["flags"]
  <2>1. AskedFlags = IF built.type = "primary" THEN FlagBits(argv) \cup PrioBits(argv) ELSE ExtBits(argv)
    BY <1>4 DEF AskedFlags, FlagBits, PrioBits, ExtBits
  <2> QED BY <1>2, <2>1 DEF Has, FlagsAre
<1>7. ASSUME NEW k \in {"flags"} \cup NumberKeys, k \in DOMAIN built.fields
      PROVE  Written(k) = <<built.fields[k]>>
  <2>1. Picked(k, out) = <<block.fields[k]>>
    <3>1. CASE built.type = "primary"
      <4>1. out = PrimaryOut(block)
        BY <1>1, <3>1 DEF BlockOut
      <4>2. k \in {"version", "flags", "creation-ts", "creation-seq", "lifetime"}
        BY <1>3, <1>7, <3>1, PrimaryFieldTypes DEF NumberKeys, U32Keys, EidKeys
      <4> QED BY <4>1, <4>2, PrimaryWritten
    <3>2. CASE built.type = "extension"
      <4>1. out = ExtOut(block) /\ IsSeq(block.list)
        BY <1>1, <3>2 DEF BlockOut, Building
      <4>2. k \in {"flags", "payload-length"}
        BY <1>3, <1>7, <3>2, ExtFieldTypes DEF NumberKeys
      <4> QED BY <4>1, <4>2, ExtWritten
    <3> QED BY <1>1, <3>1, <3>2 DEF BlockTypes
  <2> QED BY <1>1, <1>4, <1>5, <1>7, <2>1
<1>8. "flags" \in DOMAIN built.fields
  BY <1>1, <1>3, PrimaryFieldTypes, ExtFieldTypes DEF BlockTypes, U32Keys
<1>9. Written("flags") = <<AskedFlags>>
  BY <1>6, <1>7, <1>8
<1>10. ASSUME NEW k \in NumberKeys, Args(k) # << >>
       PROVE  Written(k) = <<CastOf(k, LastArg(k))>>
  <2>1. k \in DOMAIN built.fields /\ built.fields[k] = CastOf(k, LastOf(k, argv))
    BY <1>2, <1>4, <1>10 DEF Has, NumberHas
  <2>2. Written(k) = <<built.fields[k]>>
    BY <1>7, <2>1
  <2> QED BY <1>4, <2>1, <2>2
<1>11. \A k \in {"version", "creation-ts", "creation-seq", "lifetime", "payload-length"} :
          Args(k) # << >> =>
            Written(k) = <<IF k = "version" THEN Cast8(LastArg(k)) ELSE Cast32(LastArg(k))>>
  BY <1>10 DEF CastOf, NumberKeys
<1> QED BY <1>9, <1>11 DEF AsAsked

\* If no string needs escaping, what is written is what was asked for, however
\* often and in whatever order options were given: the flags are those of every flag and report and of the
\* last priority alone, and each number is its last one, cut to its width.
THEOREM AskedIsWritten ==
  ASSUME NEW M, CommandLines(M), PlainEdits, SchemeFirst = {TRUE}
  PROVE  CmdSpec => []AsAsked
<1>1. CmdTypes /\ CmdStage /\ CmdAsked => AsAsked
  <2>1. CASE pc = "written" /\ Untouched
    BY <2>1, AskedWritten
  <2>2. CASE ~ (pc = "written" /\ Untouched)
    BY <2>2 DEF AsAsked
  <2> QED BY <2>1, <2>2
<1> QED BY <1>1, CmdAskedAlways, PTL

LEMMA EidsWritten ==
  ASSUME NEW M, CommandLines(M), PlainEdits, CmdTypes, CmdStage, CmdAsked, pc = "written",
         block.type = "primary", Untouched
  PROVE  EidsLocate
<1> DEFINE d == Dictionary(block.list)
<1>1. /\ Building /\ out = BlockOut(block) /\ built.type = "primary"
      /\ block.list = StringsOf(dict)
      /\ \A k \in DOMAIN built.fields : block.fields[k] = MadeField(k)
  BY Remade
<1>2. d.pos = dict.pos /\ DOMAIN d.held = DOMAIN dict.held
      /\ \A o \in DOMAIN dict.held : d.held[o] = dict.held[o]
  BY <1>1, MadeDictionary
<1> HIDE DEF d
<1>3. EidKeys \cup {"eids-size"} \subseteq DOMAIN built.fields
  BY <1>1, PrimaryFieldTypes DEF Building, GoodFields, U32Keys
<1>4. out = PrimaryOut(block)
  BY <1>1 DEF BlockOut
<1>5. /\ \A k : Written(k) = Picked(k, out)
      /\ \A k : Args(k) = ArgsIn(k, argv) /\ LastArg(k) = LastOf(k, argv)
  BY DEF Written, Picked, Args, ArgsIn, LastArg, LastOf
<1>6. Written("eids-size") = <<Bits(d.pos)>>
  <2>1. block.fields["eids-size"] = Bits(dict.pos)
    BY <1>1, <1>3 DEF MadeField
  <2>2. Picked("eids-size", out) = <<block.fields["eids-size"]>>
    BY <1>4, PrimaryWritten
  <2> QED BY <1>2, <1>5, <2>1, <2>2
<1>7. ASSUME NEW k \in EidKeys, Args(k) # << >>, NEW p \in {"scheme", "ssp"}
      PROVE  \E o \in DOMAIN d.held :
               /\ Bits(o) = Written(k)[IF p = "scheme" THEN 1 ELSE 2]
               /\ d.held[o] = LastArg(k)[p]
  <2>1. PICK o \in DOMAIN dict.held :
          Bits(o) = built.fields[k][p] /\ dict.held[o] = LastOf(k, argv)[p]
    BY <1>5, <1>7 DEF CmdAsked, Has, EidHas
  <2> DEFINE e == built.fields[k]
  <2>2. block.fields[k] = e
    BY <1>1, <1>3, <1>7 DEF MadeField, EidKeys
  <2>3. Written(k) = Parts(e)
    BY <1>4, <1>5, <1>7, <2>2, PrimaryWritten
  <2> HIDE DEF e
  <2>4. Parts(e)[1] = e.scheme /\ Parts(e)[2] = e.ssp
    BY TwoIs DEF Parts
  <2>5. Written(k)[IF p = "scheme" THEN 1 ELSE 2] = e[p]
    <3>1. CASE p = "scheme"
      BY <2>3, <2>4, <3>1
    <3>2. CASE p = "ssp"
      BY <2>3, <2>4, <3>2
    <3> QED BY <3>1, <3>2
  <2>6. /\ o \in DOMAIN d.held /\ Bits(o) = Written(k)[IF p = "scheme" THEN 1 ELSE 2]
        /\ d.held[o] = LastArg(k)[p]
    BY <1>2, <1>5, <2>1, <2>5 DEF e
  <2> QED BY <2>6
<1> QED BY <1>6, <1>7 DEF EidsLocate, d

\* In the block that is written, the offsets of each EID lead to the two strings
\* its last option gave, whatever strings others put in the dictionary before
\* and behind them, if none needs escaping, and the size before that dictionary is its own.
THEOREM EidsFound ==
  ASSUME NEW M, CommandLines(M), PlainEdits, SchemeFirst = {TRUE}
  PROVE  CmdSpec => []EidsLocate
<1>1. CmdTypes /\ CmdStage /\ CmdAsked => EidsLocate
  <2>1. CASE pc = "written" /\ block.type = "primary" /\ Untouched
    BY <2>1, EidsWritten
  <2>2. CASE ~ (pc = "written" /\ block.type = "primary" /\ Untouched)
    BY <2>2 DEF EidsLocate
  <2> QED BY <2>1, <2>2
<1> QED BY <1>1, CmdAskedAlways, PTL
=============================================================================

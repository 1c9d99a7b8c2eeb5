# mkbundle: specifications, model checking and proofs

mkbundle builds blocks of DTN bundles (RFC 5050). `mkbundle primary` and
`mkbundle extension` turn command-line options into a JSON document; a user may
edit that document; `mkbundle compile` reads it and writes the block in binary.
This directory models the program in TLA+, checks the models with TLC and proves
part of what the checks show with TLAPS.

Paths like `htable.c:279` are relative to `src/`.

## 1. The system

The program has one thread and each command is one process. What processes
share are files and pipes: a document on its way from the first command to compile,
and a binary block behind it. There are no messages and no locks; what is hard is
long sequences of legal calls, loops that must end, limits and widths, values that
are computed in one place and relied on in another, and what a command that fails,
is killed or cannot write leaves behind.

| Component | State | Operations | Talks to |
|---|---|---|---|
| Hash table (`htable.c`, `htable.h`) | slots with a hash, data and a forward bitmap; size and mask | init, lookup, add (scan, swap, grow, rehash), remove | its one user, the EID dictionary |
| String buffer (`strbuf.c`) | bytes, position, capacity | init, expect, append, finish | dictionary, input reader |
| EID dictionary (`primary-block.c`, `eid.h`) | buffer of terminated strings, map from their hashes to offsets, four EID fields | `add_eid`, `primary_block_add_eid` | hash table, string buffer |
| SDNV encoder (`sdnv.c`) | input byte string, output bytes, carried bits | `sdnv_len`, `sdnv_encode` | `calc_length`, the binary writers |
| Input reader (`util.c`) | stream, chunk, string buffer | `collect` | the C library's stream |
| Token parser (`parser.c`) | tokens, current token, error flag | parse, advance, `parse_sym`, `parse_u8`, `parse_u32`, `parse_eid` | jsmn, block reader |
| jsmn (`jsmn/jsmn.c`) | position, tokens, innermost open container | `jsmn_parse` | token parser |
| Block reader (`block.c`, `primary-block.c`, `ext-block.c`, `alist.c`) | block, symbols visited, list of strings or references | `*_unserialize`, `parse_eids`, `parse_refs` | token parser |
| Commands (`mkbundle.c`, `ui.c`) | the block under construction; the streams opened | `main`, one per option, `*_serialize`, `*_write` | all of the above, files |
| greatest (`greatest.h`) | a vendored test framework | | |

What makes each of them correct, and what could go wrong:

* **Hash table.** It is a map: a lookup gives what was last stored for a hash.
  An add can move other entries (swaps), reorganise the whole table (growth), or do
  both several times over; the bitmaps that lookups follow must fit at each step.
  Every add must return, though it loops over swaps and growths.
* **EID dictionary.** An offset written into a field names the string that was
  given for it, for ever. The offset is stored in the table before the string is in
  the buffer, the two strings of an EID are added in an order C leaves open, and the
  table may grow in between.
* **SDNV encoder.** Decoding gives the number back; the last byte, and no other,
  ends it; no byte is wasted. Compaction depends on the byte count modulo eight.
* **Input reader.** The buffer holds the file when the reader returns; it returns.
* **jsmn and token parser.** Of a text that was written the tokens that
  were meant are read; of any text that is accepted they make a tree, whose sizes
  count what there is. A text that was cut off is not accepted.
* **Block reader.** Exactly the well-formed documents are
  accepted, with the block they describe, whatever the order of their members; the
  loops end. Error flags are looked at late, and one return value never.
* **Commands.** What is written is what was asked for: flags and priorities in
  any order, EIDs whose offsets lead to their strings, a length that counts the bytes
  that follow it. The length is computed by one process and relied on by the other,
  and a user may edit it in between. A command that fails empties no file it did not
  open and writes nothing; compile does not destroy what it reads.

## 2. Modules

| Module | Models | Built on |
|---|---|---|
| `HashMap` | abstract: a map with add, lookup, remove | |
| `HopscotchTable` | the hash table | implements `HashMap` |
| `HopscotchTableProofs` | theorems about its bitmaps and entries | `HopscotchTable` |
| `HopscotchMapProofs` | theorems: no hash twice, implements `HashMap` | `HopscotchTableProofs` |
| `StrBuf` | operators of the string buffer | |
| `EidStrings` | operators of a dictionary as its reader sees it | |
| `EidIntern` | abstract: a dictionary that compares strings | `EidStrings` |
| `EidDict` | the dictionary over table and buffer | `HopscotchTable`, `StrBuf`; implements `EidIntern` |
| `EidDictProofs` | theorems about it, and that it does | `EidDict`, `HopscotchMapProofs` |
| `Sdnv` | the SDNV encoder | |
| `SdnvProofs` | theorems about it | `Sdnv` |
| `Collect` | the input reader | `StrBuf` |
| `TokenParser` | operators of the token parser | |
| `Jsmn` | operators: the text of a document, and the tokens of a text | `TokenParser` |
| `JsmnProofs` | theorems: the tokens of any text, and of a text that was written | `Jsmn` |
| `Unserialize` | from a text to a block | `Jsmn` |
| `UnserializeProofs` | theorems about it | `Unserialize`, `JsmnProofs` |
| `MkBundle` | both commands, the document, edits of it, compile | `Unserialize`, `EidStrings` |
| `MkBundleProofs` | theorems about it | `MkBundle`, `UnserializeProofs` |
| `CommandEffects` | abstract: what commands may do to files | |
| `Commands` | the commands as processes that share files | `Collect`; implements `CommandEffects` |
| `CommandsProofs` | theorems about it | `Commands` |

The modules `MC...` give the instances TLC checks. Modules begin with a few
"slips": variants of a definition with a plausible error. The models do not use
them; each shows that a property notices an error of that kind.

### HopscotchTable

A table is a record of `size`, `mask` and three functions on its slots: `hash` (0,
`Empty`, marks a free slot), `fwd` (the forward bitmap, as the set of its bits) and
`data`. `HTABLE_LOOKUP` and `HTABLE_REMOVE` are single steps. `HTABLE_ADD` is taken
apart, so that every table its loops pass through is a state:

* `Add` begins; `FindIdentical`, `FindEmpty`, `FindEmptySwap` are the three ways
  the scan of `HTABLE_FIND_SLOT` succeeds (`pc = "find"`);
* `Swap` is one turn of the swap loop of `HTABLE_ADD_HASH`, `Place` its end;
* `Grow` is one turn of the loop of `HTABLE_GROW`, for every way `HTABLE_ADD_HASH`
  fails (`NoSlot`), also during a rehash: a nested growth;
* `Rehash` is one turn of `HTABLE_REHASH`, `Grown` its end.

`old` is the table being rehashed. Two kinds of undefined behaviour are choices of the model: the
words found behind the end of a table (`Beyond`; `HTABLE_REHASH` loops up to a
size that was doubled before), and the bit a shift of `1u` by too many places makes
(`ShiftBit`). `BucketSize` is the width of `htable_fwd_t` and `UintBits` that of an
unsigned int: they are equal where `uint_fast32_t` has 32 bits, and 64 and 32 with
glibc on LP64.

### EidDict, EidIntern

`AddEid` begins an EID; for each of its parts `add_eid` either finds the string
(`Reuse`) or calls the table (`Intern`, then the table's own steps, `TableStep`)
and then appends string and terminator (`AppendString`). Either part may come
first: the calls are in one initializer list. Offsets are the table's data.
`EidIntern` is the same without table and buffer, by comparison of strings.

### Sdnv

A byte is the set of its bits, a number the set of the positions of its bits, so
that 64-bit numbers need no big integers. `Start`, `Turn` and `Finish` are
`sdnv_encode` up to, in and after its loop.

### Collect

`Test`, `Read`/`ReadFails` and `AppendChunk` are the parts of a turn. The stream is
the C library's: a read that stops short meets the end of the file, or fails.

### Jsmn, TokenParser

A document is a tree of values, a number the set of its bits. `Text` is what the
commands write of it: a sequence of lexemes. A lexeme is a character jsmn tells
apart (a quote, a backslash, a bracket, ...) or a run of characters it does not (a
word, the digits of a number, white space). `Spelling` gives the strings that are
more than one word their lexemes: serialising puts them between quotes as they are.

`jsmn_parse` is a recursive function of the number of turns of its loop, with one operator for each of
the cases of its switch (`OpenContainer`, `CloseContainer`, `jsmn_parse_string`, ...),
as jsmn is built here: neither strict nor with parent links. `SeenTokens` says what
the token parser sees of a token: its type, its size, and its number or symbol, if it is one.
`Tokens` is what jsmn ought to find: it is not used to read, only to compare.

The parser's operators (`ParseSym`, `ParseU8`, `ParseEid`, ...) give a value and the
parser after it.

### Unserialize

`Parse` is `parser_parse`; then one turn of a loop is taken at a time. The loops of the two
block types are alike and differ by the table `KindOf` alone. A behaviour begins
with the text of a document, with one that was cut at any place, or with any text at all.

### MkBundle

One action per kind of option; `Serialize` ends the first command and hands the
document to the steps of `Unserialize`; `Write` ends the second. `out` is what was
written, a sequence of named numbers with the bytes each takes. `Edit` is the user: it puts
another member in place of one of the document. `EidDict` shows
that the hash table cannot be seen from outside, so the strings are those of
`EidStrings` here.

### Commands, CommandEffects

Here the contents of a document do not matter and files do: `files` holds the bytes in each, in
the pipe between the commands and on the terminal. `Run` begins a command, and one action per kind of option
is a turn of its loop: `OpenIn` and `OpenOut` are `-i` and `-o`, which open files while the
options are read. Then `Serialize` writes a document, or `Collecting` begins the
steps of `Collect`, and `Write` or `Reject` ends compile.

What may go wrong is part of the actions: `fopen` may fail (`OpenIn`, `OpenOut`), a
stream may fail at every read (`ReadFails`), any beginning of what is written may be all that
arrives (`Put`; the process ends normally or not, as nothing looks at what `fclose`
returns), and a process may be killed at any step (`Kill`). Processes that run at the
same time are not modelled: of a pipe, the reader begins when the writer has ended.

`CommandEffects` says the same without options, streams or a reader: a command empties places and
then fills at most the last of them, with the beginning of a document, or of the block
of a text found in a place it has not emptied.

## 3. Runs

| Run | Question | States |
|---|---|---|
| `HopscotchTable` | Is the table a map, do bitmaps and entries agree at every step, do adds return? | 78,847 |
| `HopscotchRemove` | Do bitmaps and entries agree when entries are removed as well? | 8,297 |
| `EidDict` | Does the dictionary behave as `EidIntern`, with every string stored once, in the buffer, and each field filled? | 180,961 |
| `Sdnv` | Is the encoding reversible, safe in its indices, self-delimiting, shortest up to 56 bits? | 19,068 |
| `Unserialize` | Does the parser read what was written, of what texts does it make a tree, is a cut document noticed? Are exactly the well-formed documents accepted, which malformed EIDs escape, do the loops end? | 124,922 |
| `MkBundle` | From options to bytes, and with an edit in between: is it what was asked for? Which documents does compile refuse? | 101,398 |
| `Commands` | What do commands do to the files they share, whatever fails, and do they end? | 209,670 |
| `HopscotchOverread`, `HopscotchWideFwd`, `CollectFails`, `UnserializeBadEid`, `MkBundleRefs` | disagreements, section 6 | |

### Bounds, and why they are enough

* **Hash table.** Four slots that grow to at most 32 (`MaxSize`), buckets of two,
  five hashes: two of them share a bucket until the table has been doubled
  twice, and several have buckets that wrap around the end. Swaps, stuck swaps, growths and growths within a growth all
  happen. The ratio of table to bucket (two) is that of the program where the bitmap has
  32 bits (64 slots, `primary-block.h:30`); the program's own sizes only make the
  paths longer. `MaxSize` is not met: with it a `Grow` would be missing and
  `AddReturns` would fail. The theorems of section 5 hold for every size.
* **Dictionary.** Three EIDs over four strings, one of them empty; three strings
  meet in one bucket, so that the table grows while a string is being added. The
  buffer begins smaller than a string.
* **SDNV.** All strings of one byte, and those of two to eight bytes whose first byte is of
  each kind compaction tells apart. Eight bytes are the widest the program encodes.
* **Unserialize.** Every document that differs from a well-formed one in one place
  (a value of a wrong kind, width or length; a key; a member missing or repeated; the
  head), its members in four orders, so that each is the last of some
  document: what stands last is treated differently. Limits are scaled down
  (`RefCap` 3 for 16, `MaxTokens` 50 for 256) and both exceeded. Strings with brackets, commas,
  escape sequences, stray backslashes and quotes, alone, twice and between others. Five documents, one of which does not fit,
  cut at every place. All texts of up to five brackets, quotes and commas, and of up to
  four with words, numbers, backslashes and characters that end a text as well: five are enough for a
  container in a container that closes, and for an element behind it.
* **MkBundle.** Up to three options, in every order, of both commands: enough
  for a priority between flags, a field given twice, EIDs that share a string, a full list of references.
  One string is so long that the offsets behind it take two bytes. One edit, of a document made with
  no option or one (`MaxEdited`), to each of six members whose values no longer fit the others.
  EIDs and edits with strings that have escape sequences, quotes and stray backslashes, and room for 37 tokens (`MaxTokens`),
  what a primary block with three strings takes: documents are refused for either reason, and some are
  accepted of which compile reads other strings than were given.
* **Commands.** Two commands (`MaxRuns`), one after the other, over two files, with up to three options each:
  enough for a pipe, for both orders of `-i` and `-o`, and for a second `-o`. A
  file begins absent, as a document, or as a document with more behind it. Chunks of two
  bytes and files of nought to seven: every remainder, and the whole multiples, which need one more read.
  The theorems of section 5 hold for every number of commands, options, files and bytes.

### Fairness

All liveness properties assume weak fairness of the steps of the call or process in
progress, and nothing of the callers: the program is one thread, no loop waits for
anything but the standard input, and an `fread` is assumed to answer. Nothing is assumed
about the answer: a stream may fail at every read. Nobody has to begin a command, to edit a
document or to kill a process.

`CHECK_DEADLOCK` is on in all runs. Where a command or call is over, a step that
changes nothing says so (`Returned`, `Ended`, `Done`).

## 4. What the passing runs show

* `Refines` (`HopscotchTable`): the table is a map, `HashMap`, through any swaps and
  growths. `FwdSound`, `Reachable` and `Unique` say why: a bit leads to an entry of its own
  bucket, every entry has its bit, no hash has two entries. While an entry is being
  swapped in, one slot (`Stale`) holds a hash that has moved on, and none
  of the three may count on it.
* `AddReturns`: the swap loop ends, and a growth makes room.
* `Implements` (`EidDict`): table, buffer and the compiler's choice of an order
  cannot be seen. `WalkVisitsAll`: the walk of `serialize_eids` from terminator to
  terminator finds exactly the strings added.
* `NothingLost` (`Sdnv`): at each turn the bytes written, the bits carried and the
  bytes to come make up the number; `DecodesBack` is its end. `IndexSafe`: the
  index is never used after it has wrapped below zero.
* `ReadBack` (`Unserialize`): the tokens of a text that was written are those that were meant, if
  no string needs escaping. Escape sequences go through as they are, from the
  command line into the block. `OnlyLegible`: and only then; section 6 says what becomes of the others.
* `TreeShaped`: whatever text jsmn accepts, brackets match, tokens do not overlap, and a container counts
  its elements. `parse_eids` and `parse_refs` count by it.
* `CutRejected`: a document whose end did not reach the disk is not accepted, wherever
  it ends, although nothing noticed when it was written.
* `AcceptsExactly` (`Unserialize`): acceptance is well-formedness, where no EID is
  malformed and a type and one value precede the members. With more or fewer of them the code takes keys for
  values; the document `Shifted` is accepted although it has none of the keys where they belong.
* `BadEidCaught` says what becomes of malformed EIDs: although no caller
  looks at what `parser_parse_eid` returns, they are caught later, as the parser
  then meets a token that is no symbol, unless the value is the last thing in the
  document, or has a symbol among its strings, or its references read, token by token, as if they were nested
  as they ought to be (`[[[5], 1]]`).
* `CompileWrites` (`MkBundle`): compile ends, and writes every document of the other commands, edited or not, whose strings
  need no escaping and whose tokens fit. Where strings need none it refuses all documents whose tokens do not fit; where
  they would need it, it refuses some documents and reads others wrong (section 6).
* `LengthCounts`, `EidsLocate`, `AsAsked` (`MkBundle`): where no string needs escaping, the block that is written
  is the one asked for. `EditStays`, there too: what a user edits is
  written as it is, and nothing else changes with it, `length` and offsets that no
  longer fit included; the references alone depend on another member, `ref-count`.
* `FailureLeaves` (`Commands`): a command that fails has emptied the files its `-o` options
  named before, whatever was in them, and has changed nothing else. So a document
  compile does not accept costs the block that was there before.
* `InputKept`: a compile that succeeds has read all of its input, which is still there. `-i` and `-o` with the same
  file empty it, in either order, and then the empty text is not accepted.
* `Implements` (`Commands`): whatever the options and whatever goes wrong when, no file gets
  more than one piece of one output, and none but the last one named gets any.
* `Whole`, `EndsUnlessFailing`: collect has read the whole file when it returns, and only
  a stream that fails for ever keeps a command from ending.

## 5. Proofs

`HopscotchTableProofs` proves, for every size of table and bucket and every set of hashes:

* `TypeCorrect`: `Spec => []TypeOK`. The slots touched are allocated ones, and sizes,
  masks and loop counters agree through nested growths, for every width of the bitmap and any memory behind a table.
* `EntriesFound`: `Spec => []Reachable`, and `BitsLeadHome`: `Spec => []FwdSound`, with removals or without, assuming
  `NarrowBitmap` (`BucketSize <= UintBits`: the bitmap is no wider than what is
  shifted into it) and `ProperUse` (no key has the hash 0). Both are needed: section 6.

`FwdSound /\ Reachable` is not inductive. A place step needs that the slot is within
reach of the entry's bucket (`PlaceInReach`), which the scan or the last swap
established; a swap needs that the slot to fill is excepted from both (`Stale`), and that the hash on
its way is no `Empty` (`JobReal`), even one that was read behind the end of a table. With `TypeOK`
these conjuncts make `IInv`. The proof of a step follows the actions; what moving, placing
or removing an entry does to a table is a lemma of its own (`MoveOK`, `PlaceOK`, `RemoveOK`),
over arithmetic of slots around the end of the table (`SlotAt`, `OffsetOf`, `InBucketReach`).

`SdnvProofs` proves, for all inputs of 1 to 16 bytes (`InputsAssumption`; the program's have eight):

* `TypeCorrect` and `IndicesSafe`: input and output are indexed within their arrays.
* `DelimitsItself`: `Spec => []SelfDelimiting`.
* `NothingIsLost`: `Spec => []NothingLost`.
* `NumbersDecoded`: `Spec => []DecodesBack`, assuming that at most eight bytes are
  significant (`Short`). Of nine, compaction may leave no room for the highest bits (`sdnv.c:95`).
* `LengthNeeded`: `Spec => []ShortLengthIsNeeded`.

What makes these inductive is a count of bits (`Progress`): eight for each input byte the loop is
done with are seven for each output byte it has written, and `bit` more. As the length was computed from the number of bytes, this linear
equation bounds `i` from below when `j` is given, and at the end of the loop leaves
one value for `i` and `bit`, with compaction and without, as long as no more than eight
bytes are significant (`MsbHolds`). That a turn loses no bit is a lemma about sets of positions (`Distributed`).

`CommandsProofs` proves, for any files, documents, chunk size and number of commands and options:

* `SessionTypeCorrect`, `InputWhole`: `Session => []Whole`.
* `FailureLeavesEmpty`: `Session => []FailureLeaves`; `InputStays`: `Session => InputKept`.
* `Refinement`: `Session => Implements`, each step of the detailed specification is one of
  `CommandEffects` or stutters.

The assumptions are those of the modules (`CommandsAssumption`, `CollectAssumption`): a text that is a beginning of
a file is a file, and the empty text describes no block. The last is what `InputStays` needs: an input that
is also an output is empty, and so compile fails. The invariant says what a running process has done to the
files (`Running`: all those it opened are empty, the others as before, and the one it writes to
is empty until it writes), and what the reader has of its file (`Reading`: the buffer
is the beginning of the file, up to the chunk not yet appended, and the end is met no sooner
than all of it is read).

`HopscotchMapProofs` proves of the table, for every size, bucket and set of hashes, where entries are never removed
(`NoRemoval`; the program removes none, and with removals both are wrong: section 6) and the bitmap is narrow:

* `HashesUnique`: `Spec => []Unique`. What makes it inductive: no slot between a
  bucket and one of its entries is free (`Gapless`), so that a scan that stops at a
  free slot has passed every entry its hash could have (`ScanSays`); from then on the hash is known to be
  absent (`NotThere`), and what was scanned stays scanned while swaps bring the free slot
  closer (`SwapScan`, `PlaceScan`). The one exception is a swap loop for a bucket that wraps
  around the end of the table (section 6): it leaves gaps, and always ends in a growth, which
  leaves the table behind.
* `TableIsMap`: `Spec => Refines`, where the memory behind a table reads as free slots
  (`CleanBeyond`; section 6 says what happens otherwise). While a table grows, the one set aside answers for its
  entries (`OldAnswers`), what the loop of the rehash has passed is in the new one (`CopiedSoFar`) and
  nothing else is (`OnlyCopies`), and the entry on its way is the one at the loop's index
  (`JobIsEntry`); so the map a caller sees does not change until the new table has all of it.

`EidDictProofs` proves of the dictionary, under the same assumptions and where no two strings share a hash (`NoCollisions`):

* `DictTypeCorrect`, `FieldsNamed`, `StringsStoredOnce`, `WalkComplete`: the invariants of the run `EidDict`.
* `DictImplements`: `DictSpec => Implements`.

The table's invariants are those of its own proofs: a step of the table is one of `HopscotchTable`, whatever
the dictionary does between. The dictionary adds what connects the two: the table
answers for each string of the buffer with its offset and for no other, but for the one on its way
(`TableTellsOffsets`, `AddingNew`), and a string ends where the buffer ends (`LastString`).

`JsmnProofs` proves of `jsmn_parse`, for texts and token arrays of any length:

* `AcceptedIsTree`: what is accepted makes a tree, brackets match, and the sizes of containers count their elements.
  The invariant of a turn (`ParserInv`): of two tokens one lies in the other or before it, brackets match,
  `super` is the innermost open container, and sizes count what is there so far.
* `PlainReadBack`: of the text of a document the tokens are those of its values, if its strings need
  no escaping and the tokens fit. A text is read piece by piece: `Reads(..., piece, new, ...)` says that
  from any parser standing before the piece, with the container counts it had, the parser
  comes to stand behind it with the tokens `new` added. There is such a lemma for a string, a primitive, white space, a
  bracket, and for what is made of them: a list of pieces, a container, a value, a member, a document.
* Lemmas about texts that were not written whole, or not so that they can be read: whatever the text, the strings found in it are
  legible (`StringsLegible`); what one turn leaves in the token array later turns keep (`Grown`, `ChainGrown`); and a turn in a text
  that is cut is one in the whole text, but for a word the cut ends (`CutTurn`, `CutChain`), so that of a document cut before its last bracket
  jsmn accepts one token at most, because its second token, the object of the members, is open until then (`OpenToTheEnd`, `CutTokens`).

`jsmn_parse` is a recursive function on the naturals, and what it does is proved by
induction: a claim becomes a set of numbers, and a set that has 0 and the successor of each of its numbers has them all
(`UpTo`, from `LeastNumber`: a least number for which the claim fails would have a predecessor for which it fails), since the library's induction rules have an operator for a parameter. The same shows that
the recursive functions (the turns, the scan of a string, `FlattenSeq`) exist at all.

`UnserializeProofs` proves of reading a block:

* `TreesShaped`: `Spec => []TreeShaped`, of documents whole or cut, and of any other texts.
* `TypeCorrect`: `Spec => []TypeOK`. The current token is one there is, at every turn, whatever sizes the
  document makes up; fields hold numbers of their width; references stay within their capacity.
* `DocsReadBack`: `Spec => []ReadBack`.
* `DocsAcceptedExactly`: `Spec => []AcceptsExactly`, assuming `SchemeFirst = {TRUE}`: C does not say which of
  the two numbers of an EID is parsed first, and where a compiler takes the second one first they are swapped. The
  runs take the order of the text too.

With `ReadBack` the tokens are those of the document, and `Stage` says where among them the parser is: `AtMember(n)` at the key of
member `n`, `AtElem(n, j)` at element `j` of its list. Both say that all members before it fit and that block and
symbols are what those members amount to (`Filled`), the last value of a repeated key and the lists joined. Otherwise
the parser has met what it will reject (`Doomed`). A turn of a loop takes one of these to the next
because tokens lie member by member (`Behind`, `ElemAt`), at the sums of their lengths.

* `BadEidsCaught`: `Spec => []BadEidCaught`, whichever number of an EID is parsed first.
* `OnlyLegibleRead`: `Spec => []OnlyLegible`. A string token holds what the scan of a string came through, and that is legible
  (`FoundIInv`); and every string of a document is in one of the tokens that stand for it (`DocHolds`). So where these tokens are
  what was read, every string is legible where it is written.
* `CutsRejected`: `Spec => []CutRejected`. The parser is given one token at most (`CutTokens`), the name of the block's type,
  and a block needs another (`CutIInv`). The invariant has to go back to the text: what is accepted in the end says nothing of
  brackets that are missing.

Where an EID is malformed the parser and the document no longer go together, and `Stage` says nothing. What remains is
that no function of the parser goes past a string, but `parser_parse_sym` past a symbol and `parse_eids` past as many as the array has; and every
key is a string (`PlainKeys`). So the parser comes to each key in turn: it is in member `n` (`InMember`, `InEids`,
`InRefs`), all members before it have no malformed EID or are one of the exceptions (`ExcusedTo`), and it has failed, or
goes on to the next one only at its key. A value it leaves behind untouched is then taken for a symbol and has to be one
(`SymbolExcuses`), and references it reads from one key to the next come by threes (`EidsTo`).

Hypotheses: `Inputs(L)` says that the texts are sequences over some set `L` of lexemes in which only a bracket has the class of that bracket, as of
characters (`Lexicon`). `DocumentsIn(M)` says it of the documents, for a set `M` without the character that ends a
text (argument strings have none), and that values are nested as deep as the program nests
them (`Plain`): arrays of arrays of strings and numbers. `SpellingAssumption` says that strings are
told apart by how they are spelled, and `TokensAssumption` that there is room for a token, and `SymbolsAssumption` that `SYM_INVALID` is no symbol; TLC evaluates them.
`WordsApart(M)`, of `OnlyLegibleRead`: `Spelling` gives no second spelling to a word of the lexicon. `CutFromWritten`, of `CutsRejected`: the documents that are cut are
a type and an object, as the commands write them, need no escaping, and have tokens that fit; of the beginning
of another document nothing is said. The documents and texts of the run
meet all of these, but for one that is cut and does not fit (`TooLong`).

`MkBundleProofs` proves of a block from the options to the bytes, for any number of options, any strings and any edits:

* `CmdTypeCorrect`: `CmdSpec => []CmdTypeOK`.
* `AskedIsWritten`: `CmdSpec => []AsAsked`, and `EidsFound`: `CmdSpec => []EidsLocate`.
* `LengthsCount`: `CmdSpec => []LengthCounts`.
* `EditsStay`: `CmdSpec => []EditStays`.
* `JudgedRightly`: `CmdSpec => []Judgement`, what `CompileWrites` says but for the end of compile.

While options come, `Building` gives the types of what is built, and `CmdAsked` says that the block has what the options so
far have asked for (`Has`): for the flags this needs that no flag or report has a bit of the priority's, and that
no priority but the invalid one has another, which would have ended the command (`SymbolsApart`, `PrioGiven`); for an EID that a dictionary
keeps the strings it holds where they are (`InternedOK`). That a dictionary is a list of strings laid end to end (`Laid`) is what makes the walk
of `serialize_eids` and the buffer `compile` fills agree (`StringsFound`, `DictionaryLaid`, `MadeDictionary`).

The document is then `Made`, or that with one member changed (`EditOf`); either has each key once, in the order of the
writer (`Shaped`), so that it is one of those `UnserializeProofs` is about, with no malformed EID (`ShapedPlain`, `CmdJudged`). From there the proof reuses `Stage`:
what is accepted is well-formed, and the block is the one the document describes (`CmdStage`). What it describes is, field by field, what was built
(`MadeFields`, `MadeLists`). At last the output is a concatenation of parts, and what is in it under a name (`Picked`), beside some names
(`Rest`), or behind the length (`Behind3`) is the concatenation of what is in each (`PickedBoth`, `RestBoth`, `ItemizedBoth`);
`calc_length` and the lengths of the items add up the same numbers.

Hypotheses: `CommandLines(M)` says that strings, symbols and numbers are spelled in a lexicon as above, and edits
too, but nothing of quotes or backslashes in them: all but the types are stated of documents that need no escaping. `PlainEdits` says that an edit is plain,
and puts EIDs where EIDs belong; `FittingEdits`, of `JudgedRightly`, that it is well-formed; and all but the types are proved for `SchemeFirst = {TRUE}`. The constants of the run `MkBundle` meet all of these. `Bits(n)` is `n` modulo 2^16,
where offsets, sizes and lengths are turned into bits, so theorems about these numbers are about them modulo 2^16.

Only model-checked: all liveness (`AddReturns`, `FieldsFilled`, `Ends`, `EndsUnlessFailing`, `CompileWrites`), as fairness is out of the prover's reach, and `CutRejected`
of a document that does not fit.

## 6. Where code and comments disagree

By a run that finds the disagreement:

* `HopscotchOverread`. `HTABLE_GROW` doubles `ht->size` (`htable.c:279`), and
  `HTABLE_REHASH` loops up to it: the second half of its turns read memory behind the
  table. What reads as a hash there is added, and a lookup of it then succeeds.
* `HopscotchWideFwd`. `htable_fwd_t` is `uint_fast32_t`, 64 bits wide with glibc on
  LP64; `1u << n` (`htable.c:244`) has 32. Entries in the upper half of a bucket get no
  bit, or a wrong one, and are not found. The dictionary then stores a string again: its
  block is right but longer.
* `CollectFails`. `collect` tests `feof` only (`util.c:41`): reading a directory
  never ends.
* `UnserializeBadEid`. A document whose last value is a malformed EID is accepted.
* `MkBundleRefs`. `ext_block_add_ref` does not count (`ext-block.c:283`), and
  `ext_block_write` writes references only where `ref_count` is not 0: those given
  with `--ref` are lost unless the document is edited.

Others met while modelling, each at the edge of what the runs assume:

* A key with the hash 0 is stored in a slot that stays free (`htable.c:158`). The runs have
  no such key.
* After a removal, an add may find a free slot before the slot that
  holds its hash, and make a second entry. Nothing in the program removes entries; `Refines`
  and `Unique` are checked without removals.
* Strings are told apart by a 32-bit hash alone (`htable.c:121`): of two strings that
  collide, the second gets the offset of the first. The `EidDict` run has no collision.
* For a bucket that wraps around the end of the table the swap loop does not notice
  that it has reached the bucket (`htable.c:234`), goes on while it can, and then grows the table. The map is right all the same.
* The two calls in the initializer list of `parser_parse_eid` (`parser.c:251`) each
  consume a token; with the other order of evaluation scheme and ssp are exchanged.
  The runs take the order of the text (`SchemeFirst`).
* A token that is no string gives the first symbol (`parser.c:118`), against
  `parser.h:50`; the error flag still stops it.
* A number of eight significant bytes takes a byte more than it needs unless its
  highest bit is set, and one of nine is compacted although it does not fit (`sdnv.c:95`). The program writes at most
  56 significant bits.
* The test for an invalid extension flag never fails, for the cast before it removes
  its bit (`mkbundle.c:332`). Such a flag is ignored, which `AsAsked` allows for.
* Strings are not escaped (`primary-block.c:88`). An EID with a quote in it makes a document
  that is refused, or one that is accepted and has other strings: `a", "b` is read as two.
  `ReadBack` and `OnlyLegible` say which strings are safe, and `CompileWrites` that nothing but this and too many tokens
  makes compile refuse what a command has written.
* What `fprintf`, `fwrite` and `fclose` return is not looked at (`mkbundle.c:248`): a command whose output did not reach the disk
  ends as if it had. A document that was cut is refused by compile (`CutRejected`); a block that was cut is nobody's to notice here.
* `-o` empties its file before the options behind it, and the input, have been looked at (`mkbundle.c:401`).
* Of several `-o` the last counts; the files of the others are empty afterwards, and their streams are not closed.
* The option the help calls `--creation` (`mkbundle.c:90`) abbreviates two options and is
  ignored with a warning.

## 7. Not modelled

* greatest, a vendored test framework, and jsmn's options that are not built (`JSMN_STRICT`,
  `JSMN_PARENT_LINKS`); `jsmn_parse` with an array too small is modelled as far as `parser_parse` uses it.
* How a number is spelled in a document: its digits are one lexeme, that has its bits. The buffer of
  compile has no terminator (`mkbundle.c:410`), so `strtoull` could read on behind a number that is the last
  lexeme; a document ends with brackets, and one that
  was cut is refused before any number is looked at.
* A single token behind the last key and value: documents are a head and pairs. The code does not look at one there
  (`parser.h:32`).
* Help texts, warnings, and what `malloc` may refuse.
* Processes that run at the same time, on a pipe or on files: `Commands` runs one after the other.
* `HTABLE_FIXED`, `HTABLE_DESTROY`, `ALIST_POP`, `strbuf_init_buf` and the destroy
  functions: unused, or no more than a free.
* That `fnv` spreads hashes: it is any function.

## 8. Plan

Done, in this order: the hash table, then the dictionary over it, as the program's one
intricate data structure; the encoder, the reader and the parser, each by itself; the
commands, which compose them; text and jsmn, edits, and the commands as processes that share files; the theorems
about the table's bitmaps, the encoder, the reader and the processes; then those about the table as a map, the dictionary, jsmn,
what the block reader accepts, what the commands write, and what becomes of texts that are cut or need escaping. Next:

1. Model: the unused fixed-size variant of the table, if it comes into use; a run of the table with
   `BucketSize` 3 and wrapping buckets; `primary` and `compile` running at the same time on one file.
2. Prove `CutRejected` without `CutFromWritten`'s bound on the tokens: a document that does not fit, cut where what is left does.

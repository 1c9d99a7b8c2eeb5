------------------------------- MODULE StrBuf -------------------------------
(***************************************************************************)
(* The growing byte buffer of strbuf.c.  A buffer is a record: pos is the  *)
(* number of bytes in use, cap the number allocated.  Modules that care    *)
(* what the bytes are keep them beside it.                                 *)
(***************************************************************************)
EXTENDS Naturals

\* Slips the properties of other modules notice: room is made only when the
\* buffer is already full; the terminator is forgotten.
ExpectWhenFull(sb, n) == IF sb.pos >= sb.cap THEN [sb EXCEPT !.cap = @ + n] ELSE sb
FinishedNot(sb) == sb

\* strbuf_init
NewBuf(n) == [pos |-> 0, cap |-> n]

\* strbuf_expect
Expect(sb, n) == IF sb.pos + n > sb.cap THEN [sb EXCEPT !.cap = @ + n] ELSE sb

\* strbuf_append, of n bytes
Appended(sb, n) == [Expect(sb, n) EXCEPT !.pos = @ + n]

\* strbuf_finish
Finished(sb) == Appended(sb, 1)

\* No byte in use lies outside the allocation.
Fits(sb) == sb.pos <= sb.cap
=============================================================================

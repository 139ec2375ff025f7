---------------------------- MODULE Lz4Format ----------------------------
(***************************************************************************)
(* The LZ4 block format as the encoders of lz4.c and lz4hc.c produce it:   *)
(* the parsing restrictions, what a sequence costs in bytes, the checks    *)
(* the encoders make before they write one, and what a block means.        *)
(*                                                                         *)
(* A block is a sequence of records [lit, off, len]: lit is the tuple of   *)
(* literal bytes, then len bytes are copied from off bytes back.  The last *)
(* record has len = 0 and no offset.                                       *)
(***************************************************************************)
EXTENDS Integers, Sequences

MINMATCH       == 4
WILDCOPYLENGTH == 8
LASTLITERALS   == 5     \* the last five bytes are literals
MFLIMIT        == 12    \* no match starts in the last twelve bytes
LZ4_minLength  == MFLIMIT + 1
RUN_MASK       == 15
ML_MASK        == 15

LZ4_compressBound(n) == n + n \div 255 + 16

\* The bytes a length takes after its token: none below the mask, then one
\* byte per full 255 and a last one.
LengthBytes(length, mask) ==
    IF length < mask THEN 0 ELSE (length - mask) \div 255 + 1

\* LZ4_wildCopy8 moves eight bytes at a time and at least eight: the first
\* address it does not write.
WildEnd(d, length) ==
    d + 8 * (IF length = 0 THEN 1 ELSE (length + 7) \div 8)

\* The largest of two addresses.
Higher(a, b) == IF a >= b THEN a ELSE b

-----------------------------------------------------------------------------
(* The output checks of LZ4_compress_generic_validated; op is the address  *)
(* before the token, oo the one after the offset.                          *)

LiteralsOverflowTight(op, lit, olimit) ==  \* mutant
    op + 1 + lit + (2 + 1) + lit \div 255 > olimit
LiteralsOverflow(op, lit, olimit) ==
    op + 1 + lit + (2 + 1 + LASTLITERALS) + lit \div 255 > olimit

LiteralsFill(op, lit, olimit) ==
    op + 1 + (lit + 240) \div 255 + lit + 2 + 1 + MFLIMIT - MINMATCH > olimit

OffsetFills(op, olimit) == op + 2 + 1 + MFLIMIT - MINMATCH > olimit

MatchOverflow(oo, matchCode, olimit) ==
    oo + (1 + LASTLITERALS) + (matchCode + 240) \div 255 > olimit

\* fillOutput: the longest match code whose length bytes still fit.
ReducedMatchCode(oo, olimit) == 15 - 1 + (olimit - oo - 1 - LASTLITERALS) * 255

LastOverflow(op, lastRun, olimit) ==
    op + lastRun + 1 + (lastRun + 255 - RUN_MASK) \div 255 > olimit

\* fillOutput: the literals that fit behind their token and length bytes.
FilledLastRunNoToken(op, olimit) ==  \* mutant
    LET room == olimit - op IN room - (room + 256 - RUN_MASK) \div 256
FilledLastRun(op, olimit) ==
    LET room == olimit - op - 1 IN room - (room + 256 - RUN_MASK) \div 256

-----------------------------------------------------------------------------
(* What the encoders write; op and oo as above.                            *)

AfterLiterals(op, lit) == op + 1 + LengthBytes(lit, RUN_MASK) + lit

\* The literals are copied with LZ4_wildCopy8.
TopOfLiterals(op, lit) == WildEnd(op + 1 + LengthBytes(lit, RUN_MASK), lit)

AfterMatch(oo, matchCode) == oo + LengthBytes(matchCode, ML_MASK)

\* A long match writes 0xFFFFFFFF four bytes at a time before its last byte.
TopOfMatch(oo, matchCode) ==
    IF matchCode < ML_MASK THEN oo
    ELSE oo + 4 * ((matchCode - ML_MASK) \div (4 * 255)) + 4

AfterLast(op, lastRun) == op + 1 + LengthBytes(lastRun, RUN_MASK) + lastRun

-----------------------------------------------------------------------------
(* The meaning of a block, and how it has to end.                          *)

\* A decoder may copy in steps of eight bytes up to the last match: a block
\* that has one ends with five literals, and twelve bytes behind its start.
EndsWithLiterals(block) ==
    LET last == Len(block)
    IN  last > 1 => /\ Len(block[last].lit) >= LASTLITERALS
                    /\ block[last - 1].len + Len(block[last].lit) >= MFLIMIT

\* Appends len bytes copied from off bytes back, one at a time: the copied
\* bytes may be copied again.
CopyBack(s, off, len) ==
    LET period == [i \in 1..off |-> s[Len(s) - off + i]]
    IN  s \o [i \in 1..len |-> period[((i - 1) % off) + 1]]

\* The bytes a block stands for behind a history.  An offset that reaches
\* before the history has no meaning: everything is lost.
Decoded(block, history) ==
    LET out[i \in 0..Len(block)] ==
          IF i = 0 THEN history
          ELSE LET q == block[i]
                   s == out[i - 1] \o q.lit
               IN  CASE q.len = 0         -> s
                     [] q.off \in 1..Len(s) -> CopyBack(s, q.off, q.len)
                     [] OTHER             -> <<>>
    IN  out[Len(block)]
=============================================================================

---------------------------- MODULE Lz4Decode ----------------------------
(***************************************************************************)
(* The decoder of lz4.c: LZ4_decompress_generic with its fast loop, its    *)
(* shortcut and its safe loop, and the copies that move 4, 8, 16 or 32     *)
(* bytes at a time and so write behind their end and read what they wrote. *)
(*                                                                         *)
(* The input is not fixed in advance: every field the decoder reads is     *)
(* chosen when it is read.  Bytes are symbolic.  The destination starts at *)
(* address 0; the byte i before it is -i, the byte at input position i is  *)
(* i + 1, 0 is a zero and UNWRITTEN what the output held before.           *)
(***************************************************************************)
EXTENDS Lz4Format

CONSTANTS
    KB64,           \* 64 KB, scaled down
    SrcSizes,       \* compressedSize
    DstSizes,       \* outputSize
    DictSizes,      \* sizes of a dictionary
    Prefixes,       \* prefix sizes of the double dictionary mode
    Literals,       \* literal lengths the input may hold
    MatchCodes,     \* match lengths less MINMATCH
    Offsets,        \* match offsets
    MaxSequences    \* bound: sequences of a block

ASSUME DecodeAssumption ==
    /\ KB64 \in Nat /\ Offsets \subseteq 0..(KB64 - 1)
    /\ SrcSizes \union DstSizes \union DictSizes \union Prefixes \subseteq Nat
    /\ Literals \union MatchCodes \subseteq Nat

UNWRITTEN == 0 - 1000
MATCH_SAFEGUARD_DISTANCE == 2 * WILDCOPYLENGTH - MINMATCH
FASTLOOP_SAFE_DISTANCE == 64

VARIABLES
    src,            \* what the call was given: its instance, sizes and mode
    ip, op,         \* positions in the input and in the output
    mem,            \* [out, top, stray]: the output, the first position never
                    \* written, and whether something was read out of bounds
    length, offset, \* of the literals or the match in progress
    want,           \* the bytes the sequences read so far stand for
    bad,            \* no encoder makes the block, or it does not fit
    sequences,      \* sequences read so far
    pc, result

vars == <<src, ip, op, mem, length, offset, want, bad, sequences, pc, result>>

iend == src.size
oend == src.room
lowPrefix == 0 - src.prefix
checkOffset == src.dictSize < KB64

-----------------------------------------------------------------------------
(* Instances of the generic decoder.  available counts the bytes the caller*)
(* really has before the destination, in its prefix and its dictionary.    *)

NoDict == [dict |-> "noDict", prefix |-> 0, dictSize |-> 0, available |-> 0]

WithPrefix64k(size) ==
    [dict |-> "withPrefix64k", prefix |-> KB64, dictSize |-> 0, available |-> size]

WithSmallPrefix(size) ==
    [dict |-> "noDict", prefix |-> size, dictSize |-> 0, available |-> size]

ForceExtDict(size) ==
    [dict |-> "usingExtDict", prefix |-> 0, dictSize |-> size, available |-> size]

DoubleDict(prefixSize, size) ==
    [dict |-> "usingExtDict", prefix |-> prefixSize, dictSize |-> size,
     available |-> prefixSize + size]

LZ4_decompress_safe_usingDict(adjacent, size) ==
    CASE size = 0                          -> NoDict
      [] adjacent /\ size >= KB64 - 1      -> WithPrefix64k(size)
      [] adjacent /\ size < KB64 - 1       -> WithSmallPrefix(size)
      [] OTHER                             -> ForceExtDict(size)

Instances ==
    {LZ4_decompress_safe_usingDict(adjacent, size) :
        adjacent \in BOOLEAN, size \in DictSizes \union {0}}
    \union {DoubleDict(prefixSize, size) : prefixSize \in Prefixes, size \in DictSizes}

-----------------------------------------------------------------------------
(* Copies                                                                  *)

\* The byte at an address of the output or of what lies before it.
Cell(m, a) == IF a < 0 THEN a ELSE IF a \in DOMAIN m.out THEN m.out[a] ELSE UNWRITTEN

Stored(m, d, k, F(_)) ==
    [m EXCEPT !.out = [a \in DOMAIN @ |-> IF a \in d..(d + k - 1) THEN F(a - d) ELSE @[a]],
              !.top = Higher(@, d + k)]

\* memcpy within the output: neither out of bounds nor overlapping.
Copied(m, d, s, k) ==
    LET F(i) == Cell(m, s + i)
    IN  [Stored(m, d, k, F) EXCEPT
           !.stray = @ \/ s < 0 - src.available \/ (s < d /\ s + k > d)]

\* memcpy from the input.
Taken(m, d, i, k) ==
    LET F(j) == i + j + 1 IN [Stored(m, d, k, F) EXCEPT !.stray = @ \/ i + k > iend]

\* n copies of unit bytes each, one after the other.
Chunks(m, d, s, unit, n) ==
    LET step[i \in 0..n] ==
          IF i = 0 THEN m
          ELSE Copied(step[i - 1], d + unit * (i - 1), s + unit * (i - 1), unit)
    IN  step[n]

\* Byte after byte.
Repeated(m, d, s, k) == Chunks(m, d, s, 1, k)

\* LZ4_wildCopy8 and LZ4_wildCopy32, which moves twice sixteen bytes.
WildCopy(m, d, s, e, unit) ==
    Chunks(m, d, s, unit, IF e <= d THEN 1 ELSE (e - d + unit - 1) \div unit)

LZ4_wildCopy8(m, d, s, e) == WildCopy(m, d, s, e, 8)

LZ4_wildCopy32(m, d, s, e) ==
    WildCopy(m, d, s, d + 32 * (IF e <= d THEN 1 ELSE (e - d + 31) \div 32), 16)

inc32table == <<0, 1, 2, 1, 0, 4, 4, 4>>
dec64tableOff == <<0, 0, 0, 1, -4, 1, 2, 3>>  \* mutant
dec64table == <<0, 0, 0, -1, -4, 1, 2, 3>>

\* The first eight bytes of a match that may overlap itself, and where the
\* copy goes on.
FirstEight(m, d, s, off) ==
    IF off >= 8 THEN [mem |-> Copied(m, d, s, 8), match |-> s + 8]
    ELSE LET Zero(i) == 0
             blank == Stored(m, d, 4, Zero)
             first == Repeated(blank, d, s, 4)
             low   == s + inc32table[off + 1]
         IN  [mem |-> Copied(first, d + 4, low, 4), match |-> low - dec64table[off + 1]]

\* Short periods are copied from a register of eight bytes.
LZ4_memcpy_using_offset(m, d, s, e, off) ==
    IF off \in {1, 2, 4}
    THEN LET F(i) == Cell(m, s + (i % off))
         IN  Stored(Copied(m, d, s, off), d, 8 * Higher(1, (e - d + 7) \div 8), F)
    ELSE LET first == FirstEight(m, d, s, off)
         IN  LZ4_wildCopy8(first.mem, d + 8, first.match, e)

-----------------------------------------------------------------------------
(* The input                                                               *)

\* Whether the bytes of a long length reach the limit; length counts from the mask.
VariableLengthFailsAtLimit(from, long, limit, initialCheck) ==  \* mutant
    \/ initialCheck /\ from >= limit
    \/ from + LengthBytes(long, RUN_MASK) >= limit
VariableLengthFails(from, long, limit, initialCheck) ==
    \/ initialCheck /\ from >= limit
    \/ from + LengthBytes(long, RUN_MASK) > limit

\* A read of k bytes of the input.
Reads(m, from, k) == [m EXCEPT !.stray = @ \/ from + k > iend]

\* The byte at output position p, or before the output.
History(w, p) == IF p < 0 THEN p ELSE w[p + 1]

\* What the format says a sequence stands for: the literals at input position
\* i, then the match; an offset of 0 stands for zeros.
Wanted(i, lit) == want \o [k \in 1..lit |-> i + k]

Matched(w, off, len) ==
    IF off = 0 THEN w \o [k \in 1..len |-> 0]
    ELSE LET base == Len(w) - off
         IN  w \o [k \in 1..len |-> History(w, base + ((k - 1) % off))]

\* A block an encoder could have made ends in five literals, has no match that
\* starts in its last twelve bytes, and fits.
LiteralsBad(i, lit) ==
    LET end == Len(want) + lit
    IN  \/ i + lit > iend
        \/ i + lit < iend /\ i + lit + 2 + 1 + LASTLITERALS > iend
        \/ ~src.partial /\ end > oend
        \/ ~src.partial /\ i + lit < iend /\ end + MFLIMIT > oend

MatchBad(i, code, off) ==
    \/ off > src.available + Len(want)
    \/ i + LengthBytes(code, ML_MASK) + 1 + LASTLITERALS > iend
    \/ ~src.partial /\ Len(want) + MINMATCH + code + LASTLITERALS > oend

Reject == pc' = "done" /\ result' = -1

\* The literal length of the next token; the last literals are always among
\* the choices.
NextLiterals ==
    IF sequences = MaxSequences THEN {iend - ip - 1} \intersect Nat
    ELSE Literals \union ({iend - ip - 1} \intersect 0..(RUN_MASK - 1))
                  \union ({iend - ip - 2} \intersect RUN_MASK..255)

\* Reads the token and the literal length: at is where the literals start.
ReadLiterals(lit, at) ==
    /\ sequences' = sequences + 1
    /\ want' = Wanted(at, IF at + lit > iend THEN Higher(iend - at, 0) ELSE lit)
    /\ bad' = (bad \/ LiteralsBad(at, lit))

\* Reads the offset and then the match length; the match is part of what is
\* wanted unless it has no meaning.
ReadMatch(code, off) ==
    /\ offset' = off
    /\ want' = IF off \in 0..(src.available + Len(want))
               THEN Matched(want, off, MINMATCH + code) ELSE want
    /\ bad' = (bad \/ MatchBad(ip + 2, code, off))

-----------------------------------------------------------------------------
(* Special cases, then one of the loops.                                   *)

Start ==
    /\ pc = "start"
    /\ IF oend = 0
       THEN \E empty \in BOOLEAN :
              /\ pc' = "done"
              /\ result' = IF src.partial \/ (iend = 1 /\ empty) THEN 0 ELSE -1
              /\ ip' = IF result' = 0 THEN iend ELSE 0
              /\ bad' = ~(iend = 1 /\ empty)
       ELSE IF iend = 0 THEN Reject /\ bad' = TRUE /\ UNCHANGED ip
       ELSE /\ pc' = IF src.fastLoop /\ oend >= FASTLOOP_SAFE_DISTANCE THEN "fast" ELSE "safe"
            /\ UNCHANGED <<ip, bad, result>>
    /\ UNCHANGED <<src, op, mem, length, offset, want, sequences>>

\* Fast loop: the literals.
FastLiterals(lit) ==
    /\ pc = "fast"
    /\ lit \in NextLiterals
    /\ LET at == ip + 1 + LengthBytes(lit, RUN_MASK)
           long == lit >= RUN_MASK
       IN  /\ ReadLiterals(lit, at)
           /\ \/ /\ long /\ VariableLengthFails(ip + 1, lit, iend - RUN_MASK, TRUE)
                 /\ Reject /\ mem' = Reads(mem, ip, 1)
                 /\ UNCHANGED <<ip, op, length>>
              \/ /\ long => ~VariableLengthFails(ip + 1, lit, iend - RUN_MASK, TRUE)
                 /\ IF \/ long /\ (op + lit > oend - 32 \/ at + lit > iend - 32)
                       \/ ~long /\ at > iend - (16 + 1)
                    THEN /\ pc' = "literals" /\ length' = lit
                         /\ ip' = at /\ mem' = Reads(mem, ip, 1)
                         /\ UNCHANGED op
                    ELSE /\ pc' = "fastMatch"
                         /\ mem' = Taken(mem, op, at,
                                     IF long THEN 32 * ((lit + 31) \div 32) ELSE 16)
                         /\ ip' = at + lit /\ op' = op + lit
                         /\ UNCHANGED length
                 /\ UNCHANGED result
    /\ UNCHANGED <<src, offset>>

\* A match that starts in the external dictionary, and may go on at the start
\* of the prefix.
DictMatch(m, d, s, len) ==
    LET copySize == lowPrefix - s
        restSize == len - copySize
        first == Copied(m, d, s, copySize)
    IN  IF len <= copySize THEN Copied(m, d, s, len)
        ELSE IF restSize > d + copySize - lowPrefix
             THEN Repeated(first, d + copySize, lowPrefix, restSize)
             ELSE Copied(first, d + copySize, lowPrefix, restSize)

\* The same in both loops: refused, shortened, or copied.
FromDictionary(m, s, len, loop) ==
    IF op + len > oend - LASTLITERALS /\ ~src.partial
    THEN Reject /\ mem' = m /\ UNCHANGED op
    ELSE LET kept == IF op + len > oend - LASTLITERALS /\ op + len > oend THEN oend - op ELSE len
         IN  /\ mem' = DictMatch(m, op, s, kept)
             /\ op' = op + kept /\ pc' = loop /\ UNCHANGED result

OutsideBuffersByOne(s) == checkOffset /\ s + src.dictSize + 1 < lowPrefix  \* mutant
OutsideBuffers(s) == checkOffset /\ s + src.dictSize < lowPrefix

\* Fast loop: offset, match length and match.
FastMatch(code, off) ==
    /\ pc = "fastMatch"
    /\ ReadMatch(code, off)
    /\ LET at    == ip + 2
           match == op - off
           len   == MINMATCH + code
           m     == Reads(mem, ip, 2)
           inside == src.dict = "withPrefix64k" \/ match >= lowPrefix
       IN  /\ ip' = at + LengthBytes(code, ML_MASK)
           /\ length' = len
           /\ \/ /\ code >= ML_MASK
                 /\ VariableLengthFails(at, code, iend - LASTLITERALS + 1, FALSE)
                 /\ Reject /\ mem' = m /\ UNCHANGED op
              \/ /\ code >= ML_MASK =>
                      ~VariableLengthFails(at, code, iend - LASTLITERALS + 1, FALSE)
                 /\ IF op + len >= oend - FASTLOOP_SAFE_DISTANCE
                    THEN pc' = "match" /\ mem' = m /\ UNCHANGED <<op, result>>
                    ELSE IF code < ML_MASK /\ inside /\ off >= 8
                    THEN /\ mem' = Copied(Copied(Copied(m, op, match, 8), op + 8, match + 8, 8),
                                          op + 16, match + 16, 2)
                         /\ op' = op + len /\ pc' = "fast" /\ UNCHANGED result
                    ELSE IF OutsideBuffers(match)
                    THEN Reject /\ mem' = m /\ UNCHANGED op
                    ELSE IF src.dict = "usingExtDict" /\ match < lowPrefix
                    THEN FromDictionary(m, match, len, "fast")
                    ELSE /\ mem' = IF off < 16
                                   THEN LZ4_memcpy_using_offset(m, op, match, op + len, off)
                                   ELSE LZ4_wildCopy32(m, op, match, op + len)
                         /\ op' = op + len /\ pc' = "fast" /\ UNCHANGED result
    /\ UNCHANGED <<src, sequences>>

-----------------------------------------------------------------------------
(* The safe loop                                                           *)

\* Literals of at most fourteen bytes, far from both ends, take a shortcut.
SafeLiterals(lit) ==
    /\ pc = "safe"
    /\ lit \in NextLiterals
    /\ LET at == ip + 1 + LengthBytes(lit, RUN_MASK)
       IN  /\ ReadLiterals(lit, at)
           /\ \/ /\ lit < RUN_MASK
                 /\ ip + 1 < iend - 14 - 2 /\ op <= oend - 14 - 18
                 /\ mem' = Taken(mem, op, at, 16)
                 /\ op' = op + lit /\ ip' = at + lit /\ pc' = "shortcut"
                 /\ UNCHANGED <<length, result>>
              \/ /\ lit < RUN_MASK => ~(ip + 1 < iend - 14 - 2 /\ op <= oend - 14 - 18)
                 /\ mem' = Reads(mem, ip, 1)
                 /\ IF lit >= RUN_MASK /\ VariableLengthFails(ip + 1, lit, iend - RUN_MASK, TRUE)
                    THEN Reject /\ UNCHANGED <<ip, length>>
                    ELSE /\ ip' = at /\ length' = lit /\ pc' = "literals"
                         /\ UNCHANGED result
                 /\ UNCHANGED op
    /\ UNCHANGED <<src, offset>>

\* The shortcut goes on with a short match that does not overlap.
ShortcutMatch(code, off) ==
    /\ pc = "shortcut"
    /\ ReadMatch(code, off)
    /\ ip' = ip + 2
    /\ LET match == op - off
           m     == Reads(mem, ip, 2)
       IN  IF /\ code < ML_MASK /\ off >= 8
              /\ src.dict = "withPrefix64k" \/ match >= lowPrefix
           THEN /\ mem' = Copied(Copied(Copied(m, op, match, 8), op + 8, match + 8, 8),
                                 op + 16, match + 16, 2)
                /\ op' = op + MINMATCH + code /\ pc' = "safe"
                /\ UNCHANGED length
           ELSE mem' = m /\ length' = code /\ pc' = "matchLength" /\ UNCHANGED op
    /\ UNCHANGED <<src, sequences, result>>

\* Label safe_literal_copy.
SafeLiteralCopy ==
    /\ pc = "literals"
    /\ IF op + length > oend - MFLIMIT \/ ip + length > iend - (2 + 1 + LASTLITERALS)
       THEN LET readable == IF ip + length > iend THEN iend - ip ELSE length
                kept == IF op + readable > oend THEN oend - op ELSE readable
            IN  IF ~src.partial /\ (ip + length # iend \/ op + length > oend)
                THEN Reject /\ UNCHANGED <<ip, op, mem>>
                ELSE /\ mem' = Taken(mem, op, ip, kept)
                     /\ ip' = ip + kept /\ op' = op + kept
                     /\ IF ~src.partial \/ op' = oend \/ ip' >= iend - 2
                        THEN pc' = "done" /\ result' = op'
                        ELSE pc' = "offset" /\ UNCHANGED result
       ELSE /\ mem' = Taken(mem, op, ip, WildEnd(0, length))
            /\ ip' = ip + length /\ op' = op + length
            /\ pc' = "offset" /\ UNCHANGED result
    /\ UNCHANGED <<src, length, offset, want, bad, sequences>>

SafeOffset(code, off) ==
    /\ pc = "offset"
    /\ ReadMatch(code, off)
    /\ ip' = ip + 2 /\ length' = code /\ pc' = "matchLength"
    /\ mem' = Reads(mem, ip, 2)
    /\ UNCHANGED <<src, op, sequences, result>>

\* Label _copy_match.
MatchLength ==
    /\ pc = "matchLength"
    /\ IF length >= ML_MASK /\ VariableLengthFails(ip, length, iend - LASTLITERALS + 1, FALSE)
       THEN Reject /\ mem' = Reads(mem, ip, 1) /\ UNCHANGED <<ip, length>>
       ELSE /\ ip' = ip + LengthBytes(length, ML_MASK)
            /\ length' = length + MINMATCH
            /\ pc' = "match" /\ UNCHANGED <<mem, result>>
    /\ UNCHANGED <<src, op, offset, want, bad, sequences>>

\* A match within the block: the first eight bytes, then the rest, in single
\* bytes close to the end of the output.
BlockMatchWild(m, s, cpy) ==  \* mutant
    LET first == FirstEight(m, op, s, offset)
    IN  LZ4_wildCopy8(first.mem, op + 8, first.match, cpy)
BlockMatch(m, s, cpy) ==
    LET first == FirstEight(m, op, s, offset)
        oCopyLimit == oend - (WILDCOPYLENGTH - 1)
        next == op + 8
    IN  IF cpy > oend - MATCH_SAFEGUARD_DISTANCE
        THEN IF next < oCopyLimit
             THEN LET wild == LZ4_wildCopy8(first.mem, next, first.match, oCopyLimit)
                  IN  Repeated(wild, oCopyLimit, first.match + oCopyLimit - next,
                               Higher(cpy - oCopyLimit, 0))
             ELSE Repeated(first.mem, next, first.match, Higher(cpy - next, 0))
        ELSE LET second == Copied(first.mem, next, first.match, 8)
             IN  IF length > 16
                 THEN LZ4_wildCopy8(second, next + 8, first.match + 8, cpy)
                 ELSE second

\* Label safe_match_copy.
SafeMatchCopy ==
    /\ pc = "match"
    /\ LET match == op - offset
           cpy   == op + length
           mlen  == IF cpy > oend THEN oend - op ELSE length
       IN  IF OutsideBuffers(match)
           THEN Reject /\ UNCHANGED <<mem, op>>
           ELSE IF src.dict = "usingExtDict" /\ match < lowPrefix
           THEN FromDictionary(mem, match, length, "safe")
           ELSE IF src.partial /\ cpy > oend - MATCH_SAFEGUARD_DISTANCE
           THEN /\ mem' = IF match + mlen > op THEN Repeated(mem, op, match, mlen)
                          ELSE Copied(mem, op, match, mlen)
                /\ op' = op + mlen
                /\ IF op' = oend THEN pc' = "done" /\ result' = op'
                                 ELSE pc' = "safe" /\ UNCHANGED result
           ELSE IF cpy > oend - LASTLITERALS
           THEN Reject /\ mem' = FirstEight(mem, op, match, offset).mem /\ UNCHANGED op
           ELSE /\ mem' = BlockMatch(mem, match, cpy)
                /\ op' = cpy /\ pc' = "safe" /\ UNCHANGED result
    /\ UNCHANGED <<src, ip, length, offset, want, bad, sequences>>

-----------------------------------------------------------------------------

Init ==
    /\ \E i \in Instances, size \in SrcSizes, room \in DstSizes,
          partial, fastLoop \in BOOLEAN :
         /\ src = [dict |-> i.dict, prefix |-> i.prefix, dictSize |-> i.dictSize,
                   available |-> i.available, size |-> size, room |-> room,
                   partial |-> partial, fastLoop |-> fastLoop]
         /\ mem = [out |-> [a \in 0..(room - 1) |-> UNWRITTEN], top |-> 0, stray |-> FALSE]
    /\ ip = 0 /\ op = 0 /\ length = 0 /\ offset = 0
    /\ want = <<>> /\ bad = FALSE /\ sequences = 0
    /\ pc = "start" /\ result = 0

Next ==
    \/ Start
    \/ \E lit \in NextLiterals : FastLiterals(lit) \/ SafeLiterals(lit)
    \/ \E code \in MatchCodes, off \in Offsets :
         FastMatch(code, off) \/ ShortcutMatch(code, off) \/ SafeOffset(code, off)
    \/ SafeLiteralCopy \/ MatchLength \/ SafeMatchCopy

Spec == Init /\ [][Next]_vars

-----------------------------------------------------------------------------

(* No byte is written behind the output buffer, by no copy that is longer  *)
(* than what it was asked for.                                             *)
NoStrayWrite == mem.top <= oend

(* Nothing is read behind the input or before the dictionary, and no memcpy*)
(* reads what it writes.                                                   *)
NoStrayRead == ~mem.stray

(* What the decoder returns is what the block stands for, all of it or the *)
(* part that was asked for, though the copies leave garbage behind their   *)
(* end and overlap themselves.  A full decode reads an offset of 0 as      *)
(* zeros; a partial one may leave what the output held.                    *)
DecodesRight ==
    pc = "done" /\ result >= 0 =>
        /\ \A i \in 0..(result - 1) :
              mem.out[i] = want[i + 1] \/ (src.partial /\ want[i + 1] = 0)
        /\ IF src.partial THEN result = Len(want) \/ result = oend
                          ELSE result = Len(want) /\ ip = iend

(* A block is refused only for a reason the format gives: in no           *)
(* combination of buffer sizes, dictionary and loop does the decoder refuse*)
(* a block an encoder may have made and that fits.                         *)
RefusesOnlyBad == pc = "done" /\ result < 0 => bad

-----------------------------------------------------------------------------
(* Why they hold                                                           *)

Memory == [out : [0..(oend - 1) -> Int], top : Int, stray : BOOLEAN]

Types ==
    /\ src \in [dict : {"noDict", "withPrefix64k", "usingExtDict"},
                prefix : Nat, dictSize : Nat, available : Nat,
                size : Nat, room : Nat, partial : BOOLEAN, fastLoop : BOOLEAN]
    /\ mem \in Memory
    /\ ip \in Nat /\ op \in 0..oend /\ length \in Nat /\ offset \in {0} \union Offsets
    /\ want \in Seq(Int) /\ bad \in BOOLEAN /\ sequences \in Nat /\ result \in Int
    /\ pc \in {"start", "fast", "fastMatch", "safe", "shortcut", "literals",
               "offset", "matchLength", "match", "done"}

\* What lies before the destination, in each instance.
Reach ==
    IF src.dict = "withPrefix64k"
    THEN src.prefix = KB64 /\ src.dictSize = 0 /\ src.available >= KB64 - 1
    ELSE /\ src.available = src.prefix + src.dictSize
         /\ src.dict = "noDict" => src.dictSize = 0

\* The distance to the end of both buffers that each place may rely on.
Distance ==
    /\ pc = "start"                      => ip = 0 /\ op = 0 /\ want = <<>>
    /\ pc \in {"fast", "safe", "matchLength", "match"} => ip < iend
    /\ pc \in {"fastMatch", "shortcut", "offset"} => ip <= iend - 3
    /\ pc = "literals"                   => ip <= iend
    /\ pc = "fast"                       => op <= oend - FASTLOOP_SAFE_DISTANCE
    /\ pc = "fastMatch"                  => op <= oend - 32
    /\ pc = "shortcut"                   => op <= oend - 18
    /\ pc \in {"offset", "matchLength", "match"} /\ ~src.partial => op <= oend - MFLIMIT
    /\ pc = "match"                      => length >= MINMATCH

\* The output in progress is what is wanted so far; a partial decode whose
\* output is full falls behind.
Full == src.partial /\ op = oend /\ Len(want) >= op

Readable == IF ip + length > iend THEN iend - ip ELSE length

Pending ==
    /\ pc \in {"start", "fast", "safe"} => Len(want) = op \/ Full
    /\ pc \in {"fastMatch", "shortcut", "offset"} => Len(want) = op
    /\ pc = "literals" =>
         Full \/ /\ Len(want) = op + Readable
                 /\ \A k \in 1..Readable : want[op + k] = ip + k

\* The match in progress is wanted already, unless its offset has no meaning.
MatchLen == IF pc = "match" THEN length ELSE length + MINMATCH

Repeats(w, base, len, off) ==
    \A p \in base..(base + len - 1) :
        w[p + 1] = IF off = 0 THEN 0 ELSE History(w, p - off)

MatchPending ==
    pc \in {"matchLength", "match"} =>
        IF offset <= src.available + op
        THEN Len(want) = op + MatchLen /\ Repeats(want, op, MatchLen, offset)
        ELSE bad /\ Len(want) >= op

\* The output up to op.
Same(m, w, n) ==
    \A a \in 0..(n - 1) : m.out[a] = w[a + 1] \/ (src.partial /\ w[a + 1] = 0)

\* What a refusal will be for is known when the field was read.
Blamed ==
    /\ pc = "literals" /\ ~src.partial =>
         \/ bad
         \/ /\ op + length <= oend
            /\ \/ ip + length = iend
               \/ ip + length + 2 + 1 + LASTLITERALS <= iend /\ op + length + MFLIMIT <= oend
    /\ pc \in {"matchLength", "match"} /\ ~src.partial =>
         bad \/ op + MatchLen + LASTLITERALS <= oend
    /\ pc = "matchLength" =>
         bad \/ ip + LengthBytes(length, ML_MASK) + 1 + LASTLITERALS <= iend

Finished ==
    /\ pc = "done" /\ result >= 0 =>
         /\ result = op
         /\ IF src.partial THEN Len(want) = op \/ Full ELSE Len(want) = op /\ ip = iend
    /\ pc = "done" /\ result < 0 => bad

Sound(m) == m \in Memory /\ m.top <= oend /\ ~m.stray

IInv ==
    /\ Types /\ Reach /\ Distance /\ Pending /\ MatchPending /\ Blamed /\ Finished
    /\ Sound(mem) /\ Same(mem, want, op) /\ op <= Len(want)
=============================================================================

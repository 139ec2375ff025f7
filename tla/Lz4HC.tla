------------------------------ MODULE Lz4HC ------------------------------
(***************************************************************************)
(* The hash-chain compressor of lz4hc.c (levels 3 to 9): a stream context  *)
(* with the heads and the chains of its positions, the entry points that   *)
(* prepare it, the search for a wider match, and the parser that weighs up *)
(* to three overlapping matches before it encodes one.                     *)
(*                                                                         *)
(* Memory is a function of addresses; pointers are addresses and NULL is   *)
(* 0.  Positions carry an index that never restarts while a stream lives:  *)
(* those from dictLimit lie in the prefix, those from lowLimit up to there *)
(* in the external dictionary.                                             *)
(***************************************************************************)
EXTENDS Lz4Format, FiniteSetsExt

CONSTANTS
    Jobs,           \* the texts a call with a state of its own may compress,
                    \* each with the capacity of the output
    Pieces,         \* those a call with the working stream may, likewise
    DictTexts,      \* those that may be loaded as a dictionary
    Slots,          \* addresses where the source of a streaming call may lie
    OneShotAt,      \* where that of a one-shot call lies
    DictAt,         \* address of the dictionary
    SaveAt,         \* address of the buffer given to LZ4_saveDictHC
    MemEnd,         \* first address behind the memory
    Buckets,        \* entries of the hash table
    KB64, KB4, GB1, GB2,    \* 64 KB, 4 KB, 1 GB and 2 GB, scaled down
    Levels,         \* nbSearches of the levels
    PatternSearches,    \* levels with more searches analyse patterns
    OPTIMAL_ML,     \* longest match code the parser prefers, scaled down
    MaxCalls        \* bound: compression calls of a behaviour

ASSUME HCAssumption ==
    /\ {KB64, KB4, GB1, GB2, Buckets, MaxCalls, PatternSearches} \subseteq Nat \ {0}
    /\ KB64 > MFLIMIT /\ KB64 < GB1 /\ GB1 < GB2
    /\ Levels \subseteq Nat \ {0} /\ OPTIMAL_ML \in Nat /\ OPTIMAL_ML >= MINMATCH
    /\ Slots \union {OneShotAt} \subseteq 1..MemEnd

NULL == 0
DISTANCE_MAX == KB64 - 1
LZ4HC_HASHSIZE == 4

VARIABLES
    mem,            \* memory
    ctx,            \* LZ4HC_CCtx_internal of the working stream
    dict,           \* the stream a dictionary was loaded into
    use,            \* what the last calls allow next: "fresh", "stream", "other"
    history,        \* the bytes the decoder of the next block has before it
    calls,          \* compression calls so far
    call,           \* the parameters of the call in progress
    pc,             \* where the call is
    ip,             \* where the next first match is searched
    m0, m1, m2, m3, \* matches [at, len, off] in competition
    out,            \* anchor, op, the highest byte written, and the sequences
    result,         \* value returned by the last call
    stray           \* whether a search read outside a segment

stream == <<mem, dict, use, history, calls>>
matches == <<ip, m0, m1, m2, m3>>
vars == <<stream, ctx, call, pc, matches, out, result, stray>>

-----------------------------------------------------------------------------
(* Memory                                                                  *)

Bytes(a, length) == [i \in 1..length |-> mem[a + i - 1]]
Reachable(s) == SubSeq(s, Higher(1, Len(s) - KB64 + 1), Len(s))
\* Nothing outside the memory is equal to anything.
Same4(a, b) == \A i \in 0..3 : a + i \in DOMAIN mem /\ mem[a + i] = mem[b + i]
Same2(a, b) == mem[a] = mem[b] /\ mem[a + 1] = mem[b + 1]

\* The multiplicative hash is coarsened so that collisions are common.
LZ4HC_hashPtr(m, a) == (m[a] + 2 * m[a + 1] + 3 * m[a + 2] + m[a + 3]) % Buckets

\* LZ4_count: the bytes equal at two places, up to a limit of the first.
LZ4_count(in, at, limit) ==
    LET max == Higher(limit - in, 0)
    IN  CHOOSE k \in 0..max :
            /\ \A i \in 0..(k - 1) : mem[in + i] = mem[at + i]
            /\ k = max \/ mem[in + k] # mem[at + k]

\* The bytes equal before two places, down to a limit of each.
LZ4HC_countBack(in, at, inMin, atMin) ==
    LET max == Min({in - inMin, at - atMin})
    IN  CHOOSE k \in 0..max :
            /\ \A i \in 1..k : mem[in - i] = mem[at - i]
            /\ k = max \/ mem[in - k - 1] # mem[at - k - 1]

\* The bytes of one value from a place up to a limit, and before it.
LZ4HC_countPattern(at, limit, byte) ==
    LET max == Higher(limit - at, 0)
    IN  CHOOSE k \in 0..max :
            (\A i \in 0..(k - 1) : mem[at + i] = byte) /\ (k = max \/ mem[at + k] # byte)

LZ4HC_reverseCountPattern(at, low, byte) ==
    LET max == Higher(at - low, 0)
    IN  CHOOSE k \in 0..max :
            (\A i \in 1..k : mem[at - i] = byte) /\ (k = max \/ mem[at - k - 1] # byte)

-----------------------------------------------------------------------------
(* Contexts                                                                *)

LZ4_initStreamHC(level) ==
    [hashTable |-> [h \in 0..(Buckets - 1) |-> 0],
     chainTable |-> [i \in 0..(KB64 - 1) |-> 0],
     prefixStart |-> NULL, end |-> NULL, dictStart |-> NULL,
     dictLimit |-> 0, lowLimit |-> 0, nextToUpdate |-> 0,
     level |-> level, dirty |-> FALSE, dictCtx |-> FALSE]

LZ4HC_clearTables(cx) ==
    [cx EXCEPT !.hashTable = [h \in DOMAIN @ |-> 0],
               !.chainTable = [i \in DOMAIN @ |-> DISTANCE_MAX]]

PrefixSize(cx) == cx.end - cx.prefixStart
EndIndex(cx) == cx.dictLimit + PrefixSize(cx)

\* A new segment at a place, its indexes 64 KB above all the old ones.
LZ4HC_init_internal(cx, start) ==
    LET kept == IF EndIndex(cx) > GB1 THEN LZ4HC_clearTables(cx) ELSE cx
        offset == KB64 + IF EndIndex(cx) > GB1 THEN 0 ELSE EndIndex(cx)
    IN  [kept EXCEPT !.nextToUpdate = offset, !.prefixStart = start, !.end = start,
                     !.dictStart = start, !.dictLimit = offset, !.lowLimit = offset]

\* The positions of the prefix before an address enter the chains: a position
\* holds the distance to the one before it with the same hash, cut to sixteen
\* bits, and its hash its index.
LZ4HC_Insert(m, cx, at) ==
    LET target == at - cx.prefixStart + cx.dictLimit
        new    == cx.nextToUpdate..(target - 1)
        hash   == [i \in new |-> LZ4HC_hashPtr(m, cx.prefixStart + i - cx.dictLimit)]
        before(i) == LET same == {j \in new : j < i /\ hash[j] = hash[i]}
                     IN  IF same = {} THEN cx.hashTable[hash[i]] ELSE Max(same)
        \* a delta that is negative is a huge unsigned one
        delta(i) == IF i - before(i) \in 0..DISTANCE_MAX THEN i - before(i) ELSE DISTANCE_MAX
    IN  [cx EXCEPT
           !.hashTable = [h \in DOMAIN @ |->
              LET here == {i \in new : hash[i] = h}
              IN  IF here = {} THEN @[h] ELSE Max(here)],
           !.chainTable = [slot \in DOMAIN @ |->
              LET here == {i \in new : i % KB64 = slot}
              IN  IF here = {} THEN @[slot] ELSE delta(Max(here))],
           !.nextToUpdate = target]

\* A failed call left the tables useless; otherwise they stay.
LZ4_resetStreamHC_fastT(cx, level) ==
    IF cx.dirty THEN LZ4_initStreamHC(level)
    ELSE [cx EXCEPT !.dictLimit = EndIndex(cx), !.prefixStart = NULL, !.end = NULL,
                    !.dictCtx = FALSE, !.level = level]

\* The last 64 KB of a dictionary, in a context that starts anew.
LZ4_loadDictHCT(m, cx, dictionary, size) ==
    LET kept  == Min({size, KB64})
        start == dictionary + size - kept
        empty == LZ4HC_init_internal(LZ4_initStreamHC(cx.level), start)
        full  == [empty EXCEPT !.end = start + kept]
    IN  IF kept >= LZ4HC_HASHSIZE THEN LZ4HC_Insert(m, full, full.end - 3) ELSE full

\* The prefix becomes the external dictionary; its last three positions were
\* never entered.
LZ4HC_setExternalDict(m, cx, newBlock) ==
    LET done == IF PrefixSize(cx) >= 4 THEN LZ4HC_Insert(m, cx, cx.end - 3) ELSE cx
    IN  [done EXCEPT !.lowLimit = cx.dictLimit, !.dictStart = cx.prefixStart,
                     !.dictLimit = EndIndex(cx), !.nextToUpdate = EndIndex(cx),
                     !.prefixStart = newBlock, !.end = newBlock, !.dictCtx = FALSE]

\* What is left of the external dictionary when a source lies over it.
TrimmedKeepsStart(cx, source, size) ==  \* mutant
    LET dictEnd == cx.dictStart + cx.dictLimit - cx.lowLimit
        from    == Min({source + size, dictEnd})
    IN  IF source + size <= cx.dictStart \/ source >= dictEnd THEN cx
        ELSE [cx EXCEPT !.lowLimit = @ + from - cx.dictStart]
Trimmed(cx, source, size) ==
    LET dictEnd == cx.dictStart + cx.dictLimit - cx.lowLimit
        from    == Min({source + size, dictEnd})
        low     == cx.lowLimit + from - cx.dictStart
    IN  IF source + size <= cx.dictStart \/ source >= dictEnd THEN cx
        ELSE IF cx.dictLimit - low < LZ4HC_HASHSIZE
             THEN [cx EXCEPT !.lowLimit = cx.dictLimit, !.dictStart = cx.prefixStart]
             ELSE [cx EXCEPT !.lowLimit = low, !.dictStart = from]

\* What LZ4_compressHC_continue_generic does before it compresses.
Continued(m, cx, source, size) ==
    LET begun == IF cx.prefixStart = NULL THEN LZ4HC_init_internal(cx, source) ELSE cx
        kept  == Min({PrefixSize(begun), KB64})
        low   == IF EndIndex(begun) > GB2
                 THEN LZ4_loadDictHCT(m, begun, begun.end - kept, kept) ELSE begun
        there == IF source # low.end THEN LZ4HC_setExternalDict(m, low, source) ELSE low
    IN  Trimmed(there, source, size)

-----------------------------------------------------------------------------
(* LZ4HC_InsertAndGetWiderMatch: the search goes down the chain of a       *)
(* position and keeps the widest match.  Its state is the index it looks   *)
(* at, the searches left, the widest match so far, what it knows of a      *)
(* repeated byte, and whether every read was inside its segment.           *)

matchlimit == call.source + call.size - LASTLITERALS
mflimit == call.source + call.size - MFLIMIT

IndexOf(cx, at) == at - cx.prefixStart + cx.dictLimit

\* A position is compared from four bytes on, so the last three of the
\* dictionary are out of reach.
LZ4HC_protectDictEnd(dictLimit, index) == index >= dictLimit \/ index <= dictLimit - 4

InPrefix(cx, index) == index >= cx.dictLimit

Address(cx, index) ==
    IF InPrefix(cx, index) THEN cx.prefixStart + index - cx.dictLimit
    ELSE cx.dictStart + index - cx.lowLimit

\* Four bytes of the dictionary are compared only where it has them.
Comparable(cx, index) == index <= cx.dictLimit - 4

\* The match at an index of the stream for a position whose match may begin at
\* low: it is compared at its far end first when it lies in the prefix, and
\* goes on in the prefix when it reaches the end of the dictionary.
MatchAt(cx, index, at, low, longest) ==
    LET ptr    == Address(cx, index)
        look   == at - low
        short  == MINMATCH + LZ4_count(at + MINMATCH, ptr + MINMATCH, matchlimit)
        vLimit == Min({at + cx.dictLimit - index, matchlimit})
        first  == MINMATCH + LZ4_count(at + MINMATCH, ptr + MINMATCH, vLimit)
        long   == IF at + first = vLimit /\ vLimit < matchlimit
                  THEN first + LZ4_count(at + first, cx.prefixStart, matchlimit) ELSE first
        Back(start) == LZ4HC_countBack(at, ptr, low, start)
        none   == [len |-> 0, back |-> 0]
    IN  IF InPrefix(cx, index)
        THEN IF Same2(low + longest - 1, ptr - look + longest - 1) /\ Same4(ptr, at)
             THEN [len |-> short + Back(cx.prefixStart), back |-> Back(cx.prefixStart)]
             ELSE none
        ELSE IF Comparable(cx, index) /\ Same4(ptr, at)
             THEN [len |-> long + Back(cx.dictStart), back |-> Back(cx.dictStart)]
             ELSE none

\* What a search reads at an index is where it should be: before the position,
\* all four bytes in one segment, and the far end not before the prefix.
Inside(cx, index, at) ==
    \/ InPrefix(cx, index) /\ Address(cx, index) < at
    \/ index >= cx.lowLimit /\ index + MINMATCH <= cx.dictLimit

Readable(cx, index, at, low, longest) ==
    IF InPrefix(cx, index)
    THEN /\ Inside(cx, index, at)
         /\ Address(cx, index) - (at - low) + longest - 1 >= cx.prefixStart
    ELSE Comparable(cx, index) => Inside(cx, index, at)

Widened(s, m, index, ipIndex) ==
    IF m.len > s.len
    THEN [s EXCEPT !.len = m.len, !.back = m.back, !.off = ipIndex - index] ELSE s

\* Steps down a chain; one that would leave the stream ends the search.
Down(s, distance) ==
    IF distance > s.index THEN [s EXCEPT !.more = FALSE] ELSE [s EXCEPT !.index = @ - distance]

\* A run of one byte is not searched position by position: the search jumps to
\* where the run behind a candidate fits the run at the position, or to the
\* farthest place of the run.
Repeated(cx, s, at, low, lowest) ==
    LET byte    == mem[at]
        cand    == s.index - 1
        ipIndex == IndexOf(cx, at)
        inDict  == ~InPrefix(cx, cand)
        ptr     == Address(cx, cand)
        dictEnd == cx.dictStart + cx.dictLimit - cx.lowLimit
        ahead   == MINMATCH + LZ4HC_countPattern(ptr + MINMATCH,
                                  IF inDict THEN dictEnd ELSE matchlimit, byte)
        forward == IF inDict /\ ptr + ahead = dictEnd
                   THEN ahead + LZ4HC_countPattern(cx.prefixStart, matchlimit, byte) ELSE ahead
        behind  == LZ4HC_reverseCountPattern(ptr, IF inDict THEN cx.dictStart ELSE cx.prefixStart,
                                             byte)
        farther == IF ~inDict /\ ptr - behind = cx.prefixStart /\ cx.lowLimit < cx.dictLimit
                   THEN behind + LZ4HC_reverseCountPattern(dictEnd, cx.dictStart, byte)
                   ELSE behind
        back    == cand - Higher(cand - farther, lowest)
        segment == back + forward
        fits    == segment >= s.srcPattern /\ forward <= s.srcPattern
        index   == IF fits THEN cand + forward - s.srcPattern ELSE cand - back
        maxML   == Min({segment, s.srcPattern})
        far     == [s EXCEPT !.index = index, !.stray = @ \/ ~Inside(cx, cand, at)]
    IN  IF ~LZ4HC_protectDictEnd(cx.dictLimit, index) THEN [s EXCEPT !.index = cx.dictLimit]
        ELSE IF fits \/ at # low THEN far
        ELSE IF s.len >= maxML THEN Down(far, cx.chainTable[index % KB64])
        ELSE IF ipIndex - index > DISTANCE_MAX THEN [far EXCEPT !.more = FALSE]
        ELSE Down([far EXCEPT !.len = maxML, !.off = ipIndex - index],
                  cx.chainTable[index % KB64])

\* One candidate of the stream's own chain.
Tried(cx, s, at, low, lowest) ==
    LET ipIndex == IndexOf(cx, at)
        m       == MatchAt(cx, s.index, at, low, s.len)
        ok      == Readable(cx, s.index, at, low, s.len)
        seen    == [Widened(s, m, s.index, ipIndex) EXCEPT
                      !.tries = @ - 1, !.stray = @ \/ ~ok]
        next    == cx.chainTable[s.index % KB64]
        run     == call.patterns /\ next = 1
        same    == \A i \in 1..3 : mem[at + i] = mem[at]
        asked   == IF run /\ s.repeat = "untested"
                   THEN [seen EXCEPT !.repeat = IF same THEN "confirmed" ELSE "not",
                           !.srcPattern = IF same THEN MINMATCH + LZ4HC_countPattern(
                                             at + MINMATCH, matchlimit, mem[at]) ELSE 0]
                   ELSE seen
    IN  IF /\ run /\ asked.repeat = "confirmed"
           /\ s.index - 1 >= lowest
           /\ LZ4HC_protectDictEnd(cx.dictLimit, s.index - 1)
           /\ Same4(Address(cx, s.index - 1), at)
        THEN Repeated(cx, asked, at, low, lowest)
        ELSE [asked EXCEPT !.index = @ - next]

\* One candidate of the attached dictionary, whose indexes are shifted so that
\* its end meets the start of the stream.
TriedInDict(s, at, low, ipIndex, lowest) ==
    LET end    == EndIndex(dict)
        index  == s.index - lowest + end
        ptr    == dict.prefixStart + index - dict.dictLimit
        vLimit == Min({at + end - index, matchlimit})
        back   == LZ4HC_countBack(at, ptr, low, dict.prefixStart)
        length == MINMATCH + LZ4_count(at + MINMATCH, ptr + MINMATCH, vLimit) + back
        seen   == IF Same4(ptr, at)
                  THEN Widened(s, [len |-> length, back |-> back], s.index, ipIndex) ELSE s
        ok     == ptr >= dict.prefixStart /\ ptr + MINMATCH <= dict.end
    IN  [seen EXCEPT !.index = @ - dict.chainTable[index % KB64],
                     !.tries = @ - 1, !.stray = @ \/ ~ok]

\* The widest match for a position that begins at low or later and is longer
\* than a given length; back is how far before the position it begins.
WiderMatch(cx, at, low, longest) ==
    LET ipIndex == IndexOf(cx, at)
        near    == cx.lowLimit + KB64 > ipIndex
        lowest  == IF near THEN cx.lowLimit ELSE ipIndex - DISTANCE_MAX
        h       == LZ4HC_hashPtr(mem, at)
        first   == [index |-> cx.hashTable[h], tries |-> call.searches, more |-> TRUE,
                    len |-> longest, off |-> 0, back |-> 0,
                    repeat |-> "untested", srcPattern |-> 0, stray |-> FALSE]
        chain[n \in 0..call.searches] ==
          IF n = 0 THEN first
          ELSE LET s == chain[n - 1]
               IN  IF s.more /\ s.tries > 0 /\ s.index >= lowest
                   THEN Tried(cx, s, at, low, lowest) ELSE s
        own     == chain[call.searches]
        linked  == [own EXCEPT !.index = dict.hashTable[h] + lowest - EndIndex(dict)]
        inDict[n \in 0..call.searches] ==
          IF n = 0 THEN linked
          ELSE LET s == inDict[n - 1]
               IN  IF s.tries > 0 /\ ipIndex - s.index <= DISTANCE_MAX
                   THEN TriedInDict(s, at, low, ipIndex, lowest) ELSE s
    IN  IF call.withDict /\ own.tries > 0 /\ near THEN inDict[call.searches] ELSE own

-----------------------------------------------------------------------------
(* LZ4HC_encodeSequence.  A limited call fails before the literals, or     *)
(* behind them before the match length.                                    *)

NoMatch == [at |-> 0, len |-> 0, off |-> 0]

\* In fillOutput mode the last literals are kept free.
oend == call.room - IF call.limit = "fillOutput" THEN LASTLITERALS ELSE 0

LiteralsOverTight(op, lit, limit) ==  \* mutant
    limit # "notLimited" /\ op + 1 + lit \div 255 + lit + (2 + 1) > oend
LiteralsOver(op, lit, limit) ==
    limit # "notLimited" /\ op + 1 + lit \div 255 + lit + (2 + 1 + LASTLITERALS) > oend

LengthOver(oo, code, limit) ==
    limit # "notLimited" /\ oo + code \div 255 + (1 + LASTLITERALS) > oend

\* The output behind a match; over is the match that did not fit.
Encoded(o, m, limit) ==
    LET lit  == m.at - o.anchor
        oo   == AfterLiterals(o.op, lit) + 2
        code == m.len - MINMATCH
        lits == [o EXCEPT !.top = Higher(@, Higher(TopOfLiterals(o.op, lit), oo))]
    IN  IF LiteralsOver(o.op, lit, limit) THEN [o EXCEPT !.over = m]
        ELSE IF LengthOver(oo, code, limit) THEN [lits EXCEPT !.over = m]
        ELSE [lits EXCEPT
                !.op = AfterMatch(oo, code),
                !.top = Higher(@, AfterMatch(oo, code)),
                !.anchor = m.at + m.len,
                !.block = Append(@, [lit |-> Bytes(o.anchor, lit), off |-> m.off, len |-> m.len])]

-----------------------------------------------------------------------------
(* Entry points                                                            *)

Place(source, text) ==
    mem' = [a \in DOMAIN mem |-> IF a \in source..(source + Len(text) - 1)
                                 THEN text[a - source + 1] ELSE mem[a]]

\* Between two calls, and the bound on them.
Idle == pc = "idle" /\ calls < MaxCalls

\* LZ4HC_compress_generic: an attached dictionary is forgotten behind 64 KB,
\* and taken over as a whole by the first block of a stream when that is long.
TakesOver(cx, size) ==
    /\ cx.dictCtx
    /\ PrefixSize(cx) + cx.dictLimit - cx.lowLimit = 0
    /\ size > KB4

Forgets(cx) == cx.dictCtx /\ PrefixSize(cx) + cx.dictLimit - cx.lowLimit >= KB64

LZ4HC_compress_generic(m, cx, source, size) ==
    LET ready == CASE Forgets(cx) -> [cx EXCEPT !.dictCtx = FALSE]
                   [] TakesOver(cx, size) ->
                        [LZ4HC_setExternalDict(m, dict, source) EXCEPT !.level = cx.level]
                   [] OTHER -> cx
    IN  [ready EXCEPT !.end = @ + size]

Compress(cx, source, size, room, limit) ==
    /\ ctx' = cx
    /\ call' = [source |-> source, size |-> size, room |-> room, limit |-> limit,
                searches |-> cx.level, patterns |-> cx.level > PatternSearches,
                withDict |-> cx.dictCtx]
    /\ ip' = source
    /\ out' = [anchor |-> source, op |-> 0, top |-> 0, over |-> NoMatch, block |-> <<>>]
    /\ pc' = IF size < LZ4_minLength THEN "last" ELSE "search1"
    /\ stray' = FALSE
    /\ UNCHANGED <<dict, m0, m1, m2, m3, result>>

Limited(size, room) ==
    IF room < LZ4_compressBound(size) THEN "limitedOutput" ELSE "notLimited"

\* A call without a stream: the block is decoded without history.
OneShot(cx, text, room, limit) ==
    /\ Place(OneShotAt, text)
    /\ history' = <<>> /\ use' = "other"
    /\ \E ready \in {LZ4HC_compress_generic(mem', LZ4HC_init_internal(cx, OneShotAt),
                                            OneShotAt, Len(text))} :
         Compress(ready, OneShotAt, Len(text), room, limit)

\* Its state is its own: nothing before it matters, and nothing behind it.
LZ4_compress_HC(text, room, level) ==
    /\ Idle /\ calls = 0
    /\ calls' = MaxCalls
    /\ OneShot(LZ4_initStreamHC(level), text, room, Limited(Len(text), room))

LZ4_compress_HC_destSize(text, room, level) ==
    /\ Idle /\ calls = 0 /\ room >= 1
    /\ calls' = MaxCalls
    /\ OneShot(LZ4_initStreamHC(level), text, room, "fillOutput")

\* A state that was used before.
LZ4_compress_HC_extStateHC_fastReset(text, room, level) ==
    /\ Idle
    /\ calls' = calls + 1
    /\ OneShot(LZ4_resetStreamHC_fastT(ctx, level), text, room, Limited(Len(text), room))

LZ4_resetStreamHC_fast(level) ==
    /\ Idle /\ use # "fresh"
    /\ ctx' = LZ4_resetStreamHC_fastT(ctx, level)
    /\ history' = <<>> /\ use' = "fresh"
    /\ UNCHANGED <<mem, dict, calls, call, pc, matches, out, result, stray>>

LZ4_loadDictHC(text) ==
    /\ Idle
    /\ Place(DictAt, text)
    /\ ctx' = LZ4_loadDictHCT(mem', ctx, DictAt, Len(text))
    /\ history' = Reachable(text) /\ use' = "fresh"
    /\ UNCHANGED <<dict, calls, call, pc, matches, out, result, stray>>

\* A stream that was reset takes the dictionary of another one.
LZ4_attach_HC_dictionary ==
    /\ Idle /\ use = "fresh" /\ ctx.prefixStart = NULL /\ ~ctx.dictCtx
    /\ ctx' = [ctx EXCEPT !.dictCtx = TRUE]
    /\ history' = Bytes(dict.prefixStart, PrefixSize(dict))
    /\ UNCHANGED <<mem, dict, use, calls, call, pc, matches, out, result, stray>>

\* The source may lie anywhere; what it covers of the dictionary is given up.
LZ4_compress_HC_continue(source, text, room) ==
    /\ Idle /\ use # "other"
    /\ calls' = calls + 1
    /\ Place(source, text)
    /\ use' = "stream"
    /\ UNCHANGED history
    /\ \E cx \in {Continued(mem', ctx, source, Len(text))} :
       \E ready \in {LZ4HC_compress_generic(mem', cx, source, Len(text))} :
         Compress(ready, source, Len(text), room, Limited(Len(text), room))

\* The end of the prefix moves to a buffer of the caller; an external
\* dictionary is given up.
LZ4_saveDictHC(size) ==
    /\ Idle /\ use = "stream"
    /\ LET kept  == Min({IF size < 4 THEN 0 ELSE Min({size, KB64}), PrefixSize(ctx)})
           limit == EndIndex(ctx) - kept
       IN  /\ Place(SaveAt, Bytes(ctx.end - kept, kept))
           /\ ctx' = [ctx EXCEPT
                !.prefixStart = SaveAt, !.end = SaveAt + kept, !.dictStart = SaveAt,
                !.dictLimit = limit, !.lowLimit = limit,
                !.nextToUpdate = Higher(@, limit)]
    /\ UNCHANGED <<dict, use, history, calls, call, pc, matches, out, result, stray>>

-----------------------------------------------------------------------------
(* LZ4HC_compress_hashChain                                                *)

\* A sequence that did not fit stops the parser.
Running(here) ==
    pc = here /\ out.over = NoMatch /\ UNCHANGED <<stream, call, result>>

\* A search for a position, after all positions before it entered the chains;
\* it begins at low or later and is wider than longest.
Found(at, low, longest, m) ==
    \E cx \in {LZ4HC_Insert(mem, ctx, at)} :
    \E w \in {WiderMatch(cx, at, low, longest)} :
      /\ ctx' = cx
      /\ m = [at |-> at - w.back, len |-> w.len, off |-> w.off]
      /\ stray' = (stray \/ w.stray)

Behind(m) == m.at + m.len

Encode(m) == out' = Encoded(out, m, call.limit)

\* The main loop: the first match.
Search1 ==
    /\ Running("search1")
    /\ IF ip > mflimit
       THEN pc' = "last" /\ UNCHANGED <<ip, ctx, m0, m1, stray>>
       ELSE /\ Found(ip, ip, MINMATCH - 1, m1')
            /\ IF m1'.len < MINMATCH
               THEN ip' = ip + 1 /\ UNCHANGED <<pc, m0>>
               ELSE m0' = m1' /\ pc' = "search2" /\ UNCHANGED ip
    /\ UNCHANGED <<m2, m3, out>>

\* A wider one that overlaps its end.
Search2 ==
    /\ Running("search2")
    /\ IF Behind(m1) <= mflimit
       THEN Found(Behind(m1) - 2, m1.at, m1.len, m2')
       ELSE m2' = NoMatch /\ UNCHANGED <<ctx, stray>>
    /\ pc' = "second"
    /\ UNCHANGED <<ip, m0, m1, m3, out>>

\* None: the first one is encoded.
EncodeFirst ==
    /\ Running("second") /\ m2.len <= m1.len
    /\ Encode(m1)
    /\ ip' = Behind(m1) /\ pc' = "search1"
    /\ UNCHANGED <<ctx, m0, m1, m2, m3, stray>>

\* The first match is given up when it is too small; one that was given up
\* before comes back when it fits in front of the second.
WeighFirst ==
    /\ Running("second") /\ m2.len > m1.len
    /\ LET first == IF m0.at < m1.at /\ m2.at < m1.at + m0.len THEN m0 ELSE m1
           small == m2.at - first.at < 3
       IN  /\ m1' = IF small THEN m2 ELSE first
           /\ pc' = IF small THEN "search2" ELSE "search3"
    /\ UNCHANGED <<ip, ctx, m0, m2, m3, out, stray>>

\* The length of a first match before an overlapping second: OPTIMAL_ML, or
\* what leaves the second long enough.
Kept(first, second) ==
    LET length == Min({first.len, OPTIMAL_ML})
    IN  IF first.at + length > Behind(second) - MINMATCH
        THEN second.at - first.at + second.len - MINMATCH ELSE length

From(m, at) == [m EXCEPT !.at = at, !.len = Behind(m) - at]

Until(m, at) == IF at < Behind(m) THEN [m EXCEPT !.len = at - m.at] ELSE m

\* The second match gives up its front to the first.
Corrected(first, second) ==
    IF second.at - first.at < OPTIMAL_ML /\ first.at + Kept(first, second) > second.at
    THEN From(second, first.at + Kept(first, second)) ELSE second

\* A third one that overlaps the end of the second.
Search3 ==
    /\ Running("search3")
    /\ m2' = Corrected(m1, m2)
    /\ IF Behind(m2') <= mflimit
       THEN Found(Behind(m2') - 3, m2'.at, m2'.len, m3')
       ELSE m3' = NoMatch /\ UNCHANGED <<ctx, stray>>
    /\ pc' = "third"
    /\ UNCHANGED <<ip, m0, m1, out>>

\* None: both are encoded.
EncodeBoth ==
    /\ Running("third") /\ m3.len <= m2.len
    /\ Encode(Until(m1, m2.at))
    /\ pc' = "both"
    /\ UNCHANGED <<ip, ctx, m0, m1, m2, m3, stray>>

EncodeSecondFromFirst ==  \* mutant
    /\ Running("both")
    /\ Encode(m2)
    /\ ip' = Behind(m1) /\ pc' = "search1"
    /\ UNCHANGED <<ctx, m0, m1, m2, m3, stray>>
EncodeSecond ==
    /\ Running("both")
    /\ Encode(m2)
    /\ ip' = Behind(m2) /\ pc' = "search1"
    /\ UNCHANGED <<ctx, m0, m1, m2, m3, stray>>

\* No space for the second one: the first is encoded, the third becomes first.
DropSecond ==
    /\ Running("third") /\ m3.len > m2.len
    /\ m3.at < Behind(m1) + 3 /\ m3.at >= Behind(m1)
    /\ Encode(m1)
    /\ m1' = m3
    /\ LET late == From(m2, Behind(m1))
       IN  m0' = IF m2.at >= Behind(m1) THEN m2
                 ELSE IF late.len < MINMATCH THEN m3 ELSE late
    /\ pc' = "search2"
    /\ UNCHANGED <<ip, ctx, m2, m3, stray>>

\* The third one covers the second.
ReplaceSecond ==
    /\ Running("third") /\ m3.len > m2.len
    /\ m3.at < Behind(m1)
    /\ m2' = m3 /\ pc' = "search3"
    /\ UNCHANGED <<ip, ctx, m0, m1, m3, out, stray>>

\* Three ascending matches: the first is encoded up to the second.
EncodeFirstOfThree ==
    /\ Running("third") /\ m3.len > m2.len
    /\ m3.at >= Behind(m1) + 3
    /\ LET overlap == m2.at < Behind(m1)
           close   == overlap /\ m2.at - m1.at < OPTIMAL_ML
       IN  /\ Encode(IF close THEN [m1 EXCEPT !.len = Kept(m1, m2)] ELSE Until(m1, m2.at))
           /\ m1' = IF close THEN Corrected(m1, m2) ELSE m2
    /\ m2' = m3 /\ pc' = "search3"
    /\ UNCHANGED <<ip, ctx, m0, m3, stray>>

\* A match that ends len behind its start, its token and offset written behind
\* an output position, leaves the room for a block to end.
StillEndsInRoom(behind, len) == oend - (behind + 2) - 1 >= 0  \* mutant
StillEnds(behind, len) == oend + LASTLITERALS - (behind + 2) - 1 + len >= MFLIMIT

\* _dest_overflow: a limited call fails; one that fills the output shortens the
\* match, unless the block would end too close behind it.
Overflow ==
    /\ pc # "idle" /\ out.over # NoMatch
    /\ UNCHANGED <<stream, call, ctx, matches, stray>>
    /\ IF call.limit = "limitedOutput"
       THEN pc' = "done" /\ result' = 0 /\ UNCHANGED out
       ELSE LET m     == out.over
                lit   == m.at - out.anchor
                behind == out.op + 1 + (lit + 240) \div 255 + lit
                left  == oend - 3 - behind
                short == [m EXCEPT !.len =
                            Min({m.len, MINMATCH + (ML_MASK - 1) + left * 255})]
                done  == [out EXCEPT !.over = NoMatch]
            IN  /\ out' = IF left >= 0 /\ StillEnds(behind, short.len)
                          THEN Encoded(done, short, "notLimited") ELSE done
                /\ pc' = "last"
                /\ UNCHANGED result

LastLiterals ==
    LET rest == call.source + call.size - out.anchor
        full == call.limit # "notLimited" /\ LastOverflow(out.op, rest, call.room)
        run  == IF full THEN FilledLastRun(out.op, call.room) ELSE rest
    IN  /\ pc = "last" /\ out.over = NoMatch
        /\ pc' = "done"
        /\ IF full /\ call.limit = "limitedOutput"
           THEN result' = 0 /\ UNCHANGED out
           ELSE /\ out' = [out EXCEPT
                     !.op = AfterLast(@, run), !.top = Higher(@, AfterLast(out.op, run)),
                     !.anchor = @ + run,
                     !.block = Append(@, [lit |-> Bytes(out.anchor, run), off |-> 0, len |-> 0])]
                /\ result' = AfterLast(out.op, run)
        /\ UNCHANGED <<stream, call, ctx, matches, stray>>

Consumed == Bytes(call.source, out.anchor - call.source)

\* A failure makes the context dirty; the decoder keeps the last 64 KB.
Return ==
    /\ pc = "done" /\ pc' = "idle"
    /\ ctx' = IF result = 0 THEN [ctx EXCEPT !.dirty = TRUE] ELSE ctx
    /\ use' = IF result = 0 THEN "other" ELSE use
    /\ history' = IF use # "stream" \/ result = 0 THEN <<>>
                  ELSE Reachable(history \o Consumed)
    /\ out' = [out EXCEPT !.over = NoMatch, !.block = <<>>]
    /\ ip' = call.source
    /\ m0' = NoMatch /\ m1' = NoMatch /\ m2' = NoMatch /\ m3' = NoMatch
    /\ UNCHANGED <<mem, dict, calls, call, result, stray>>

-----------------------------------------------------------------------------

Init ==
    /\ \E d \in DictTexts, level \in Levels :
         /\ mem = [a \in 1..MemEnd |->
                     IF a \in DictAt..(DictAt + Len(d) - 1) THEN d[a - DictAt + 1] ELSE 0]
         /\ dict = LZ4_loadDictHCT(mem, LZ4_initStreamHC(level), DictAt, Len(d))
         /\ ctx = LZ4_initStreamHC(level)
    /\ use = "fresh" /\ history = <<>> /\ calls = 0
    /\ call = [source |-> 1, size |-> 0, room |-> 0, limit |-> "limitedOutput",
               searches |-> 1, patterns |-> FALSE, withDict |-> FALSE]
    /\ pc = "idle" /\ ip = 1
    /\ m0 = NoMatch /\ m1 = NoMatch /\ m2 = NoMatch /\ m3 = NoMatch
    /\ out = [anchor |-> 1, op |-> 0, top |-> 0, over |-> NoMatch, block |-> <<>>]
    /\ result = 0 /\ stray = FALSE

Next ==
    \/ \E job \in Jobs, level \in Levels :
         \/ LZ4_compress_HC(job.text, job.room, level)
         \/ LZ4_compress_HC_destSize(job.text, job.room, level)
    \/ \E job \in Pieces :
         \/ \E level \in Levels :
              LZ4_compress_HC_extStateHC_fastReset(job.text, job.room, level)
         \/ \E source \in Slots : LZ4_compress_HC_continue(source, job.text, job.room)
    \/ \E level \in Levels : LZ4_resetStreamHC_fast(level)
    \/ \E text \in DictTexts : LZ4_loadDictHC(text)
    \/ LZ4_attach_HC_dictionary
    \/ \E size \in {3, 6, KB64} : LZ4_saveDictHC(size)
    \/ Search1 \/ Search2 \/ Search3
    \/ EncodeFirst \/ WeighFirst
    \/ EncodeBoth \/ EncodeSecond \/ DropSecond \/ ReplaceSecond \/ EncodeFirstOfThree
    \/ Overflow \/ LastLiterals \/ Return

Spec == Init /\ [][Next]_vars

-----------------------------------------------------------------------------

Typed ==
    /\ mem \in [1..MemEnd -> Nat]
    /\ ctx.hashTable \in [0..(Buckets - 1) -> Nat]
    /\ ctx.chainTable \in [0..(KB64 - 1) -> 0..DISTANCE_MAX]
    /\ ctx.lowLimit \in Nat /\ ctx.dictLimit \in Nat /\ ctx.nextToUpdate \in Nat
    /\ ctx.prefixStart \in 0..MemEnd /\ ctx.end \in 0..MemEnd
    /\ use \in {"fresh", "stream", "other"}
    /\ pc \in {"idle", "search1", "search2", "second", "search3", "third", "both",
               "last", "done"}
    /\ Len(history) <= KB64

(* A block decodes to its source, whatever its matches gave up to each     *)
(* other and whatever the chains hold of older segments.                   *)
RoundTrip ==
    pc = "done" /\ result > 0 =>
        /\ Decoded(out.block, history) = history \o Consumed
        /\ call.limit # "fillOutput" => Len(Consumed) = call.size

(* The assertions of LZ4HC_encodeSequence and the end of block rules: a    *)
(* match keeps four bytes and an offset of sixteen bits after every        *)
(* correction, and a block ends with five literals, twelve bytes behind    *)
(* the start of its last match, also one that was cut to fill the output.  *)
(* The context keeps its type: no delta of a chain exceeds DISTANCE_MAX.   *)
SequencesLegal ==
    /\ Typed
    /\ \A i \in 1..Len(out.block) :
         out.block[i].len > 0 =>
             out.block[i].len >= MINMATCH /\ out.block[i].off \in 1..DISTANCE_MAX
    /\ pc = "done" /\ result > 0 => EndsWithLiterals(out.block)

(* No byte is written behind the destination.                              *)
WritesInBounds == out.top <= call.room

(* Searches read where there is something to compare.                      *)
NoStrayRead == ~stray

(* The positions enter the chains once: nextToUpdate never moves back      *)
(* while a call runs.                                                      *)
EntersOnce == [][pc # "idle" /\ pc' # "idle" => ctx'.nextToUpdate >= ctx.nextToUpdate]_vars
=============================================================================

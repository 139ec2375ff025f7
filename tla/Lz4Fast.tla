----------------------------- MODULE Lz4Fast -----------------------------
(***************************************************************************)
(* The fast compressor of lz4.c: a stream context with its hash table of   *)
(* indexes, the entry points that prepare it, and the match search of      *)
(* LZ4_compress_generic_validated one iteration at a time.                 *)
(*                                                                         *)
(* Memory is a function of addresses; pointers are addresses and NULL is   *)
(* 0.  An index is what the table stores: the distance from the position   *)
(* the stream calls 0, so a position has the same index in every block of  *)
(* a stream wherever the block lies in memory.                             *)
(***************************************************************************)
EXTENDS Lz4Format, FiniteSetsExt

CONSTANTS
    Texts,          \* the byte strings a caller may compress
    DictTexts,      \* those it may load as a dictionary
    Slots,          \* addresses where the source of a streaming call may lie
    OneShotAt,      \* where that of a one-shot call lies
    DictAt,         \* address of the dictionary
    SaveAt,         \* address of the buffer given to LZ4_saveDict
    MemEnd,         \* first address behind the memory
    Buckets,        \* entries of the hash table
    KB64, KB4, GB1, GB2,    \* 64 KB, 4 KB, 1 GB and 0x80000000, scaled down
    SkipUnit,       \* 1 << LZ4_skipTrigger
    Rooms,          \* output capacities of limited calls
    MaxCalls        \* bound: compression calls of a behaviour

ASSUME FastAssumption ==
    /\ {KB64, KB4, GB1, GB2, Buckets, MaxCalls, SkipUnit} \subseteq Nat \ {0}
    /\ KB64 > MFLIMIT /\ KB64 < GB1 /\ GB1 < GB2
    /\ Texts \union DictTexts \subseteq Seq(Nat) /\ Rooms \subseteq Nat
    \* LZ4_MAX_INPUT_SIZE leaves more than 64 KB of indexes below 0x80000000
    /\ \A text \in Texts : Len(text) + KB64 <= GB2
    \* the sources, the dictionary and the saved one lie in memory in this order
    /\ Slots \union {OneShotAt} \subseteq Nat \ {0}
    /\ {DictAt, SaveAt, MemEnd} \subseteq Nat
    /\ \A source \in Slots \union {OneShotAt} :
          source < DictAt /\ \A text \in Texts : source + Len(text) <= DictAt
    /\ DictAt <= SaveAt /\ \A text \in DictTexts : DictAt + Len(text) <= SaveAt
    /\ SaveAt + KB64 <= MemEnd + 1

NULL == 0
DISTANCE_MAX == KB64 - 1
LZ4_64Klimit == KB64 + MFLIMIT - 1
HASH_UNIT == 8

VARIABLES
    mem,            \* memory
    ctx,            \* LZ4_stream_t_internal of the working stream
    dict,           \* the stream a dictionary was loaded into
    use,            \* what the last calls allow next: "fresh", "stream", "other"
    history,        \* the bytes the decoder of the next block has before it
    calls,          \* compression calls so far
    call,           \* the parameters and constants of the call in progress
    pc,             \* where the call is
    ip, forwardIp, step, searchMatchNb, match, lowLimit, offset, filledIp,
    anchor, token, op, top,
    block,          \* the sequences emitted so far
    result,         \* value returned by the last call
    stray           \* whether a candidate was read outside its segment

stream == <<mem, dict, use, history, calls>>
search == <<ip, forwardIp, step, searchMatchNb, match, lowLimit, offset, filledIp>>
output == <<anchor, token, op, top, block, result>>
vars == <<stream, ctx, call, pc, search, output, stray>>

-----------------------------------------------------------------------------
(* Memory and the hash table                                               *)

Bytes(a, length) == [i \in 1..length |-> mem[a + i - 1]]

\* What an offset can reach: the last 64 KB.
Reachable(s) == SubSeq(s, Max({1, Len(s) - KB64 + 1}), Len(s))

\* Nothing outside the memory is equal to anything.
Same4(a, b) == \A i \in 0..3 : a + i \in DOMAIN mem /\ mem[a + i] = mem[b + i]

\* LZ4_hash5 of a 64-bit build for byU32, LZ4_hash4 for byU16; the multiplicative
\* hash is coarsened so that collisions are common.
HashIn(m, a, tableType) ==
    (m[a] + 2 * m[a + 1] + 3 * m[a + 2] + m[a + 3]
       + (IF tableType = "byU32" THEN m[a + 4] ELSE 0)) % Buckets

LZ4_hashPosition(a, tableType) == HashIn(mem, a, tableType)

\* An entry of a byU16 table keeps sixteen bits.
LZ4_putIndexOnHash(table, index, h, tableType) ==
    [table EXCEPT ![h] = IF tableType = "byU16" THEN index % KB64 ELSE index]

LZ4_clearHash(table, hs) == [h \in DOMAIN table |-> IF h \in hs THEN 0 ELSE table[h]]

Cleared == [h \in 0..(Buckets - 1) |-> 0]

\* LZ4_count: the bytes equal at two places, up to a limit of the first.
LZ4_count(in, at, limit) ==
    LET max == IF limit > in THEN limit - in ELSE 0
    IN  CHOOSE k \in 0..max :
            /\ \A i \in 0..(k - 1) : mem[in + i] = mem[at + i]
            /\ k = max \/ mem[in + k] # mem[at + k]

-----------------------------------------------------------------------------
(* Stream contexts                                                         *)

LZ4_initStream ==
    [hashTable |-> Cleared, currentOffset |-> 0, tableType |-> "cleared",
     dictionary |-> NULL, dictSize |-> 0, dictCtx |-> FALSE]

\* Keeps the entries when that is safe, and opens a gap behind them.
LZ4_prepareTable(cctx, inputSize, tableType) ==
    LET reset ==
          /\ cctx.tableType # "cleared"
          /\ \/ cctx.tableType # tableType
             \/ tableType = "byU16" /\ cctx.currentOffset + inputSize >= KB64 - 1
             \/ tableType = "byU32" /\ cctx.currentOffset > GB1
             \/ inputSize >= KB4
        kept == IF reset
                THEN [cctx EXCEPT !.hashTable = Cleared, !.currentOffset = 0,
                                  !.tableType = "cleared"]
                ELSE cctx
        gap == IF kept.currentOffset # 0 /\ tableType = "byU32" THEN KB64 ELSE 0
    IN  [kept EXCEPT !.currentOffset = @ + gap, !.dictCtx = FALSE,
                     !.dictionary = NULL, !.dictSize = 0]

\* The table after every third position was entered, later ones first served,
\* and for the slow variant the free entries by every position.
LoadedTable(m, p, dictSize, slow) ==
    LET first == KB64 - dictSize
        last  == dictSize - HASH_UNIT
        H(i)  == HashIn(m, p + i, "byU32")
        thirds == {i \in 0..last : i % 3 = 0}
        fast[h \in 0..(Buckets - 1)] ==
          LET here == {i \in thirds : H(i) = h}
          IN  IF here = {} THEN 0 ELSE first + Max(here)
        \* an entry of index 0 counts as free
        more[h \in 0..(Buckets - 1)] ==
          LET here == {i \in 0..last : H(i) = h /\ first + i > 0}
          IN  IF fast[h] > 0 \/ here = {} THEN fast[h] ELSE first + Min(here)
    IN  IF slow THEN more ELSE fast

\* The last 64 KB of a dictionary of at least HASH_UNIT bytes.
LZ4_loadDict_internal(m, dictionary, size, slow) ==
    LET empty == [LZ4_initStream EXCEPT !.currentOffset = KB64]
        kept  == IF size > KB64 THEN KB64 ELSE size
        p     == dictionary + size - kept
    IN  IF size < HASH_UNIT THEN empty
        ELSE [empty EXCEPT !.dictionary = p, !.dictSize = kept,
                           !.tableType = "byU32",
                           !.hashTable = LoadedTable(m, p, kept, slow)]

\* Without an index to spare the table could not tell a miss from a hit.
LZ4_attach_dictionary(working, dictionary) ==
    [working EXCEPT !.currentOffset = IF @ = 0 THEN KB64 ELSE @,
                    !.dictCtx = dictionary.dictSize # 0]

LZ4_renormDictTKeepsTable(cx, nextSize) ==  \* mutant
    IF cx.currentOffset + nextSize <= GB2 THEN cx
    ELSE [cx EXCEPT !.currentOffset = KB64]
LZ4_renormDictT(cx, nextSize) ==
    IF cx.currentOffset + nextSize <= GB2 THEN cx
    ELSE LET delta == cx.currentOffset - KB64
             kept  == IF cx.dictSize > KB64 THEN KB64 ELSE cx.dictSize
         IN  [cx EXCEPT
                !.hashTable = [h \in DOMAIN @ |->
                                 IF @[h] < delta THEN 0 ELSE @[h] - delta],
                !.currentOffset = KB64,
                !.dictionary = @ + cx.dictSize - kept,
                !.dictSize = kept]

-----------------------------------------------------------------------------
(* LZ4_compress_generic: the context is updated before the search starts.  *)

\* What a call fixes before its main loop; the dictionary is that of the
\* attached stream in usingDictCtx mode.
CallOf(cx, source, size, room, directive, tableType, mode, small, keeps) ==
    LET d == IF mode = "usingDictCtx" THEN dict ELSE cx
        base == IF mode = "usingDictCtx" THEN dict.currentOffset ELSE cx.currentOffset
    IN  [source |-> source, size |-> size, olimit |-> room, directive |-> directive,
         tableType |-> tableType, mode |-> mode, small |-> small,
         startIndex |-> cx.currentOffset,
         dictionary |-> d.dictionary, dictEnd |-> d.dictionary + d.dictSize,
         dictBase |-> d.dictionary + d.dictSize - base,
         dictDelta |-> IF mode = "usingDictCtx"
                       THEN cx.currentOffset - dict.currentOffset ELSE 0,
         prefixIdxLimit |-> cx.currentOffset - d.dictSize,
         keeps |-> keeps]

iend == call.source + call.size
mflimitPlusOne == iend - MFLIMIT + 1
matchlimit == iend - LASTLITERALS
base == call.source - call.startIndex
maybe_extMem == call.mode \in {"usingExtDict", "usingDictCtx"}

\* Forward positions are taken up one by one, then with growing steps.
StartSearch(from) ==
    /\ forwardIp' = from
    /\ step' = 1
    /\ searchMatchNb' = SkipUnit
    /\ pc' = "search"

\* The context is updated before the search; the first position is entered.
Entered(m, cx, c) ==
    LET moved == [cx EXCEPT
                    !.dictCtx = IF c.mode = "usingDictCtx" THEN FALSE ELSE @,
                    !.dictSize = IF c.mode = "usingDictCtx" THEN c.size ELSE @ + c.size,
                    !.currentOffset = @ + c.size,
                    !.tableType = c.tableType]
        h == HashIn(m, c.source, c.tableType)
    IN  IF c.size < LZ4_minLength THEN moved
        ELSE [moved EXCEPT !.hashTable =
                LZ4_putIndexOnHash(@, c.startIndex, h, c.tableType)]

Enter(cx, c) ==
    /\ call' = c
    /\ ctx' = Entered(mem', cx, c)
    /\ ip' = c.source /\ anchor' = c.source
    /\ lowLimit' = c.source - (IF c.mode = "withPrefix64k" THEN cx.dictSize ELSE 0)
    /\ token' = 0 /\ op' = 0 /\ top' = 0 /\ block' = <<>> /\ result' = 0
    /\ match' = NULL /\ offset' = 0 /\ filledIp' = c.source
    /\ IF c.size < LZ4_minLength
       THEN pc' = "last" /\ UNCHANGED <<forwardIp, step, searchMatchNb>>
       ELSE StartSearch(c.source + 1)
    /\ stray' = FALSE

\* The caller writes its text at an address; nothing the stream still reads
\* may be overwritten, except from its front.
Place(source, text) ==
    mem' = [a \in DOMAIN mem |-> IF a \in source..(source + Len(text) - 1)
                                 THEN text[a - source + 1] ELSE mem[a]]

\* Between two calls, and the bound on them.
Idle == pc = "idle" /\ calls < MaxCalls

\* A call of LZ4_compress_generic: an empty source is answered at once and
\* leaves no block to read.
Compress(cx, source, text, room, directive, tableType, mode, small, keeps) ==
    /\ Idle
    /\ calls' = calls + 1
    /\ Place(source, text)
    /\ UNCHANGED dict
    /\ IF text = <<>>
       THEN /\ ctx' = IF keeps = "source"
                      THEN [cx EXCEPT !.dictionary = source, !.dictSize = 0] ELSE cx
            /\ UNCHANGED <<pc, call, search, output, stray>>
       ELSE \E c \in {CallOf(cx, source, Len(text), room, directive, tableType,
                             mode, small, keeps)} : Enter(cx, c)

-----------------------------------------------------------------------------
(* Entry points.  A one-shot call is decoded without history.              *)

OneShot == history' = <<>> /\ use' = "other"

LimitedNoMargin(text, room) ==  \* mutant
    IF room >= Len(text) + Len(text) \div 255 THEN "notLimited" ELSE "limitedOutput"
Limited(text, room) ==
    IF room >= LZ4_compressBound(Len(text)) THEN "notLimited" ELSE "limitedOutput"

\* LZ4_compress_fast: the state is initialised first.
LZ4_compress_fast_extState(source, text, room) ==
    /\ OneShot
    /\ Compress(LZ4_initStream, source, text, room, Limited(text, room),
                IF Len(text) < LZ4_64Klimit THEN "byU16" ELSE "byU32",
                "noDict", FALSE, "context")

\* The same on a state that was used before.
LZ4_compress_fast_extState_fastReset(source, text, room) ==
    /\ OneShot
    /\ LET tableType == IF Len(text) < LZ4_64Klimit THEN "byU16" ELSE "byU32"
       IN  \E cx \in {LZ4_prepareTable(ctx, Len(text), tableType)} :
           Compress(cx, source, text, room, Limited(text, room), tableType,
                    "noDict", tableType = "byU16" /\ cx.currentOffset # 0, "context")

\* As much of the source as fits; the state is useless afterwards and reset.
LZ4_compress_destSize_extState(source, text, room) ==
    /\ OneShot
    /\ room > 0
    /\ Compress(LZ4_initStream, source, text, room,
                IF Limited(text, room) = "notLimited" THEN "notLimited" ELSE "fillOutput",
                IF Len(text) < LZ4_64Klimit THEN "byU16" ELSE "byU32",
                "noDict", FALSE, "initialised")

\* LZ4_resetStream_fast, also of a stream whose last call failed.
LZ4_resetStream_fast ==
    /\ Idle /\ use # "fresh"
    /\ ctx' = LZ4_prepareTable(ctx, 0, "byU32")
    /\ history' = <<>> /\ use' = "fresh"
    /\ UNCHANGED <<mem, dict, calls, call, pc, search, output, stray>>

\* The dictionary lies in its own memory.
LZ4_loadDict(text, slow) ==
    /\ Idle
    /\ Place(DictAt, text)
    /\ ctx' = LZ4_loadDict_internal(mem', DictAt, Len(text), slow)
    /\ history' = Reachable(text) /\ use' = "fresh"
    /\ UNCHANGED <<dict, calls, call, pc, search, output, stray>>

\* A stream that was reset takes the dictionary of another one.
LZ4_attachDictionary ==
    /\ Idle /\ use = "fresh" /\ ctx.dictSize = 0 /\ ~ctx.dictCtx
    /\ history = <<>>
    /\ ctx' = LZ4_attach_dictionary(ctx, dict)
    /\ history' = IF ctx'.dictCtx
                  THEN Bytes(dict.dictionary, dict.dictSize) ELSE <<>>
    /\ UNCHANGED <<mem, dict, use, calls, call, pc, search, output, stray>>

\* The caller keeps the bytes the stream refers to, except those its next
\* source overwrites from the front.
MayPlace(source, size) ==
    LET dictEnd == ctx.dictionary + ctx.dictSize
    IN  \/ source + size <= ctx.dictionary
        \/ source >= dictEnd
        \/ source + size < dictEnd

\* What is left of a dictionary that is too short to hash, or that the source
\* overwrites.
Trimmed(cx, source, size) ==
    LET end   == IF cx.dictSize > 0 THEN cx.dictionary + cx.dictSize ELSE NULL
        tiny  == cx.dictSize < 4 /\ end # source /\ size > 0 /\ ~cx.dictCtx
        whole == IF tiny THEN [cx EXCEPT !.dictSize = 0, !.dictionary = source] ELSE cx
        dictEnd == IF tiny THEN source ELSE end
        sourceEnd == source + size
        left == IF dictEnd - sourceEnd > KB64 THEN KB64
                ELSE IF dictEnd - sourceEnd < 4 THEN 0 ELSE dictEnd - sourceEnd
    IN  [cx |-> IF sourceEnd > whole.dictionary /\ sourceEnd < dictEnd
                THEN [whole EXCEPT !.dictSize = left, !.dictionary = dictEnd - left]
                ELSE whole,
         dictEnd |-> dictEnd]

LZ4_compress_fast_continue(source, text, room) ==
    /\ use \in {"fresh", "stream"}
    /\ MayPlace(source, Len(text))
    /\ use' = "stream" /\ UNCHANGED history
    /\ \E trimmed \in {Trimmed(LZ4_renormDictT(ctx, Len(text)), source, Len(text))} :
       LET cx    == trimmed.cx
           small == cx.dictSize < KB64 /\ cx.dictSize < cx.currentOffset
           Go(c, mode, issue, keeps) ==
             Compress(c, source, text, room, "limitedOutput", "byU32", mode, issue, keeps)
       IN  \/ /\ trimmed.dictEnd = source
              /\ Go(cx, "withPrefix64k", small, "context")
           \/ /\ trimmed.dictEnd # source /\ cx.dictCtx /\ Len(text) > KB4
              /\ Go(dict, "usingExtDict", FALSE, "source")
           \/ /\ trimmed.dictEnd # source /\ cx.dictCtx /\ Len(text) <= KB4
              /\ Go(cx, "usingDictCtx", FALSE, "source")
           \/ /\ trimmed.dictEnd # source /\ ~cx.dictCtx
              /\ Go(cx, "usingExtDict", small, "source")

\* The end of the dictionary moves to a buffer of the caller.
LZ4_saveDict(size) ==
    /\ Idle /\ use = "stream"
    /\ LET kept == Min({size, KB64, ctx.dictSize})
           saved == Bytes(ctx.dictionary + ctx.dictSize - kept, kept)
       IN  /\ Place(SaveAt, saved)
           /\ ctx' = [ctx EXCEPT !.dictionary = SaveAt, !.dictSize = kept]
    /\ UNCHANGED <<dict, use, history, calls, call, pc, search, output, stray>>

-----------------------------------------------------------------------------
(* The main loop                                                           *)

\* The candidate an entry stands for: its index in the current numbering, its
\* address, and the low end of the segment it lies in.
Candidate(matchIndex, h) ==
    LET inDict == maybe_extMem /\ matchIndex < call.startIndex
    IN  IF inDict /\ call.mode = "usingDictCtx"
        THEN [index |-> dict.hashTable[h] + call.dictDelta,
              at |-> call.dictBase + dict.hashTable[h], low |-> call.dictionary]
        ELSE IF inDict
             THEN [index |-> matchIndex, at |-> call.dictBase + matchIndex,
                   low |-> call.dictionary]
             ELSE [index |-> matchIndex, at |-> base + matchIndex,
                   low |-> IF maybe_extMem THEN call.source ELSE lowLimit]

\* Within the valid indexes and the reach of an offset.
InReachAlways(candidate, current) ==  \* mutant
    call.tableType # "byU16" => candidate.index + DISTANCE_MAX >= current
InReach(candidate, current) ==
    /\ call.small => candidate.index >= call.prefixIdxLimit
    /\ call.tableType # "byU16" => candidate.index + DISTANCE_MAX >= current

\* The four bytes of a candidate that is read lie in the dictionary or between
\* the prefix and the current position.
InSegment(candidate, at) ==
    IF maybe_extMem /\ candidate.low = call.dictionary
    THEN candidate.at >= call.dictionary /\ candidate.at + MINMATCH <= call.dictEnd
    ELSE candidate.at >= candidate.low /\ candidate.at < at

\* What the table offers a position, and whether it is a match of four bytes.
Lookup(table, at) ==
    LET h == LZ4_hashPosition(at, call.tableType)
        candidate == Candidate(table[h], h)
        reached == InReach(candidate, at - base)
    IN  [at |-> candidate.at, low |-> candidate.low,
         hit |-> reached /\ Same4(candidate.at, at),
         offset |-> at - base - candidate.index,
         stray |-> reached /\ ~InSegment(candidate, at)]

\* A position enters the table.
LZ4_putPosition(table, at) ==
    LZ4_putIndexOnHash(table, at - base, LZ4_hashPosition(at, call.tableType),
                       call.tableType)

Running(here) == pc = here /\ UNCHANGED <<stream, call>>

Search ==
    /\ Running("search")
    /\ ip' = forwardIp
    /\ forwardIp' = forwardIp + step
    /\ step' = searchMatchNb \div SkipUnit
    /\ searchMatchNb' = searchMatchNb + 1
    /\ IF forwardIp + step > mflimitPlusOne
       THEN pc' = "last" /\ UNCHANGED <<ctx, match, lowLimit, offset, filledIp, stray>>
       ELSE \E found \in {Lookup(ctx.hashTable, forwardIp)} :
              /\ ctx' = [ctx EXCEPT !.hashTable = LZ4_putPosition(@, forwardIp)]
              /\ stray' = (stray \/ found.stray)
              /\ match' = found.at /\ lowLimit' = found.low
              /\ offset' = IF found.hit /\ maybe_extMem THEN found.offset ELSE offset
              /\ filledIp' = IF found.hit THEN forwardIp ELSE filledIp
              /\ pc' = IF found.hit THEN "found" ELSE "search"
    /\ UNCHANGED output

\* The match is extended backwards, then its literals are encoded.
Backwards ==
    CHOOSE k \in 0..(ip - anchor) :
        /\ \A i \in 1..k : match - i >= lowLimit /\ mem[ip - i] = mem[match - i]
        /\ \/ k = ip - anchor \/ match - k = lowLimit
           \/ mem[ip - k - 1] # mem[match - k - 1]

EncodeLiterals ==
    /\ Running("found")
    /\ \E back \in {Backwards} :
       LET lit == ip - back - anchor
       IN  /\ ip' = ip - back /\ match' = match - back
           /\ IF call.directive = "limitedOutput" /\ LiteralsOverflow(op, lit, call.olimit)
              THEN pc' = "done" /\ result' = 0 /\ UNCHANGED <<token, op, top>>
              ELSE /\ token' = op
                   /\ IF call.directive = "fillOutput" /\ LiteralsFill(op, lit, call.olimit)
                      THEN pc' = "full" /\ UNCHANGED <<op, top>>
                      ELSE /\ op' = AfterLiterals(op, lit)
                           /\ top' = Higher(top, TopOfLiterals(op, lit))
                           /\ pc' = "match"
                   /\ UNCHANGED result
    /\ UNCHANGED <<ctx, forwardIp, step, searchMatchNb, lowLimit, offset, filledIp,
                   anchor, block, stray>>

\* The length of the match behind its first four bytes: one that starts in the
\* dictionary may go on at the start of the source.
MatchCodeUncapped ==  \* mutant
    LZ4_count(ip + MINMATCH, match + MINMATCH, matchlimit)
MatchCode ==
    LET inDict == maybe_extMem /\ lowLimit = call.dictionary
        limit  == Min({ip + (call.dictEnd - match), matchlimit})
        first  == LZ4_count(ip + MINMATCH, match + MINMATCH, limit)
    IN  IF ~inDict THEN LZ4_count(ip + MINMATCH, match + MINMATCH, matchlimit)
        ELSE IF ip + MINMATCH + first = limit
             THEN first + LZ4_count(limit, call.source, matchlimit)
             ELSE first

\* From label _next_match to the test for the end of the chunk.
EncodeMatch ==
    /\ Running("match")
    /\ \E matchCode \in {MatchCode} :
       LET oo   == op + 2
           full == call.directive # "notLimited" /\ MatchOverflow(oo, matchCode, call.olimit)
           code == IF full THEN ReducedMatchCode(oo, call.olimit) ELSE matchCode
           end  == ip + MINMATCH + code
           beyond == IF full /\ end <= filledIp THEN end..filledIp ELSE {}
       IN  CASE call.directive = "fillOutput" /\ OffsetFills(op, call.olimit) ->
                  /\ op' = token /\ pc' = "full"
                  /\ UNCHANGED <<ctx, ip, anchor, top, block, result>>
             [] full /\ call.directive = "limitedOutput" ->
                  /\ pc' = "done" /\ result' = 0
                  /\ UNCHANGED <<ctx, ip, anchor, op, top, block>>
             [] OTHER ->
                  /\ op' = AfterMatch(oo, code)
                  /\ top' = Higher(top, Higher(op', TopOfMatch(oo, code)))
                  /\ block' = Append(block,
                       [lit |-> Bytes(anchor, ip - anchor),
                        off |-> IF maybe_extMem THEN offset ELSE ip - match,
                        len |-> MINMATCH + code])
                  /\ ip' = end /\ anchor' = end
                  /\ ctx' = [ctx EXCEPT !.hashTable = LZ4_clearHash(@,
                              {LZ4_hashPosition(a, call.tableType) : a \in beyond})]
                  /\ pc' = IF end >= mflimitPlusOne THEN "last" ELSE "next"
                  /\ UNCHANGED result
    /\ UNCHANGED <<forwardIp, step, searchMatchNb, match, lowLimit, offset, filledIp,
                   token, stray>>

\* The position behind a match is tried at once, after one inside the match was
\* entered.
TestNextPosition ==
    /\ Running("next")
    /\ \E filled \in {LZ4_putPosition(ctx.hashTable, ip - 2)} :
       \E found \in {Lookup(filled, ip)} :
         /\ ctx' = [ctx EXCEPT !.hashTable = LZ4_putPosition(filled, ip)]
         /\ stray' = (stray \/ found.stray)
         /\ match' = found.at /\ lowLimit' = found.low
         /\ IF found.hit
            THEN /\ token' = op /\ op' = op + 1 /\ top' = Higher(top, op + 1)
                 /\ offset' = IF maybe_extMem THEN found.offset ELSE offset
                 /\ pc' = "match"
                 /\ UNCHANGED <<ip, forwardIp, step, searchMatchNb>>
            ELSE /\ ip' = ip + 1
                 /\ StartSearch(ip + 1)
                 /\ UNCHANGED <<token, op, top, offset>>
    /\ UNCHANGED <<filledIp, anchor, block, result>>

LastLiterals ==
    LET rest == iend - anchor
        full == call.directive # "notLimited" /\ LastOverflow(op, rest, call.olimit)
        lastRun == IF full THEN FilledLastRun(op, call.olimit) ELSE rest
    IN  /\ (Running("last") \/ Running("full"))
        /\ pc' = "done"
        /\ IF full /\ call.directive = "limitedOutput"
           THEN result' = 0 /\ UNCHANGED <<op, top, anchor, block>>
           ELSE /\ block' = Append(block, [lit |-> Bytes(anchor, lastRun), off |-> 0, len |-> 0])
                /\ anchor' = anchor + lastRun
                /\ op' = AfterLast(op, lastRun)
                /\ top' = Higher(top, op')
                /\ result' = op'
        /\ UNCHANGED <<ctx, search, token, stray>>

Consumed == Bytes(call.source, anchor - call.source)

\* Behind the loop: the source becomes the dictionary of the next block; the
\* decoder keeps the last 64 KB it produced.
Return ==
    /\ pc = "done" /\ pc' = "idle"
    /\ ctx' = CASE call.keeps = "source" ->
                     [ctx EXCEPT !.dictionary = call.source, !.dictSize = call.size]
                [] call.keeps = "initialised" -> LZ4_initStream
                [] OTHER -> ctx
    /\ use' = IF result = 0 THEN "other"
              ELSE IF call.keeps = "initialised" THEN "fresh" ELSE use
    /\ history' = IF use # "stream" \/ result = 0 THEN <<>>
                  ELSE Reachable(history \o Consumed)
    /\ ip' = call.source /\ forwardIp' = call.source /\ filledIp' = call.source
    /\ lowLimit' = call.source /\ step' = 1 /\ searchMatchNb' = 1
    /\ match' = NULL /\ offset' = 0 /\ block' = <<>>
    /\ UNCHANGED <<mem, dict, calls, call, anchor, token, op, top, result, stray>>

-----------------------------------------------------------------------------

Init ==
    /\ \E d \in DictTexts, slow \in BOOLEAN :
         /\ mem = [a \in 1..MemEnd |->
                     IF a \in DictAt..(DictAt + Len(d) - 1) THEN d[a - DictAt + 1] ELSE 0]
         /\ dict = LZ4_loadDict_internal(mem, DictAt, Len(d), slow)
    /\ ctx = LZ4_initStream
    /\ use = "fresh" /\ history = <<>> /\ calls = 0
    /\ call = CallOf(ctx, 1, 0, 0, "limitedOutput", "byU32", "noDict", FALSE, "context")
    /\ pc = "idle"
    /\ ip = 1 /\ forwardIp = 1 /\ step = 1 /\ searchMatchNb = 1 /\ match = NULL
    /\ lowLimit = 1 /\ offset = 0 /\ filledIp = 1
    /\ anchor = 1 /\ token = 0 /\ op = 0 /\ top = 0 /\ block = <<>> /\ result = 0
    /\ stray = FALSE

OneShotCall(text, room) ==
    \/ LZ4_compress_fast_extState(OneShotAt, text, room)
    \/ LZ4_compress_fast_extState_fastReset(OneShotAt, text, room)
    \/ LZ4_compress_destSize_extState(OneShotAt, text, room)

Next ==
    \/ \E text \in Texts, room \in Rooms :
         \/ OneShotCall(text, room)
         \/ \E source \in Slots : LZ4_compress_fast_continue(source, text, room)
    \/ LZ4_resetStream_fast
    \/ \E text \in DictTexts, slow \in BOOLEAN : LZ4_loadDict(text, slow)
    \/ LZ4_attachDictionary
    \/ \E size \in {0, 3, 6, KB64} : LZ4_saveDict(size)
    \/ Search \/ EncodeLiterals \/ EncodeMatch \/ TestNextPosition \/ LastLiterals
    \/ Return

Spec == Init /\ [][Next]_vars

-----------------------------------------------------------------------------

Typed ==
    /\ mem \in [1..MemEnd -> Nat]
    /\ ctx.hashTable \in [0..(Buckets - 1) -> Nat]
    /\ ctx.currentOffset \in Nat /\ ctx.dictSize \in Nat /\ ctx.dictCtx \in BOOLEAN
    /\ ctx.dictionary \in 0..MemEnd
    /\ use \in {"fresh", "stream", "other"}
    /\ pc \in {"idle", "search", "found", "match", "next", "last", "full", "done"}
    /\ Len(history) <= KB64

(* A block decodes to its source.  Whatever stale entries the context kept *)
(* from other streams, failed calls, dictionaries or before an index       *)
(* overflow, every sequence copies the right bytes from a place the decoder*)
(* still has and sixteen bits can name, as the assertions of the loop say; *)
(* and the block ends as the format's end of block rules say.              *)
RoundTrip ==
    pc = "done" /\ result > 0 =>
        /\ Decoded(block, history) = history \o Consumed
        /\ call.directive # "fillOutput" => Len(Consumed) = call.size
        /\ \A i \in DOMAIN block : block[i].off <= DISTANCE_MAX
        /\ EndsWithLiterals(block)

(* The search reads a candidate only where there is one: inside the        *)
(* dictionary, all four bytes, or between the prefix and the position.     *)
NoStrayRead == ~stray

(* The assertions of the loop: what the table holds lies behind the        *)
(* position that looks it up, also in the table of the next call; and the  *)
(* context keeps its type.                                                 *)
TableBehind ==
    /\ Typed
    /\ pc = "search" => \A h \in DOMAIN ctx.hashTable : ctx.hashTable[h] < forwardIp - base
    /\ pc = "idle" /\ use # "other" =>
         \A h \in DOMAIN ctx.hashTable :
            ctx.hashTable[h] = 0 \/ ctx.hashTable[h] < ctx.currentOffset

\* The place and the pending match as Lz4Emit sees them.
EmitAt ==
    CASE pc \in {"search", "found", "next", "last"} -> "seq"
      [] pc = "match" -> "match"
      [] pc = "full"  -> "last"
      [] OTHER        -> "done"

EmitIp == IF pc = "match" THEN ip - call.source ELSE 0

Emit == INSTANCE Lz4Emit WITH
    Sizes <- {Len(t) : t \in Texts}, Capacities <- Rooms, Lengths <- UNION {0..Len(t) : t \in Texts},
    n <- call.size, olimit <- call.olimit, directive <- call.directive,
    anchor <- anchor - call.source, ip <- EmitIp,
    token <- token, op <- op, top <- top, at <- EmitAt, result <- result

(* The output is what Lz4Emit allows: within the parsing restrictions and  *)
(* the output checks that module is proved about.                          *)
ImplementsEmit == Emit!Spec
=============================================================================

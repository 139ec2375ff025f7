-------------------------- MODULE Lz4FastProofs --------------------------
(***************************************************************************)
(* What TLAPS proves of Lz4Fast for every size of input, table, memory and *)
(* limit, in three parts: which positions a context's table may hold       *)
(* between two calls and during one, and that the search therefore never   *)
(* reads outside the bytes the call may refer to; that what it emits is    *)
(* what Lz4Emit allows; and that every block decodes to its source.        *)
(***************************************************************************)
EXTENDS Lz4Fast, SequenceTheorems, WellFoundedInduction, TLAPS

-----------------------------------------------------------------------------
(* The inductive invariant: what a context keeps between two calls         *)

Addresses == 1..MemEnd
HashValues == 0..(Buckets - 1)
Sources == Slots \union {OneShotAt}
InputSizes == {Len(text) : text \in Texts}

Contexts ==
    [hashTable : [HashValues -> Nat], currentOffset : Nat,
     tableType : {"cleared", "byU16", "byU32"}, dictionary : 0..MemEnd,
     dictSize : Nat, dictCtx : BOOLEAN]

\* An entry is free, or eight bytes behind it have an index of this stream.
Behind(cx) ==
    \A h \in HashValues :
       cx.hashTable[h] = 0 \/ cx.hashTable[h] + HASH_UNIT <= cx.currentOffset

\* Bytes a stream may refer to: where sources lie, or behind them.
InMemory(from, size) ==
    size > 0 => /\ from >= 1
                /\ \/ from + size <= DictAt
                   \/ from >= DictAt /\ from + size <= MemEnd + 1

Placed(cx) ==
    cx.dictSize <= cx.currentOffset /\ InMemory(cx.dictionary, cx.dictSize)

\* What LZ4_loadDict leaves: every entry has eight bytes of the dictionary.
Loaded(cx) ==
    /\ cx \in Contexts /\ cx.currentOffset = KB64 /\ ~cx.dictCtx
    /\ cx.dictSize <= KB64
    /\ cx.dictSize > 0 => cx.dictionary >= DictAt /\ cx.dictionary + cx.dictSize <= SaveAt
    /\ \A h \in HashValues :
          \/ cx.hashTable[h] = 0
          \/ /\ cx.hashTable[h] >= KB64 - cx.dictSize
             /\ cx.hashTable[h] + HASH_UNIT <= KB64

ContextOK ==
    /\ ctx \in Contexts /\ Behind(ctx)
    /\ ctx.dictCtx => ctx.dictSize = 0 /\ dict.dictSize > 0
    /\ use # "other" => Placed(ctx)

StreamOK ==
    /\ mem \in [Addresses -> Nat]
    /\ Loaded(dict)
    /\ use \in {"fresh", "stream", "other"}
    /\ history \in Seq(Nat) /\ Len(history) <= KB64
    /\ calls \in Nat

-----------------------------------------------------------------------------
(* The inductive invariant: a call in progress                             *)

CallOK ==
    /\ call.source \in Sources
    /\ call.size \in InputSizes /\ call.size > 0
    /\ call.source + call.size <= DictAt
    /\ call.olimit \in Rooms
    /\ call.directive \in {"notLimited", "limitedOutput", "fillOutput"}
    /\ call.tableType \in {"byU16", "byU32"}
    /\ call.mode \in {"noDict", "withPrefix64k", "usingExtDict", "usingDictCtx"}
    /\ call.small \in BOOLEAN /\ call.startIndex \in Nat
    /\ call.dictionary \in 0..MemEnd /\ call.dictEnd \in Nat
    /\ call.dictBase \in Int /\ call.dictDelta \in Int /\ call.prefixIdxLimit \in Int
    /\ call.keeps \in {"context", "source", "initialised"}
    /\ Emit!Fits(call.size, call.olimit, call.directive)

\* The four kinds of dictionary.
ModeOK ==
    /\ call.mode = "noDict" <=> use = "other"
    /\ call.mode # "noDict" => use = "stream" /\ call.tableType = "byU32"
                               /\ call.directive = "limitedOutput"
    /\ call.directive = "fillOutput" =>
          call.startIndex = 0 /\ (call.tableType = "byU16" => call.size < LZ4_64Klimit)
    /\ maybe_extMem <=> call.keeps = "source"
    /\ call.keeps = "initialised" => call.mode = "noDict"
    /\ maybe_extMem => /\ call.source # call.dictionary
                       /\ call.dictEnd >= call.dictionary
                       /\ InMemory(call.dictionary, call.dictEnd - call.dictionary)
    /\ call.mode = "usingExtDict" => call.dictBase = call.dictEnd - call.startIndex
    /\ call.mode = "usingDictCtx" =>
          /\ call.dictionary = dict.dictionary /\ call.dictEnd = dict.dictionary + dict.dictSize
          /\ call.dictBase = call.dictEnd - KB64 /\ call.dictDelta = call.startIndex - KB64
          /\ ~call.small
    \* a byU16 table of sixteen bits has no entry of an earlier block in reach
    /\ call.tableType = "byU16" =>
          call.startIndex = 0 \/ (call.small /\ call.prefixIdxLimit = call.startIndex)
    /\ ~maybe_extMem => 1 <= lowLimit /\ lowLimit <= call.source

\* An entry of an earlier block that a position of this one may follow.
FromBefore(e) ==
    /\ e < call.startIndex
    /\ call.small => e >= call.prefixIdxLimit
    /\ call.tableType # "byU16" => e + DISTANCE_MAX > call.startIndex

\* It lies in the segment the mode looks it up in; a search with an attached
\* stream takes the entry of that stream.
BeforeOK(e) ==
    CASE call.mode = "usingExtDict" ->
           /\ call.dictBase + e >= call.dictionary
           /\ call.dictBase + e + MINMATCH <= call.dictEnd
      [] call.mode = "usingDictCtx" -> TRUE
      [] OTHER -> base + e >= lowLimit

\* Entries of this block can be found again: LZ4_compress_destSize removes them.
EntryOK(h, e) ==
    /\ FromBefore(e) => BeforeOK(e)
    /\ call.directive = "fillOutput" /\ e > 0 =>
          LZ4_hashPosition(call.source + e, call.tableType) = h

EntriesOK ==
    /\ Behind(ctx)
    /\ \A h \in HashValues : EntryOK(h, ctx.hashTable[h])

\* The entries of this block lie before an address.
EnteredBefore(at) ==
    \A h \in HashValues : ctx.hashTable[h] < call.startIndex \/ ctx.hashTable[h] < at - base

EnteredUpTo(at) ==
    \A h \in HashValues : ctx.hashTable[h] < call.startIndex \/ ctx.hashTable[h] <= at - base

\* The bytes at match can be copied to ip, from the segment of lowLimit, up to
\* the four at an address.
InDict == maybe_extMem /\ lowLimit = call.dictionary
CanCopy(last) ==
    /\ \A i \in 0..(last - ip + MINMATCH - 1) : mem[ip + i] = mem[match + i]
    /\ IF InDict
       THEN match >= call.dictionary /\ match + (last - ip) + MINMATCH <= call.dictEnd
       ELSE /\ match >= lowLimit /\ match < ip
            /\ maybe_extMem => lowLimit = call.source

AtSearch ==
    pc = "search" =>
        /\ anchor <= ip /\ ip <= forwardIp
        /\ call.source < forwardIp /\ forwardIp <= mflimitPlusOne
        /\ step >= 1 /\ searchMatchNb >= SkipUnit
        /\ EnteredBefore(forwardIp)

AtFound ==
    pc = "found" =>
        /\ call.source < ip /\ anchor <= ip /\ ip < mflimitPlusOne
        /\ filledIp = ip /\ EnteredUpTo(ip) /\ CanCopy(ip)

AtMatch ==
    pc = "match" =>
        /\ anchor <= ip /\ ip < mflimitPlusOne /\ filledIp < mflimitPlusOne
        /\ \E last \in {ip, filledIp} :
              /\ ip <= last /\ call.source < last
              /\ EnteredUpTo(last) /\ CanCopy(last)

AtNext ==
    pc = "next" =>
        /\ ip = anchor /\ call.source + MINMATCH <= ip /\ ip < mflimitPlusOne
        /\ filledIp < mflimitPlusOne
        /\ EnteredBefore(ip)

PositionsOK ==
    /\ ip \in Nat /\ match \in Int /\ lowLimit \in Int /\ offset \in Int /\ filledIp \in Nat
    /\ anchor \in Nat /\ token \in Nat /\ op \in Nat /\ top \in Nat
    /\ call.source <= anchor /\ anchor <= iend
    /\ call.source <= filledIp
    /\ result \in Nat

SearchOK == AtSearch /\ AtFound /\ AtMatch /\ AtNext

\* A call that fills the output leaves room for the last literals.
FillOK ==
    call.directive = "fillOutput" =>
        /\ pc \in {"search", "found", "next", "last"} =>
              /\ anchor = call.source => op = 0
              /\ anchor > call.source => op + LASTLITERALS + 1 <= call.olimit
        /\ pc = "match" => token < op /\ op <= call.olimit
        /\ pc = "full" => op + 1 <= call.olimit

\* What the context becomes when the call is over.
Leaves ==
    /\ ctx \in Contexts /\ ~ctx.dictCtx
    /\ ctx.currentOffset = call.startIndex + call.size
    /\ call.keeps = "context" /\ use = "stream" => Placed(ctx)

Locations == {"idle", "search", "found", "match", "next", "last", "full", "done"}

InCall == CallOK /\ ModeOK /\ Leaves /\ EntriesOK /\ PositionsOK /\ SearchOK /\ FillOK

IInv ==
    /\ pc \in Locations /\ stray = FALSE /\ result \in Nat
    /\ forwardIp \in Nat /\ step \in Nat /\ searchMatchNb \in Nat
    /\ StreamOK
    /\ pc = "idle" => ContextOK
    /\ pc # "idle" => InCall

-----------------------------------------------------------------------------
(* Operators of the model *)

\* A set of numbers that is not empty has a least one.
LEMMA LeastOne ==
    ASSUME NEW S, S \subseteq Nat, S # {}
    PROVE  \E x \in S : \A y \in S : x <= y
<1>1. PICK x \in S : \A y \in S : <<y, x>> \notin OpToRel(<, Nat)
  BY WFMin, NatLessThanWellFounded, Zenon
<1>2. \A y \in S : ~(y < x)
  BY <1>1 DEF OpToRel
<1> QED
  BY <1>2

LEMMA MinOf ==
    ASSUME NEW S, S \subseteq Nat, S # {}
    PROVE  Min(S) \in S /\ \A y \in S : Min(S) <= y
BY LeastOne DEF Min

LEMMA MaxOf ==
    ASSUME NEW n \in Nat, NEW S, S \subseteq 0..n, S # {}
    PROVE  Max(S) \in S /\ \A y \in S : Max(S) >= y
<1> DEFINE T == {n - x : x \in S}
<1>1. T \subseteq Nat /\ T # {}
  <2>1. PICK x : x \in S
    OBVIOUS
  <2>2. n - x \in T
    BY <2>1
  <2> QED
    BY <2>2
<1>2. PICK t \in T : \A y \in T : t <= y
  BY <1>1, LeastOne
<1>3. PICK x \in S : t = n - x
  OBVIOUS
<1>4. \A y \in S : n - x <= n - y
  BY <1>2, <1>3
<1>5. \A y \in S : x >= y
  BY <1>4
<1> QED
  BY <1>5 DEF Max

LEMMA MaxTwo ==
    ASSUME NEW a \in Int, NEW b \in Int
    PROVE  Max({a, b}) = Higher(a, b)
<1>1. \E x \in {a, b} : \A y \in {a, b} : x >= y
  OBVIOUS
<1>2. Max({a, b}) \in {a, b} /\ \A y \in {a, b} : Max({a, b}) >= y
  BY <1>1 DEF Max
<1> QED
  BY <1>2 DEF Higher

LEMMA MinTwo ==
    ASSUME NEW a \in Int, NEW b \in Int
    PROVE  Min({a, b}) = IF a <= b THEN a ELSE b
<1>1. \E x \in {a, b} : \A y \in {a, b} : x <= y
  OBVIOUS
<1>2. Min({a, b}) \in {a, b} /\ \A y \in {a, b} : Min({a, b}) <= y
  BY <1>1 DEF Min
<1> QED
  BY <1>2

LEMMA MinThree ==
    ASSUME NEW a \in Nat, NEW b \in Nat, NEW c \in Nat
    PROVE  LET x == Min({a, b, c}) IN x \in Nat /\ x <= a /\ x <= b /\ x <= c /\ x \in {a, b, c}
<1>1. Min({a, b, c}) \in {a, b, c} /\ \A y \in {a, b, c} : Min({a, b, c}) <= y
  BY MinOf
<1> QED
  BY <1>1

LEMMA HashInRange ==
    ASSUME NEW m \in [Addresses -> Nat], NEW a \in Nat, a >= 1, a + 4 <= MemEnd, NEW tableType
    PROVE  HashIn(m, a, tableType) \in HashValues
<1>1. Buckets \in Nat \ {0} /\ MemEnd \in Nat
  BY FastAssumption
<1>2. /\ m[a] \in Nat /\ m[a + 1] \in Nat /\ m[a + 2] \in Nat /\ m[a + 3] \in Nat /\ m[a + 4] \in Nat
  BY <1>1 DEF Addresses
<1>3. PICK x \in Nat : HashIn(m, a, tableType) = x % Buckets
  BY <1>2 DEF HashIn
<1> QED
  BY <1>1, <1>3 DEF HashValues

\* LZ4_count stops at the first difference.
LEMMA CountIs ==
    ASSUME NEW in \in Int, NEW at \in Int, NEW limit \in Int, in <= limit
    PROVE  /\ LZ4_count(in, at, limit) \in Nat /\ in + LZ4_count(in, at, limit) <= limit
           /\ \A i \in 0..(LZ4_count(in, at, limit) - 1) : mem[in + i] = mem[at + i]
           /\ \/ in + LZ4_count(in, at, limit) = limit
              \/ mem[in + LZ4_count(in, at, limit)] # mem[at + LZ4_count(in, at, limit)]
<1> DEFINE max == limit - in
           S == {k \in 0..max : k = max \/ mem[in + k] # mem[at + k]}
<1>1. max \in Nat /\ max \in S /\ S \subseteq Nat
  OBVIOUS
<1>2. PICK k \in S : \A y \in S : k <= y
  <2> HIDE DEF S
  <2> QED
    BY <1>1, LeastOne
<1>3. \A i \in 0..(k - 1) : i \notin S
  BY <1>2
<1>4. /\ k \in 0..max
      /\ \A i \in 0..(k - 1) : mem[in + i] = mem[at + i]
      /\ k = max \/ mem[in + k] # mem[at + k]
  BY <1>2, <1>3
<1>5. LZ4_count(in, at, limit) =
        CHOOSE j \in 0..max : /\ \A i \in 0..(j - 1) : mem[in + i] = mem[at + i]
                              /\ j = max \/ mem[in + j] # mem[at + j]
  <2>1. max = IF limit > in THEN limit - in ELSE 0
    OBVIOUS
  <2> HIDE DEF max
  <2> QED
    BY <2>1 DEF LZ4_count
<1> DEFINE c == LZ4_count(in, at, limit)
<1>6. /\ c \in 0..max
      /\ \A i \in 0..(c - 1) : mem[in + i] = mem[at + i]
      /\ c = max \/ mem[in + c] # mem[at + c]
  BY <1>4, <1>5
<1> QED
  BY <1>6

\* A match is extended backwards while the bytes before it are equal.
LEMMA BackwardsIs ==
    ASSUME ip \in Int, anchor \in Int, match \in Int, lowLimit \in Int,
           anchor <= ip, lowLimit <= match
    PROVE  LET k == Backwards
           IN  /\ k \in Nat /\ anchor <= ip - k /\ lowLimit <= match - k
               /\ \A i \in 1..k : mem[ip - i] = mem[match - i]
<1> DEFINE max == ip - anchor
           Stop(k) == k = max \/ match - k = lowLimit \/ mem[ip - k - 1] # mem[match - k - 1]
           S == {k \in 0..max : Stop(k)}
<1>1. max \in Nat /\ max \in S /\ S \subseteq Nat
  OBVIOUS
<1>2. PICK k \in S : \A y \in S : k <= y
  <2> HIDE DEF S
  <2> QED
    BY <1>1, LeastOne
<1>3. k \in 0..max /\ Stop(k)
  BY <1>2
<1>4. ASSUME NEW i \in 1..k PROVE match - i >= lowLimit /\ mem[ip - i] = mem[match - i]
  <2>1. \A j \in 0..(k - 1) : ~Stop(j)
    BY <1>2
  <2>2. mem[ip - i] = mem[match - i]
    <3>1. i - 1 \in 0..(k - 1) /\ ip - (i - 1) - 1 = ip - i /\ match - (i - 1) - 1 = match - i
      BY <1>3
    <3>2. mem[ip - (i - 1) - 1] = mem[match - (i - 1) - 1]
      BY <2>1, <3>1
    <3> QED
      BY <3>1, <3>2
  <2>3. match - i >= lowLimit
    <3>1. SUFFICES ASSUME match - i < lowLimit PROVE FALSE
      OBVIOUS
    <3>2. match - lowLimit \in 0..(k - 1) /\ match - (match - lowLimit) = lowLimit
      BY <3>1, <1>3
    <3> QED
      BY <2>1, <3>2
  <2> QED
    BY <2>2, <2>3
<1> DEFINE b == Backwards
<1>5. /\ b \in 0..max
      /\ \A i \in 1..b : match - i >= lowLimit /\ mem[ip - i] = mem[match - i]
  BY <1>3, <1>4 DEF Backwards
<1>6. lowLimit <= match - b
  BY <1>5
<1> HIDE DEF b
<1> QED
  BY <1>5, <1>6 DEF b

-----------------------------------------------------------------------------
(* Operations on contexts *)

LEMMA Constants ==
    /\ KB64 \in Nat /\ KB64 > MFLIMIT /\ KB4 \in Nat \ {0} /\ GB1 \in Nat /\ GB2 \in Nat
    /\ Buckets \in Nat \ {0} /\ SkipUnit \in Nat \ {0} /\ MaxCalls \in Nat
    /\ DictAt \in Nat /\ SaveAt \in Nat /\ MemEnd \in Nat
    /\ DictAt <= SaveAt /\ SaveAt + KB64 <= MemEnd + 1 /\ SaveAt <= MemEnd
    /\ MFLIMIT = 12 /\ LASTLITERALS = 5 /\ MINMATCH = 4 /\ HASH_UNIT = 8
    /\ LZ4_minLength = 13 /\ NULL = 0 /\ DISTANCE_MAX = KB64 - 1
    /\ LZ4_64Klimit = KB64 + 11
  BY FastAssumption DEF MFLIMIT, LASTLITERALS, MINMATCH, HASH_UNIT, LZ4_minLength, NULL,
     DISTANCE_MAX, LZ4_64Klimit

LEMMA TextFits ==
    ASSUME NEW text \in Texts
    PROVE  /\ text \in Seq(Nat) /\ Len(text) \in Nat /\ Len(text) \in InputSizes
           /\ Len(text) + KB64 <= GB2
           /\ \A source \in Sources : source \in Nat /\ source >= 1 /\ source + Len(text) <= DictAt
                                      /\ source < DictAt
  BY FastAssumption DEF InputSizes, Sources

LEMMA InputSize ==
    ASSUME NEW size \in InputSizes
    PROVE  /\ size \in Nat /\ size + KB64 <= GB2
           /\ \A source \in Sources : source \in Nat /\ source >= 1 /\ source + size <= DictAt
                                      /\ source < DictAt
<1>1. PICK text \in Texts : size = Len(text)
  BY DEF InputSizes
<1> QED
  BY <1>1, TextFits

LEMMA ClearedIs == Cleared \in [HashValues -> Nat] /\ \A h \in HashValues : Cleared[h] = 0
  BY DEF Cleared, HashValues

LEMMA InitStreamIs ==
    /\ LZ4_initStream \in Contexts /\ Behind(LZ4_initStream) /\ Placed(LZ4_initStream)
    /\ LZ4_initStream.currentOffset = 0 /\ LZ4_initStream.dictSize = 0 /\ ~LZ4_initStream.dictCtx
    /\ \A h \in HashValues : LZ4_initStream.hashTable[h] = 0
  BY ClearedIs, Constants DEF LZ4_initStream, Contexts, Behind, Placed, InMemory

\* The entries of a loaded dictionary have eight bytes of it behind them.
LEMMA LoadedTableIs ==
    ASSUME NEW m \in [Addresses -> Nat], NEW p \in Nat, p >= 1, NEW size \in Nat, NEW slow \in BOOLEAN,
           size >= HASH_UNIT, size <= KB64, p + size <= MemEnd + 1
    PROVE  LET table == LoadedTable(m, p, size, slow)
           IN  /\ table \in [HashValues -> Nat]
               /\ \A h \in HashValues :
                     \/ table[h] = 0
                     \/ table[h] >= KB64 - size /\ table[h] + HASH_UNIT <= KB64
<1> DEFINE first == KB64 - size
           last  == size - HASH_UNIT
           H(i)  == HashIn(m, p + i, "byU32")
           thirds == {i \in 0..last : i % 3 = 0}
           Fits8(e) == e = 0 \/ (e >= KB64 - size /\ e + HASH_UNIT <= KB64)
           fast == [h \in HashValues |->
                      LET here == {i \in thirds : H(i) = h}
                      IN  IF here = {} THEN 0 ELSE first + Max(here)]
           more == [h \in HashValues |->
                      LET here == {i \in 0..last : H(i) = h /\ first + i > 0}
                      IN  IF fast[h] > 0 \/ here = {} THEN fast[h] ELSE first + Min(here)]
<1>0. first \in Nat /\ last \in Nat /\ first + last + HASH_UNIT = KB64
  BY Constants
<1>1. ASSUME NEW h \in HashValues PROVE fast[h] \in Nat /\ Fits8(fast[h])
  <2> DEFINE here == {i \in thirds : H(i) = h}
  <2>1. fast[h] = IF here = {} THEN 0 ELSE first + Max(here)
    OBVIOUS
  <2>2. CASE here = {}
    BY <2>1, <2>2
  <2>3. CASE here # {}
    <3>1. here \subseteq 0..last
      OBVIOUS
    <3> HIDE DEF here, last, first
    <3>2. Max(here) \in 0..last
      BY <1>0, <2>3, <3>1, MaxOf
    <3> HIDE DEF fast
    <3> QED
      BY <1>0, <2>1, <2>3, <3>2, Constants DEF first
  <2> QED
    BY <2>2, <2>3
<1>2. ASSUME NEW h \in HashValues PROVE more[h] \in Nat /\ Fits8(more[h])
  <2> DEFINE here == {i \in 0..last : H(i) = h /\ first + i > 0}
  <2>1. more[h] = IF fast[h] > 0 \/ here = {} THEN fast[h] ELSE first + Min(here)
    OBVIOUS
  <2> HIDE DEF fast, more
  <2>2. CASE fast[h] > 0 \/ here = {}
    BY <1>1, <2>1, <2>2
  <2>3. CASE ~(fast[h] > 0 \/ here = {})
    <3>1. here \subseteq 0..last /\ here # {} /\ here \subseteq Nat
      BY <2>3
    <3> HIDE DEF here, last, first
    <3>2. Min(here) \in 0..last
      BY <3>1, MinOf
    <3> QED
      BY <1>0, <2>1, <2>3, <3>2, Constants DEF first
  <2> QED
    BY <2>2, <2>3
<1>3. LoadedTable(m, p, size, slow) = IF slow THEN more ELSE fast
  BY DEF LoadedTable, HashValues
<1>4. fast \in [HashValues -> Nat] /\ more \in [HashValues -> Nat]
  BY <1>1, <1>2
<1> HIDE DEF fast, more
<1> QED
  BY <1>1, <1>2, <1>3, <1>4

LEMMA LoadIs ==
    ASSUME NEW m \in [Addresses -> Nat], NEW size \in Nat, NEW slow \in BOOLEAN, DictAt + size <= SaveAt,
           DictAt >= 1
    PROVE  /\ Loaded(LZ4_loadDict_internal(m, DictAt, size, slow))
           /\ Behind(LZ4_loadDict_internal(m, DictAt, size, slow))
           /\ Placed(LZ4_loadDict_internal(m, DictAt, size, slow))
<1> DEFINE empty == [LZ4_initStream EXCEPT !.currentOffset = KB64]
           kept  == IF size > KB64 THEN KB64 ELSE size
           p     == DictAt + size - kept
           full  == [empty EXCEPT !.dictionary = p, !.dictSize = kept, !.tableType = "byU32",
                                  !.hashTable = LoadedTable(m, p, kept, slow)]
<1>1. LZ4_loadDict_internal(m, DictAt, size, slow) = IF size < HASH_UNIT THEN empty ELSE full
  BY DEF LZ4_loadDict_internal
<1>2. /\ empty \in Contexts /\ empty.currentOffset = KB64 /\ ~empty.dictCtx
      /\ empty.dictSize = 0 /\ \A h \in HashValues : empty.hashTable[h] = 0
  BY InitStreamIs, Constants DEF Contexts
<1>3. Loaded(empty) /\ Behind(empty) /\ Placed(empty)
  BY <1>2, Constants DEF Loaded, Behind, Placed, InMemory
<1>4. CASE size < HASH_UNIT
  BY <1>1, <1>3, <1>4
<1>5. CASE size >= HASH_UNIT
  <2>1. /\ kept \in Nat /\ kept >= HASH_UNIT /\ kept <= KB64 /\ p \in Nat /\ p >= DictAt
        /\ p + kept <= SaveAt /\ p <= MemEnd /\ p + kept <= MemEnd + 1 /\ p >= 1
    BY <1>5, Constants
  <2> DEFINE table == LoadedTable(m, p, kept, slow)
  <2> HIDE DEF kept, p
  <2>2. /\ table \in [HashValues -> Nat]
        /\ \A h \in HashValues :
              \/ table[h] = 0
              \/ table[h] >= KB64 - kept /\ table[h] + HASH_UNIT <= KB64
    BY <2>1, LoadedTableIs
  <2>f. full = [empty EXCEPT !.dictionary = p, !.dictSize = kept, !.tableType = "byU32",
                             !.hashTable = table]
    OBVIOUS
  <2> HIDE DEF table, empty, full
  <2>3. /\ full \in Contexts /\ full.currentOffset = KB64 /\ ~full.dictCtx /\ full.hashTable = table
        /\ full.dictSize = kept /\ full.dictionary = p
    <3>1. empty \in Contexts /\ table \in [HashValues -> Nat] /\ p \in 0..MemEnd /\ kept \in Nat
          /\ empty.currentOffset = KB64 /\ ~empty.dictCtx
      BY <1>2, <2>1, <2>2, Constants
    <3>2. full \in Contexts
      BY <2>f, <3>1 DEF Contexts
    <3>3. full.hashTable = table /\ full.dictSize = kept /\ full.dictionary = p
      BY <2>f, <3>1 DEF Contexts
    <3>4. full.currentOffset = KB64 /\ ~full.dictCtx
      BY <2>f, <3>1 DEF Contexts
    <3> QED
      BY <3>2, <3>3, <3>4
  <2> HIDE DEF full
  <2>4. Loaded(full)
    BY <2>1, <2>2, <2>3 DEF Loaded
  <2>5. Behind(full) /\ Placed(full)
    BY <2>1, <2>2, <2>3, Constants DEF Behind, Placed, InMemory
  <2> QED
    BY <1>1, <1>5, <2>4, <2>5, Constants
<1> QED
  BY <1>4, <1>5, Constants


\* LZ4_prepareTable keeps no dictionary, and opens a gap of 64 KB behind the
\* entries of a byU32 table.
LEMMA PrepareIs ==
    ASSUME NEW cx \in Contexts, Behind(cx), NEW inputSize \in Nat, NEW tableType \in {"byU16", "byU32"}
    PROVE  LET new == LZ4_prepareTable(cx, inputSize, tableType)
           IN  /\ new \in Contexts /\ Behind(new) /\ new.dictSize = 0 /\ ~new.dictCtx
               /\ tableType = "byU32" =>
                     new.currentOffset = 0 \/ \A h \in HashValues : new.hashTable[h] + KB64 <= new.currentOffset
<1> DEFINE cleared == [cx EXCEPT !.hashTable = Cleared, !.currentOffset = 0, !.tableType = "cleared"]
           reset == /\ cx.tableType # "cleared"
                    /\ \/ cx.tableType # tableType
                       \/ tableType = "byU16" /\ cx.currentOffset + inputSize >= KB64 - 1
                       \/ tableType = "byU32" /\ cx.currentOffset > GB1
                       \/ inputSize >= KB4
           kept == IF reset THEN cleared ELSE cx
           gap == IF kept.currentOffset # 0 /\ tableType = "byU32" THEN KB64 ELSE 0
           new == [kept EXCEPT !.currentOffset = kept.currentOffset + gap, !.dictCtx = FALSE,
                               !.dictionary = NULL, !.dictSize = 0]
<1>1. cleared \in Contexts /\ Behind(cleared)
  <2>1. cleared \in Contexts /\ cleared.hashTable = Cleared
    BY ClearedIs DEF Contexts
  <2> QED
    BY <2>1, ClearedIs DEF Behind
<1> HIDE DEF cleared, reset
<1>2. kept \in Contexts /\ Behind(kept)
  BY <1>1
<1>3. LZ4_prepareTable(cx, inputSize, tableType) = new
  BY DEF LZ4_prepareTable, cleared, reset
<1> HIDE DEF kept
<1>4. gap \in Nat /\ kept.currentOffset \in Nat /\ kept.hashTable \in [HashValues -> Nat]
  BY <1>2, Constants DEF Contexts
<1>5. /\ new \in Contexts /\ new.currentOffset = kept.currentOffset + gap
      /\ new.hashTable = kept.hashTable
  <2> HIDE DEF gap
  <2>1. NULL \in 0..MemEnd /\ kept.currentOffset + gap \in Nat
    BY <1>4, Constants
  <2> QED
    BY <1>2, <2>1 DEF Contexts
<1>6. new.dictSize = 0 /\ ~new.dictCtx
  BY <1>2 DEF Contexts
<1> HIDE DEF new, gap
<1>7. Behind(new)
  BY <1>2, <1>4, <1>5, Constants DEF Behind
<1>8. ASSUME tableType = "byU32"
      PROVE  new.currentOffset = 0 \/ \A h \in HashValues : new.hashTable[h] + KB64 <= new.currentOffset
  <2>1. CASE kept.currentOffset = 0
    BY <1>4, <1>5, <2>1 DEF gap
  <2>2. CASE kept.currentOffset # 0
    <3>1. gap = KB64
      BY <1>8, <2>2 DEF gap
    <3> QED
      BY <1>2, <1>4, <1>5, <3>1, Constants DEF Behind
  <2> QED
    BY <2>1, <2>2
<1> QED
  BY <1>3, <1>5, <1>6, <1>7, <1>8

\* Renumbering keeps the last 64 KB of the dictionary, and its end.
LEMMA RenormIs ==
    ASSUME NEW cx \in Contexts, Behind(cx), Placed(cx), NEW nextSize \in InputSizes
    PROVE  LET new == LZ4_renormDictT(cx, nextSize)
           IN  /\ new \in Contexts /\ Behind(new) /\ Placed(new)
               /\ new.dictCtx = cx.dictCtx
               /\ new.dictSize <= cx.dictSize
               /\ new.dictSize = cx.dictSize \/ new.dictSize = KB64
               /\ new.dictionary + new.dictSize = cx.dictionary + cx.dictSize
<1> DEFINE delta == cx.currentOffset - KB64
           kept == IF cx.dictSize > KB64 THEN KB64 ELSE cx.dictSize
           table == [h \in HashValues |-> IF cx.hashTable[h] < delta THEN 0 ELSE cx.hashTable[h] - delta]
           moved == [cx EXCEPT !.hashTable = table, !.currentOffset = KB64,
                               !.dictionary = cx.dictionary + cx.dictSize - kept, !.dictSize = kept]
<1>0. /\ cx.currentOffset \in Nat /\ cx.dictSize \in Nat /\ cx.dictionary \in 0..MemEnd
      /\ cx.hashTable \in [HashValues -> Nat] /\ cx.dictCtx \in BOOLEAN
  BY DEF Contexts
<1>1. CASE cx.currentOffset + nextSize <= GB2
  <2>1. LZ4_renormDictT(cx, nextSize) = cx
    BY <1>1 DEF LZ4_renormDictT
  <2> QED
    BY <1>0, <2>1
<1>2. CASE cx.currentOffset + nextSize > GB2
  <2>1. delta \in Nat /\ delta = cx.currentOffset - KB64
    BY <1>0, <1>2, Constants, InputSize
  <2>2. /\ kept \in Nat /\ kept <= KB64 /\ kept <= cx.dictSize /\ (kept = cx.dictSize \/ kept = KB64)
        /\ cx.dictSize > 0 => kept > 0
    BY <1>0, Constants
  <2>3. LZ4_renormDictT(cx, nextSize) = moved
    <3>1. DOMAIN cx.hashTable = HashValues
      BY <1>0
    <3>2. ~(cx.currentOffset + nextSize <= GB2)
      BY <1>0, <1>2, Constants, InputSize
    <3> QED
      BY <3>1, <3>2 DEF LZ4_renormDictT
  <2> HIDE DEF delta, kept
  <2>4. table \in [HashValues -> Nat] /\ \A h \in HashValues : table[h] = 0 \/ table[h] + HASH_UNIT <= KB64
    BY <1>0, <2>1, Constants DEF Behind
  <2>5. cx.dictionary + cx.dictSize - kept \in 0..MemEnd
    BY <1>0, <2>2, Constants DEF Placed, InMemory
  <2> HIDE DEF table
  <2>6. /\ moved \in Contexts /\ moved.hashTable = table /\ moved.currentOffset = KB64
        /\ moved.dictSize = kept /\ moved.dictionary = cx.dictionary + cx.dictSize - kept
    BY <2>2, <2>4, <2>5, Constants DEF Contexts
  <2>7. moved.dictCtx = cx.dictCtx
    BY DEF Contexts
  <2> HIDE DEF moved
  <2>8. Behind(moved)
    BY <2>4, <2>6, Constants DEF Behind
  <2>9. Placed(moved)
    BY <1>0, <2>2, <2>6, Constants DEF Placed, InMemory
  <2> QED
    BY <1>0, <2>2, <2>3, <2>6, <2>7, <2>8, <2>9
<1> QED
  BY <1>0, <1>1, <1>2, Constants, InputSize


\* The source overwrites nothing of a dictionary, or only its front.
Apart(cx, source, size) ==
    \/ source + size <= cx.dictionary
    \/ source >= cx.dictionary + cx.dictSize
    \/ source + size < cx.dictionary + cx.dictSize

\* What Trimmed leaves of the dictionary is not overwritten; it ends where the
\* source starts, or it does not start there.
LEMMA TrimIs ==
    ASSUME NEW cx \in Contexts, Behind(cx), Placed(cx), NEW source \in Sources, NEW size \in InputSizes,
           cx.dictCtx => cx.dictSize = 0, Apart(cx, source, size)
    PROVE  LET t == Trimmed(cx, source, size)
           IN  /\ t.cx \in Contexts /\ Behind(t.cx) /\ Placed(t.cx)
               /\ t.cx.dictCtx = cx.dictCtx /\ t.cx.dictSize <= cx.dictSize
               /\ t.cx.dictSize > 0 =>
                     /\ t.cx.dictionary + t.cx.dictSize = cx.dictionary + cx.dictSize
                     /\ source + size <= t.cx.dictionary \/ source >= t.cx.dictionary + t.cx.dictSize
               /\ t.dictEnd = source =>
                     ~cx.dictCtx /\ t.cx.dictionary + t.cx.dictSize = source
               /\ t.dictEnd # source /\ size > 0 /\ ~cx.dictCtx =>
                     source # t.cx.dictionary /\ (t.cx.dictSize = 0 \/ t.cx.dictSize >= MINMATCH)
<1> DEFINE end == IF cx.dictSize > 0 THEN cx.dictionary + cx.dictSize ELSE NULL
           tiny == cx.dictSize < 4 /\ end # source /\ size > 0 /\ ~cx.dictCtx
           forgot == [cx EXCEPT !.dictSize = 0, !.dictionary = source]
           whole == IF tiny THEN forgot ELSE cx
           dictEnd == IF tiny THEN source ELSE end
           sourceEnd == source + size
           left == IF dictEnd - sourceEnd > KB64 THEN KB64
                   ELSE IF dictEnd - sourceEnd < 4 THEN 0 ELSE dictEnd - sourceEnd
           cut == [whole EXCEPT !.dictSize = left, !.dictionary = dictEnd - left]
           over == sourceEnd > whole.dictionary /\ sourceEnd < dictEnd
           t == Trimmed(cx, source, size)
<1>0. /\ cx.currentOffset \in Nat /\ cx.dictSize \in Nat /\ cx.dictionary \in 0..MemEnd
      /\ cx.hashTable \in [HashValues -> Nat] /\ cx.dictCtx \in BOOLEAN
      /\ source \in Nat /\ source >= 1 /\ size \in Nat /\ source + size <= DictAt /\ source < DictAt
      /\ cx.dictSize <= cx.currentOffset
  BY InputSize DEF Contexts, Placed
<1>1. t.cx = (IF over THEN cut ELSE whole) /\ t.dictEnd = dictEnd
  BY DEF Trimmed
<1>2. CASE tiny
  <2>1. t.cx = forgot /\ t.dictEnd = source
    BY <1>0, <1>1, <1>2, Constants DEF Contexts
  <2>2. forgot \in Contexts /\ forgot.hashTable = cx.hashTable /\ forgot.currentOffset = cx.currentOffset
    <3>1. source \in 0..MemEnd
      BY <1>0, Constants
    <3> QED
      BY <3>1 DEF Contexts
  <2>3. forgot.dictSize = 0 /\ forgot.dictionary = source /\ forgot.dictCtx = cx.dictCtx
    BY DEF Contexts
  <2> HIDE DEF forgot
  <2>4. Behind(forgot) /\ Placed(forgot)
    BY <1>0, <2>2, <2>3 DEF Behind, Placed, InMemory
  <2> QED
    BY <1>0, <1>2, <2>1, <2>2, <2>3, <2>4
<1>3. CASE ~tiny /\ ~over
  <2>1. t.cx = cx /\ t.dictEnd = end /\ whole = cx /\ dictEnd = end
    BY <1>1, <1>3
  <2>2. sourceEnd <= cx.dictionary \/ sourceEnd >= end
    BY <1>0, <1>3, <2>1, Constants
  <2>3. cx.dictSize > 0 => sourceEnd <= cx.dictionary \/ source >= end
    BY <1>0, <2>2 DEF Apart
  <2>4. end = source => ~cx.dictCtx /\ cx.dictionary + cx.dictSize = source
    BY <1>0, Constants
  <2>5. end # source /\ size > 0 /\ ~cx.dictCtx => source # cx.dictionary /\ cx.dictSize >= MINMATCH
    <3>1. SUFFICES ASSUME end # source, size > 0, ~cx.dictCtx
                   PROVE  source # cx.dictionary /\ cx.dictSize >= MINMATCH
      OBVIOUS
    <3>2. cx.dictSize >= 4
      BY <1>0, <1>3, <3>1
    <3> QED
      BY <1>0, <2>3, <3>1, <3>2, Constants
  <2> QED
    BY <1>0, <2>1, <2>3, <2>4, <2>5
<1>4. CASE ~tiny /\ over
  <2>1. whole = cx /\ dictEnd = end
    BY <1>4
  <2>2. t.cx = cut /\ t.dictEnd = end /\ sourceEnd > cx.dictionary /\ sourceEnd < end
    BY <1>1, <1>4, <2>1
  <2>3. cx.dictSize > 0 /\ end = cx.dictionary + cx.dictSize /\ end <= DictAt /\ end \in Nat
    BY <1>0, <2>2, Constants DEF Placed, InMemory
  <2>4. /\ left \in Nat /\ left <= end - sourceEnd /\ left <= cx.dictSize
        /\ end - left \in 0..MemEnd /\ end - left >= sourceEnd /\ (left > 0 => end - left >= 1)
    BY <1>0, <2>1, <2>2, <2>3, Constants
  <2>c. cut = [cx EXCEPT !.dictSize = left, !.dictionary = end - left]
    BY <2>1
  <2> HIDE DEF left
  <2>5. /\ cut \in Contexts /\ cut.hashTable = cx.hashTable /\ cut.currentOffset = cx.currentOffset
        /\ cut.dictSize = left /\ cut.dictionary = end - left
    BY <1>0, <2>4, <2>c DEF Contexts
  <2>6. cut.dictCtx = cx.dictCtx
    BY <2>c DEF Contexts
  <2> HIDE DEF cut
  <2>7. Behind(cut) /\ Placed(cut)
    BY <1>0, <2>3, <2>4, <2>5 DEF Behind, Placed, InMemory
  <2>8. end # source /\ (size > 0 => source # end - left)
    BY <1>0, <2>2, <2>3, <2>4
  <2>9. left = 0 \/ left >= MINMATCH
    BY <1>0, <2>1, <2>2, <2>3, Constants DEF left
  <2> QED
    BY <1>0, <2>2, <2>3, <2>4, <2>5, <2>6, <2>7, <2>8, <2>9
<1> QED
  BY <1>2, <1>3, <1>4

\* A position enters the table.
PutIndex(index, tableType) == IF tableType = "byU16" THEN index % KB64 ELSE index

LEMMA PutIs ==
    ASSUME NEW table \in [HashValues -> Nat], NEW index \in Nat, NEW h \in HashValues, NEW tableType
    PROVE  /\ LZ4_putIndexOnHash(table, index, h, tableType) \in [HashValues -> Nat]
           /\ LZ4_putIndexOnHash(table, index, h, tableType)[h] = PutIndex(index, tableType)
           /\ \A g \in HashValues : g # h => LZ4_putIndexOnHash(table, index, h, tableType)[g] = table[g]
           /\ PutIndex(index, tableType) \in Nat /\ PutIndex(index, tableType) <= index
           /\ index < KB64 => PutIndex(index, tableType) = index
<1>1. PutIndex(index, tableType) \in Nat /\ PutIndex(index, tableType) <= index
      /\ (index < KB64 => PutIndex(index, tableType) = index)
  BY Constants DEF PutIndex
<1>2. LZ4_putIndexOnHash(table, index, h, tableType) = [table EXCEPT ![h] = PutIndex(index, tableType)]
  BY DEF LZ4_putIndexOnHash, PutIndex
<1> QED
  BY <1>1, <1>2

LEMMA EnteredIs ==
    ASSUME NEW m \in [Addresses -> Nat], NEW cx \in Contexts, Behind(cx), NEW c,
           c.source \in Sources, c.size \in InputSizes, c.size > 0, c.startIndex = cx.currentOffset,
           c.tableType \in {"byU16", "byU32"}, c.mode = "usingDictCtx" \/ ~cx.dictCtx
    PROVE  LET new == Entered(m, cx, c)
           IN  /\ new \in Contexts /\ ~new.dictCtx /\ Behind(new)
               /\ new.currentOffset = c.startIndex + c.size
               /\ new.dictionary = cx.dictionary
               /\ c.mode # "usingDictCtx" => new.dictSize = cx.dictSize + c.size
               /\ \A h \in HashValues :
                     \/ new.hashTable[h] = cx.hashTable[h]
                     \/ /\ new.hashTable[h] = PutIndex(c.startIndex, c.tableType)
                        /\ h = HashIn(m, c.source, c.tableType)
               /\ c.size >= LZ4_minLength =>
                     new.hashTable[HashIn(m, c.source, c.tableType)] = PutIndex(c.startIndex, c.tableType)
<1> DEFINE moved == [cx EXCEPT
                       !.dictCtx = IF c.mode = "usingDictCtx" THEN FALSE ELSE cx.dictCtx,
                       !.dictSize = IF c.mode = "usingDictCtx" THEN c.size ELSE cx.dictSize + c.size,
                       !.currentOffset = cx.currentOffset + c.size,
                       !.tableType = c.tableType]
           h0 == HashIn(m, c.source, c.tableType)
           put == LZ4_putIndexOnHash(cx.hashTable, c.startIndex, h0, c.tableType)
           filled == [moved EXCEPT !.hashTable = put]
<1>0. /\ cx.currentOffset \in Nat /\ cx.dictSize \in Nat /\ cx.hashTable \in [HashValues -> Nat]
      /\ c.size \in Nat /\ c.source \in Nat /\ c.source >= 1 /\ c.source + c.size <= DictAt
  BY InputSize DEF Contexts
<1>1. moved \in Contexts /\ moved.hashTable = cx.hashTable
  <2> DEFINE dc == IF c.mode = "usingDictCtx" THEN FALSE ELSE cx.dictCtx
             ds == IF c.mode = "usingDictCtx" THEN c.size ELSE cx.dictSize + c.size
             co == cx.currentOffset + c.size
  <2>1. dc \in BOOLEAN
    BY DEF Contexts
  <2>2. ds \in Nat /\ co \in Nat
    BY <1>0
  <2> HIDE DEF dc, ds, co
  <2>3. [cx EXCEPT !.dictCtx = dc, !.dictSize = ds, !.currentOffset = co, !.tableType = c.tableType] \in Contexts
    BY <2>1, <2>2 DEF Contexts
  <2>4. [cx EXCEPT !.dictCtx = dc, !.dictSize = ds, !.currentOffset = co, !.tableType = c.tableType].hashTable = cx.hashTable
    BY DEF Contexts
  <2> QED
    BY <2>3, <2>4 DEF dc, ds, co
<1>2. moved.currentOffset = c.startIndex + c.size /\ moved.dictionary = cx.dictionary
  BY DEF Contexts
<1>3. c.mode # "usingDictCtx" => moved.dictSize = cx.dictSize + c.size
  BY DEF Contexts
<1>4. ~moved.dictCtx
  BY DEF Contexts
<1>5. Entered(m, cx, c) = IF c.size < LZ4_minLength THEN moved ELSE filled
  <2>1. moved.hashTable = cx.hashTable
    BY <1>1
  <2> QED
    BY <2>1 DEF Entered
<1> HIDE DEF moved
<1>6. CASE c.size < LZ4_minLength
  <2>1. Entered(m, cx, c) = moved
    BY <1>5, <1>6
  <2>2. Behind(moved)
    <3> SUFFICES ASSUME NEW h \in HashValues
                 PROVE  moved.hashTable[h] = 0 \/ moved.hashTable[h] + HASH_UNIT <= moved.currentOffset
      BY DEF Behind
    <3>1. cx.hashTable[h] \in Nat /\ (cx.hashTable[h] = 0 \/ cx.hashTable[h] + HASH_UNIT <= cx.currentOffset)
      BY <1>0 DEF Behind
    <3> QED
      BY <1>0, <1>1, <1>2, <3>1, Constants
  <2> QED
    BY <1>0, <1>1, <1>2, <1>3, <1>4, <1>6, <2>1, <2>2, Constants
<1>7. CASE c.size >= LZ4_minLength
  <2>1. h0 \in HashValues
    BY <1>0, <1>7, HashInRange, Constants
  <2> HIDE DEF h0
  <2>2. /\ put \in [HashValues -> Nat] /\ put[h0] = PutIndex(c.startIndex, c.tableType)
        /\ \A g \in HashValues : g # h0 => put[g] = cx.hashTable[g]
        /\ PutIndex(c.startIndex, c.tableType) \in Nat /\ PutIndex(c.startIndex, c.tableType) <= c.startIndex
    BY <1>0, <2>1, PutIs
  <2>3. Entered(m, cx, c) = filled
    BY <1>0, <1>5, <1>7, Constants
  <2> HIDE DEF put
  <2>4. filled \in Contexts /\ filled.hashTable = put
    BY <1>1, <2>2 DEF Contexts
  <2>5. filled.currentOffset = moved.currentOffset /\ filled.dictionary = moved.dictionary
        /\ filled.dictSize = moved.dictSize
    BY <1>1 DEF Contexts
  <2>6. ~filled.dictCtx
    BY <1>1, <1>4 DEF Contexts
  <2> HIDE DEF filled
  <2>7. \A h \in HashValues : \/ put[h] = cx.hashTable[h]
                              \/ put[h] = PutIndex(c.startIndex, c.tableType) /\ h = h0
    BY <2>2
  <2>8. Behind(filled)
    <3> SUFFICES ASSUME NEW h \in HashValues
                 PROVE  filled.hashTable[h] = 0 \/ filled.hashTable[h] + HASH_UNIT <= filled.currentOffset
      BY DEF Behind
    <3>1. cx.hashTable[h] \in Nat /\ (cx.hashTable[h] = 0 \/ cx.hashTable[h] + HASH_UNIT <= cx.currentOffset)
      BY <1>0 DEF Behind
    <3> QED
      BY <1>0, <1>2, <1>7, <2>2, <2>4, <2>5, <2>7, <3>1, Constants
  <2> QED
    BY <1>2, <1>3, <2>2, <2>3, <2>4, <2>5, <2>6, <2>7, <2>8 DEF h0
<1> QED
  BY <1>0, <1>6, <1>7, Constants

-----------------------------------------------------------------------------
(* A call begins *)

\* Its own first position is never taken for an entry from before.
LEMMA EnterKeeps ==
    ASSUME NEW cx \in Contexts, Behind(cx), NEW c, Enter(cx, c), mem' \in [Addresses -> Nat],
           CallOK', ModeOK', c.startIndex = cx.currentOffset, c.mode = "usingDictCtx" \/ ~cx.dictCtx,
           c.keeps = "context" /\ use' = "stream" =>
              c.mode # "usingDictCtx" /\ Placed(cx) /\ cx.dictionary + cx.dictSize = c.source,
           \A h \in HashValues : FromBefore(cx.hashTable[h])' => BeforeOK(cx.hashTable[h])'
    PROVE  InCall' /\ pc' \in Locations /\ stray' = FALSE /\ result' = 0
<1>0. /\ call' = c /\ c.source \in Sources /\ c.size \in InputSizes /\ c.size > 0
      /\ c.startIndex \in Nat /\ c.tableType \in {"byU16", "byU32"}
      /\ c.size \in Nat /\ c.source \in Nat /\ c.source >= 1 /\ c.source + c.size <= DictAt
      /\ cx.hashTable \in [HashValues -> Nat] /\ cx.dictSize \in Nat /\ cx.dictionary \in Nat
  BY InputSize, Constants, SMTT(30) DEF Enter, CallOK, Contexts
<1>1. /\ ctx' \in Contexts /\ ~ctx'.dictCtx /\ Behind(ctx)'
      /\ ctx'.currentOffset = c.startIndex + c.size
      /\ ctx'.dictionary = cx.dictionary
      /\ c.mode # "usingDictCtx" => ctx'.dictSize = cx.dictSize + c.size
      /\ \A h \in HashValues : \/ ctx'.hashTable[h] = cx.hashTable[h]
                               \/ ctx'.hashTable[h] = PutIndex(c.startIndex, c.tableType)
  <2>1. ctx' = Entered(mem', cx, c)
    BY DEF Enter
  <2>2. Behind(Entered(mem', cx, c)) => Behind(ctx)'
    BY <2>1 DEF Behind
  <2> QED
    BY <1>0, <2>1, <2>2, EnteredIs
<1>2. ctx'.hashTable \in [HashValues -> Nat]
  BY <1>1 DEF Contexts
<1>3. Leaves'
  <2>1. ASSUME c.keeps = "context" /\ use' = "stream" PROVE Placed(ctx)'
    <3>1. /\ c.mode # "usingDictCtx" /\ cx.dictionary + cx.dictSize = c.source
          /\ cx.dictSize <= cx.currentOffset /\ InMemory(cx.dictionary, cx.dictSize)
      BY <2>1 DEF Placed
    <3>2. ctx'.dictSize <= ctx'.currentOffset
      BY <1>0, <1>1, <3>1
    <3>3. cx.dictionary >= 1
      BY <1>0, <3>1 DEF InMemory
    <3>4. ctx'.dictionary + ctx'.dictSize <= DictAt
      BY <1>0, <1>1, <3>1
    <3>5. InMemory(ctx'.dictionary, ctx'.dictSize)
      BY <1>1, <3>3, <3>4 DEF InMemory
    <3> QED
      BY <3>2, <3>5 DEF Placed, InMemory
  <2> QED
    BY <1>0, <1>1, <2>1 DEF Leaves
<1>4. PutIndex(c.startIndex, c.tableType) \in Nat /\ PutIndex(c.startIndex, c.tableType) <= c.startIndex
      /\ (c.tableType # "byU16" => PutIndex(c.startIndex, c.tableType) = c.startIndex)
  BY <1>0, Constants DEF PutIndex
<1>5. EntriesOK'
  <2>1. ASSUME NEW h \in HashValues, NEW e, e = ctx'.hashTable[h]
        PROVE  /\ FromBefore(e)' => BeforeOK(e)'
               /\ call'.directive = "fillOutput" => e = 0
    <3>1. cx.hashTable[h] \in Nat /\ (cx.hashTable[h] = 0 \/ cx.hashTable[h] + HASH_UNIT <= cx.currentOffset)
      BY <1>0 DEF Behind
    <3>2. CASE ctx'.hashTable[h] = cx.hashTable[h]
      <4>1. FromBefore(e)' => BeforeOK(e)'
        BY <2>1, <3>2 DEF FromBefore, BeforeOK
      <4>2. call'.directive = "fillOutput" => cx.currentOffset = 0
        BY <1>0 DEF ModeOK
      <4> QED
        BY <2>1, <3>1, <3>2, <4>1, <4>2, Constants
    <3>3. CASE ctx'.hashTable[h] = PutIndex(c.startIndex, c.tableType)
      <4>1. ~FromBefore(e)'
        <5>1. c.tableType = "byU16" => c.startIndex = 0 \/ (c.small /\ c.prefixIdxLimit = c.startIndex)
          BY <1>0 DEF ModeOK
        <5> QED
          BY <1>0, <1>4, <2>1, <3>3, <5>1 DEF FromBefore
      <4>2. call'.directive = "fillOutput" => c.startIndex = 0
        BY <1>0 DEF ModeOK
      <4> QED
        BY <1>4, <2>1, <3>3, <4>1, <4>2
    <3> QED
      BY <1>1, <3>2, <3>3
  <2>2. ASSUME NEW h \in HashValues, NEW e, e = ctx'.hashTable[h]
        PROVE  EntryOK(h, e)'
    <3>1. (FromBefore(e)' => BeforeOK(e)') /\ (call'.directive = "fillOutput" => e = 0)
      BY <2>1, <2>2
    <3> QED
      BY <3>1 DEF EntryOK, FromBefore, BeforeOK
  <2> QED
    BY <1>1, <2>2 DEF EntriesOK, EntryOK, FromBefore, BeforeOK
<1>6. /\ ip' = c.source /\ anchor' = c.source /\ token' = 0 /\ op' = 0 /\ top' = 0 /\ result' = 0
      /\ match' = 0 /\ offset' = 0 /\ filledIp' = c.source /\ stray' = FALSE /\ result' = 0
  BY Constants DEF Enter
<1>7. lowLimit' \in Int
  BY <1>0 DEF Enter
<1>8. PositionsOK'
  <2>1. iend' = c.source + c.size
    BY <1>0 DEF iend
  <2> QED
    BY <1>0, <1>6, <1>7, <2>1 DEF PositionsOK
<1>f. FillOK'
  <2>1. pc' \in {"search", "last"} /\ anchor' = call'.source /\ op' = 0
    BY <1>0, <1>6 DEF Enter, StartSearch
  <2> QED
    BY <1>0, <1>6, <2>1 DEF FillOK
<1>9. CASE c.size < LZ4_minLength
  <2>1. pc' = "last"
    BY <1>9 DEF Enter
  <2> QED
    BY <1>0, <1>3, <1>5, <1>6, <1>8, <1>f, <2>1 DEF InCall, SearchOK, AtSearch, AtFound, AtMatch, AtNext, Locations
<1>10. CASE c.size >= LZ4_minLength
  <2>1. pc' = "search" /\ forwardIp' = c.source + 1 /\ step' = 1 /\ searchMatchNb' = SkipUnit
    BY <1>0, <1>10, Constants DEF Enter, StartSearch
  <2>2. mflimitPlusOne' = c.source + c.size - 11 /\ base' = c.source - c.startIndex
    BY <1>0, Constants DEF mflimitPlusOne, iend, base
  <2>3. EnteredBefore(c.source + 1)'
    <3>1. ASSUME NEW h \in HashValues
          PROVE  ctx'.hashTable[h] < c.startIndex + 1
      BY <1>0, <1>1, <1>4, Constants DEF Behind
    <3> QED
      BY <1>0, <2>2, <3>1 DEF EnteredBefore
  <2>4. AtSearch'
    BY <1>0, <1>6, <1>10, <2>1, <2>2, <2>3, Constants DEF AtSearch, EnteredBefore
  <2> QED
    BY <1>0, <1>3, <1>5, <1>6, <1>8, <1>f, <2>1, <2>4 DEF InCall, SearchOK, AtFound, AtMatch, AtNext, Locations
<1>11. c.size < LZ4_minLength \/ c.size >= LZ4_minLength
  BY <1>0, Constants
<1> QED
  BY <1>9, <1>10, <1>11

LEMMA PlaceIs ==
    ASSUME mem \in [Addresses -> Nat], NEW source \in Nat, source >= 1, NEW text \in Seq(Nat),
           source + Len(text) <= MemEnd + 1, Place(source, text)
    PROVE  /\ mem' \in [Addresses -> Nat]
           /\ \A a \in Addresses : a < source \/ a >= source + Len(text) => mem'[a] = mem[a]
           /\ \A i \in 1..Len(text) : mem'[source + i - 1] = text[i]
<1>1. DOMAIN mem = Addresses /\ MemEnd \in Nat /\ Len(text) \in Nat /\ DOMAIN text = 1..Len(text)
  BY Constants
<1>2. mem' = [a \in Addresses |-> IF a \in source..(source + Len(text) - 1)
                                  THEN text[a - source + 1] ELSE mem[a]]
  BY <1>1 DEF Place
<1>3. \A a \in source..(source + Len(text) - 1) : a - source + 1 \in 1..Len(text) /\ a \in Addresses
  BY <1>1 DEF Addresses
<1>4. \A a \in Addresses : mem'[a] \in Nat
  BY <1>1, <1>2, <1>3
<1>5. mem' \in [Addresses -> Nat]
  <2>1. DOMAIN mem' = Addresses /\ mem' = [a \in Addresses |-> mem'[a]]
    BY <1>2
  <2> HIDE <1>2
  <2> QED
    BY <1>4, <2>1
<1>6. ASSUME NEW a \in Addresses, a < source \/ a >= source + Len(text) PROVE mem'[a] = mem[a]
  <2>1. a \notin source..(source + Len(text) - 1)
    BY <1>1, <1>6 DEF Addresses
  <2> QED
    BY <1>2, <2>1
<1>7. ASSUME NEW i \in 1..Len(text) PROVE mem'[source + i - 1] = text[i]
  <2>1. source + i - 1 \in source..(source + Len(text) - 1) /\ source + i - 1 \in Addresses
        /\ (source + i - 1) - source + 1 = i
    BY <1>1 DEF Addresses
  <2> QED
    BY <1>2, <2>1
<1> QED
  BY <1>5, <1>6, <1>7

\* What CallOf fixes.
LEMMA CallOfIs ==
    ASSUME NEW cx \in Contexts, NEW d \in Contexts, NEW mode, d = (IF mode = "usingDictCtx" THEN dict ELSE cx),
           NEW source, NEW size, NEW room, NEW directive, NEW tableType, NEW small, NEW keeps
    PROVE  LET c == CallOf(cx, source, size, room, directive, tableType, mode, small, keeps)
           IN  /\ c.source = source /\ c.size = size /\ c.olimit = room /\ c.directive = directive
               /\ c.tableType = tableType /\ c.mode = mode /\ c.small = small /\ c.keeps = keeps
               /\ c.startIndex = cx.currentOffset /\ c.startIndex \in Nat
               /\ c.dictionary = d.dictionary /\ c.dictEnd = d.dictionary + d.dictSize
               /\ c.dictionary \in 0..MemEnd /\ c.dictEnd \in Nat
               /\ c.dictBase = d.dictionary + d.dictSize - d.currentOffset
               /\ c.dictBase \in Int /\ c.dictDelta \in Int
               /\ c.dictDelta = (IF mode = "usingDictCtx" THEN cx.currentOffset - d.currentOffset ELSE 0)
               /\ c.prefixIdxLimit = cx.currentOffset - d.dictSize /\ c.prefixIdxLimit \in Int
<1>1. /\ cx.currentOffset \in Nat /\ d.currentOffset \in Nat /\ d.dictSize \in Nat /\ d.dictionary \in 0..MemEnd
      /\ d.dictionary \in Nat
  BY Constants DEF Contexts
<1>2. d.currentOffset = IF mode = "usingDictCtx" THEN dict.currentOffset ELSE cx.currentOffset
  OBVIOUS
<1> DEFINE c == CallOf(cx, source, size, room, directive, tableType, mode, small, keeps)
<1>3. c = [source |-> source, size |-> size, olimit |-> room, directive |-> directive,
           tableType |-> tableType, mode |-> mode, small |-> small,
           startIndex |-> cx.currentOffset,
           dictionary |-> d.dictionary, dictEnd |-> d.dictionary + d.dictSize,
           dictBase |-> d.dictionary + d.dictSize - d.currentOffset,
           dictDelta |-> IF mode = "usingDictCtx" THEN cx.currentOffset - dict.currentOffset ELSE 0,
           prefixIdxLimit |-> cx.currentOffset - d.dictSize,
           keeps |-> keeps]
  BY <1>2, Zenon DEF CallOf
<1> HIDE DEF c
<1>4. /\ c.source = source /\ c.size = size /\ c.olimit = room /\ c.directive = directive
      /\ c.tableType = tableType /\ c.mode = mode /\ c.keeps = keeps
      /\ c.startIndex = cx.currentOffset /\ c.dictionary = d.dictionary
      /\ c.dictEnd = d.dictionary + d.dictSize
      /\ c.dictBase = d.dictionary + d.dictSize - d.currentOffset
      /\ c.dictDelta = (IF mode = "usingDictCtx" THEN cx.currentOffset - dict.currentOffset ELSE 0)
      /\ c.prefixIdxLimit = cx.currentOffset - d.dictSize
  BY <1>3
<1>5. c.small = small
  BY <1>3, Zenon
<1>6. c.dictDelta = (IF mode = "usingDictCtx" THEN cx.currentOffset - d.currentOffset ELSE 0)
  BY <1>4
<1>7. c.dictEnd \in Nat /\ c.dictBase \in Int /\ c.dictDelta \in Int /\ c.prefixIdxLimit \in Int
  BY <1>1, <1>4, <1>6
<1> QED
  BY <1>1, <1>4, <1>5, <1>6, <1>7 DEF c

LEMMA Layout ==
    /\ DictAt >= 1 /\ OneShotAt \in Sources /\ OneShotAt \in Nat /\ OneShotAt >= 1
    /\ Slots \subseteq Sources
    /\ \A size \in InputSizes : OneShotAt + size <= DictAt
    /\ DictAt <= MemEnd /\ SaveAt >= 1
<1>1. OneShotAt \in Sources /\ Slots \subseteq Sources
  BY DEF Sources
<1>2. OneShotAt \in Nat \ {0} /\ OneShotAt < DictAt
  BY FastAssumption
<1> QED
  BY <1>1, <1>2, InputSize, Constants

\* Nothing but the memory, the numbers of the search and the last call is left
\* of an idle state.
LEMMA OneShotKeeps ==
    ASSUME IInv, NEW text \in Texts, NEW room \in Rooms, NEW cx \in Contexts, Behind(cx),
           cx.dictSize = 0, ~cx.dictCtx, NEW directive, NEW tableType \in {"byU16", "byU32"},
           NEW small \in BOOLEAN, NEW keeps \in {"context", "initialised"}, OneShot,
           Compress(cx, OneShotAt, text, room, directive, tableType, "noDict", small, keeps),
           directive \in {"notLimited", "limitedOutput", "fillOutput"},
           Emit!Fits(Len(text), room, directive),
           directive = "fillOutput" =>
              cx.currentOffset = 0 /\ (tableType = "byU16" => Len(text) < LZ4_64Klimit),
           tableType = "byU16" => cx.currentOffset = 0 \/ small,
           tableType = "byU32" =>
              cx.currentOffset = 0 \/ \A h \in HashValues : cx.hashTable[h] + KB64 <= cx.currentOffset
    PROVE  IInv'
<1>1. /\ mem \in [Addresses -> Nat] /\ calls \in Nat /\ Loaded(dict)
      /\ forwardIp \in Nat /\ step \in Nat /\ searchMatchNb \in Nat /\ stray = FALSE /\ result \in Nat
  BY DEF IInv, StreamOK
<1>2. pc = "idle" /\ calls' = calls + 1 /\ Place(OneShotAt, text) /\ dict' = dict
      /\ history' = <<>> /\ use' = "other"
  BY DEF Compress, Idle, OneShot
<1>3. /\ text \in Seq(Nat) /\ Len(text) \in Nat /\ Len(text) \in InputSizes
      /\ OneShotAt + Len(text) <= DictAt
  BY TextFits, Layout
<1>4. mem' \in [Addresses -> Nat]
  BY <1>1, <1>2, <1>3, PlaceIs, Layout, Constants
<1>5. StreamOK'
  <2>1. Loaded(dict)'
    BY <1>1, <1>2 DEF Loaded
  <2> QED
    BY <1>1, <1>2, <1>4, <2>1, Constants DEF StreamOK
<1>6. CASE text = <<>>
  <2>1. ctx' = cx /\ UNCHANGED <<pc, call, search, output, stray>>
    BY <1>6 DEF Compress
  <2>2. ContextOK'
    BY <1>2, <2>1 DEF ContextOK, Behind
  <2> QED
    BY <1>1, <1>2, <1>5, <2>1, <2>2 DEF IInv, search, output, Locations
<1>7. CASE text # <<>>
  <2> DEFINE c == CallOf(cx, OneShotAt, Len(text), room, directive, tableType, "noDict", small, keeps)
  <2>1. Enter(cx, c)
    BY <1>7 DEF Compress
  <2>2. Len(text) > 0
    BY <1>3, <1>7
  <2>3. /\ c.source = OneShotAt /\ c.size = Len(text) /\ c.olimit = room /\ c.directive = directive
        /\ c.tableType = tableType /\ c.mode = "noDict" /\ c.small = small /\ c.keeps = keeps
        /\ c.startIndex = cx.currentOffset /\ c.startIndex \in Nat
        /\ c.dictionary \in 0..MemEnd /\ c.dictEnd \in Nat
        /\ c.dictBase \in Int /\ c.dictDelta \in Int
        /\ c.prefixIdxLimit = cx.currentOffset /\ c.prefixIdxLimit \in Int
    <3>1. cx.currentOffset \in Nat
      BY DEF Contexts
    <3> QED
      BY <3>1, CallOfIs
  <2> HIDE DEF c
  <2>4. call' = c /\ lowLimit' = OneShotAt
    BY <2>1, <2>3, Layout DEF Enter
  <2>5. CallOK'
    BY <1>3, <2>2, <2>3, <2>4, Layout DEF CallOK
  <2>6. ModeOK'
    BY <1>2, <2>3, <2>4, Layout DEF ModeOK, maybe_extMem
  <2>7. \A h \in HashValues : ~FromBefore(cx.hashTable[h])'
    <3> SUFFICES ASSUME NEW h \in HashValues, FromBefore(cx.hashTable[h])' PROVE FALSE
      OBVIOUS
    <3>1. cx.hashTable[h] \in Nat /\ cx.hashTable[h] < c.startIndex
          /\ (tableType # "byU16" => cx.hashTable[h] + DISTANCE_MAX > c.startIndex)
          /\ (small => cx.hashTable[h] >= c.prefixIdxLimit)
      BY <2>3, <2>4 DEF FromBefore, Contexts
    <3> QED
      BY <2>3, <3>1, Constants
  <2>8. InCall' /\ pc' \in Locations /\ stray' = FALSE /\ result' = 0
    BY <1>2, <1>3, <1>4, <2>1, <2>2, <2>3, <2>5, <2>6, <2>7, Layout, EnterKeeps
  <2>9. forwardIp' \in Nat /\ step' \in Nat /\ searchMatchNb' \in Nat /\ pc' # "idle"
    BY <1>1, <2>1, <2>3, Layout, Constants, SMTT(30) DEF Enter, StartSearch
  <2> QED
    BY <1>5, <2>8, <2>9 DEF IInv
<1> QED
  BY <1>6, <1>7

LEMMA LimitedFits ==
    ASSUME NEW text \in Texts, NEW room \in Rooms
    PROVE  /\ Limited(text, room) \in {"notLimited", "limitedOutput"}
           /\ Emit!Fits(Len(text), room, Limited(text, room))
           /\ Limited(text, room) # "fillOutput"
           /\ room > 0 => Emit!Fits(Len(text), room, "fillOutput")
<1>1. room \in Nat /\ Len(text) \in Nat
  BY FastAssumption, TextFits
<1>2. Limited(text, room) = IF room >= LZ4_compressBound(Len(text)) THEN "notLimited" ELSE "limitedOutput"
  BY DEF Limited
<1>3. CASE room >= LZ4_compressBound(Len(text))
  <2>1. Limited(text, room) = "notLimited"
    BY <1>2, <1>3
  <2> QED
    BY <1>1, <1>3, <2>1, SMT DEF Emit!Fits, LZ4_compressBound, Emit!LZ4_compressBound
<1>4. CASE ~(room >= LZ4_compressBound(Len(text)))
  <2>1. Limited(text, room) = "limitedOutput"
    BY <1>2, <1>4
  <2> QED
    BY <1>1, <2>1 DEF Emit!Fits
<1> QED
  BY <1>3, <1>4

LEMMA ExtStateKeeps ==
    ASSUME IInv, NEW text \in Texts, NEW room \in Rooms,
           LZ4_compress_fast_extState(OneShotAt, text, room)
    PROVE  IInv'
<1> DEFINE tableType == IF Len(text) < LZ4_64Klimit THEN "byU16" ELSE "byU32"
<1>1. OneShot /\ Compress(LZ4_initStream, OneShotAt, text, room, Limited(text, room), tableType,
                          "noDict", FALSE, "context")
  BY DEF LZ4_compress_fast_extState
<1>2. tableType \in {"byU16", "byU32"}
  OBVIOUS
<1> DEFINE cx == LZ4_initStream
           directive == Limited(text, room)
<1>3. /\ cx \in Contexts /\ Behind(cx) /\ cx.dictSize = 0 /\ ~cx.dictCtx /\ cx.currentOffset = 0
  BY InitStreamIs
<1>4. /\ directive \in {"notLimited", "limitedOutput", "fillOutput"} /\ directive # "fillOutput"
      /\ Emit!Fits(Len(text), room, directive)
  BY LimitedFits
<1>5. FALSE \in BOOLEAN /\ "context" \in {"context", "initialised"}
  OBVIOUS
<1> HIDE DEF tableType, cx, directive
<1>6. Compress(cx, OneShotAt, text, room, directive, tableType, "noDict", FALSE, "context") /\ OneShot
  BY <1>1 DEF cx, directive
<1> QED
  BY <1>2, <1>3, <1>4, <1>5, <1>6, OneShotKeeps

LEMMA FastResetKeeps ==
    ASSUME IInv, NEW text \in Texts, NEW room \in Rooms,
           LZ4_compress_fast_extState_fastReset(OneShotAt, text, room)
    PROVE  IInv'
<1> DEFINE tableType == IF Len(text) < LZ4_64Klimit THEN "byU16" ELSE "byU32"
           cx == LZ4_prepareTable(ctx, Len(text), tableType)
           small == tableType = "byU16" /\ cx.currentOffset # 0
<1>1. OneShot /\ Compress(cx, OneShotAt, text, room, Limited(text, room), tableType,
                          "noDict", small, "context")
  BY DEF LZ4_compress_fast_extState_fastReset
<1>2. tableType \in {"byU16", "byU32"} /\ Len(text) \in Nat /\ small \in BOOLEAN
  BY TextFits
<1>3. ctx \in Contexts /\ Behind(ctx)
  BY <1>1 DEF IInv, ContextOK, Compress, Idle
<1> HIDE DEF tableType
<1>4. /\ cx \in Contexts /\ Behind(cx) /\ cx.dictSize = 0 /\ ~cx.dictCtx
      /\ tableType = "byU32" =>
            cx.currentOffset = 0 \/ \A h \in HashValues : cx.hashTable[h] + KB64 <= cx.currentOffset
  BY <1>2, <1>3, PrepareIs
<1>5. tableType = "byU16" => cx.currentOffset = 0 \/ small
  OBVIOUS
<1> HIDE DEF cx, small
<1> QED
  BY <1>1, <1>2, <1>4, <1>5, LimitedFits, OneShotKeeps

LEMMA DestSizeKeeps ==
    ASSUME IInv, NEW text \in Texts, NEW room \in Rooms,
           LZ4_compress_destSize_extState(OneShotAt, text, room)
    PROVE  IInv'
<1> DEFINE tableType == IF Len(text) < LZ4_64Klimit THEN "byU16" ELSE "byU32"
           directive == IF Limited(text, room) = "notLimited" THEN "notLimited" ELSE "fillOutput"
<1>1. OneShot /\ room > 0 /\ Compress(LZ4_initStream, OneShotAt, text, room, directive, tableType,
                          "noDict", FALSE, "initialised")
  BY DEF LZ4_compress_destSize_extState
<1>2. tableType \in {"byU16", "byU32"} /\ (tableType = "byU16" => Len(text) < LZ4_64Klimit)
  OBVIOUS
<1>3. directive \in {"notLimited", "limitedOutput", "fillOutput"} /\ Emit!Fits(Len(text), room, directive)
  BY <1>1, LimitedFits
<1> HIDE DEF tableType, directive
<1> QED
  BY <1>1, <1>2, <1>3, InitStreamIs, OneShotKeeps

\* A step between two calls that leaves the last call and the dictionary alone.
LEMMA IdleKeeps ==
    ASSUME IInv, pc = "idle", UNCHANGED <<dict, calls, call, pc, search, output, stray>>,
           mem' \in [Addresses -> Nat], ContextOK', use' \in {"fresh", "stream", "other"},
           history' \in Seq(Nat), Len(history') <= KB64
    PROVE  IInv'
<1>1. StreamOK'
  BY DEF IInv, StreamOK, Loaded
<1> QED
  BY <1>1 DEF IInv, search, output, Locations

LEMMA ResetKeeps ==
    ASSUME IInv, LZ4_resetStream_fast PROVE IInv'
<1>1. /\ pc = "idle" /\ UNCHANGED <<mem, dict, calls, call, pc, search, output, stray>>
      /\ history' = <<>> /\ use' = "fresh" /\ ctx' = LZ4_prepareTable(ctx, 0, "byU32")
  BY DEF LZ4_resetStream_fast, Idle
<1>2. ctx \in Contexts /\ Behind(ctx) /\ mem \in [Addresses -> Nat]
  BY <1>1 DEF IInv, ContextOK, StreamOK
<1> DEFINE cx == LZ4_prepareTable(ctx, 0, "byU32")
<1>3. cx \in Contexts /\ Behind(cx) /\ cx.dictSize = 0 /\ ~cx.dictCtx
  BY <1>2, PrepareIs
<1> HIDE DEF cx
<1>4. ctx' = cx
  BY <1>1 DEF cx
<1>5. ContextOK'
  <2>1. ctx'.currentOffset \in Nat
    BY <1>3, <1>4 DEF Contexts
  <2> QED
    BY <1>3, <1>4, <2>1 DEF ContextOK, Behind, Placed, InMemory
<1> QED
  BY <1>1, <1>2, <1>5, IdleKeeps, Constants

LEMMA ReachableIs ==
    ASSUME NEW s \in Seq(Nat)
    PROVE  /\ Reachable(s) \in Seq(Nat)
           /\ Len(Reachable(s)) = IF Len(s) <= KB64 THEN Len(s) ELSE KB64
           /\ \A i \in 1..Len(Reachable(s)) : Reachable(s)[i] = s[Len(s) - Len(Reachable(s)) + i]
<1> DEFINE from == Higher(1, Len(s) - KB64 + 1)
<1>1. Max({1, Len(s) - KB64 + 1}) = from /\ Len(s) \in Nat
  BY MaxTwo, Constants
<1>2. from \in 1..(Len(s) + 1) /\ Len(s) - from + 1 = IF Len(s) <= KB64 THEN Len(s) ELSE KB64
  BY <1>1, Constants DEF Higher
<1>3. Reachable(s) = SubSeq(s, from, Len(s))
  BY <1>1 DEF Reachable
<1> HIDE DEF from
<1>4. /\ SubSeq(s, from, Len(s)) \in Seq(Nat) /\ Len(SubSeq(s, from, Len(s))) = Len(s) - from + 1
      /\ \A i \in 1..(Len(s) - from + 1) : SubSeq(s, from, Len(s))[i] = s[from + i - 1]
  BY <1>1, <1>2
<1>5. Len(s) - Len(Reachable(s)) = from - 1
  BY <1>1, <1>2, <1>3, <1>4
<1> QED
  BY <1>1, <1>2, <1>3, <1>4, <1>5

LEMMA LoadDictKeeps ==
    ASSUME IInv, NEW text \in DictTexts, NEW slow \in BOOLEAN, LZ4_loadDict(text, slow) PROVE IInv'
<1>1. /\ pc = "idle" /\ UNCHANGED <<dict, calls, call, pc, search, output, stray>>
      /\ history' = Reachable(text) /\ use' = "fresh" /\ Place(DictAt, text)
      /\ ctx' = LZ4_loadDict_internal(mem', DictAt, Len(text), slow)
  BY DEF LZ4_loadDict, Idle
<1>2. mem \in [Addresses -> Nat] /\ text \in Seq(Nat) /\ Len(text) \in Nat /\ DictAt + Len(text) <= SaveAt
  BY FastAssumption DEF IInv, StreamOK
<1>3. mem' \in [Addresses -> Nat]
  BY <1>1, <1>2, PlaceIs, Layout, Constants
<1> DEFINE cx == LZ4_loadDict_internal(mem', DictAt, Len(text), slow)
<1>4. Loaded(cx) /\ Behind(cx) /\ Placed(cx)
  BY <1>2, <1>3, LoadIs, Layout
<1> HIDE DEF cx
<1>5. ctx' = cx
  BY <1>1 DEF cx
<1>6. ContextOK'
  BY <1>4, <1>5 DEF ContextOK, Loaded, Behind, Placed
<1>7. Reachable(text) \in Seq(Nat) /\ Len(Reachable(text)) <= KB64
  BY <1>2, ReachableIs, Constants
<1> QED
  BY <1>1, <1>3, <1>6, <1>7, IdleKeeps

LEMMA BytesIs ==
    ASSUME mem \in [Addresses -> Nat], NEW a \in Nat, NEW length \in Nat,
           length > 0 => a >= 1 /\ a + length <= MemEnd + 1
    PROVE  /\ Bytes(a, length) \in Seq(Nat) /\ Len(Bytes(a, length)) = length
           /\ \A i \in 1..length : Bytes(a, length)[i] = mem[a + i - 1]
<1>1. \A i \in 1..length : a + i - 1 \in Addresses
  BY Constants DEF Addresses
<1>2. Bytes(a, length) = [i \in 1..length |-> mem[a + i - 1]]
  BY DEF Bytes
<1>3. \A i \in 1..length : mem[a + i - 1] \in Nat
  BY <1>1
<1> QED
  BY <1>2, <1>3

LEMMA AttachKeeps ==
    ASSUME IInv, LZ4_attachDictionary PROVE IInv'
<1>1. /\ pc = "idle" /\ UNCHANGED <<mem, dict, use, calls, call, pc, search, output, stray>>
      /\ use = "fresh" /\ ctx.dictSize = 0 /\ ctx' = LZ4_attach_dictionary(ctx, dict)
      /\ history' = IF ctx'.dictCtx THEN Bytes(dict.dictionary, dict.dictSize) ELSE <<>>
  BY DEF LZ4_attachDictionary, Idle
<1>2. /\ ctx \in Contexts /\ Behind(ctx) /\ Placed(ctx) /\ mem \in [Addresses -> Nat]
      /\ Loaded(dict) /\ dict.dictSize \in Nat /\ dict.dictionary \in Nat
  BY <1>1, Constants DEF IInv, ContextOK, StreamOK, Loaded, Contexts
<1>3. dict.dictSize # 0 <=> dict.dictSize > 0
  BY <1>2
<1> DEFINE offset0 == IF ctx.currentOffset = 0 THEN KB64 ELSE ctx.currentOffset
<1>4. offset0 \in Nat /\ offset0 >= ctx.currentOffset /\ ctx.currentOffset \in Nat
      /\ ctx.hashTable \in [HashValues -> Nat]
  BY <1>2, Constants DEF Contexts
<1>5. ctx' = [ctx EXCEPT !.currentOffset = offset0, !.dictCtx = dict.dictSize # 0]
  BY <1>1 DEF LZ4_attach_dictionary
<1> HIDE DEF offset0
<1>6. /\ ctx' \in Contexts /\ ctx'.currentOffset = offset0 /\ ctx'.hashTable = ctx.hashTable
      /\ ctx'.dictSize = ctx.dictSize /\ ctx'.dictionary = ctx.dictionary
  BY <1>2, <1>4, <1>5 DEF Contexts
<1>7. ctx'.dictCtx <=> dict.dictSize > 0
  BY <1>2, <1>3, <1>5 DEF Contexts
<1>8. ContextOK'
  <2>1. ASSUME NEW h \in HashValues, NEW e, e = ctx'.hashTable[h]
        PROVE  e = 0 \/ e + HASH_UNIT <= ctx'.currentOffset
    <3>1. e = 0 \/ e + HASH_UNIT <= ctx.currentOffset
      BY <1>2, <1>6, <2>1 DEF Behind
    <3>2. e \in Nat
      BY <1>4, <1>6, <2>1
    <3> QED
      BY <1>4, <1>6, <3>1, <3>2, Constants
  <2>2. Placed(ctx)'
    BY <1>1, <1>2, <1>4, <1>6 DEF Placed, InMemory
  <2> QED
    BY <1>1, <1>6, <1>7, <2>1, <2>2 DEF ContextOK, Behind
<1>9. history' \in Seq(Nat) /\ Len(history') <= KB64
  <2>1. Bytes(dict.dictionary, dict.dictSize) \in Seq(Nat) /\ Len(Bytes(dict.dictionary, dict.dictSize)) <= KB64
    <3>1. dict.dictSize <= KB64
          /\ (dict.dictSize > 0 => dict.dictionary >= 1 /\ dict.dictionary + dict.dictSize <= MemEnd + 1)
      BY <1>2, Layout, Constants DEF Loaded
    <3> QED
      BY <1>2, <3>1, BytesIs
  <2> QED
    BY <1>1, <2>1, Constants
<1> QED
  BY <1>1, <1>2, <1>8, <1>9, IdleKeeps DEF IInv, StreamOK

LEMMA SaveDictKeeps ==
    ASSUME IInv, NEW size \in {0, 3, 6, KB64}, LZ4_saveDict(size) PROVE IInv'
<1> DEFINE kept == Min({size, KB64, ctx.dictSize})
           saved == Bytes(ctx.dictionary + ctx.dictSize - kept, kept)
<1>1. /\ pc = "idle" /\ UNCHANGED <<dict, use, history, calls, call, pc, search, output, stray>>
      /\ use = "stream" /\ Place(SaveAt, saved)
      /\ ctx' = [ctx EXCEPT !.dictionary = SaveAt, !.dictSize = kept]
  BY DEF LZ4_saveDict, Idle
<1>2. /\ ctx \in Contexts /\ Behind(ctx) /\ Placed(ctx) /\ mem \in [Addresses -> Nat]
      /\ ctx.dictCtx => ctx.dictSize = 0 /\ dict.dictSize > 0
  BY <1>1 DEF IInv, ContextOK, StreamOK
<1>3. ctx.dictSize \in Nat /\ ctx.dictionary \in Nat /\ ctx.currentOffset \in Nat
  BY <1>2, Constants DEF Contexts
<1>4. kept \in Nat /\ kept <= KB64 /\ kept <= ctx.dictSize
  BY <1>3, MinThree, Constants
<1> HIDE DEF kept
<1>5. /\ saved \in Seq(Nat) /\ Len(saved) = kept
  <2>1. ctx.dictionary + ctx.dictSize - kept \in Nat
        /\ (kept > 0 => /\ ctx.dictionary + ctx.dictSize - kept >= 1
                        /\ ctx.dictionary + ctx.dictSize - kept + kept <= MemEnd + 1)
    BY <1>2, <1>3, <1>4, Layout, Constants DEF Placed, InMemory
  <2> QED
    BY <1>2, <1>4, <2>1, BytesIs
<1> HIDE DEF saved
<1>6. mem' \in [Addresses -> Nat]
  <2>1. SaveAt \in Nat /\ SaveAt >= 1 /\ SaveAt + Len(saved) <= MemEnd + 1
    BY <1>4, <1>5, Layout, Constants
  <2> QED
    BY <1>1, <1>2, <1>5, <2>1, PlaceIs
<1>7. SaveAt \in 0..MemEnd
  BY Constants
<1>8. /\ ctx' \in Contexts /\ ctx'.currentOffset = ctx.currentOffset /\ ctx'.hashTable = ctx.hashTable
      /\ ctx'.dictSize = kept /\ ctx'.dictionary = SaveAt
  BY <1>1, <1>2, <1>4, <1>7 DEF Contexts
<1>9. ctx'.dictCtx = ctx.dictCtx
  BY <1>1, <1>2 DEF Contexts
<1>10. ContextOK'
  <2>1. Behind(ctx)'
    BY <1>2, <1>8 DEF Behind
  <2>2. Placed(ctx)'
    BY <1>2, <1>3, <1>4, <1>8, Layout, Constants DEF Placed, InMemory
  <2>3. ctx'.dictCtx => ctx'.dictSize = 0 /\ dict'.dictSize > 0
    BY <1>1, <1>2, <1>3, <1>4, <1>8, <1>9
  <2> QED
    BY <1>8, <2>1, <2>2, <2>3 DEF ContextOK
<1> QED
  BY <1>1, <1>6, <1>10, IdleKeeps DEF IInv, StreamOK

\* The stream whose dictionary a call uses.
DictOf(cx, mode) == IF mode = "usingDictCtx" THEN dict ELSE cx

\* A streaming call: the entries a position may follow lie in the dictionary.
LEMMA StreamKeeps ==
    ASSUME IInv, NEW text \in Texts, NEW room \in Rooms, NEW source \in Slots,
           NEW cx \in Contexts, Behind(cx), Placed(cx), cx.dictCtx => cx.dictSize = 0 /\ dict.dictSize > 0,
           NEW mode \in {"withPrefix64k", "usingExtDict", "usingDictCtx"}, NEW small \in BOOLEAN,
           NEW keeps, keeps = (IF mode = "withPrefix64k" THEN "context" ELSE "source"),
           use' = "stream", history' = history,
           Compress(cx, source, text, room, "limitedOutput", "byU32", mode, small, keeps),
           text # <<>> => mode = "usingDictCtx" \/ ~cx.dictCtx,
           mode = "withPrefix64k" => cx.dictionary + cx.dictSize = source,
           mode # "withPrefix64k" /\ text # <<>> => source # DictOf(cx, mode).dictionary,
           mode = "usingDictCtx" => ~small,
           text # <<>> /\ mode # "usingDictCtx" => \A h \in HashValues, e \in Nat :
              /\ e = cx.hashTable[h]
              /\ e < cx.currentOffset
              /\ small => e >= cx.currentOffset - cx.dictSize
              /\ e + DISTANCE_MAX > cx.currentOffset
              => /\ e >= cx.currentOffset - cx.dictSize
                 /\ mode = "usingExtDict" => e + MINMATCH <= cx.currentOffset
    PROVE  IInv'
<1>d. PICK d : d = DictOf(cx, mode)
  OBVIOUS
<1>1. /\ mem \in [Addresses -> Nat] /\ calls \in Nat /\ Loaded(dict)
      /\ forwardIp \in Nat /\ step \in Nat /\ searchMatchNb \in Nat /\ stray = FALSE /\ result \in Nat
      /\ history \in Seq(Nat) /\ Len(history) <= KB64
  BY DEF IInv, StreamOK
<1>2. pc = "idle" /\ calls' = calls + 1 /\ Place(source, text) /\ dict' = dict
  BY DEF Compress, Idle
<1>3. /\ text \in Seq(Nat) /\ Len(text) \in Nat /\ Len(text) \in InputSizes
      /\ source \in Sources /\ source \in Nat /\ source >= 1 /\ source + Len(text) <= DictAt
      /\ source < DictAt
  BY TextFits, Layout
<1>4. mem' \in [Addresses -> Nat]
  BY <1>1, <1>2, <1>3, PlaceIs, Layout, Constants
<1>5. StreamOK'
  <2>1. Loaded(dict)'
    BY <1>1, <1>2 DEF Loaded
  <2> QED
    BY <1>1, <1>2, <1>4, <2>1, Constants DEF StreamOK
<1>6. /\ cx.currentOffset \in Nat /\ cx.dictSize \in Nat /\ cx.dictionary \in Nat
      /\ cx.hashTable \in [HashValues -> Nat] /\ cx.dictSize <= cx.currentOffset
      /\ cx.dictSize > 0 => /\ cx.dictionary >= 1
                            /\ \/ cx.dictionary + cx.dictSize <= DictAt
                               \/ cx.dictionary >= DictAt /\ cx.dictionary + cx.dictSize <= MemEnd + 1
  BY Constants DEF Contexts, Placed, InMemory
<1>7. /\ d \in Contexts /\ d.currentOffset \in Nat /\ d.dictSize \in Nat /\ d.dictionary \in Nat
      /\ InMemory(d.dictionary, d.dictSize)
  <2>1. CASE mode = "usingDictCtx"
    <3>1. d = dict /\ dict \in Contexts
      BY <1>1, <1>d, <2>1 DEF Loaded, DictOf
    <3>2. InMemory(dict.dictionary, dict.dictSize)
      BY <1>1, Layout, Constants DEF Loaded, InMemory, Contexts
    <3> QED
      BY <3>1, <3>2, Constants DEF Contexts
  <2>2. CASE mode # "usingDictCtx"
    <3>1. d = cx
      BY <1>d, <2>2 DEF DictOf
    <3> QED
      BY <1>6, <3>1 DEF Placed
  <2> QED
    BY <2>1, <2>2
<1>8. CASE text = <<>>
  <2> DEFINE emptied == [cx EXCEPT !.dictionary = source, !.dictSize = 0]
  <2>1. ctx' = (IF keeps = "source" THEN emptied ELSE cx) /\ UNCHANGED <<pc, call, search, output, stray>>
    BY <1>8 DEF Compress
  <2>2. source \in 0..MemEnd
    BY <1>3, Constants
  <2>3. /\ emptied \in Contexts /\ emptied.hashTable = cx.hashTable /\ emptied.dictSize = 0
        /\ emptied.currentOffset = cx.currentOffset
    BY <2>2 DEF Contexts
  <2>4. emptied.dictCtx = cx.dictCtx
    BY DEF Contexts
  <2> HIDE DEF emptied
  <2>5. Behind(emptied) /\ Placed(emptied)
    BY <1>6, <2>3 DEF Behind, Placed, InMemory
  <2>6. ContextOK'
    <3>1. CASE keeps = "source"
      BY <1>2, <2>1, <2>3, <2>4, <2>5, <3>1 DEF ContextOK, Behind, Placed
    <3>2. CASE keeps # "source"
      BY <1>2, <2>1, <3>2 DEF ContextOK, Behind, Placed
    <3> QED
      BY <3>1, <3>2
  <2> QED
    BY <1>1, <1>2, <1>5, <2>1, <2>6 DEF IInv, search, output, Locations
<1>9. CASE text # <<>>
  <2> DEFINE c == CallOf(cx, source, Len(text), room, "limitedOutput", "byU32", mode, small, keeps)
  <2>1. Enter(cx, c)
    BY <1>9 DEF Compress
  <2>2. Len(text) > 0
    BY <1>3, <1>9
  <2>3. /\ c.source = source /\ c.size = Len(text) /\ c.olimit = room /\ c.directive = "limitedOutput"
        /\ c.tableType = "byU32" /\ c.mode = mode /\ c.small = small /\ c.keeps = keeps
        /\ c.startIndex = cx.currentOffset /\ c.startIndex \in Nat
        /\ c.dictionary = d.dictionary /\ c.dictEnd = d.dictionary + d.dictSize
        /\ c.dictionary \in 0..MemEnd /\ c.dictEnd \in Nat
        /\ c.dictBase = d.dictionary + d.dictSize - d.currentOffset
        /\ c.dictBase \in Int /\ c.dictDelta \in Int
        /\ c.dictDelta = (IF mode = "usingDictCtx" THEN cx.currentOffset - d.currentOffset ELSE 0)
        /\ c.prefixIdxLimit = cx.currentOffset - d.dictSize /\ c.prefixIdxLimit \in Int
    BY <1>7, <1>d, CallOfIs DEF DictOf
  <2> HIDE DEF c
  <2>4. /\ call' = c /\ lowLimit' = source - (IF mode = "withPrefix64k" THEN cx.dictSize ELSE 0)
    BY <2>1, <2>3 DEF Enter
  <2>5. CallOK'
    <3>1. Emit!Fits(Len(text), room, "limitedOutput")
      BY DEF Emit!Fits
    <3> QED
      BY <1>3, <2>2, <2>3, <2>4, <3>1 DEF CallOK
  <2>6. ModeOK'
    <3>1. mode = "usingDictCtx" => d = dict /\ dict.currentOffset = KB64
      BY <1>1, <1>d DEF Loaded, DictOf
    <3>2. mode # "withPrefix64k" => source # c.dictionary
      BY <1>9, <1>d, <2>3
    <3>3. c.dictEnd - c.dictionary = d.dictSize
      BY <1>7, <2>3
    <3>4. mode # "usingDictCtx" => d = cx
      BY <1>d DEF DictOf
    <3>5. mode = "withPrefix64k" => 1 <= lowLimit' /\ lowLimit' <= source
      BY <1>3, <1>6, <2>4
    <3>6. InMemory(c.dictionary, c.dictEnd - c.dictionary) /\ c.dictEnd >= c.dictionary
      BY <1>7, <2>3, <3>3
    <3>7. mode = "usingExtDict" => c.dictBase = c.dictEnd - c.startIndex
      BY <1>7, <2>3, <3>4
    <3>8. mode = "usingDictCtx" =>
          /\ c.dictionary = dict.dictionary /\ c.dictEnd = dict.dictionary + dict.dictSize
          /\ c.dictBase = c.dictEnd - KB64 /\ c.dictDelta = c.startIndex - KB64
          /\ ~c.small
      <4>1. mode = "usingDictCtx" => ~c.small
        BY <2>3, Zenon
      <4>2. mode = "usingDictCtx" =>
            /\ c.dictionary = dict.dictionary /\ c.dictEnd = dict.dictionary + dict.dictSize
            /\ c.dictBase = c.dictEnd - KB64 /\ c.dictDelta = c.startIndex - KB64
        <5>1. /\ c.dictionary = d.dictionary /\ c.dictEnd = d.dictionary + d.dictSize
              /\ c.dictBase = d.dictionary + d.dictSize - d.currentOffset
              /\ c.dictDelta = (IF mode = "usingDictCtx" THEN cx.currentOffset - d.currentOffset ELSE 0)
              /\ c.startIndex = cx.currentOffset
          BY <2>3, Zenon
        <5> QED
          BY <1>7, <3>1, <5>1
      <4> QED
        BY <4>1, <4>2
    <3>9. maybe_extMem' <=> mode # "withPrefix64k"
      BY <2>3, <2>4 DEF maybe_extMem
    <3>10. InMemory(call.dictionary, call.dictEnd - call.dictionary)'
      BY <2>4, <3>6 DEF InMemory
    <3> QED
      BY <1>2, <2>3, <2>4, <3>2, <3>5, <3>6, <3>7, <3>8, <3>9, <3>10 DEF ModeOK
  <2>7. \A h \in HashValues : FromBefore(cx.hashTable[h])' => BeforeOK(cx.hashTable[h])'
    <3> SUFFICES ASSUME NEW h \in HashValues, NEW e, e = cx.hashTable[h], FromBefore(e)' PROVE BeforeOK(e)'
      BY DEF FromBefore, BeforeOK
    <3>1. e \in Nat /\ (e = 0 \/ e + HASH_UNIT <= cx.currentOffset)
      BY <1>6 DEF Behind
    <3>2. e < cx.currentOffset /\ (small => e >= cx.currentOffset - d.dictSize)
          /\ e + DISTANCE_MAX > cx.currentOffset
      BY <2>3, <2>4 DEF FromBefore
    <3>3. CASE mode = "usingDictCtx"
      BY <2>3, <2>4, <3>3 DEF BeforeOK
    <3>4. CASE mode # "usingDictCtx"
      <4>1. d = cx
        BY <1>d, <3>4 DEF DictOf
      <4>2. e >= cx.currentOffset - cx.dictSize /\ (mode = "usingExtDict" => e + MINMATCH <= cx.currentOffset)
        BY <1>9, <3>1, <3>2, <3>4, <4>1
      <4>3. CASE mode = "usingExtDict"
        <5>1. c.dictBase + e >= c.dictionary /\ c.dictBase + e + MINMATCH <= c.dictEnd
          <6>1. /\ c.dictBase = cx.dictionary + cx.dictSize - cx.currentOffset
                /\ c.dictionary = cx.dictionary /\ c.dictEnd = cx.dictionary + cx.dictSize
            BY <2>3, <4>1
          <6> QED
            BY <1>6, <3>1, <4>2, <4>3, <6>1, Constants, SMTT(30)
        <5> QED
          BY <2>3, <2>4, <4>3, <5>1 DEF BeforeOK
      <4>4. CASE mode = "withPrefix64k"
        <5>1. source - cx.currentOffset + e >= source - cx.dictSize
          BY <1>3, <1>6, <3>1, <4>2
        <5>2. base' = source - cx.currentOffset
          BY <2>3, <2>4 DEF base
        <5> QED
          BY <2>3, <2>4, <4>4, <5>1, <5>2 DEF BeforeOK
      <4> QED
        BY <3>4, <4>3, <4>4
    <3> QED
      BY <3>3, <3>4
  <2>8. InCall' /\ pc' \in Locations /\ stray' = FALSE /\ result' = 0
    <3>1. c.mode = "usingDictCtx" \/ ~cx.dictCtx
      BY <1>9, <2>3
    <3>2. c.keeps = "context" /\ use' = "stream" =>
              c.mode # "usingDictCtx" /\ Placed(cx) /\ cx.dictionary + cx.dictSize = c.source
      BY <2>3
    <3>3. c.tableType # "byU16"
      BY <2>3
    <3> QED
      BY <1>4, <2>1, <2>3, <2>5, <2>6, <2>7, <3>1, <3>2, <3>3, EnterKeeps
  <2>9. forwardIp' \in Nat /\ step' \in Nat /\ searchMatchNb' \in Nat /\ pc' # "idle"
    <3>1. c.source + 1 \in Nat /\ SkipUnit \in Nat
      BY <1>3, <2>3, Constants
    <3>2. CASE c.size < LZ4_minLength
      BY <1>1, <2>1, <3>2 DEF Enter
    <3>3. CASE ~(c.size < LZ4_minLength)
      BY <2>1, <3>1, <3>3 DEF Enter, StartSearch
    <3> QED
      BY <3>2, <3>3
  <2> QED
    BY <1>5, <2>8, <2>9 DEF IInv
<1> QED
  BY <1>8, <1>9

LEMMA ContinueKeeps ==
    ASSUME IInv, NEW text \in Texts, NEW room \in Rooms, NEW source \in Slots,
           LZ4_compress_fast_continue(source, text, room)
    PROVE  IInv'
<1> DEFINE size == Len(text)
           renormed == LZ4_renormDictT(ctx, size)
           t == Trimmed(renormed, source, size)
           cx == t.cx
           small == cx.dictSize < KB64 /\ cx.dictSize < cx.currentOffset
           Go(c, mode, issue, keeps) ==
             Compress(c, source, text, room, "limitedOutput", "byU32", mode, issue, keeps)
<1>1. /\ use \in {"fresh", "stream"} /\ MayPlace(source, size)
      /\ use' = "stream" /\ history' = history
      /\ \/ t.dictEnd = source /\ Go(cx, "withPrefix64k", small, "context")
         \/ t.dictEnd # source /\ cx.dictCtx /\ size > KB4 /\ Go(dict, "usingExtDict", FALSE, "source")
         \/ t.dictEnd # source /\ cx.dictCtx /\ Go(cx, "usingDictCtx", FALSE, "source")
         \/ t.dictEnd # source /\ ~cx.dictCtx /\ Go(cx, "usingExtDict", small, "source")
  BY DEF LZ4_compress_fast_continue
<1>2. pc = "idle" /\ Loaded(dict) /\ dict \in Contexts
  BY <1>1 DEF Compress, Idle, IInv, StreamOK, Loaded
<1>3. /\ ctx \in Contexts /\ Behind(ctx) /\ Placed(ctx)
      /\ ctx.dictCtx => ctx.dictSize = 0 /\ dict.dictSize > 0
  BY <1>1, <1>2 DEF IInv, ContextOK
<1>4. /\ size \in InputSizes /\ size \in Nat /\ source \in Sources /\ source \in Nat /\ source < DictAt
      /\ source >= 1 /\ text \in Seq(Nat)
  BY TextFits, Layout
<1>5. /\ renormed \in Contexts /\ Behind(renormed) /\ Placed(renormed)
      /\ renormed.dictCtx = ctx.dictCtx /\ renormed.dictSize <= ctx.dictSize
      /\ renormed.dictionary + renormed.dictSize = ctx.dictionary + ctx.dictSize
  BY <1>3, <1>4, RenormIs
<1> HIDE DEF renormed, size
<1>6. /\ ctx.dictSize \in Nat /\ ctx.dictionary \in Nat
      /\ renormed.dictSize \in Nat /\ renormed.dictionary \in Nat
  BY <1>3, <1>5, Constants DEF Contexts
<1>7. Apart(renormed, source, size)
  BY <1>1, <1>4, <1>5, <1>6 DEF MayPlace, Apart
<1>8. renormed.dictCtx => renormed.dictSize = 0
  BY <1>3, <1>5, <1>6
<1>9. /\ cx \in Contexts /\ Behind(cx) /\ Placed(cx)
      /\ cx.dictCtx = renormed.dictCtx /\ cx.dictSize <= renormed.dictSize
      /\ t.dictEnd = source => ~renormed.dictCtx /\ cx.dictionary + cx.dictSize = source
      /\ t.dictEnd # source /\ size > 0 /\ ~renormed.dictCtx =>
            source # cx.dictionary /\ (cx.dictSize = 0 \/ cx.dictSize >= MINMATCH)
  BY <1>4, <1>5, <1>7, <1>8, TrimIs
<1> HIDE DEF t
<1> HIDE DEF cx
<1>10. /\ cx.dictSize \in Nat /\ cx.currentOffset \in Nat /\ cx.dictSize <= cx.currentOffset
       /\ cx.dictCtx \in BOOLEAN /\ small \in BOOLEAN
  BY <1>9 DEF Contexts, Placed
<1>11. cx.dictCtx => cx.dictSize = 0 /\ dict.dictSize > 0
  BY <1>3, <1>5, <1>6, <1>8, <1>9, <1>10
<1>12. text # <<>> => size > 0
  BY <1>4 DEF size
\* An entry in reach is not before the dictionary.
<1>13. ASSUME NEW e \in Nat, e < cx.currentOffset, small => e >= cx.currentOffset - cx.dictSize,
              e + DISTANCE_MAX > cx.currentOffset
       PROVE  e >= cx.currentOffset - cx.dictSize
  BY <1>10, <1>13, Constants
<1>a. dict.dictSize > 0 => source # dict.dictionary
  BY <1>2, <1>4, Constants DEF Loaded, Contexts
<1>14. CASE t.dictEnd = source /\ Go(cx, "withPrefix64k", small, "context")
  <2>1. ~cx.dictCtx /\ cx.dictionary + cx.dictSize = source
    BY <1>9, <1>14
  <2> HIDE DEF small
  <2>2. Compress(cx, source, text, room, "limitedOutput", "byU32", "withPrefix64k", small, "context")
    BY <1>14
  <2> QED
    BY <1>1, <1>9, <1>10, <1>11, <1>13, <2>1, <2>2, StreamKeeps DEF DictOf
<1>15. CASE t.dictEnd # source /\ cx.dictCtx /\ Go(cx, "usingDictCtx", FALSE, "source")
  <2>1. Compress(cx, source, text, room, "limitedOutput", "byU32", "usingDictCtx", FALSE, "source")
    BY <1>15
  <2>2. source # dict.dictionary /\ FALSE \in BOOLEAN
    BY <1>11, <1>15, <1>a
  <2> QED
    BY <1>1, <1>2, <1>9, <1>10, <1>11, <2>1, <2>2, StreamKeeps DEF DictOf
<1>16. CASE t.dictEnd # source /\ ~cx.dictCtx /\ Go(cx, "usingExtDict", small, "source")
  <2>1. Compress(cx, source, text, room, "limitedOutput", "byU32", "usingExtDict", small, "source")
    BY <1>16
  <2>2. text # <<>> => source # cx.dictionary /\ (cx.dictSize = 0 \/ cx.dictSize >= MINMATCH)
    BY <1>9, <1>12, <1>16
  <2>3. ASSUME text # <<>>, NEW h \in HashValues, NEW e \in Nat, e = cx.hashTable[h], e < cx.currentOffset,
               small => e >= cx.currentOffset - cx.dictSize, e + DISTANCE_MAX > cx.currentOffset
        PROVE  e >= cx.currentOffset - cx.dictSize /\ e + MINMATCH <= cx.currentOffset
    <3>1. e >= cx.currentOffset - cx.dictSize
      BY <1>13, <2>3
    <3>2. e = 0 => e + MINMATCH <= cx.currentOffset
      BY <1>10, <2>2, <2>3, <3>1, Constants
    <3>3. e = 0 \/ e + HASH_UNIT <= cx.currentOffset
      BY <1>9, <2>3 DEF Behind
    <3> QED
      BY <1>10, <3>1, <3>2, <3>3, Constants
  <2> HIDE DEF small
  <2>4. ~cx.dictCtx
    BY <1>16
  <2> QED
    BY <1>1, <1>9, <1>10, <1>11, <2>1, <2>2, <2>3, <2>4, StreamKeeps DEF DictOf
\* The working stream becomes a copy of the attached one.
<1>17. CASE t.dictEnd # source /\ cx.dictCtx /\ size > KB4 /\ Go(dict, "usingExtDict", FALSE, "source")
  <2>1. Compress(dict, source, text, room, "limitedOutput", "byU32", "usingExtDict", FALSE, "source")
    BY <1>17
  <2>2. source # dict.dictionary /\ FALSE \in BOOLEAN /\ dict.dictSize > 0
    BY <1>11, <1>17, <1>a
  <2>3. /\ dict.currentOffset = KB64 /\ dict.dictSize <= KB64 /\ ~dict.dictCtx /\ dict.dictSize \in Nat
        /\ dict.dictionary >= DictAt /\ dict.dictionary + dict.dictSize <= SaveAt
        /\ dict.hashTable \in [HashValues -> Nat] /\ dict.dictionary \in Nat
    BY <1>2, <2>2, Constants DEF Loaded, Contexts
  <2>4. Behind(dict)
    <3>1. ASSUME NEW h \in HashValues
          PROVE  dict.hashTable[h] = 0 \/ dict.hashTable[h] + HASH_UNIT <= dict.currentOffset
      BY <1>2, <2>3 DEF Loaded
    <3> QED
      BY <3>1 DEF Behind
  <2>5. Placed(dict)
    BY <2>3, Layout, Constants DEF Placed, InMemory
  <2>6. ASSUME NEW h \in HashValues, NEW e \in Nat, e = dict.hashTable[h],
               e + DISTANCE_MAX > dict.currentOffset
        PROVE  e >= dict.currentOffset - dict.dictSize /\ e + MINMATCH <= dict.currentOffset
    <3>1. e = 0 \/ (e >= KB64 - dict.dictSize /\ e + HASH_UNIT <= KB64)
      BY <1>2, <2>6 DEF Loaded
    <3> QED
      BY <2>3, <2>6, <3>1, Constants
  <2> QED
    BY <1>1, <1>2, <2>1, <2>2, <2>3, <2>4, <2>5, <2>6, StreamKeeps DEF DictOf
<1> QED
  BY <1>1, <1>14, <1>15, <1>16, <1>17

-----------------------------------------------------------------------------
(* A call goes on *)

LEMMA CallIs ==
    ASSUME CallOK
    PROVE  /\ call.source \in Nat /\ call.source >= 1 /\ call.source < DictAt
           /\ call.size \in Nat /\ call.size > 0 /\ call.source + call.size <= DictAt
           /\ call.startIndex \in Nat /\ call.dictionary \in Nat /\ call.dictEnd \in Nat
           /\ iend = call.source + call.size /\ iend \in Nat
           /\ mflimitPlusOne = iend - 11 /\ matchlimit = iend - 5
           /\ base = call.source - call.startIndex
           /\ iend <= MemEnd
<1>1. /\ call.source \in Nat /\ call.source >= 1 /\ call.source < DictAt
      /\ call.size \in Nat /\ call.size > 0 /\ call.source + call.size <= DictAt
  BY InputSize DEF CallOK
<1>2. call.startIndex \in Nat /\ call.dictionary \in Nat /\ call.dictEnd \in Nat
  BY Constants DEF CallOK
<1>3. /\ iend = call.source + call.size /\ mflimitPlusOne = iend - 11 /\ matchlimit = iend - 5
      /\ base = call.source - call.startIndex
  BY <1>1, Constants DEF iend, mflimitPlusOne, matchlimit, base
<1> QED
  BY <1>1, <1>2, <1>3, Layout, Constants

LEMMA HashAt ==
    ASSUME StreamOK, CallOK, NEW at \in Nat, call.source <= at, at <= mflimitPlusOne
    PROVE  LZ4_hashPosition(at, call.tableType) \in HashValues
<1>1. mem \in [Addresses -> Nat] /\ at >= 1 /\ at + 4 <= MemEnd
  BY CallIs, Constants, SMTT(30) DEF StreamOK
<1> QED
  BY <1>1, HashInRange DEF LZ4_hashPosition

\* What an entry stands for does not change during a call.
LEMMA EntrySame ==
    ASSUME UNCHANGED <<mem, call>>, ~maybe_extMem => lowLimit' = lowLimit, NEW h, NEW e, EntryOK(h, e)
    PROVE  EntryOK(h, e)'
<1>1. FromBefore(e)' => FromBefore(e)
  BY DEF FromBefore
<1>2. BeforeOK(e) => BeforeOK(e)'
  BY DEF BeforeOK, base, maybe_extMem
<1>3. LZ4_hashPosition(call.source + e, call.tableType)' = LZ4_hashPosition(call.source + e, call.tableType)
  BY DEF LZ4_hashPosition, HashIn
<1> QED
  BY <1>1, <1>2, <1>3 DEF EntryOK

\* A position that enters the table leaves every entry in its segment.
LEMMA PutPositionIs ==
    ASSUME StreamOK, CallOK, ModeOK, NEW table \in [HashValues -> Nat],
           NEW at \in Nat, call.source <= at, at < mflimitPlusOne
    PROVE  LET new == LZ4_putPosition(table, at)
           IN  /\ new \in [HashValues -> Nat]
               /\ \A h \in HashValues :
                     /\ new[h] = table[h] \/ new[h] <= at - base
                     /\ EntryOK(h, table[h]) => EntryOK(h, new[h])
                     /\ table[h] = 0 \/ table[h] + HASH_UNIT <= call.startIndex + call.size
                        => new[h] = 0 \/ new[h] + HASH_UNIT <= call.startIndex + call.size
<1> DEFINE index == at - base
           h0 == LZ4_hashPosition(at, call.tableType)
           e0 == PutIndex(index, call.tableType)
           new == LZ4_putPosition(table, at)
<1>0. /\ call.source \in Nat /\ call.startIndex \in Nat /\ base = call.source - call.startIndex
      /\ mflimitPlusOne = call.source + call.size - 11 /\ call.size \in Nat
      /\ call.tableType \in {"byU16", "byU32"}
  BY CallIs DEF CallOK
<1>1. index \in Nat /\ index >= call.startIndex /\ index + HASH_UNIT <= call.startIndex + call.size
  BY <1>0, Constants
<1>2. h0 \in HashValues
  BY <1>0, HashAt
<1>3. new = LZ4_putIndexOnHash(table, index, h0, call.tableType)
  BY DEF LZ4_putPosition
<1> HIDE DEF index, h0, new
<1>4. /\ new \in [HashValues -> Nat] /\ new[h0] = e0
      /\ \A g \in HashValues : g # h0 => new[g] = table[g]
      /\ e0 \in Nat /\ e0 <= index /\ (index < KB64 => e0 = index)
  BY <1>1, <1>2, <1>3, PutIs
<1>5. call.tableType = "byU32" => e0 = index
  BY DEF PutIndex
<1> HIDE DEF e0
<1>6. ~FromBefore(e0)
  <2>1. CASE call.tableType = "byU32"
    BY <1>0, <1>1, <1>5, <2>1 DEF FromBefore
  <2>2. CASE call.tableType = "byU16"
    <3>1. call.startIndex = 0 \/ (call.small /\ call.prefixIdxLimit = call.startIndex)
      BY <2>2 DEF ModeOK
    <3> QED
      BY <1>0, <1>4, <3>1 DEF FromBefore
  <2> QED
    BY <1>0, <2>1, <2>2
<1>7. call.directive = "fillOutput" => LZ4_hashPosition(call.source + e0, call.tableType) = h0
  <2>1. SUFFICES ASSUME call.directive = "fillOutput"
                 PROVE  LZ4_hashPosition(call.source + e0, call.tableType) = h0
    OBVIOUS
  <2>2. call.startIndex = 0 /\ (call.tableType = "byU16" => call.size < KB64 + 11)
    BY <2>1, Constants DEF ModeOK
  <2>3. call.source + index = at
    BY <1>0, <2>2 DEF index
  <2>4. e0 = index
    BY <1>0, <1>1, <1>4, <1>5, <2>2, <2>3, Constants
  <2> QED
    BY <2>3, <2>4 DEF h0
<1>8. EntryOK(h0, e0)
  BY <1>6, <1>7 DEF EntryOK
<1>9. ASSUME NEW h \in HashValues
      PROVE  /\ new[h] = table[h] \/ new[h] <= index
             /\ EntryOK(h, table[h]) => EntryOK(h, new[h])
             /\ table[h] = 0 \/ table[h] + HASH_UNIT <= call.startIndex + call.size
                => new[h] = 0 \/ new[h] + HASH_UNIT <= call.startIndex + call.size
  <2>1. CASE h = h0
    BY <1>0, <1>1, <1>4, <1>8, <2>1, Constants
  <2>2. CASE h # h0
    BY <1>4, <2>2
  <2> QED
    BY <2>1, <2>2
<1> QED
  BY <1>4, <1>9 DEF index, new

\* A candidate is read where it is, and four equal bytes can be copied.
LEMMA LookupIs ==
    ASSUME StreamOK, CallOK, ModeOK, lowLimit \in Int, NEW table \in [HashValues -> Nat],
           \A h \in HashValues : EntryOK(h, table[h]),
           NEW at \in Nat, call.source < at, at <= mflimitPlusOne,
           \A h \in HashValues : table[h] < call.startIndex \/ table[h] < at - base
    PROVE  LET found == Lookup(table, at)
           IN  /\ found.at \in Int /\ found.low \in Int /\ found.offset \in Int
               /\ found.stray = FALSE /\ found.hit \in BOOLEAN
               /\ ~maybe_extMem => found.low = lowLimit
               /\ found.hit =>
                     /\ \A i \in 0..3 : mem[at + i] = mem[found.at + i]
                     /\ IF maybe_extMem /\ found.low = call.dictionary
                        THEN found.at >= call.dictionary /\ found.at + MINMATCH <= call.dictEnd
                        ELSE /\ found.at >= found.low /\ found.at < at
                             /\ maybe_extMem => found.low = call.source
<1> DEFINE h == LZ4_hashPosition(at, call.tableType)
           e == table[h]
           c == Candidate(e, h)
           reached == InReach(c, at - base)
           found == Lookup(table, at)
           inDict == maybe_extMem /\ e < call.startIndex
<1>0. /\ call.source \in Nat /\ call.startIndex \in Nat /\ base = call.source - call.startIndex
      /\ call.dictionary \in Nat /\ call.dictEnd \in Nat /\ call.dictBase \in Int /\ call.dictDelta \in Int
      /\ call.prefixIdxLimit \in Int /\ call.tableType \in {"byU16", "byU32"}
      /\ base \in Int
  BY CallIs DEF CallOK
<1>1. h \in HashValues /\ e \in Nat
  BY <1>0, HashAt
<1>2. EntryOK(h, e) /\ (e < call.startIndex \/ e < at - base)
  BY <1>1
<1>3. found = [at |-> c.at, low |-> c.low, hit |-> reached /\ Same4(c.at, at),
               offset |-> at - base - c.index, stray |-> reached /\ ~InSegment(c, at)]
  BY Zenon DEF Lookup
<1>d. /\ Loaded(dict) /\ dict.hashTable[h] \in Nat
      /\ \/ dict.hashTable[h] = 0
         \/ dict.hashTable[h] >= KB64 - dict.dictSize /\ dict.hashTable[h] + HASH_UNIT <= KB64
      /\ dict.dictSize \in Nat /\ dict.dictionary \in Nat
  BY <1>1, Constants DEF StreamOK, Loaded, Contexts
<1> HIDE DEF h, e
<1> DEFINE fromDict == inDict /\ call.mode = "usingDictCtx"
<1>4. /\ fromDict => /\ c.index = dict.hashTable[h] + call.dictDelta
                     /\ c.at = call.dictBase + dict.hashTable[h] /\ c.low = call.dictionary
      /\ inDict /\ ~fromDict => c.index = e /\ c.at = call.dictBase + e /\ c.low = call.dictionary
      /\ ~inDict => c.index = e /\ c.at = base + e /\ c.low = (IF maybe_extMem THEN call.source ELSE lowLimit)
  BY DEF Candidate
<1>5. c.index \in Int /\ c.at \in Int /\ c.low \in Int
  <2> HIDE DEF c, inDict
  <2> QED
    BY <1>0, <1>1, <1>4, <1>d
<1>6. reached <=> /\ call.small => c.index >= call.prefixIdxLimit
                  /\ call.tableType # "byU16" => c.index + DISTANCE_MAX >= at - base
  BY DEF InReach
<1> HIDE DEF c, reached
\* The segment a candidate in reach lies in.
<1>7. ASSUME reached
      PROVE  IF maybe_extMem /\ c.low = call.dictionary
             THEN c.at >= call.dictionary /\ c.at + MINMATCH <= call.dictEnd
             ELSE c.at >= c.low /\ c.at < at /\ (maybe_extMem => c.low = call.source)
  <2>1. CASE fromDict
    <3>1. /\ call.tableType = "byU32" /\ call.dictionary = dict.dictionary
          /\ call.dictEnd = dict.dictionary + dict.dictSize
          /\ call.dictBase = call.dictEnd - KB64 /\ call.dictDelta = call.startIndex - KB64
      BY <2>1 DEF ModeOK
    <3>2. c.index + DISTANCE_MAX >= at - base
      BY <1>6, <1>7, <3>1
    <3>3. dict.hashTable[h] # 0
      BY <1>0, <1>4, <2>1, <3>1, <3>2, Constants
    <3>4. c.at >= call.dictionary /\ c.at + MINMATCH <= call.dictEnd
      BY <1>d, <1>4, <2>1, <3>1, <3>3, Constants
    <3> QED
      BY <1>4, <2>1, <3>4
  <2>2. CASE inDict /\ ~fromDict
    <3>1. call.mode = "usingExtDict"
      BY <2>2 DEF maybe_extMem
    <3>2. call.tableType = "byU32"
      BY <3>1 DEF ModeOK
    <3>3. FromBefore(e)
      BY <1>0, <1>1, <1>4, <1>6, <1>7, <2>2, <3>2, Constants DEF FromBefore
    <3>4. call.dictBase + e >= call.dictionary /\ call.dictBase + e + MINMATCH <= call.dictEnd
      BY <1>2, <3>1, <3>3 DEF EntryOK, BeforeOK
    <3> QED
      BY <1>4, <2>2, <3>4
  <2>3. CASE ~inDict /\ maybe_extMem
    <3>1. c.index = e /\ c.at = base + e /\ c.low = call.source
      BY <1>4, <2>3
    <3>2. e >= call.startIndex /\ e < at - base
      BY <1>0, <1>1, <1>2, <2>3
    <3>3. call.source # call.dictionary
      BY <2>3 DEF ModeOK
    <3> QED
      BY <1>0, <1>1, <2>3, <3>1, <3>2, <3>3
  <2>4. CASE ~maybe_extMem
    <3>1. c.index = e /\ c.at = base + e /\ c.low = lowLimit
      BY <1>4, <2>4
    <3>2. lowLimit <= call.source /\ call.mode # "usingExtDict" /\ call.mode # "usingDictCtx"
      BY <2>4 DEF ModeOK, maybe_extMem
    <3>3. base + e < at
      BY <1>0, <1>1, <1>2
    <3>4. base + e >= lowLimit
      <4>1. CASE e >= call.startIndex
        BY <1>0, <1>1, <3>2, <4>1
      <4>2. CASE e < call.startIndex
        <5>1. FromBefore(e)
          BY <1>0, <1>1, <1>6, <1>7, <3>1, <4>2, Constants DEF FromBefore
        <5> QED
          BY <1>2, <3>2, <5>1 DEF EntryOK, BeforeOK
      <4> QED
        BY <1>0, <1>1, <4>1, <4>2
    <3> QED
      BY <2>4, <3>1, <3>3, <3>4
  <2> QED
    BY <2>1, <2>2, <2>3, <2>4
<1>8. reached => InSegment(c, at)
  BY <1>7 DEF InSegment
<1> HIDE DEF found
<1>9. found.stray = FALSE
  BY <1>3, <1>8, Zenon
<1>10. found.at = c.at /\ found.low = c.low /\ found.offset = at - base - c.index
  BY <1>3
<1>11. found.hit = (reached /\ Same4(c.at, at))
  BY <1>3, Zenon
<1>12. found.hit \in BOOLEAN
  BY <1>11, Zenon DEF Same4
<1>13. ~maybe_extMem => c.low = lowLimit
  BY <1>4
<1>14. found.hit => \A i \in 0..3 : mem[at + i] = mem[found.at + i]
  <2>1. SUFFICES ASSUME found.hit PROVE \A i \in 0..3 : mem[at + i] = mem[found.at + i]
    OBVIOUS
  <2>2. Same4(c.at, at)
    BY <1>11, <2>1, Zenon
  <2> QED
    BY <1>10, <2>2 DEF Same4
<1>15. found.hit => reached
  BY <1>11, Zenon
<1>16. found.at \in Int /\ found.low \in Int /\ found.offset \in Int
  BY <1>0, <1>5, <1>10
<1> QED
  BY <1>7, <1>9, <1>10, <1>12, <1>13, <1>14, <1>15, <1>16 DEF found

\* The parameters of a call and its context do not change while it runs.
LEMMA StepKeeps ==
    ASSUME IInv, pc # "idle", UNCHANGED <<stream, call>>, pc' \in Locations, pc' # "idle",
           stray' = FALSE, result' \in Nat, forwardIp' \in Nat, step' \in Nat, searchMatchNb' \in Nat,
           ~maybe_extMem => lowLimit' = lowLimit,
           Leaves', EntriesOK', PositionsOK', SearchOK', FillOK'
    PROVE  IInv'
<1>1. UNCHANGED <<mem, dict, use, history, calls, call>> /\ InCall /\ StreamOK
  BY DEF stream, IInv
<1>2. StreamOK'
  BY <1>1 DEF StreamOK, Loaded
<1>3. CallOK'
  <2>1. Emit!Fits(call.size, call.olimit, call.directive)'
    BY <1>1, Zenon DEF InCall, CallOK
  <2> QED
    BY <1>1, <2>1 DEF InCall, CallOK
<1>4. ModeOK'
  <2>1. maybe_extMem' = maybe_extMem
    BY <1>1 DEF maybe_extMem
  <2>2. InMemory(call.dictionary, call.dictEnd - call.dictionary)'
        <=> InMemory(call.dictionary, call.dictEnd - call.dictionary)
    BY <1>1 DEF InMemory
  <2> QED
    BY <1>1, <2>1, <2>2 DEF InCall, ModeOK
<1> QED
  BY <1>1, <1>2, <1>3, <1>4 DEF IInv, InCall

LEMMA ContextSame ==
    ASSUME InCall, UNCHANGED <<mem, dict, use, call, ctx>>, ~maybe_extMem => lowLimit' = lowLimit
    PROVE  Leaves' /\ EntriesOK'
<1>1. Leaves'
  BY DEF InCall, Leaves, Placed
<1>2. Behind(ctx)'
  BY DEF InCall, EntriesOK, Behind
<1>3. ASSUME NEW h \in HashValues, NEW e, e = ctx.hashTable[h] PROVE EntryOK(h, e)'
  <2>1. EntryOK(h, e)
    BY <1>3 DEF InCall, EntriesOK
  <2> QED
    BY <2>1, EntrySame
<1>4. ASSUME NEW h \in HashValues PROVE EntryOK(h, ctx.hashTable[h])'
  <2>1. PICK e : e = ctx.hashTable[h]
    OBVIOUS
  <2>2. EntryOK(h, e)'
    BY <1>3, <2>1
  <2>3. e = ctx'.hashTable[h]
    BY <2>1
  <2> QED
    BY <2>2, <2>3 DEF EntryOK, FromBefore, BeforeOK
<1> QED
  BY <1>1, <1>2, <1>4 DEF EntriesOK

LEMMA TableKeeps ==
    ASSUME InCall, UNCHANGED <<mem, dict, use, call>>, ~maybe_extMem => lowLimit' = lowLimit,
           NEW table \in [HashValues -> Nat], ctx' = [ctx EXCEPT !.hashTable = table],
           \A h \in HashValues : EntryOK(h, table[h]),
           \A h \in HashValues : table[h] = 0 \/ table[h] + HASH_UNIT <= call.startIndex + call.size
    PROVE  Leaves' /\ EntriesOK' /\ ctx'.hashTable = table
<1>1. /\ ctx' \in Contexts /\ ctx'.hashTable = table /\ ctx'.currentOffset = ctx.currentOffset
      /\ ctx'.dictSize = ctx.dictSize /\ ctx'.dictionary = ctx.dictionary
  BY DEF InCall, Leaves, Contexts
<1>2. ctx'.dictCtx = ctx.dictCtx
  BY DEF InCall, Leaves, Contexts
<1>3. Leaves'
  BY <1>1, <1>2 DEF InCall, Leaves, Placed
<1>4. Behind(ctx)'
  BY <1>1 DEF InCall, Leaves, Behind
<1>5. ASSUME NEW h \in HashValues PROVE EntryOK(h, ctx.hashTable[h])'
  <2>1. PICK e : e = table[h]
    OBVIOUS
  <2>2. EntryOK(h, e)
    BY <2>1
  <2>3. EntryOK(h, e)'
    BY <2>2, EntrySame
  <2>4. e = ctx'.hashTable[h]
    BY <1>1, <2>1
  <2> QED
    BY <2>3, <2>4 DEF EntryOK, FromBefore, BeforeOK
<1> QED
  BY <1>1, <1>3, <1>4, <1>5 DEF EntriesOK

LEMMA SearchKeeps ==
    ASSUME IInv, Search PROVE IInv'
<1>1. /\ pc = "search" /\ UNCHANGED <<stream, call>> /\ UNCHANGED output
      /\ ip' = forwardIp /\ forwardIp' = forwardIp + step
      /\ step' = searchMatchNb \div SkipUnit /\ searchMatchNb' = searchMatchNb + 1
  BY DEF Search, Running
<1>2. /\ InCall /\ CallOK /\ ModeOK /\ StreamOK /\ PositionsOK /\ AtSearch /\ Leaves /\ FillOK /\ EntriesOK
      /\ stray = FALSE
      /\ forwardIp \in Nat /\ step \in Nat /\ searchMatchNb \in Nat
  BY <1>1 DEF IInv, InCall, SearchOK
<1>3. UNCHANGED <<mem, dict, use, history, calls, call, anchor, token, op, top, block, result>>
  BY <1>1 DEF stream, output
<1>4. /\ anchor <= ip /\ ip <= forwardIp /\ call.source < forwardIp /\ forwardIp <= mflimitPlusOne
      /\ step >= 1 /\ searchMatchNb >= SkipUnit /\ EnteredBefore(forwardIp)
  BY <1>1, <1>2 DEF AtSearch
<1>5. /\ call.source \in Nat /\ call.startIndex \in Nat /\ call.size \in Nat
      /\ mflimitPlusOne = call.source + call.size - 11
      /\ base = call.source - call.startIndex
  BY <1>2, CallIs
<1>6. iend' = iend /\ mflimitPlusOne' = mflimitPlusOne /\ base' = base
  BY <1>3 DEF iend, mflimitPlusOne, base
<1>7. /\ ip \in Nat /\ anchor \in Nat /\ anchor <= iend /\ call.source <= anchor /\ call.source <= filledIp
      /\ match \in Int /\ lowLimit \in Int /\ offset \in Int /\ filledIp \in Nat
      /\ token \in Nat /\ op \in Nat /\ top \in Nat /\ result \in Nat
  BY <1>2 DEF PositionsOK
<1>8. step' \in Nat /\ step' >= 1 /\ searchMatchNb' \in Nat /\ searchMatchNb' >= SkipUnit /\ forwardIp' \in Nat
      /\ ip' \in Nat
  <2>1. searchMatchNb \div SkipUnit \in Nat /\ searchMatchNb \div SkipUnit >= 1
    BY <1>2, <1>4, Constants
  <2> QED
    BY <1>1, <1>2, <1>4, <2>1, Constants
<1>9. CASE forwardIp + step > mflimitPlusOne
  <2>1. pc' = "last" /\ UNCHANGED <<ctx, match, lowLimit, offset, filledIp, stray>>
    BY <1>9 DEF Search
  <2>2. PositionsOK'
    BY <1>3, <1>6, <1>7, <1>8, <2>1 DEF PositionsOK
  <2>3. Leaves' /\ EntriesOK'
    BY <1>2, <1>3, <2>1, ContextSame
  <2>4. SearchOK'
    BY <2>1 DEF SearchOK, AtSearch, AtFound, AtMatch, AtNext
  <2>5. FillOK'
    BY <1>1, <1>2, <1>3, <2>1 DEF FillOK
  <2>6. pc' \in Locations /\ pc' # "idle" /\ pc # "idle" /\ stray' = FALSE /\ result' \in Nat
    BY <1>1, <1>2, <1>3, <1>7, <2>1 DEF Locations
  <2> QED
    BY <1>1, <1>8, <2>1, <2>2, <2>3, <2>4, <2>5, <2>6, StepKeeps
<1>10. CASE ~(forwardIp + step > mflimitPlusOne)
  <2> DEFINE found == Lookup(ctx.hashTable, forwardIp)
             table == LZ4_putPosition(ctx.hashTable, forwardIp)
  <2>1. /\ ctx' = [ctx EXCEPT !.hashTable = table]
        /\ stray' = (stray \/ found.stray)
        /\ match' = found.at /\ lowLimit' = found.low
        /\ offset' = (IF found.hit /\ maybe_extMem THEN found.offset ELSE offset)
        /\ filledIp' = (IF found.hit THEN forwardIp ELSE filledIp)
        /\ pc' = (IF found.hit THEN "found" ELSE "search")
    BY <1>10 DEF Search
  <2>2. ctx.hashTable \in [HashValues -> Nat] /\ ctx.currentOffset = call.startIndex + call.size
    BY <1>2 DEF Leaves, Contexts
  <2>3. \A h \in HashValues : EntryOK(h, ctx.hashTable[h])
    BY <1>2 DEF EntriesOK
  <2>4. \A h \in HashValues : ctx.hashTable[h] < call.startIndex \/ ctx.hashTable[h] < forwardIp - base
    BY <1>4 DEF EnteredBefore
  <2>5. /\ found.at \in Int /\ found.low \in Int /\ found.offset \in Int
        /\ found.stray = FALSE /\ found.hit \in BOOLEAN
        /\ ~maybe_extMem => found.low = lowLimit
        /\ found.hit =>
              /\ \A i \in 0..3 : mem[forwardIp + i] = mem[found.at + i]
              /\ IF maybe_extMem /\ found.low = call.dictionary
                 THEN found.at >= call.dictionary /\ found.at + MINMATCH <= call.dictEnd
                 ELSE /\ found.at >= found.low /\ found.at < forwardIp
                      /\ maybe_extMem => found.low = call.source
    BY <1>2, <1>4, <1>7, <2>2, <2>3, <2>4, LookupIs
  <2>6. forwardIp < mflimitPlusOne /\ forwardIp' <= mflimitPlusOne
    BY <1>1, <1>2, <1>4, <1>5, <1>10
  <2>7. /\ table \in [HashValues -> Nat]
        /\ \A h \in HashValues :
              /\ table[h] = ctx.hashTable[h] \/ table[h] <= forwardIp - base
              /\ EntryOK(h, table[h])
              /\ table[h] = 0 \/ table[h] + HASH_UNIT <= call.startIndex + call.size
    <3>1. \A h \in HashValues : ctx.hashTable[h] = 0 \/ ctx.hashTable[h] + HASH_UNIT <= call.startIndex + call.size
      BY <1>2, <2>2 DEF EntriesOK, Behind
    <3> QED
      <4>1. call.source <= forwardIp
        BY <1>2, <1>4, <1>5
      <4>2. /\ table \in [HashValues -> Nat]
            /\ \A h \in HashValues :
                 /\ table[h] = ctx.hashTable[h] \/ table[h] <= forwardIp - base
                 /\ EntryOK(h, ctx.hashTable[h]) => EntryOK(h, table[h])
                 /\ ctx.hashTable[h] = 0 \/ ctx.hashTable[h] + HASH_UNIT <= call.startIndex + call.size
                    => table[h] = 0 \/ table[h] + HASH_UNIT <= call.startIndex + call.size
        BY <1>2, <2>2, <2>6, <4>1, PutPositionIs
      <4> HIDE DEF table
      <4> QED
        BY <2>3, <3>1, <4>2
  <2> HIDE DEF found, table
  <2>8. Leaves' /\ EntriesOK' /\ ctx'.hashTable = table
    BY <1>2, <1>3, <2>1, <2>5, <2>7, TableKeeps
  <2>9. \A h \in HashValues : table[h] < call.startIndex \/ table[h] <= forwardIp - base
    <3> SUFFICES ASSUME NEW h \in HashValues PROVE table[h] < call.startIndex \/ table[h] <= forwardIp - base
      OBVIOUS
    <3>1. table[h] \in Nat /\ ctx.hashTable[h] \in Nat /\ (table[h] = ctx.hashTable[h] \/ table[h] <= forwardIp - base)
      BY <2>2, <2>7
    <3>2. ctx.hashTable[h] < call.startIndex \/ ctx.hashTable[h] < forwardIp - base
      BY <2>4
    <3> QED
      BY <1>2, <1>5, <3>1, <3>2
  <2>10. PositionsOK'
    <3>1. offset' \in Int /\ filledIp' \in Nat /\ call.source <= filledIp' /\ match' \in Int /\ lowLimit' \in Int
      BY <1>2, <1>4, <1>5, <1>7, <2>1, <2>5
    <3> QED
      BY <1>3, <1>6, <1>7, <1>8, <3>1 DEF PositionsOK
  <2>11. FillOK'
    BY <1>1, <1>2, <1>3, <2>1 DEF FillOK
  <2>12. pc' \in Locations /\ pc' # "idle" /\ pc # "idle" /\ stray' = FALSE /\ result' \in Nat
    BY <1>1, <1>2, <1>3, <1>7, <2>1, <2>5 DEF Locations
  <2>13. SearchOK'
    <3>1. CASE found.hit
      <4>1. pc' = "found" /\ filledIp' = forwardIp /\ ip' = forwardIp
        BY <1>1, <2>1, <3>1
      <4>2. EnteredUpTo(ip)'
        <5> SUFFICES ASSUME NEW h \in HashValues
                     PROVE  table[h] < call.startIndex \/ table[h] <= ip' - base
          BY <1>3, <1>6, <2>8 DEF EnteredUpTo
        <5> QED
          BY <2>9, <4>1
      <4>3. CanCopy(ip)'
        <5>0. ip' - ip' = 0 /\ match' + 0 + MINMATCH = match' + MINMATCH /\ 0 + MINMATCH - 1 = 3
          BY <1>2, <2>1, <2>5, <4>1, Constants
        <5>1. \A i \in 0..(ip' - ip' + MINMATCH - 1) : mem'[ip' + i] = mem'[match' + i]
          BY <1>3, <2>1, <2>5, <3>1, <4>1, <5>0
        <5>2. InDict' <=> maybe_extMem /\ found.low = call.dictionary
          BY <1>3, <2>1 DEF InDict, maybe_extMem
        <5>3. maybe_extMem' = maybe_extMem
          BY <1>3 DEF maybe_extMem
        <5> QED
          BY <1>3, <2>1, <2>5, <3>1, <4>1, <5>0, <5>1, <5>2, <5>3 DEF CanCopy
      <4> QED
        BY <1>3, <1>2, <1>4, <1>6, <1>7, <2>6, <4>1, <4>2, <4>3 DEF SearchOK, AtSearch, AtFound, AtMatch, AtNext
    <3>2. CASE ~found.hit
      <4>1. pc' = "search"
        BY <2>1, <3>2
      <4>2. EnteredBefore(forwardIp)'
        <5> SUFFICES ASSUME NEW h \in HashValues
                     PROVE  table[h] < call.startIndex \/ table[h] < forwardIp' - base
          BY <1>3, <1>6, <2>8 DEF EnteredBefore
        <5>1. table[h] \in Nat /\ (table[h] < call.startIndex \/ table[h] <= forwardIp - base)
          BY <2>7, <2>9
        <5> QED
          BY <1>1, <1>2, <1>4, <1>5, <5>1
      <4>3. anchor' <= ip' /\ ip' <= forwardIp' /\ call'.source < forwardIp' /\ forwardIp' <= mflimitPlusOne'
        BY <1>1, <1>2, <1>3, <1>4, <1>5, <1>6, <1>7, <2>6
      <4> QED
        BY <1>8, <4>1, <4>2, <4>3 DEF SearchOK, AtSearch, AtFound, AtMatch, AtNext
    <3> QED
      BY <2>5, <3>1, <3>2
  <2> QED
    BY <1>1, <1>8, <2>1, <2>5, <2>8, <2>10, <2>11, <2>12, <2>13, StepKeeps
<1> QED
  BY <1>9, <1>10

-----------------------------------------------------------------------------
(* The output of a call *)

LEMMA LengthBytesIs ==
    ASSUME NEW a \in Nat
    PROVE  LengthBytes(a, 15) \in Nat /\ LengthBytes(a, 15) = (a + 240) \div 255
BY DEF LengthBytes

LEMMA Masks == RUN_MASK = 15 /\ ML_MASK = 15 /\ LASTLITERALS = 5 /\ MINMATCH = 4 /\ MFLIMIT = 12
BY DEF RUN_MASK, ML_MASK, LASTLITERALS, MINMATCH, MFLIMIT

LEMMA HigherIs ==
    ASSUME NEW a \in Nat, NEW b \in Nat
    PROVE  Higher(a, b) \in Nat
BY DEF Higher

LEMMA LiteralsCost ==
    ASSUME NEW o \in Nat, NEW lit \in Nat
    PROVE  /\ AfterLiterals(o, lit) = o + 1 + (lit + 240) \div 255 + lit
           /\ AfterLiterals(o, lit) \in Nat /\ AfterLiterals(o, lit) > o
           /\ TopOfLiterals(o, lit) \in Nat
           /\ AfterLast(o, lit) = AfterLiterals(o, lit) /\ AfterLast(o, lit) \in Nat
<1> DEFINE lb == LengthBytes(lit, 15)
<1>1. lb \in Nat /\ lb = (lit + 240) \div 255
  BY LengthBytesIs
<1>2. AfterLiterals(o, lit) = o + 1 + lb + lit /\ AfterLast(o, lit) = o + 1 + lb + lit
      /\ TopOfLiterals(o, lit) = WildEnd(o + 1 + lb, lit)
  BY Masks DEF AfterLiterals, AfterLast, TopOfLiterals
<1> HIDE DEF lb
<1>3. ASSUME NEW d \in Nat PROVE WildEnd(d, lit) \in Nat
  BY DEF WildEnd
<1>4. o + 1 + lb \in Nat
  BY <1>1
<1> QED
  BY <1>1, <1>2, <1>3, <1>4

LEMMA MatchCost ==
    ASSUME NEW o \in Nat, NEW code \in Nat
    PROVE  /\ AfterMatch(o, code) = o + (code + 240) \div 255
           /\ AfterMatch(o, code) \in Nat /\ AfterMatch(o, code) >= o
           /\ TopOfMatch(o, code) \in Nat
<1>1. AfterMatch(o, code) = o + LengthBytes(code, 15)
  BY Masks DEF AfterMatch
<1>2. TopOfMatch(o, code) \in Nat
  BY Masks DEF TopOfMatch
<1> QED
  BY <1>1, <1>2, LengthBytesIs

\* A call that fills the output shortens the match to what the rest of it holds.
LEMMA ReducedIs ==
    ASSUME NEW o \in Nat, NEW a \in Nat, NEW r \in Nat, o + 6 <= r, MatchOverflow(o, a, r)
    PROVE  /\ ReducedMatchCode(o, r) \in Nat /\ ReducedMatchCode(o, r) < a
           /\ AfterMatch(o, ReducedMatchCode(o, r)) + 6 <= r
<1>1. ReducedMatchCode(o, r) = 14 + (r - o - 6) * 255
  BY DEF ReducedMatchCode, LASTLITERALS
<1>2. (a + 240) \div 255 > r - o - 6
  BY DEF MatchOverflow, LASTLITERALS
<1>3. ReducedMatchCode(o, r) \in Nat /\ ReducedMatchCode(o, r) < a
  BY <1>1, <1>2
<1>4. (ReducedMatchCode(o, r) + 240) \div 255 <= r - o - 6
  BY <1>1
<1> DEFINE c == ReducedMatchCode(o, r)
<1> HIDE DEF c
<1>5. c \in Nat /\ (c + 240) \div 255 <= r - o - 6
  BY <1>3, <1>4 DEF c
<1>6. AfterMatch(o, c) = o + (c + 240) \div 255
  BY <1>5, MatchCost
<1> QED
  BY <1>3, <1>5, <1>6 DEF c

\* Its last literals fit, and are no more than the source holds.
LEMMA FilledIs ==
    ASSUME NEW o \in Nat, NEW a \in Nat, NEW r \in Nat, o + 1 <= r, LastOverflow(o, a, r)
    PROVE  FilledLastRun(o, r) \in Nat /\ FilledLastRun(o, r) <= a
<1> DEFINE room == r - o - 1
           f    == room - (room + 241) \div 256
<1>1. room \in Nat /\ f \in Nat /\ FilledLastRun(o, r) = f
  BY DEF FilledLastRun, RUN_MASK
<1>2. a + (a + 240) \div 255 > room
  BY DEF LastOverflow, RUN_MASK
<1>3. f + (f + 240) \div 255 <= room
  BY <1>1
<1> HIDE DEF f, room
<1>4. f <= a
  <2>1. SUFFICES ASSUME a + 1 <= f PROVE FALSE
    BY <1>1
  <2>2. (a + 240) \div 255 <= (f + 240) \div 255
    BY <1>1, <2>1
  <2> QED
    BY <1>1, <1>2, <1>3, <2>1, <2>2
<1> QED
  BY <1>1, <1>4

\* A call that fills the output starts with room for a byte.
LEMMA FillRoom ==
    ASSUME InCall, call.directive = "fillOutput", pc \in {"search", "found", "next", "last", "full"}
    PROVE  op + 1 <= call.olimit /\ call.olimit \in Nat
<1>1. call.olimit \in Nat
  BY FastAssumption DEF InCall, CallOK
<1>2. call.olimit >= 1
  BY <1>1 DEF InCall, CallOK, Emit!Fits
<1>3. op \in Nat /\ call.source \in Nat /\ anchor \in Nat /\ call.source <= anchor
  BY CallIs DEF InCall, PositionsOK
<1>4. pc = "full" => op + 1 <= call.olimit
  BY DEF InCall, FillOK
<1>5. pc # "full" => (anchor = call.source => op = 0) /\ (anchor > call.source => op + 6 <= call.olimit)
  BY <1>1, <1>3, Masks DEF InCall, FillOK
<1> QED
  BY <1>1, <1>2, <1>3, <1>4, <1>5

LEMMA EncodeLiteralsKeeps ==
    ASSUME IInv, EncodeLiterals PROVE IInv'
<1> DEFINE back == Backwards
           lit == ip - back - anchor
<1>1. /\ pc = "found" /\ UNCHANGED <<stream, call>>
      /\ UNCHANGED <<ctx, forwardIp, step, searchMatchNb, lowLimit, offset, filledIp, anchor, block, stray>>
      /\ ip' = ip - back /\ match' = match - back
      /\ \/ pc' = "done" /\ result' = 0 /\ UNCHANGED <<token, op, top>>
         \/ /\ token' = op /\ UNCHANGED result
            /\ call.directive = "fillOutput" /\ pc' = "full" /\ UNCHANGED <<op, top>>
         \/ /\ token' = op /\ UNCHANGED result
            /\ ~(call.directive = "fillOutput" /\ LiteralsFill(op, lit, call.olimit))
            /\ op' = AfterLiterals(op, lit)
            /\ top' = Higher(top, TopOfLiterals(op, lit)) /\ pc' = "match"
  BY DEF EncodeLiterals, Running
<1>2. /\ InCall /\ CallOK /\ ModeOK /\ StreamOK /\ PositionsOK /\ AtFound /\ Leaves /\ FillOK /\ EntriesOK
      /\ stray = FALSE
      /\ forwardIp \in Nat /\ step \in Nat /\ searchMatchNb \in Nat /\ pc # "idle"
  BY <1>1 DEF IInv, InCall, SearchOK
<1>3. UNCHANGED <<mem, dict, use, history, calls, call>>
  BY <1>1 DEF stream
<1>4. /\ call.source < ip /\ anchor <= ip /\ ip < mflimitPlusOne
      /\ filledIp = ip /\ EnteredUpTo(ip) /\ CanCopy(ip)
  BY <1>1, <1>2 DEF AtFound
<1>5. /\ call.source \in Nat /\ call.startIndex \in Nat /\ call.size \in Nat
      /\ mflimitPlusOne = call.source + call.size - 11
      /\ base = call.source - call.startIndex /\ call.dictionary \in Nat /\ call.dictEnd \in Nat
  BY <1>2, CallIs
<1>6. iend' = iend /\ mflimitPlusOne' = mflimitPlusOne /\ base' = base /\ maybe_extMem' = maybe_extMem
  BY <1>3 DEF iend, mflimitPlusOne, base, maybe_extMem
<1>7. /\ ip \in Nat /\ anchor \in Nat /\ anchor <= iend /\ call.source <= anchor /\ call.source <= filledIp
      /\ match \in Int /\ lowLimit \in Int /\ offset \in Int /\ filledIp \in Nat
      /\ token \in Nat /\ op \in Nat /\ top \in Nat /\ result \in Nat
  BY <1>2 DEF PositionsOK
<1>8. /\ \A i \in 0..3 : mem[ip + i] = mem[match + i]
      /\ IF InDict
         THEN match >= call.dictionary /\ match + MINMATCH <= call.dictEnd
         ELSE match >= lowLimit /\ match < ip /\ (maybe_extMem => lowLimit = call.source)
      /\ InDict => lowLimit = call.dictionary
  <2>1. ip - ip + MINMATCH - 1 = 3 /\ match + (ip - ip) + MINMATCH = match + MINMATCH
    BY <1>7, Constants
  <2> QED
    BY <1>4, <2>1 DEF CanCopy, InDict
<1>9. lowLimit <= match
  BY <1>5, <1>7, <1>8
<1>10. /\ back \in Nat /\ anchor <= ip - back /\ lowLimit <= match - back
       /\ \A i \in 1..back : mem[ip - i] = mem[match - i]
  BY <1>4, <1>7, <1>9, BackwardsIs
<1> HIDE DEF back
<1>11. lit \in Nat /\ ip' \in Nat /\ match' \in Int /\ anchor <= ip' /\ ip' <= ip
  BY <1>1, <1>7, <1>10
<1> HIDE DEF lit
<1>12. /\ AfterLiterals(op, lit) = op + 1 + (lit + 240) \div 255 + lit
       /\ AfterLiterals(op, lit) \in Nat /\ AfterLiterals(op, lit) > op
       /\ TopOfLiterals(op, lit) \in Nat /\ Higher(top, TopOfLiterals(op, lit)) \in Nat
  <2>1. op \in Nat /\ top \in Nat
    BY <1>7
  <2>2. /\ AfterLiterals(op, lit) = op + 1 + (lit + 240) \div 255 + lit
        /\ AfterLiterals(op, lit) \in Nat /\ AfterLiterals(op, lit) > op
        /\ TopOfLiterals(op, lit) \in Nat
    <3> lit \in Nat
      BY <1>11
    <3> QED
      BY <2>1, LiteralsCost, ZenonT(30)
  <2> QED
    BY <2>1, <2>2, HigherIs, Zenon
<1>13. Leaves' /\ EntriesOK'
  BY <1>1, <1>2, <1>3, ContextSame
<1>14. PositionsOK'
  <2>1. token' \in Nat /\ op' \in Nat /\ top' \in Nat /\ result' \in Nat
    BY <1>1, <1>7, <1>12
  <2> QED
    BY <1>1, <1>3, <1>6, <1>7, <1>11, <2>1 DEF PositionsOK
<1>15. FillOK'
  <2>1. SUFFICES ASSUME call.directive = "fillOutput" PROVE FillOK'
    BY <1>3 DEF FillOK
  <2>2. op + 1 <= call.olimit /\ call.olimit \in Nat
    BY <1>1, <1>2, <2>1, FillRoom
  <2>3. pc' = "full" => op' = op
    BY <1>1
  <2>4. pc' = "match" => token' = op /\ op' = AfterLiterals(op, lit) /\ ~LiteralsFill(op, lit, call.olimit)
    BY <1>1, <2>1
  <2>5. ~LiteralsFill(op, lit, call.olimit) => AfterLiterals(op, lit) <= call.olimit
    BY <1>7, <1>11, <1>12, <2>2, Masks DEF LiteralsFill
  <2>6. pc' \in {"done", "full", "match"}
    BY <1>1
  <2> QED
    BY <1>3, <1>12, <2>2, <2>3, <2>4, <2>5, <2>6 DEF FillOK
<1>16. SearchOK'
  <2>1. CASE pc' = "match"
    <3>1. EnteredUpTo(filledIp)'
      BY <1>1, <1>3, <1>4, <1>6 DEF EnteredUpTo
    <3>2. CanCopy(filledIp)'
      <4>1. InDict' = InDict
        BY <1>1, <1>3, <1>6 DEF InDict
      <4>2. filledIp' - ip' = back /\ filledIp' - ip' + MINMATCH - 1 = back + 3
            /\ match' + (filledIp' - ip') + MINMATCH = match + MINMATCH
        BY <1>1, <1>4, <1>7, <1>10, Constants
      <4>3. ASSUME NEW i \in 0..(back + 3) PROVE mem[ip' + i] = mem[match' + i]
        <5>1. CASE i < back
          <6>1. back - i \in 1..back /\ ip' + i = ip - (back - i) /\ match' + i = match - (back - i)
            BY <1>1, <1>7, <1>10, <5>1
          <6> QED
            BY <1>10, <6>1
        <5>2. CASE i >= back
          <6>1. i - back \in 0..3 /\ ip' + i = ip + (i - back) /\ match' + i = match + (i - back)
            BY <1>1, <1>7, <1>10, <5>2
          <6> QED
            BY <1>8, <6>1
        <5> QED
          BY <1>10, <5>1, <5>2
      <4>4. InDict => match' >= call.dictionary /\ match' + (filledIp' - ip') + MINMATCH <= call.dictEnd
        BY <1>1, <1>8, <1>10, <4>2
      <4>5. ~InDict => match' >= lowLimit /\ match' < ip' /\ (maybe_extMem => lowLimit = call.source)
        BY <1>1, <1>7, <1>8, <1>10
      <4> QED
        BY <1>1, <1>3, <1>6, <4>1, <4>2, <4>3, <4>4, <4>5 DEF CanCopy
    <3>3. ip' <= filledIp' /\ call'.source < filledIp' /\ ip' < mflimitPlusOne' /\ filledIp' < mflimitPlusOne'
          /\ anchor' <= ip'
      BY <1>1, <1>2, <1>3, <1>4, <1>5, <1>6, <1>7, <1>11
    <3>4. AtMatch'
      BY <3>1, <3>2, <3>3, Zenon DEF AtMatch
    <3> QED
      BY <2>1, <3>4 DEF SearchOK, AtSearch, AtFound, AtNext
  <2>2. CASE pc' # "match"
    BY <1>1, <2>2 DEF SearchOK, AtSearch, AtFound, AtMatch, AtNext
  <2> QED
    BY <2>1, <2>2
<1>17. pc' \in Locations /\ pc' # "idle" /\ stray' = FALSE /\ result' \in Nat
       /\ forwardIp' \in Nat /\ step' \in Nat /\ searchMatchNb' \in Nat /\ lowLimit' = lowLimit
  BY <1>1, <1>2, <1>7 DEF Locations
<1> QED
  BY <1>1, <1>2, <1>13, <1>14, <1>15, <1>16, <1>17, StepKeeps

\* The match is at least as long as the bytes known to be equal, and leaves the
\* last literals.
LEMMA MatchCodeIs ==
    ASSUME CallOK, PositionsOK, NEW last \in Nat, ip <= last, last < mflimitPlusOne, CanCopy(last)
    PROVE  /\ MatchCode \in Nat /\ ip + MINMATCH + MatchCode <= matchlimit
           /\ last <= ip + MatchCode
<1> DEFINE limit == Min({ip + (call.dictEnd - match), matchlimit})
           first == LZ4_count(ip + MINMATCH, match + MINMATCH, limit)
           second == LZ4_count(limit, call.source, matchlimit)
           plain == LZ4_count(ip + MINMATCH, match + MINMATCH, matchlimit)
<1>1. /\ call.source \in Nat /\ mflimitPlusOne = call.source + call.size - 11 /\ call.size \in Nat
      /\ matchlimit = call.source + call.size - 5 /\ matchlimit \in Int /\ call.dictEnd \in Nat
      /\ ip \in Nat /\ match \in Int
  BY CallIs DEF PositionsOK
<1>2. ip + MINMATCH \in Int /\ match + MINMATCH \in Int /\ last + MINMATCH <= matchlimit
      /\ ip + MINMATCH <= matchlimit
  BY <1>1, Constants
<1>3. \A i \in 0..(last - ip + MINMATCH - 1) : mem[ip + i] = mem[match + i]
  BY DEF CanCopy
\* A count up to a limit that is not before the bytes known to be equal.
<1>4. ASSUME NEW k \in Nat, NEW at \in Int, last + MINMATCH <= at,
             ip + MINMATCH + k = at \/ mem[ip + MINMATCH + k] # mem[match + MINMATCH + k]
      PROVE  last <= ip + k
  <2>1. SUFFICES ASSUME ip + k < last PROVE FALSE
    BY <1>1
  <2>2. MINMATCH + k \in 0..(last - ip + MINMATCH - 1)
    BY <1>1, <2>1, Constants
  <2>3. mem[ip + (MINMATCH + k)] = mem[match + (MINMATCH + k)]
    BY <1>3, <2>2
  <2>4. ip + (MINMATCH + k) = ip + MINMATCH + k /\ match + (MINMATCH + k) = match + MINMATCH + k
    BY <1>1, Constants
  <2> QED
    BY <1>1, <1>4, <2>1, <2>3, <2>4, Constants
<1>5. CASE ~InDict
  <2>1. MatchCode = plain
    BY <1>5 DEF MatchCode, InDict
  <2>2. /\ plain \in Nat /\ ip + MINMATCH + plain <= matchlimit
        /\ ip + MINMATCH + plain = matchlimit \/ mem[ip + MINMATCH + plain] # mem[match + MINMATCH + plain]
    <3>1. ip + MINMATCH \in Int /\ match + MINMATCH \in Int /\ matchlimit \in Int /\ ip + MINMATCH <= matchlimit
      BY <1>1, <1>2
    <3> QED
      BY <3>1, CountIs, ZenonT(30)
  <2> HIDE DEF plain
  <2>3. last <= ip + plain
    BY <1>1, <1>2, <1>4, <2>2
  <2> QED
    BY <2>1, <2>2, <2>3
<1>6. CASE InDict
  <2>1. match + (last - ip) + MINMATCH <= call.dictEnd
    BY <1>6 DEF CanCopy
  <2>2. ip + (call.dictEnd - match) \in Int /\ last + MINMATCH <= ip + (call.dictEnd - match)
    BY <1>1, <2>1, Constants
  <2>3. limit \in Int /\ limit <= matchlimit /\ last + MINMATCH <= limit
    <3>1. limit = IF ip + (call.dictEnd - match) <= matchlimit THEN ip + (call.dictEnd - match) ELSE matchlimit
      BY <1>1, <2>2, MinTwo
    <3> QED
      BY <1>1, <1>2, <2>2, <3>1
  <2>4. MatchCode = IF ip + MINMATCH + first = limit THEN first + second ELSE first
    BY <1>6 DEF MatchCode, InDict
  <2> HIDE DEF limit
  <2>5. /\ first \in Nat /\ ip + MINMATCH + first <= limit
        /\ ip + MINMATCH + first = limit \/ mem[ip + MINMATCH + first] # mem[match + MINMATCH + first]
    <3>1. ip + MINMATCH <= limit
      BY <1>1, <2>3, Constants
    <3>2. ip + MINMATCH \in Int /\ match + MINMATCH \in Int /\ limit \in Int
      BY <1>2, <2>3
    <3> QED
      BY <3>1, <3>2, CountIs, ZenonT(30)
  <2>6. second \in Nat /\ limit + second <= matchlimit
    <3>1. call.source \in Int /\ matchlimit \in Int /\ limit \in Int /\ limit <= matchlimit
      BY <1>1, <2>3
    <3> QED
      BY <3>1, CountIs, Zenon
  <2> HIDE DEF first, second
  <2>7. last <= ip + first
    BY <1>4, <2>3, <2>5
  <2>8. CASE ip + MINMATCH + first = limit
    <3>1. MatchCode = first + second
      BY <2>4, <2>8
    <3> QED
      BY <1>1, <2>5, <2>6, <2>7, <2>8, <3>1, Constants
  <2>9. CASE ip + MINMATCH + first # limit
    <3>1. MatchCode = first
      BY <2>4, <2>9
    <3> QED
      BY <1>1, <2>3, <2>5, <2>7, <3>1, Constants
  <2> QED
    BY <2>8, <2>9
<1> QED
  BY <1>5, <1>6

\* Entries for positions behind the end of a match that was shortened are
\* removed: they would lie behind the position that looks them up.
LEMMA EncodeMatchKeeps ==
    ASSUME IInv, EncodeMatch PROVE IInv'
<1> DEFINE matchCode == MatchCode
           oo   == op + 2
           full == call.directive # "notLimited" /\ MatchOverflow(oo, matchCode, call.olimit)
           code == IF full THEN ReducedMatchCode(oo, call.olimit) ELSE matchCode
           end  == ip + MINMATCH + code
           beyond == IF full /\ end <= filledIp THEN end..filledIp ELSE {}
           hs == {LZ4_hashPosition(a, call.tableType) : a \in beyond}
           Fills == call.directive = "fillOutput" /\ OffsetFills(op, call.olimit)
           Gives == full /\ call.directive = "limitedOutput"
<1>1. /\ pc = "match" /\ UNCHANGED <<stream, call>>
      /\ UNCHANGED <<forwardIp, step, searchMatchNb, match, lowLimit, offset, filledIp, token, stray>>
      /\ \/ /\ Fills /\ op' = token /\ pc' = "full" /\ UNCHANGED <<ctx, ip, anchor, top, block, result>>
         \/ /\ Gives /\ pc' = "done" /\ result' = 0 /\ UNCHANGED <<ctx, ip, anchor, op, top, block>>
         \/ /\ ~Fills /\ ~Gives
            /\ op' = AfterMatch(oo, code)
            /\ top' = Higher(top, Higher(op', TopOfMatch(oo, code)))
            /\ ip' = end /\ anchor' = end
            /\ ctx' = [ctx EXCEPT !.hashTable = LZ4_clearHash(ctx.hashTable, hs)]
            /\ pc' = IF end >= mflimitPlusOne THEN "last" ELSE "next"
            /\ UNCHANGED result
  BY DEF EncodeMatch, Running
<1>2. /\ InCall /\ CallOK /\ ModeOK /\ StreamOK /\ PositionsOK /\ AtMatch /\ Leaves /\ FillOK /\ EntriesOK
      /\ stray = FALSE
      /\ forwardIp \in Nat /\ step \in Nat /\ searchMatchNb \in Nat /\ pc # "idle"
  BY <1>1 DEF IInv, InCall, SearchOK
<1>3. UNCHANGED <<mem, dict, use, history, calls, call>>
  BY <1>1 DEF stream
<1>4. PICK last \in {ip, filledIp} : /\ ip <= last /\ call.source < last
                                     /\ EnteredUpTo(last) /\ CanCopy(last)
  BY <1>1, <1>2 DEF AtMatch
<1>5. anchor <= ip /\ ip < mflimitPlusOne /\ filledIp < mflimitPlusOne /\ last < mflimitPlusOne
  BY <1>1, <1>2, <1>4 DEF AtMatch
<1>6. /\ call.source \in Nat /\ call.startIndex \in Nat /\ call.size \in Nat
      /\ mflimitPlusOne = call.source + call.size - 11 /\ matchlimit = call.source + call.size - 5
      /\ base = call.source - call.startIndex /\ iend = call.source + call.size
      /\ call.directive \in {"notLimited", "limitedOutput", "fillOutput"}
  BY <1>2, CallIs DEF CallOK
<1>7. iend' = iend /\ mflimitPlusOne' = mflimitPlusOne /\ base' = base
  BY <1>3 DEF iend, mflimitPlusOne, base
<1>8. /\ ip \in Nat /\ anchor \in Nat /\ anchor <= iend /\ call.source <= anchor /\ call.source <= filledIp
      /\ match \in Int /\ lowLimit \in Int /\ offset \in Int /\ filledIp \in Nat
      /\ token \in Nat /\ op \in Nat /\ top \in Nat /\ result \in Nat
  BY <1>2 DEF PositionsOK
<1>o. call.olimit \in Nat
  BY <1>2, FastAssumption DEF CallOK
<1>9. matchCode \in Nat /\ ip + MINMATCH + matchCode <= matchlimit /\ last <= ip + matchCode
  BY <1>2, <1>4, <1>5, <1>8, MatchCodeIs
<1>10. pc' \in Locations /\ pc' # "idle" /\ stray' = FALSE /\ result' \in Nat
       /\ forwardIp' \in Nat /\ step' \in Nat /\ searchMatchNb' \in Nat /\ lowLimit' = lowLimit
  BY <1>1, <1>2, <1>8 DEF Locations
<1> HIDE DEF matchCode
<1>11. CASE Fills /\ op' = token /\ pc' = "full" /\ UNCHANGED <<ctx, ip, anchor, top, block, result>>
  <2>1. Leaves' /\ EntriesOK'
    BY <1>2, <1>3, <1>10, <1>11, ContextSame
  <2>2. PositionsOK'
    BY <1>1, <1>3, <1>7, <1>8, <1>11 DEF PositionsOK
  <2>3. FillOK'
    <3>1. token < op /\ op <= call.olimit
      BY <1>1, <1>2, <1>11 DEF FillOK
    <3> QED
      BY <1>3, <1>8, <1>11, <1>o, <3>1 DEF FillOK
  <2>4. SearchOK'
    BY <1>11 DEF SearchOK, AtSearch, AtFound, AtMatch, AtNext
  <2> QED
    BY <1>1, <1>2, <1>10, <2>1, <2>2, <2>3, <2>4, StepKeeps
<1>12. CASE Gives /\ pc' = "done" /\ result' = 0 /\ UNCHANGED <<ctx, ip, anchor, op, top, block>>
  <2>1. Leaves' /\ EntriesOK'
    BY <1>2, <1>3, <1>10, <1>12, ContextSame
  <2>2. PositionsOK'
    BY <1>1, <1>3, <1>7, <1>8, <1>12 DEF PositionsOK
  <2>3. FillOK'
    BY <1>3, <1>12 DEF FillOK
  <2>4. SearchOK'
    BY <1>12 DEF SearchOK, AtSearch, AtFound, AtMatch, AtNext
  <2> QED
    BY <1>1, <1>2, <1>10, <2>1, <2>2, <2>3, <2>4, StepKeeps
<1>13. CASE /\ ~Fills /\ ~Gives
            /\ op' = AfterMatch(oo, code)
            /\ top' = Higher(top, Higher(op', TopOfMatch(oo, code)))
            /\ ip' = end /\ anchor' = end
            /\ ctx' = [ctx EXCEPT !.hashTable = LZ4_clearHash(ctx.hashTable, hs)]
            /\ pc' = IF end >= mflimitPlusOne THEN "last" ELSE "next"
            /\ UNCHANGED result
  <2>1. oo \in Nat /\ (full => call.directive = "fillOutput" /\ oo + 6 <= call.olimit)
    <3>1. full => call.directive = "fillOutput"
      BY <1>6, <1>13
    <3>2. call.directive = "fillOutput" => oo + 6 <= call.olimit
      BY <1>8, <1>13, <1>o, Masks DEF OffsetFills
    <3> QED
      BY <1>8, <3>1, <3>2
  <2>2. code \in Nat /\ code <= matchCode
    <3>1. CASE full
      BY <1>9, <1>o, <2>1, <3>1, ReducedIs
    <3>2. CASE ~full
      BY <1>9, <3>2
    <3> QED
      BY <3>1, <3>2
  <2>3. call.directive = "fillOutput" => AfterMatch(oo, code) + 6 <= call.olimit
    <3>1. SUFFICES ASSUME call.directive = "fillOutput" PROVE AfterMatch(oo, code) + 6 <= call.olimit
      OBVIOUS
    <3>2. CASE full
      BY <1>9, <1>o, <2>1, <3>2, ReducedIs
    <3>3. CASE ~full
      <4>1. code = matchCode /\ ~MatchOverflow(oo, matchCode, call.olimit)
        BY <3>1, <3>3
      <4>2. AfterMatch(oo, matchCode) = oo + (matchCode + 240) \div 255
        BY <1>9, <2>1, MatchCost
      <4> HIDE DEF oo
      <4> QED
        BY <1>9, <1>o, <2>1, <4>1, <4>2, Masks DEF MatchOverflow
    <3> QED
      BY <3>2, <3>3
  <2>4. end \in Nat /\ end <= matchlimit /\ end > ip /\ (~full => last < end)
        /\ end >= call.source + MINMATCH /\ call.source < end
    <3>1. ~full => code = matchCode
      OBVIOUS
    <3> HIDE DEF full, code
    <3>2. end = ip + 4 + code
      BY Constants
    <3>3. last \in Nat /\ ip + 4 + matchCode <= matchlimit /\ matchlimit \in Int
      BY <1>4, <1>6, <1>8, <1>9, Constants
    <3> HIDE DEF end
    <3>4. end \in Nat /\ end > ip /\ end <= matchlimit
      BY <1>8, <1>9, <2>2, <3>2, <3>3
    <3>5. ~full => last < end
      BY <1>8, <1>9, <3>1, <3>2, <3>3
    <3>6. end >= call.source + MINMATCH /\ call.source < end
      BY <1>5, <1>6, <1>8, <2>2, <3>2, Constants
    <3> QED
      BY <3>4, <3>5, <3>6
  <2>5. /\ AfterMatch(oo, code) \in Nat /\ TopOfMatch(oo, code) \in Nat
    <3> HIDE DEF code, oo
    <3>1. oo \in Nat /\ code \in Nat
      BY <2>1, <2>2
    <3> QED
      BY <3>1, MatchCost, Zenon
  <2> DEFINE table == LZ4_clearHash(ctx.hashTable, hs)
  <2>6. ctx.hashTable \in [HashValues -> Nat] /\ ctx.currentOffset = call.startIndex + call.size
    BY <1>2 DEF Leaves, Contexts
  <2>7. /\ table \in [HashValues -> Nat]
        /\ \A h \in HashValues : table[h] = IF h \in hs THEN 0 ELSE ctx.hashTable[h]
    <3> HIDE DEF hs
    <3> QED
      BY <2>6 DEF LZ4_clearHash
  <2>8. ASSUME NEW h \in HashValues, h \in hs PROVE call.directive = "fillOutput" /\ call.startIndex = 0
    <3>1. full
      BY <2>8
    <3> HIDE DEF full
    <3> QED
      BY <1>2, <2>1, <3>1 DEF ModeOK
  <2> HIDE DEF table
  <2>9. \A h \in HashValues : EntryOK(h, table[h])
    <3> SUFFICES ASSUME NEW h \in HashValues PROVE EntryOK(h, table[h])
      OBVIOUS
    <3>1. CASE h \in hs
      <4>1. table[h] = 0 /\ call.startIndex = 0
        BY <2>7, <2>8, <3>1
      <4>2. ~FromBefore(0)
        BY <4>1 DEF FromBefore
      <4> QED
        BY <4>1, <4>2 DEF EntryOK
    <3>2. CASE h \notin hs
      <4>1. table[h] = ctx.hashTable[h]
        BY <2>7, <3>2
      <4> QED
        BY <1>2, <4>1 DEF EntriesOK
    <3> QED
      BY <3>1, <3>2
  <2>10. \A h \in HashValues : table[h] = 0 \/ table[h] + HASH_UNIT <= call.startIndex + call.size
    BY <1>2, <2>6, <2>7 DEF EntriesOK, Behind
  <2>11. ctx' = [ctx EXCEPT !.hashTable = table]
    BY <1>13 DEF table
  <2>12. Leaves' /\ EntriesOK' /\ ctx'.hashTable = table
    BY <1>2, <1>3, <1>10, <2>7, <2>9, <2>10, <2>11, TableKeeps
  \* Nothing is entered at the end of the match or behind it.
  <2>13. \A h \in HashValues : table[h] < call.startIndex \/ table[h] < end - base
    <3> SUFFICES ASSUME NEW h \in HashValues PROVE table[h] < call.startIndex \/ table[h] < end - base
      OBVIOUS
    <3> DEFINE e == ctx.hashTable[h]
    <3>1. e \in Nat /\ (e < call.startIndex \/ e <= last - base) /\ table[h] = (IF h \in hs THEN 0 ELSE e)
      BY <1>4, <2>6, <2>7 DEF EnteredUpTo
    <3>2. CASE h \in hs
      <4>1. table[h] = 0 /\ call.startIndex = 0
        BY <2>8, <3>1, <3>2
      <4> HIDE DEF end
      <4> QED
        BY <1>6, <2>4, <4>1
    <3>3. CASE h \notin hs /\ last < end
      <4> HIDE DEF e, end, hs
      <4>1. last \in Nat
        BY <1>4, <1>8
      <4> QED
        BY <1>6, <2>4, <3>1, <3>3, <4>1
    <3>4. CASE h \notin hs /\ ~(last < end)
      <4>1. full /\ last = filledIp /\ call.directive = "fillOutput" /\ end <= filledIp
        <5>1. full
          BY <2>4, <3>4
        <5>2. last # ip
          BY <1>8, <2>4, <3>4
        <5> HIDE DEF full, end
        <5> QED
          BY <1>4, <1>8, <2>1, <2>4, <3>4, <5>1, <5>2
      <4>2. call.startIndex = 0 /\ base = call.source
        BY <1>2, <1>6, <4>1 DEF ModeOK
      <4>3. hs = {LZ4_hashPosition(a, call.tableType) : a \in end..filledIp}
        BY <4>1
      <4>4. e > 0 => LZ4_hashPosition(call.source + e, call.tableType) = h
        BY <1>2, <4>1 DEF EntriesOK, EntryOK
      <4>5. e = 0 \/ call.source + e \notin end..filledIp
        <5>1. SUFFICES ASSUME e > 0, call.source + e \in end..filledIp PROVE FALSE
          BY <3>1
        <5>2. h \in hs
          <6> HIDE DEF e, hs
          <6> QED
            BY <4>3, <4>4, <5>1
        <5> QED
          BY <3>4, <5>2
      <4> HIDE DEF e, hs, end, full
      <4> QED
        BY <1>6, <1>8, <2>4, <3>1, <3>4, <4>1, <4>2, <4>5
    <3> QED
      BY <3>2, <3>3, <3>4
  <2> HIDE DEF end, code, full, hs, oo
  <2>14. PositionsOK'
    <3>1. op' \in Nat /\ top' \in Nat
      <4>1. op' \in Nat
        BY <1>13, <2>5
      <4>2. Higher(op', TopOfMatch(oo, code)) \in Nat
        BY <2>5, <4>1, HigherIs
      <4> QED
        BY <1>8, <1>13, <4>1, <4>2, HigherIs
    <3> QED
      BY <1>1, <1>3, <1>6, <1>7, <1>8, <1>13, <2>4, <3>1 DEF PositionsOK
  <2>15. FillOK'
    <3>1. anchor' > call'.source /\ pc' \in {"last", "next"} /\ op' + LASTLITERALS + 1 = op' + 6
      BY <1>3, <1>6, <1>13, <2>4, <2>5, Masks
    <3>2. call.directive = "fillOutput" => op' + LASTLITERALS + 1 <= call.olimit
      BY <1>13, <2>3, <2>5, <3>1
    <3> QED
      BY <1>3, <1>6, <3>1, <3>2 DEF FillOK
  <2>16. SearchOK'
    <3>1. CASE pc' = "next"
      <4>1. EnteredBefore(ip)'
        <5> SUFFICES ASSUME NEW h \in HashValues
                     PROVE  table[h] < call.startIndex \/ table[h] < ip' - base
          BY <1>3, <1>7, <2>12 DEF EnteredBefore
        <5> QED
          BY <1>13, <2>13
      <4>2. end < mflimitPlusOne
        BY <1>6, <1>13, <2>4, <3>1
      <4>3. AtNext'
        BY <1>1, <1>3, <1>5, <1>6, <1>7, <1>13, <2>4, <4>1, <4>2 DEF AtNext
      <4> QED
        BY <3>1, <4>3 DEF SearchOK, AtSearch, AtFound, AtMatch
    <3>2. CASE pc' = "last"
      BY <3>2 DEF SearchOK, AtSearch, AtFound, AtMatch, AtNext
    <3> QED
      BY <1>13, <3>1, <3>2
  <2> QED
    BY <1>1, <1>2, <1>10, <2>12, <2>14, <2>15, <2>16, StepKeeps
<1> QED
  BY <1>1, <1>11, <1>12, <1>13

LEMMA TestNextKeeps ==
    ASSUME IInv, TestNextPosition PROVE IInv'
<1> DEFINE filled == LZ4_putPosition(ctx.hashTable, ip - 2)
           found == Lookup(filled, ip)
           table == LZ4_putPosition(filled, ip)
<1>1. /\ pc = "next" /\ UNCHANGED <<stream, call>>
      /\ ctx' = [ctx EXCEPT !.hashTable = table]
      /\ stray' = (stray \/ found.stray)
      /\ match' = found.at /\ lowLimit' = found.low
      /\ IF found.hit
         THEN /\ token' = op /\ op' = op + 1 /\ top' = Higher(top, op + 1)
              /\ offset' = IF maybe_extMem THEN found.offset ELSE offset
              /\ pc' = "match" /\ UNCHANGED <<ip, forwardIp, step, searchMatchNb>>
         ELSE /\ ip' = ip + 1 /\ forwardIp' = ip + 1 /\ step' = 1 /\ searchMatchNb' = SkipUnit
              /\ pc' = "search" /\ UNCHANGED <<token, op, top, offset>>
      /\ UNCHANGED <<filledIp, anchor, block, result>>
  BY DEF TestNextPosition, Running, StartSearch
<1>2. /\ InCall /\ CallOK /\ ModeOK /\ StreamOK /\ PositionsOK /\ AtNext /\ Leaves /\ FillOK /\ EntriesOK
      /\ stray = FALSE
      /\ forwardIp \in Nat /\ step \in Nat /\ searchMatchNb \in Nat /\ pc # "idle"
  BY <1>1 DEF IInv, InCall, SearchOK
<1>3. UNCHANGED <<mem, dict, use, history, calls, call>>
  BY <1>1 DEF stream
<1>4. /\ ip = anchor /\ call.source + MINMATCH <= ip /\ ip < mflimitPlusOne
      /\ filledIp < mflimitPlusOne /\ EnteredBefore(ip)
  BY <1>1, <1>2 DEF AtNext
<1>5. /\ call.source \in Nat /\ call.startIndex \in Nat /\ call.size \in Nat
      /\ mflimitPlusOne = call.source + call.size - 11
      /\ base = call.source - call.startIndex
  BY <1>2, CallIs
<1>6. iend' = iend /\ mflimitPlusOne' = mflimitPlusOne /\ base' = base /\ maybe_extMem' = maybe_extMem
  BY <1>3 DEF iend, mflimitPlusOne, base, maybe_extMem
<1>7. /\ ip \in Nat /\ anchor \in Nat /\ anchor <= iend /\ call.source <= anchor /\ call.source <= filledIp
      /\ match \in Int /\ lowLimit \in Int /\ offset \in Int /\ filledIp \in Nat
      /\ token \in Nat /\ op \in Nat /\ top \in Nat /\ result \in Nat
  BY <1>2 DEF PositionsOK
<1>8. ctx.hashTable \in [HashValues -> Nat] /\ ctx.currentOffset = call.startIndex + call.size
  BY <1>2 DEF Leaves, Contexts
<1>9. ip - 2 \in Nat /\ call.source <= ip - 2 /\ ip - 2 < mflimitPlusOne /\ ip - 2 - base < ip - base
      /\ call.source < ip /\ call.source <= ip /\ ip <= mflimitPlusOne /\ ip - 2 - base \in Int /\ ip - base \in Int
  BY <1>4, <1>5, <1>7, Constants
<1>10. \A h \in HashValues :
          /\ EntryOK(h, ctx.hashTable[h])
          /\ ctx.hashTable[h] = 0 \/ ctx.hashTable[h] + HASH_UNIT <= call.startIndex + call.size
          /\ ctx.hashTable[h] < call.startIndex \/ ctx.hashTable[h] < ip - base
  BY <1>2, <1>4, <1>8 DEF EntriesOK, Behind, EnteredBefore
<1>11. /\ filled \in [HashValues -> Nat]
       /\ \A h \in HashValues :
             /\ filled[h] = ctx.hashTable[h] \/ filled[h] <= ip - 2 - base
             /\ EntryOK(h, ctx.hashTable[h]) => EntryOK(h, filled[h])
             /\ ctx.hashTable[h] = 0 \/ ctx.hashTable[h] + HASH_UNIT <= call.startIndex + call.size
                => filled[h] = 0 \/ filled[h] + HASH_UNIT <= call.startIndex + call.size
  BY <1>2, <1>8, <1>9, PutPositionIs
<1> HIDE DEF filled
<1>12. \A h \in HashValues :
          /\ EntryOK(h, filled[h])
          /\ filled[h] = 0 \/ filled[h] + HASH_UNIT <= call.startIndex + call.size
          /\ filled[h] < call.startIndex \/ filled[h] < ip - base
  <2> SUFFICES ASSUME NEW h \in HashValues
               PROVE  /\ EntryOK(h, filled[h])
                      /\ filled[h] = 0 \/ filled[h] + HASH_UNIT <= call.startIndex + call.size
                      /\ filled[h] < call.startIndex \/ filled[h] < ip - base
    OBVIOUS
  <2>1. filled[h] < call.startIndex \/ filled[h] < ip - base
    <3>1. filled[h] \in Nat /\ (filled[h] = ctx.hashTable[h] \/ filled[h] <= ip - 2 - base)
      BY <1>11
    <3>2. ctx.hashTable[h] < call.startIndex \/ ctx.hashTable[h] < ip - base
      BY <1>10
    <3> QED
      BY <1>9, <3>1, <3>2
  <2> QED
    BY <1>10, <1>11, <2>1
<1>13. /\ found.at \in Int /\ found.low \in Int /\ found.offset \in Int
       /\ found.stray = FALSE /\ found.hit \in BOOLEAN
       /\ ~maybe_extMem => found.low = lowLimit
       /\ found.hit =>
             /\ \A i \in 0..3 : mem[ip + i] = mem[found.at + i]
             /\ IF maybe_extMem /\ found.low = call.dictionary
                THEN found.at >= call.dictionary /\ found.at + MINMATCH <= call.dictEnd
                ELSE /\ found.at >= found.low /\ found.at < ip
                     /\ maybe_extMem => found.low = call.source
  BY <1>2, <1>7, <1>9, <1>11, <1>12, LookupIs
<1>14. /\ table \in [HashValues -> Nat]
       /\ \A h \in HashValues :
             /\ table[h] = filled[h] \/ table[h] <= ip - base
             /\ EntryOK(h, filled[h]) => EntryOK(h, table[h])
             /\ filled[h] = 0 \/ filled[h] + HASH_UNIT <= call.startIndex + call.size
                => table[h] = 0 \/ table[h] + HASH_UNIT <= call.startIndex + call.size
  BY <1>2, <1>4, <1>7, <1>9, <1>11, PutPositionIs
<1> HIDE DEF table, found
<1>15. \A h \in HashValues :
          /\ EntryOK(h, table[h])
          /\ table[h] = 0 \/ table[h] + HASH_UNIT <= call.startIndex + call.size
          /\ table[h] < call.startIndex \/ table[h] <= ip - base
  <2> SUFFICES ASSUME NEW h \in HashValues
               PROVE  /\ EntryOK(h, table[h])
                      /\ table[h] = 0 \/ table[h] + HASH_UNIT <= call.startIndex + call.size
                      /\ table[h] < call.startIndex \/ table[h] <= ip - base
    OBVIOUS
  <2>1. table[h] < call.startIndex \/ table[h] <= ip - base
    <3>1. table[h] \in Nat /\ filled[h] \in Nat /\ (table[h] = filled[h] \/ table[h] <= ip - base)
      BY <1>11, <1>14
    <3>2. filled[h] < call.startIndex \/ filled[h] < ip - base
      BY <1>12
    <3> QED
      BY <1>9, <3>1, <3>2
  <2> QED
    BY <1>12, <1>14, <2>1
<1>16. Leaves' /\ EntriesOK' /\ ctx'.hashTable = table
  BY <1>1, <1>2, <1>3, <1>13, <1>14, <1>15, TableKeeps
<1>17. stray' = FALSE /\ (~maybe_extMem => lowLimit' = lowLimit) /\ result' \in Nat
  BY <1>1, <1>2, <1>7, <1>13
<1>18. CASE found.hit
  <2>1. /\ token' = op /\ op' = op + 1 /\ top' = Higher(top, op + 1) /\ pc' = "match"
        /\ offset' = (IF maybe_extMem THEN found.offset ELSE offset)
        /\ UNCHANGED <<ip, forwardIp, step, searchMatchNb>>
    BY <1>1, <1>18
  <2>2. PositionsOK'
    <3>1. op' \in Nat /\ top' \in Nat /\ offset' \in Int /\ match' \in Int /\ lowLimit' \in Int
      BY <1>1, <1>7, <1>13, <2>1, HigherIs
    <3> QED
      BY <1>1, <1>3, <1>6, <1>7, <2>1, <3>1 DEF PositionsOK
  <2>3. FillOK'
    <3>1. call.directive = "fillOutput" => op + 1 <= call.olimit
      BY <1>1, <1>2, FillRoom
    <3> QED
      BY <1>3, <1>7, <2>1, <3>1 DEF FillOK
  <2>4. SearchOK'
    <3>1. EnteredUpTo(ip)'
      <4> SUFFICES ASSUME NEW h \in HashValues
                   PROVE  table[h] < call.startIndex \/ table[h] <= ip' - base
        BY <1>3, <1>6, <1>16 DEF EnteredUpTo
      <4> QED
        BY <1>15, <2>1
    <3>2. CanCopy(ip)'
      <4>1. ip' = ip /\ ip' - ip' = 0 /\ match' + 0 + MINMATCH = match' + MINMATCH /\ 0 + MINMATCH - 1 = 3
        BY <1>1, <1>7, <1>13, <2>1, Constants
      <4>2. \A i \in 0..(ip' - ip' + MINMATCH - 1) : mem'[ip' + i] = mem'[match' + i]
        BY <1>1, <1>3, <1>13, <1>18, <4>1
      <4>3. InDict' <=> maybe_extMem /\ found.low = call.dictionary
        BY <1>1, <1>3, <1>6 DEF InDict
      <4> QED
        BY <1>1, <1>3, <1>6, <1>13, <1>18, <4>1, <4>2, <4>3 DEF CanCopy
    <3>3. anchor' <= ip' /\ ip' < mflimitPlusOne' /\ filledIp' < mflimitPlusOne' /\ ip' <= ip' /\ call'.source < ip'
      BY <1>1, <1>3, <1>4, <1>6, <1>7, <1>9, <2>1
    <3>4. AtMatch'
      BY <3>1, <3>2, <3>3, Zenon DEF AtMatch
    <3> QED
      BY <2>1, <3>4 DEF SearchOK, AtSearch, AtFound, AtNext
  <2>5. forwardIp' \in Nat /\ step' \in Nat /\ searchMatchNb' \in Nat /\ pc' \in Locations /\ pc' # "idle"
    BY <1>2, <2>1 DEF Locations
  <2> QED
    BY <1>1, <1>2, <1>16, <1>17, <2>2, <2>3, <2>4, <2>5, StepKeeps
<1>19. CASE ~found.hit
  <2>1. /\ ip' = ip + 1 /\ forwardIp' = ip + 1 /\ step' = 1 /\ searchMatchNb' = SkipUnit
        /\ pc' = "search" /\ UNCHANGED <<token, op, top, offset>>
    BY <1>1, <1>19
  <2>2. PositionsOK'
    <3>1. ip' \in Nat /\ match' \in Int /\ lowLimit' \in Int
      BY <1>1, <1>7, <1>13, <2>1
    <3> QED
      BY <1>1, <1>3, <1>6, <1>7, <2>1, <3>1 DEF PositionsOK
  <2>3. FillOK'
    BY <1>1, <1>2, <1>3, <2>1 DEF FillOK
  <2>4. SearchOK'
    <3>1. EnteredBefore(forwardIp)'
      <4> SUFFICES ASSUME NEW h \in HashValues
                   PROVE  table[h] < call.startIndex \/ table[h] < forwardIp' - base
        BY <1>3, <1>6, <1>16 DEF EnteredBefore
      <4>1. table[h] \in Nat /\ (table[h] < call.startIndex \/ table[h] <= ip - base)
        BY <1>14, <1>15
      <4> QED
        BY <1>5, <1>7, <2>1, <4>1
    <3>2. anchor' <= ip' /\ ip' <= forwardIp' /\ call'.source < forwardIp' /\ forwardIp' <= mflimitPlusOne'
          /\ step' >= 1 /\ searchMatchNb' >= SkipUnit
      BY <1>1, <1>3, <1>4, <1>5, <1>6, <1>7, <1>9, <2>1, Constants
    <3> QED
      BY <2>1, <3>1, <3>2 DEF SearchOK, AtSearch, AtFound, AtMatch, AtNext
  <2>5. forwardIp' \in Nat /\ step' \in Nat /\ searchMatchNb' \in Nat /\ pc' \in Locations /\ pc' # "idle"
    BY <1>7, <2>1, Constants DEF Locations
  <2> QED
    BY <1>1, <1>2, <1>16, <1>17, <2>2, <2>3, <2>4, <2>5, StepKeeps
<1> QED
  BY <1>13, <1>18, <1>19

LEMMA LastKeeps ==
    ASSUME IInv, LastLiterals PROVE IInv'
<1> DEFINE rest == iend - anchor
           full == call.directive # "notLimited" /\ LastOverflow(op, rest, call.olimit)
           lastRun == IF full THEN FilledLastRun(op, call.olimit) ELSE rest
           Gives == full /\ call.directive = "limitedOutput"
<1>1. /\ pc \in {"last", "full"} /\ UNCHANGED <<stream, call>> /\ pc' = "done"
      /\ UNCHANGED <<ctx, search, token, stray>>
      /\ \/ Gives /\ result' = 0 /\ UNCHANGED <<op, top, anchor, block>>
         \/ /\ ~Gives /\ anchor' = anchor + lastRun /\ op' = AfterLast(op, lastRun)
            /\ top' = Higher(top, op') /\ result' = op'
  BY DEF LastLiterals, Running
<1>2. /\ InCall /\ CallOK /\ ModeOK /\ StreamOK /\ PositionsOK /\ Leaves /\ FillOK /\ EntriesOK
      /\ stray = FALSE
      /\ forwardIp \in Nat /\ step \in Nat /\ searchMatchNb \in Nat /\ pc # "idle"
  BY <1>1 DEF IInv, InCall, SearchOK
<1>3. UNCHANGED <<mem, dict, use, history, calls, call>>
      /\ UNCHANGED <<ip, forwardIp, step, searchMatchNb, match, lowLimit, offset, filledIp>>
  BY <1>1 DEF stream, search
<1>4. iend' = iend /\ iend \in Nat /\ call.source \in Nat
  BY <1>2, <1>3, CallIs DEF iend
<1>5. /\ ip \in Nat /\ anchor \in Nat /\ anchor <= iend /\ call.source <= anchor /\ call.source <= filledIp
      /\ match \in Int /\ lowLimit \in Int /\ offset \in Int /\ filledIp \in Nat
      /\ token \in Nat /\ op \in Nat /\ top \in Nat /\ result \in Nat
  BY <1>2 DEF PositionsOK
<1>6. Leaves' /\ EntriesOK'
  BY <1>1, <1>2, <1>3, ContextSame
<1>7. SearchOK' /\ FillOK' /\ pc' \in Locations /\ pc' # "idle"
  BY <1>1 DEF SearchOK, AtSearch, AtFound, AtMatch, AtNext, FillOK, Locations
<1>8. /\ anchor' \in Nat /\ anchor' <= iend /\ call.source <= anchor'
      /\ op' \in Nat /\ top' \in Nat /\ result' \in Nat
  <2>1. CASE Gives /\ result' = 0 /\ UNCHANGED <<op, top, anchor, block>>
    BY <1>5, <2>1
  <2>2. CASE /\ ~Gives /\ anchor' = anchor + lastRun /\ op' = AfterLast(op, lastRun)
             /\ top' = Higher(top, op') /\ result' = op'
    <3>1. rest \in Nat /\ anchor + rest = iend
      BY <1>4, <1>5
    <3>2. lastRun \in Nat /\ lastRun <= rest
      <4>1. CASE full
        <5>1. call.directive = "fillOutput"
          BY <1>2, <2>2, <4>1 DEF CallOK
        <5>2. op + 1 <= call.olimit /\ call.olimit \in Nat
          BY <1>1, <1>2, <5>1, FillRoom
        <5> HIDE DEF rest
        <5> QED
          BY <1>5, <3>1, <4>1, <5>2, FilledIs
      <4>2. CASE ~full
        BY <3>1, <4>2
      <4> QED
        BY <4>1, <4>2
    <3> HIDE DEF rest, lastRun, full
    <3>3. AfterLast(op, lastRun) \in Nat
      BY <1>5, <3>2, LiteralsCost
    <3>4. top' \in Nat
      BY <1>5, <2>2, <3>3, HigherIs
    <3> QED
      BY <1>4, <1>5, <2>2, <3>1, <3>2, <3>3, <3>4
  <2> QED
    BY <1>1, <2>1, <2>2
<1>9. PositionsOK'
  BY <1>1, <1>3, <1>4, <1>5, <1>8 DEF PositionsOK
<1> QED
  BY <1>1, <1>2, <1>3, <1>6, <1>7, <1>8, <1>9, StepKeeps

\* The bytes a call consumed.
LEMMA ConsumedIs ==
    ASSUME StreamOK, InCall
    PROVE  /\ Consumed \in Seq(Nat) /\ Len(Consumed) = anchor - call.source
           /\ \A i \in 1..Len(Consumed) : Consumed[i] = mem[call.source + i - 1]
<1>1. /\ call.source \in Nat /\ call.source >= 1 /\ anchor \in Nat /\ call.source <= anchor
      /\ anchor <= iend /\ iend <= MemEnd /\ iend \in Nat
  BY CallIs DEF InCall, PositionsOK
<1>2. anchor - call.source \in Nat /\ call.source + (anchor - call.source) <= MemEnd + 1
  BY <1>1, Constants
<1>3. mem \in [Addresses -> Nat]
  BY DEF StreamOK
<1> QED
  BY <1>1, <1>2, <1>3, BytesIs DEF Consumed

LEMMA ReturnKeeps ==
    ASSUME IInv, Return PROVE IInv'
<1>1. /\ pc = "done" /\ pc' = "idle"
      /\ ctx' = CASE call.keeps = "source" ->
                       [ctx EXCEPT !.dictionary = call.source, !.dictSize = call.size]
                  [] call.keeps = "initialised" -> LZ4_initStream
                  [] OTHER -> ctx
      /\ use' = IF result = 0 THEN "other"
                ELSE IF call.keeps = "initialised" THEN "fresh" ELSE use
      /\ history' = IF use # "stream" \/ result = 0 THEN <<>>
                    ELSE Reachable(history \o Consumed)
      /\ forwardIp' = call.source /\ step' = 1 /\ searchMatchNb' = 1
      /\ UNCHANGED <<mem, dict, calls, call, anchor, token, op, top, result, stray>>
  BY DEF Return
<1>2. /\ InCall /\ CallOK /\ ModeOK /\ StreamOK /\ PositionsOK /\ Leaves /\ EntriesOK
      /\ stray = FALSE /\ result \in Nat /\ Loaded(dict) /\ Behind(ctx)
      /\ mem \in [Addresses -> Nat] /\ calls \in Nat /\ use \in {"fresh", "stream", "other"}
      /\ history \in Seq(Nat) /\ Len(history) <= KB64
  BY <1>1 DEF IInv, InCall, StreamOK, EntriesOK
<1>3. /\ call.source \in Nat /\ call.source >= 1 /\ call.size \in Nat /\ call.source + call.size <= DictAt
      /\ call.startIndex \in Nat /\ call.source < DictAt
  BY <1>2, CallIs
<1>4. /\ ctx \in Contexts /\ ~ctx.dictCtx /\ ctx.currentOffset = call.startIndex + call.size
      /\ call.keeps = "context" /\ use = "stream" => Placed(ctx)
      /\ call.keeps \in {"context", "source", "initialised"}
  BY <1>2 DEF Leaves, CallOK
<1>5. history' \in Seq(Nat) /\ Len(history') <= KB64
  <2>1. Reachable(history \o Consumed) \in Seq(Nat) /\ Len(Reachable(history \o Consumed)) <= KB64
    <3>1. history \o Consumed \in Seq(Nat)
      BY <1>2, ConsumedIs
    <3>2. PICK s : s = history \o Consumed
      OBVIOUS
    <3>3. s \in Seq(Nat) /\ Len(s) \in Nat
      BY <3>1, <3>2
    <3>4. Reachable(s) \in Seq(Nat) /\ Len(Reachable(s)) = IF Len(s) <= KB64 THEN Len(s) ELSE KB64
      BY <3>3, ReachableIs
    <3>5. Len(Reachable(s)) <= KB64
      BY <3>3, <3>4, Constants
    <3> QED
      BY <3>2, <3>4, <3>5
  <2> QED
    BY <1>1, <2>1, Constants
<1>6. StreamOK'
  <2>1. use' \in {"fresh", "stream", "other"}
    BY <1>1, <1>2
  <2>2. Loaded(dict)'
    BY <1>1, <1>2 DEF Loaded
  <2> QED
    BY <1>1, <1>2, <1>5, <2>1, <2>2 DEF StreamOK
<1>7. ContextOK'
  <2>1. CASE call.keeps = "source"
    <3>1. ctx' = [ctx EXCEPT !.dictionary = call.source, !.dictSize = call.size]
      BY <1>1, <2>1
    <3>2. call.source \in 0..MemEnd
      BY <1>3, Constants
    <3>3. /\ ctx' \in Contexts /\ ctx'.hashTable = ctx.hashTable /\ ctx'.currentOffset = ctx.currentOffset
          /\ ctx'.dictionary = call.source /\ ctx'.dictSize = call.size
      BY <1>3, <1>4, <3>1, <3>2 DEF Contexts
    <3>4. ~ctx'.dictCtx
      BY <1>4, <3>1 DEF Contexts
    <3>5. Behind(ctx)'
      BY <1>2, <3>3 DEF Behind
    <3>6. Placed(ctx)'
      BY <1>3, <1>4, <3>3 DEF Placed, InMemory
    <3> QED
      BY <3>3, <3>4, <3>5, <3>6 DEF ContextOK
  <2>2. CASE call.keeps = "initialised"
    <3>1. ctx' = LZ4_initStream
      BY <1>1, <2>2
    <3> QED
      BY <3>1, InitStreamIs DEF ContextOK, Behind, Placed
  <2>3. CASE call.keeps = "context"
    <3>1. ctx' = ctx
      BY <1>1, <2>3
    <3>2. use' # "other" => use = "stream"
      BY <1>1, <1>2, <2>3 DEF ModeOK, CallOK
    <3>3. use' # "other" => Placed(ctx)'
      BY <1>4, <2>3, <3>1, <3>2 DEF Placed
    <3> QED
      BY <1>2, <1>4, <3>1, <3>3 DEF ContextOK, Behind
  <2> QED
    BY <1>4, <2>1, <2>2, <2>3
<1> QED
  BY <1>1, <1>2, <1>3, <1>6, <1>7 DEF IInv, Locations

-----------------------------------------------------------------------------
(* The theorems *)

LEMMA InitInv == Init => IInv
<1> SUFFICES ASSUME Init PROVE IInv
  OBVIOUS
<1>1. PICK d \in DictTexts, slow \in BOOLEAN :
         /\ mem = [a \in 1..MemEnd |->
                     IF a \in DictAt..(DictAt + Len(d) - 1) THEN d[a - DictAt + 1] ELSE 0]
         /\ dict = LZ4_loadDict_internal(mem, DictAt, Len(d), slow)
  BY DEF Init
<1>2. d \in Seq(Nat) /\ Len(d) \in Nat /\ DictAt + Len(d) <= SaveAt /\ DOMAIN d = 1..Len(d)
  BY FastAssumption
<1>3. mem \in [Addresses -> Nat]
  <2>1. \A a \in 1..MemEnd : (IF a \in DictAt..(DictAt + Len(d) - 1) THEN d[a - DictAt + 1] ELSE 0) \in Nat
    <3> SUFFICES ASSUME NEW a \in 1..MemEnd, a \in DictAt..(DictAt + Len(d) - 1)
                 PROVE  d[a - DictAt + 1] \in Nat
      OBVIOUS
    <3>1. a - DictAt + 1 \in 1..Len(d)
      BY <1>2, Constants
    <3> QED
      BY <1>2, <3>1
  <2> QED
    BY <1>1, <2>1 DEF Addresses
<1>4. Loaded(dict)
  BY <1>1, <1>2, <1>3, LoadIs, Layout
<1>5. StreamOK
  BY <1>3, <1>4, Constants DEF Init, StreamOK
<1>6. ContextOK
  BY InitStreamIs DEF Init, ContextOK
<1> QED
  BY <1>5, <1>6 DEF Init, IInv, Locations

LEMMA StepInv == IInv /\ [Next]_vars => IInv'
<1> SUFFICES ASSUME IInv, [Next]_vars PROVE IInv'
  OBVIOUS
<1>1. CASE UNCHANGED vars
  <2>1. UNCHANGED <<mem, dict, use, history, calls, ctx, call, pc, ip, forwardIp, step, searchMatchNb,
                    match, lowLimit, offset, filledIp, anchor, token, op, top, block, result, stray>>
    BY <1>1 DEF vars, stream, search, output
  <2>2. StreamOK'
    BY <2>1 DEF IInv, StreamOK, Loaded
  <2>3. CASE pc = "idle"
    <3>1. ContextOK'
      BY <2>1, <2>3 DEF IInv, ContextOK, Behind, Placed
    <3> QED
      BY <2>1, <2>2, <2>3, <3>1 DEF IInv
  <2>4. CASE pc # "idle"
    <3>1. InCall
      BY <2>4 DEF IInv
    <3>2. Leaves' /\ EntriesOK'
      BY <2>1, <3>1, ContextSame
    <3>3. PositionsOK'
      BY <2>1, <3>1 DEF InCall, PositionsOK, iend
    <3>4. FillOK'
      BY <2>1, <3>1 DEF InCall, FillOK
    <3>5. SearchOK'
      <4>1. mflimitPlusOne' = mflimitPlusOne /\ base' = base /\ InDict' = InDict /\ maybe_extMem' = maybe_extMem
        BY <2>1 DEF mflimitPlusOne, iend, base, InDict, maybe_extMem
      <4>2. \A at : /\ EnteredBefore(at) => EnteredBefore(at)'
                    /\ EnteredUpTo(at) => EnteredUpTo(at)'
                    /\ CanCopy(at) => CanCopy(at)'
        BY <2>1, <4>1 DEF EnteredBefore, EnteredUpTo, CanCopy
      <4>3. AtSearch'
        BY <2>1, <3>1, <4>1 DEF InCall, SearchOK, AtSearch, EnteredBefore
      <4>4. AtFound'
        BY <2>1, <3>1, <4>1 DEF InCall, SearchOK, AtFound, EnteredUpTo, CanCopy
      <4>5. AtMatch'
        BY <2>1, <3>1, <4>1 DEF InCall, SearchOK, AtMatch, EnteredUpTo, CanCopy
      <4>6. AtNext'
        BY <2>1, <3>1, <4>1 DEF InCall, SearchOK, AtNext, EnteredBefore
      <4> QED
        BY <4>3, <4>4, <4>5, <4>6 DEF SearchOK
    <3> QED
      BY <2>1, <2>4, <3>2, <3>3, <3>4, <3>5, StepKeeps DEF IInv, stream
  <2> QED
    BY <2>3, <2>4
<1>2. CASE \E text \in Texts, room \in Rooms : OneShotCall(text, room)
  BY <1>2, ExtStateKeeps, FastResetKeeps, DestSizeKeeps DEF OneShotCall
<1>3. CASE \E text \in Texts, room \in Rooms, source \in Slots : LZ4_compress_fast_continue(source, text, room)
  BY <1>3, ContinueKeeps
<1>4. CASE LZ4_resetStream_fast
  BY <1>4, ResetKeeps
<1>5. CASE \E text \in DictTexts, slow \in BOOLEAN : LZ4_loadDict(text, slow)
  BY <1>5, LoadDictKeeps
<1>6. CASE LZ4_attachDictionary
  BY <1>6, AttachKeeps
<1>7. CASE \E size \in {0, 3, 6, KB64} : LZ4_saveDict(size)
  BY <1>7, SaveDictKeeps
<1>8. CASE Search
  BY <1>8, SearchKeeps
<1>9. CASE EncodeLiterals
  BY <1>9, EncodeLiteralsKeeps
<1>10. CASE EncodeMatch
  BY <1>10, EncodeMatchKeeps
<1>11. CASE TestNextPosition
  BY <1>11, TestNextKeeps
<1>12. CASE LastLiterals
  BY <1>12, LastKeeps
<1>13. CASE Return
  BY <1>13, ReturnKeeps
<1> QED
  BY <1>1, <1>2, <1>3, <1>4, <1>5, <1>6, <1>7, <1>8, <1>9, <1>10, <1>11, <1>12, <1>13 DEF Next

LEMMA Invariant == Spec => []IInv
  BY InitInv, StepInv, PTL DEF Spec

(* The search of the fast compressor reads a candidate only inside the     *)
(* dictionary, all four bytes, or between the prefix and the position:     *)
(* whatever calls the context served before, whatever they left in its     *)
(* table, and however the indexes were renumbered.                         *)
THEOREM SearchReadsInside == Spec => []NoStrayRead
<1>1. IInv => NoStrayRead
  BY DEF IInv, NoStrayRead
<1> QED
  BY <1>1, Invariant, PTL

(* Every entry of the table lies behind the position that looks it up,     *)
(* also in the next call on the same stream; the context keeps its type.   *)
THEOREM EntriesLieBehind == Spec => []TableBehind
<1>1. ASSUME IInv PROVE Typed
  <2>1. ctx \in Contexts
    BY <1>1 DEF IInv, ContextOK, InCall, Leaves
  <2> QED
    BY <1>1, <2>1 DEF IInv, StreamOK, Typed, Contexts, Addresses, HashValues, Locations
<1>2. ASSUME IInv PROVE TableBehind
  <2>1. Typed
    BY <1>1, <1>2
  <2>2. ctx.hashTable \in [HashValues -> Nat] /\ DOMAIN ctx.hashTable = HashValues
    BY <2>1 DEF Typed, HashValues
  <2>3. ASSUME pc = "search", NEW h \in HashValues PROVE ctx.hashTable[h] < forwardIp - base
    <3>1. /\ ctx.hashTable[h] < call.startIndex \/ ctx.hashTable[h] < forwardIp - base
          /\ call.source < forwardIp /\ forwardIp \in Nat /\ CallOK
      BY <1>2, <2>3 DEF IInv, InCall, SearchOK, AtSearch, EnteredBefore
    <3>2. call.source \in Nat /\ call.startIndex \in Nat /\ base = call.source - call.startIndex
      BY <3>1, CallIs
    <3>3. ctx.hashTable[h] \in Nat
      BY <2>2
    <3> QED
      BY <3>1, <3>2, <3>3
  <2>4. ASSUME pc = "idle", NEW h \in HashValues
        PROVE  ctx.hashTable[h] = 0 \/ ctx.hashTable[h] < ctx.currentOffset
    <3>1. ctx.hashTable[h] = 0 \/ ctx.hashTable[h] + HASH_UNIT <= ctx.currentOffset
      BY <1>2, <2>4 DEF IInv, ContextOK, Behind
    <3>2. ctx.hashTable[h] \in Nat /\ ctx.currentOffset \in Nat
      BY <2>1, <2>2 DEF Typed
    <3> QED
      BY <3>1, <3>2, Constants
  <2> QED
    BY <2>1, <2>2, <2>3, <2>4 DEF TableBehind
<1> QED
  BY <1>2, Invariant, PTL

-----------------------------------------------------------------------------
(* What leaves the encoder is what Lz4Emit allows                          *)

\* The operators of Lz4Format mean the same in both modules.
LEMMA SameFormat ==
    ASSUME NEW a, NEW b, NEW c
    PROVE  /\ Emit!MINMATCH = MINMATCH /\ Emit!MFLIMIT = MFLIMIT /\ Emit!LASTLITERALS = LASTLITERALS
           /\ Emit!Higher(a, b) = Higher(a, b)
           /\ Emit!AfterLiterals(a, b) = AfterLiterals(a, b)
           /\ Emit!TopOfLiterals(a, b) = TopOfLiterals(a, b)
           /\ Emit!LiteralsOverflow(a, b, c) <=> LiteralsOverflow(a, b, c)
           /\ Emit!LiteralsFill(a, b, c) <=> LiteralsFill(a, b, c)
           /\ Emit!OffsetFills(a, b) <=> OffsetFills(a, b)
           /\ Emit!MatchOverflow(a, b, c) <=> MatchOverflow(a, b, c)
           /\ Emit!ReducedMatchCode(a, b) = ReducedMatchCode(a, b)
           /\ Emit!AfterMatch(a, b) = AfterMatch(a, b)
           /\ Emit!TopOfMatch(a, b) = TopOfMatch(a, b)
           /\ Emit!LastOverflow(a, b, c) <=> LastOverflow(a, b, c)
           /\ Emit!FilledLastRun(a, b) = FilledLastRun(a, b)
           /\ Emit!AfterLast(a, b) = AfterLast(a, b)
<1>1. /\ Emit!MINMATCH = MINMATCH /\ Emit!MFLIMIT = MFLIMIT /\ Emit!LASTLITERALS = LASTLITERALS
      /\ Emit!Higher(a, b) = Higher(a, b)
      /\ Emit!AfterLiterals(a, b) = AfterLiterals(a, b)
      /\ Emit!TopOfLiterals(a, b) = TopOfLiterals(a, b)
  BY Zenon DEF Emit!MINMATCH, MINMATCH, Emit!MFLIMIT, MFLIMIT, Emit!LASTLITERALS, LASTLITERALS,
     Emit!Higher, Higher, Emit!AfterLiterals, AfterLiterals, Emit!TopOfLiterals, TopOfLiterals,
     Emit!LengthBytes, LengthBytes, Emit!WildEnd, WildEnd, Emit!RUN_MASK, RUN_MASK
<1>2. /\ Emit!LiteralsOverflow(a, b, c) <=> LiteralsOverflow(a, b, c)
      /\ Emit!LiteralsFill(a, b, c) <=> LiteralsFill(a, b, c)
      /\ Emit!OffsetFills(a, b) <=> OffsetFills(a, b)
  BY <1>1, Zenon DEF Emit!LiteralsOverflow, LiteralsOverflow, Emit!LiteralsFill, LiteralsFill,
     Emit!OffsetFills, OffsetFills
<1>3. /\ Emit!MatchOverflow(a, b, c) <=> MatchOverflow(a, b, c)
      /\ Emit!ReducedMatchCode(a, b) = ReducedMatchCode(a, b)
      /\ Emit!AfterMatch(a, b) = AfterMatch(a, b)
      /\ Emit!TopOfMatch(a, b) = TopOfMatch(a, b)
  BY <1>1, Zenon DEF Emit!MatchOverflow, MatchOverflow, Emit!ReducedMatchCode, ReducedMatchCode,
     Emit!AfterMatch, AfterMatch, Emit!TopOfMatch, TopOfMatch, Emit!LengthBytes, LengthBytes,
     Emit!ML_MASK, ML_MASK
<1>4. /\ Emit!LastOverflow(a, b, c) <=> LastOverflow(a, b, c)
      /\ Emit!FilledLastRun(a, b) = FilledLastRun(a, b)
      /\ Emit!AfterLast(a, b) = AfterLast(a, b)
  BY Zenon DEF Emit!LastOverflow, LastOverflow, Emit!FilledLastRun, FilledLastRun,
     Emit!AfterLast, AfterLast, Emit!LengthBytes, LengthBytes, Emit!RUN_MASK, RUN_MASK
<1> QED
  BY <1>1, <1>2, <1>3, <1>4, Zenon

LEMMA EmitStutters ==
    ASSUME UNCHANGED <<call, output>>, EmitAt' = EmitAt, EmitIp' = EmitIp
    PROVE  UNCHANGED Emit!vars
BY DEF Emit!vars, output

LEMMA EmitInit == Init => Emit!Init
<1> SUFFICES ASSUME Init PROVE Emit!Init
  OBVIOUS
<1>1. pc = "idle" /\ anchor = 1 /\ token = 0 /\ op = 0 /\ top = 0 /\ result = 0
  BY DEF Init
<1>2. call.source = 1 /\ call.size = 0 /\ call.olimit = 0 /\ call.directive = "limitedOutput"
  BY DEF Init, CallOf
<1>3. EmitAt = "done" /\ EmitIp = 0
  BY <1>1 DEF EmitAt, EmitIp
<1> QED
  BY <1>1, <1>2, <1>3 DEF Emit!Init

\* A call with a source that is not empty begins; no other call is seen.
LEMMA EmitCall ==
    ASSUME IInv, IInv', Idle,
           NEW cx, NEW source, NEW text \in Texts, NEW room \in Rooms, NEW directive,
           NEW tableType, NEW mode, NEW small, NEW keeps,
           Compress(cx, source, text, room, directive, tableType, mode, small, keeps)
    PROVE  Emit!Next \/ UNCHANGED Emit!vars
<1>1. pc = "idle" /\ EmitAt = "done"
  BY DEF Idle, EmitAt
<1>2. CASE text = <<>>
  <2>1. UNCHANGED <<pc, call, output>> /\ ip' = ip
    BY <1>2 DEF Compress, search
  <2>2. EmitAt' = EmitAt /\ EmitIp' = EmitIp
    BY <2>1 DEF EmitAt, EmitIp
  <2> QED
    BY <2>1, <2>2, EmitStutters
<1>3. CASE text # <<>>
  <2>1. PICK c : /\ c = CallOf(cx, source, Len(text), room, directive, tableType, mode, small, keeps)
                 /\ Enter(cx, c)
    BY <1>3, Zenon DEF Compress
  <2>2. c.source = source /\ c.size = Len(text) /\ c.olimit = room /\ c.directive = directive
    BY <2>1 DEF CallOf
  <2>3. /\ call' = c /\ anchor' = c.source /\ token' = 0 /\ op' = 0 /\ top' = 0 /\ result' = 0
        /\ pc' \in {"last", "search"}
    BY <2>1 DEF Enter, StartSearch
  <2>4. InCall'
    BY <2>3 DEF IInv
  <2>5. /\ Len(text) > 0 /\ source \in Nat
        /\ directive \in {"notLimited", "limitedOutput", "fillOutput"}
        /\ Emit!Fits(Len(text), room, directive)
    <3>1. CallOK'
      BY <2>4 DEF InCall
    <3>2. /\ call'.size > 0 /\ call'.source \in Nat
          /\ call'.directive \in {"notLimited", "limitedOutput", "fillOutput"}
          /\ Emit!Fits(call'.size, call'.olimit, call'.directive)
      <4>1. call'.size > 0 /\ call'.source \in Sources
        BY <3>1, Zenon DEF CallOK
      <4>2. call'.source \in Nat
        <5>1. call'.size \in InputSizes
          BY <3>1, Zenon DEF CallOK
        <5> QED
          BY <4>1, <5>1, InputSize, Zenon
      <4> QED
        BY <3>1, <4>1, <4>2, Zenon DEF CallOK
    <3> QED
      BY <2>2, <2>3, <3>2, Zenon
  <2>6. EmitAt' = "seq" /\ EmitIp' = 0
    BY <2>3 DEF EmitAt, EmitIp
  <2>7. anchor' - call'.source = 0
    BY <2>2, <2>3, <2>5
  <2>8. Emit!Call(Len(text), room, directive)
    BY <1>1, <2>2, <2>3, <2>5, <2>6, <2>7 DEF Emit!Call
  <2> QED
    BY <2>5, <2>8 DEF Emit!Next, Emit!Directives
<1> QED
  BY <1>2, <1>3

LEMMA EmitIdle ==
    ASSUME UNCHANGED <<call, pc, search, output>>
    PROVE  UNCHANGED Emit!vars
<1>1. UNCHANGED <<call, output, pc, ip>>
  BY DEF search
<1>2. EmitAt' = EmitAt /\ EmitIp' = EmitIp
  BY <1>1 DEF EmitAt, EmitIp
<1> QED
  BY <1>1, <1>2, EmitStutters

\* Where a match is found, and how far it goes back and on.
LEMMA FoundIs ==
    ASSUME InCall, pc = "found"
    PROVE  LET back == Backwards
           IN  /\ back \in Nat /\ anchor <= ip - back /\ lowLimit <= match - back
               /\ \A i \in 1..back : mem[ip - i] = mem[match - i]
               /\ ip < mflimitPlusOne /\ CanCopy(ip)
               /\ ip \in Nat /\ match \in Int /\ lowLimit \in Int /\ anchor \in Nat
<1>1. CallOK /\ PositionsOK /\ AtFound
  BY DEF InCall, SearchOK
<1>2. anchor <= ip /\ ip < mflimitPlusOne /\ CanCopy(ip)
  BY <1>1 DEF AtFound
<1>3. ip \in Nat /\ anchor \in Nat /\ match \in Int /\ lowLimit \in Int
  BY <1>1 DEF PositionsOK
<1>4. call.dictionary \in Nat /\ call.source \in Nat
  BY <1>1, CallIs
<1>5. lowLimit <= match
  BY <1>2, <1>3, <1>4 DEF CanCopy, InDict
<1> DEFINE back == Backwards
<1>6. /\ back \in Nat /\ anchor <= ip - back /\ lowLimit <= match - back
      /\ \A i \in 1..back : mem[ip - i] = mem[match - i]
  BY <1>2, <1>3, <1>5, BackwardsIs
<1> HIDE DEF back
<1> QED
  BY <1>2, <1>3, <1>6 DEF back

LEMMA EmitLiterals ==
    ASSUME IInv, EncodeLiterals PROVE Emit!Next
<1> DEFINE back == Backwards
           lit == ip - back - anchor
<1>1. pc = "found" /\ UNCHANGED call /\ UNCHANGED anchor
  BY DEF EncodeLiterals, Running
<1>2. InCall /\ CallOK /\ PositionsOK
  BY <1>1 DEF IInv, InCall
<1>3. /\ call.source \in Nat /\ call.size \in Nat
      /\ mflimitPlusOne = call.source + call.size - 11
  BY <1>2, CallIs
<1>4. anchor \in Nat /\ call.source <= anchor /\ op \in Nat
  BY <1>2 DEF PositionsOK
<1>5. back \in Nat /\ anchor <= ip - back /\ ip < mflimitPlusOne /\ ip \in Nat
  BY <1>1, <1>2, FoundIs
<1>6. EmitAt = "seq"
  BY <1>1 DEF EmitAt
<1>7. /\ ip' = ip - back
      /\ \/ /\ call.directive = "limitedOutput"
            /\ pc' = "done" /\ result' = 0 /\ UNCHANGED <<token, op, top>>
         \/ /\ token' = op /\ UNCHANGED result
            /\ call.directive = "fillOutput" /\ LiteralsFill(op, lit, call.olimit)
            /\ pc' = "full" /\ UNCHANGED <<op, top>>
         \/ /\ token' = op /\ UNCHANGED result
            /\ call.directive = "limitedOutput" => ~LiteralsOverflow(op, lit, call.olimit)
            /\ call.directive = "fillOutput" => ~LiteralsFill(op, lit, call.olimit)
            /\ op' = AfterLiterals(op, lit)
            /\ top' = Higher(top, TopOfLiterals(op, lit)) /\ pc' = "match"
  BY DEF EncodeLiterals
<1> HIDE DEF back
<1>8. /\ lit \in Nat /\ anchor - call.source + lit + MFLIMIT <= call.size
      /\ ip' - call.source = anchor - call.source + lit /\ lit <= call.size
  BY <1>3, <1>4, <1>5, <1>7, Masks
<1>9. lit \in UNION {0..Len(t) : t \in Texts}
  <2>1. PICK t \in Texts : call.size = Len(t)
    BY <1>2 DEF CallOK, InputSizes
  <2>2. lit \in 0..Len(t)
    BY <1>3, <1>8, <2>1
  <2> QED
    BY <2>2
<1> HIDE DEF lit
<1>10. CASE /\ call.directive = "limitedOutput"
            /\ pc' = "done" /\ result' = 0 /\ UNCHANGED <<token, op, top>>
  <2>1. EmitAt' = "done" /\ EmitIp' = 0
    BY <1>10 DEF EmitAt, EmitIp
  <2> QED
    BY <1>1, <1>6, <1>10, <2>1 DEF Emit!Next, Emit!Fail
<1>11. CASE /\ token' = op /\ UNCHANGED result
            /\ call.directive = "fillOutput" /\ LiteralsFill(op, lit, call.olimit)
            /\ pc' = "full" /\ UNCHANGED <<op, top>>
  <2>1. EmitAt' = "last" /\ EmitIp' = 0
    BY <1>11 DEF EmitAt, EmitIp
  <2>2. Emit!EncodeLiterals(lit)
    BY <1>1, <1>6, <1>8, <1>11, <2>1, SameFormat, Zenon DEF Emit!EncodeLiterals
  <2> QED
    BY <1>9, <2>2 DEF Emit!Next
<1>12. CASE /\ token' = op /\ UNCHANGED result
            /\ call.directive = "limitedOutput" => ~LiteralsOverflow(op, lit, call.olimit)
            /\ call.directive = "fillOutput" => ~LiteralsFill(op, lit, call.olimit)
            /\ op' = AfterLiterals(op, lit)
            /\ top' = Higher(top, TopOfLiterals(op, lit)) /\ pc' = "match"
  <2>1. EmitAt' = "match" /\ EmitIp' = anchor - call.source + lit
    BY <1>1, <1>8, <1>12 DEF EmitAt, EmitIp
  <2>2. Emit!EncodeLiterals(lit)
    BY <1>1, <1>6, <1>8, <1>12, <2>1, SameFormat, Zenon DEF Emit!EncodeLiterals
  <2> QED
    BY <1>9, <2>2 DEF Emit!Next
<1> QED
  BY <1>7, <1>10, <1>11, <1>12

\* The length of the match in progress.
LEMMA MatchIs ==
    ASSUME InCall, pc = "match"
    PROVE  LET code == MatchCode
           IN  /\ code \in Nat /\ ip + MINMATCH + code <= matchlimit
               /\ \E last \in {ip, filledIp} : ip <= last /\ CanCopy(last) /\ last <= ip + code
               /\ anchor <= ip /\ ip \in Nat /\ anchor \in Nat
<1>1. CallOK /\ PositionsOK /\ AtMatch
  BY DEF InCall, SearchOK
<1>2. PICK last \in {ip, filledIp} : ip <= last /\ CanCopy(last)
  BY <1>1 DEF AtMatch
<1>3. anchor <= ip /\ last < mflimitPlusOne
  BY <1>1, <1>2 DEF AtMatch
<1>4. ip \in Nat /\ anchor \in Nat /\ last \in Nat
  BY <1>1, <1>2 DEF PositionsOK
<1> DEFINE code == MatchCode
<1>5. code \in Nat /\ ip + MINMATCH + code <= matchlimit /\ last <= ip + code
  BY <1>1, <1>2, <1>3, <1>4, MatchCodeIs
<1> HIDE DEF code
<1> QED
  BY <1>2, <1>3, <1>4, <1>5 DEF code

LEMMA EmitMatch ==
    ASSUME IInv, EncodeMatch PROVE Emit!Next
<1> DEFINE matchCode == MatchCode
           oo   == op + 2
           full == call.directive # "notLimited" /\ MatchOverflow(oo, matchCode, call.olimit)
           code == IF full THEN ReducedMatchCode(oo, call.olimit) ELSE matchCode
           end  == ip + MINMATCH + code
           Fills == call.directive = "fillOutput" /\ OffsetFills(op, call.olimit)
           Gives == full /\ call.directive = "limitedOutput"
<1>1. /\ pc = "match" /\ UNCHANGED call /\ UNCHANGED token
      /\ \/ Fills /\ op' = token /\ pc' = "full" /\ UNCHANGED <<anchor, top, result>>
         \/ Gives /\ pc' = "done" /\ result' = 0 /\ UNCHANGED <<anchor, op, top>>
         \/ /\ ~Fills /\ ~Gives
            /\ op' = AfterMatch(oo, code)
            /\ top' = Higher(top, Higher(op', TopOfMatch(oo, code)))
            /\ anchor' = end
            /\ pc' \in {"last", "next"}
            /\ UNCHANGED result
  BY DEF EncodeMatch, Running
<1>2. InCall /\ CallOK /\ PositionsOK
  BY <1>1 DEF IInv, InCall
<1>3. /\ call.source \in Nat /\ call.size \in Nat
      /\ matchlimit = call.source + call.size - 5
      /\ call.directive \in {"notLimited", "limitedOutput", "fillOutput"}
  BY <1>2, CallIs DEF CallOK
<1>4. op \in Nat /\ call.source <= anchor /\ call.olimit \in Nat
  BY <1>2, FastAssumption DEF PositionsOK, CallOK
<1>5. matchCode \in Nat /\ ip + MINMATCH + matchCode <= matchlimit /\ anchor <= ip /\ ip \in Nat /\ anchor \in Nat
  BY <1>1, <1>2, MatchIs
<1> HIDE DEF matchCode
<1>6. EmitAt = "match" /\ EmitIp = ip - call.source
  BY <1>1 DEF EmitAt, EmitIp
<1>7. ip - call.source + MINMATCH + matchCode + LASTLITERALS <= call.size /\ matchCode <= call.size
  BY <1>3, <1>4, <1>5, Masks
<1>8. matchCode \in UNION {0..Len(t) : t \in Texts}
  <2>1. PICK t \in Texts : call.size = Len(t)
    BY <1>2 DEF CallOK, InputSizes
  <2>2. matchCode \in 0..Len(t)
    BY <1>3, <1>5, <1>7, <2>1
  <2> QED
    BY <2>2
<1>9. /\ Emit!MINMATCH = MINMATCH /\ Emit!LASTLITERALS = LASTLITERALS
      /\ Emit!OffsetFills(op, call.olimit) <=> OffsetFills(op, call.olimit)
      /\ Emit!MatchOverflow(oo, matchCode, call.olimit) <=> MatchOverflow(oo, matchCode, call.olimit)
      /\ Emit!ReducedMatchCode(oo, call.olimit) = ReducedMatchCode(oo, call.olimit)
      /\ Emit!AfterMatch(oo, code) = AfterMatch(oo, code)
      /\ Emit!Higher(top, Emit!Higher(op', Emit!TopOfMatch(oo, code)))
           = Higher(top, Higher(op', TopOfMatch(oo, code)))
  <2> HIDE DEF oo, code
  <2>1. /\ Emit!MINMATCH = MINMATCH /\ Emit!LASTLITERALS = LASTLITERALS
        /\ Emit!OffsetFills(op, call.olimit) <=> OffsetFills(op, call.olimit)
    BY SameFormat, Zenon
  <2>2. /\ Emit!MatchOverflow(oo, matchCode, call.olimit) <=> MatchOverflow(oo, matchCode, call.olimit)
        /\ Emit!ReducedMatchCode(oo, call.olimit) = ReducedMatchCode(oo, call.olimit)
    BY SameFormat, Zenon
  <2>3. /\ Emit!AfterMatch(oo, code) = AfterMatch(oo, code)
        /\ Emit!TopOfMatch(oo, code) = TopOfMatch(oo, code)
    BY SameFormat, Zenon
  <2>4. /\ Emit!Higher(op', TopOfMatch(oo, code)) = Higher(op', TopOfMatch(oo, code))
        /\ Emit!Higher(top, Higher(op', TopOfMatch(oo, code)))
             = Higher(top, Higher(op', TopOfMatch(oo, code)))
    BY SameFormat, Zenon
  <2> QED
    BY <2>1, <2>2, <2>3, <2>4, Zenon
<1>10. CASE Fills /\ op' = token /\ pc' = "full" /\ UNCHANGED <<anchor, top, result>>
  <2>1. EmitAt' = "last" /\ EmitIp' = 0
    BY <1>10 DEF EmitAt, EmitIp
  <2>2. Emit!EncodeMatch(matchCode)
    BY <1>1, <1>6, <1>7, <1>9, <1>10, <2>1, Zenon DEF Emit!EncodeMatch
  <2> QED
    BY <1>8, <2>2 DEF Emit!Next
<1>11. CASE Gives /\ pc' = "done" /\ result' = 0 /\ UNCHANGED <<anchor, op, top>>
  <2>1. EmitAt' = "done" /\ EmitIp' = 0
    BY <1>11 DEF EmitAt, EmitIp
  <2> QED
    BY <1>1, <1>6, <1>11, <2>1 DEF Emit!Next, Emit!Fail
<1>12. CASE /\ ~Fills /\ ~Gives
            /\ op' = AfterMatch(oo, code)
            /\ top' = Higher(top, Higher(op', TopOfMatch(oo, code)))
            /\ anchor' = end
            /\ pc' \in {"last", "next"}
            /\ UNCHANGED result
  <2>1. EmitAt' = "seq" /\ EmitIp' = 0
    BY <1>12 DEF EmitAt, EmitIp
  <2>2. anchor' - call'.source = ip - call.source + MINMATCH + code
    <3>1. code \in Int
      <4> HIDE DEF full
      <4> QED
        BY <1>3, <1>4, <1>5, Masks DEF ReducedMatchCode
    <3> HIDE DEF code
    <3> QED
      BY <1>1, <1>3, <1>5, <1>12, <3>1, Constants
  <2>3. full => call.directive = "fillOutput"
    BY <1>3, <1>12
  <2>4. Emit!EncodeMatch(matchCode)
    <3> SUFFICES
          /\ full => call.directive = "fillOutput"
          /\ op' = AfterMatch(oo, code)
          /\ top' = Higher(top, Higher(op', TopOfMatch(oo, code)))
          /\ anchor' - call'.source = ip - call.source + MINMATCH + code
          /\ EmitAt' = "seq" /\ EmitIp' = 0
      BY <1>1, <1>6, <1>7, <1>9, <1>12, Zenon DEF Emit!EncodeMatch
    <3> QED
      BY <1>12, <2>1, <2>2, <2>3
  <2> QED
    BY <1>8, <2>4 DEF Emit!Next
<1> QED
  BY <1>1, <1>10, <1>11, <1>12

LEMMA EmitNext ==
    ASSUME IInv, TestNextPosition PROVE Emit!Next \/ UNCHANGED Emit!vars
<1>1. /\ pc = "next" /\ UNCHANGED call /\ UNCHANGED <<anchor, block, result>>
      /\ \/ /\ token' = op /\ op' = op + 1 /\ top' = Higher(top, op + 1)
            /\ pc' = "match" /\ UNCHANGED ip
         \/ pc' = "search" /\ UNCHANGED <<token, op, top>>
  BY DEF TestNextPosition, Running, StartSearch
<1>2. CallOK /\ PositionsOK /\ AtNext
  BY <1>1 DEF IInv, InCall, SearchOK
<1>3. /\ call.source \in Nat /\ call.size \in Nat
      /\ mflimitPlusOne = call.source + call.size - 11 /\ anchor \in Nat
      /\ ip = anchor /\ call.source + 4 <= ip /\ ip < mflimitPlusOne
  BY <1>1, <1>2, CallIs, Masks DEF PositionsOK, AtNext
<1>4. EmitAt = "seq" /\ EmitIp = 0
  BY <1>1 DEF EmitAt, EmitIp
<1>5. anchor - call.source > 0 /\ anchor - call.source + MFLIMIT <= call.size
  BY <1>3, Masks
<1>6. CASE /\ token' = op /\ op' = op + 1 /\ top' = Higher(top, op + 1)
           /\ pc' = "match" /\ UNCHANGED ip
  <2>1. EmitAt' = "match" /\ EmitIp' = anchor - call.source
    BY <1>1, <1>3, <1>6 DEF EmitAt, EmitIp
  <2>2. Emit!MFLIMIT = MFLIMIT /\ Emit!Higher(top, op + 1) = Higher(top, op + 1)
    BY SameFormat, Zenon
  <2>3. Emit!NextMatch
    BY <1>1, <1>4, <1>5, <1>6, <2>1, <2>2, Zenon DEF Emit!NextMatch
  <2> QED
    BY <2>3 DEF Emit!Next
<1>7. CASE pc' = "search" /\ UNCHANGED <<token, op, top>>
  <2>1. EmitAt' = EmitAt /\ EmitIp' = EmitIp
    BY <1>4, <1>7 DEF EmitAt, EmitIp
  <2> QED
    BY <1>1, <1>7, <2>1, EmitStutters DEF output
<1> QED
  BY <1>1, <1>6, <1>7

LEMMA EmitLast ==
    ASSUME IInv, LastLiterals PROVE Emit!Next
<1> DEFINE rest == iend - anchor
           full == call.directive # "notLimited" /\ LastOverflow(op, rest, call.olimit)
           lastRun == IF full THEN FilledLastRun(op, call.olimit) ELSE rest
<1>1. /\ pc \in {"last", "full"} /\ pc' = "done" /\ UNCHANGED call /\ UNCHANGED token
      /\ \/ /\ full /\ call.directive = "limitedOutput"
            /\ result' = 0 /\ UNCHANGED <<op, top, anchor>>
         \/ /\ ~(full /\ call.directive = "limitedOutput")
            /\ anchor' = anchor + lastRun
            /\ op' = AfterLast(op, lastRun) /\ top' = Higher(top, op') /\ result' = op'
  BY DEF LastLiterals, Running
<1>2. CallOK /\ PositionsOK
  BY <1>1 DEF IInv, InCall
<1>3. /\ call.source \in Nat /\ call.size \in Nat /\ iend = call.source + call.size
      /\ call.directive \in {"notLimited", "limitedOutput", "fillOutput"}
  BY <1>2, CallIs DEF CallOK
<1>4. op \in Nat /\ anchor \in Nat /\ call.olimit \in Nat
  BY <1>2, FastAssumption DEF PositionsOK, CallOK
<1>5. /\ EmitAt \in {"seq", "last"} /\ EmitIp = 0 /\ EmitAt' = "done" /\ EmitIp' = 0
  BY <1>1 DEF EmitAt, EmitIp
<1>6. CASE /\ full /\ call.directive = "limitedOutput"
           /\ result' = 0 /\ UNCHANGED <<op, top, anchor>>
  BY <1>1, <1>5, <1>6 DEF Emit!Next, Emit!Fail
<1>7. CASE /\ ~(full /\ call.directive = "limitedOutput")
           /\ anchor' = anchor + lastRun
           /\ op' = AfterLast(op, lastRun) /\ top' = Higher(top, op') /\ result' = op'
  <2>1. rest = call.size - (anchor - call.source)
    BY <1>3, <1>4
  <2>2. /\ Emit!LastOverflow(op, rest, call.olimit) <=> LastOverflow(op, rest, call.olimit)
        /\ Emit!FilledLastRun(op, call.olimit) = FilledLastRun(op, call.olimit)
        /\ Emit!AfterLast(op, lastRun) = AfterLast(op, lastRun)
        /\ Emit!Higher(top, op') = Higher(top, op')
    <3> HIDE DEF rest, lastRun
    <3> QED
      BY SameFormat, Zenon
  <2>3. anchor' - call'.source = anchor - call.source + lastRun
    <3>1. lastRun \in Int
      <4> HIDE DEF full
      <4> QED
        BY <1>3, <1>4, Masks DEF FilledLastRun
    <3> HIDE DEF lastRun
    <3> QED
      BY <1>1, <1>3, <1>4, <1>7, <3>1
  <2>4. full => call.directive = "fillOutput"
    BY <1>3, <1>7
  <2> HIDE DEF rest
  <2>5. Emit!LastLiterals
    BY <1>1, <1>5, <1>7, <2>1, <2>2, <2>3, <2>4, Zenon DEF Emit!LastLiterals
  <2> QED
    BY <2>5 DEF Emit!Next
<1> QED
  BY <1>1, <1>6, <1>7

LEMMA EmitStep == IInv /\ IInv' /\ [Next]_vars => [Emit!Next]_(Emit!vars)
<1> SUFFICES ASSUME IInv, IInv', [Next]_vars PROVE Emit!Next \/ UNCHANGED Emit!vars
  OBVIOUS
<1>1. CASE UNCHANGED vars
  BY <1>1, EmitIdle DEF vars
<1>2. CASE \E text \in Texts, room \in Rooms : OneShotCall(text, room)
  <2>1. PICK text \in Texts, room \in Rooms : OneShotCall(text, room)
    BY <1>2
  <2>2. CASE LZ4_compress_fast_extState(OneShotAt, text, room)
    BY <2>2, EmitCall, Zenon DEF LZ4_compress_fast_extState, Compress
  <2>3. CASE LZ4_compress_fast_extState_fastReset(OneShotAt, text, room)
    BY <2>3, EmitCall, Zenon DEF LZ4_compress_fast_extState_fastReset, Compress
  <2>4. CASE LZ4_compress_destSize_extState(OneShotAt, text, room)
    BY <2>4, EmitCall, Zenon DEF LZ4_compress_destSize_extState, Compress
  <2> QED
    BY <2>1, <2>2, <2>3, <2>4 DEF OneShotCall
<1>3. CASE \E text \in Texts, room \in Rooms, source \in Slots :
              LZ4_compress_fast_continue(source, text, room)
  <2>1. PICK text \in Texts, room \in Rooms, source \in Slots :
              LZ4_compress_fast_continue(source, text, room)
    BY <1>3
  <2>2. PICK c, mode, issue, keeps :
              Compress(c, source, text, room, "limitedOutput", "byU32", mode, issue, keeps)
    BY <2>1, Zenon DEF LZ4_compress_fast_continue
  <2>3. Idle
    BY <2>2 DEF Compress
  <2> QED
    BY <2>2, <2>3, EmitCall, Zenon
<1>4. CASE \/ LZ4_resetStream_fast \/ LZ4_attachDictionary
           \/ \E text \in DictTexts, slow \in BOOLEAN : LZ4_loadDict(text, slow)
           \/ \E size \in {0, 3, 6, KB64} : LZ4_saveDict(size)
  BY <1>4, EmitIdle DEF LZ4_resetStream_fast, LZ4_attachDictionary, LZ4_loadDict, LZ4_saveDict
<1>5. CASE Search
  <2>1. pc = "search" /\ pc' \in {"last", "found", "search"} /\ UNCHANGED call /\ UNCHANGED output
    BY <1>5 DEF Search, Running
  <2>2. EmitAt' = EmitAt /\ EmitIp' = EmitIp
    BY <2>1 DEF EmitAt, EmitIp
  <2> QED
    BY <2>1, <2>2, EmitStutters
<1>6. CASE EncodeLiterals
  BY <1>6, EmitLiterals
<1>7. CASE EncodeMatch
  BY <1>7, EmitMatch
<1>8. CASE TestNextPosition
  BY <1>8, EmitNext
<1>9. CASE LastLiterals
  BY <1>9, EmitLast
<1>10. CASE Return
  <2>1. /\ pc = "done" /\ pc' = "idle" /\ UNCHANGED call
        /\ UNCHANGED <<anchor, token, op, top, result>>
    BY <1>10 DEF Return
  <2>2. EmitAt' = EmitAt /\ EmitIp' = EmitIp
    BY <2>1 DEF EmitAt, EmitIp
  <2> QED
    BY <2>1, <2>2 DEF Emit!vars
<1> QED
  BY <1>1, <1>2, <1>3, <1>4, <1>5, <1>6, <1>7, <1>8, <1>9, <1>10 DEF Next

(* Whatever the search finds, the encoder emits what Lz4Emit allows: it    *)
(* tiles the source within the parsing restrictions and makes the same     *)
(* output checks, so that the theorems about Lz4Emit speak of it.          *)
THEOREM EmitsAsAllowed == Spec => ImplementsEmit
<1>1. IInv /\ IInv' /\ [Next]_vars => [Emit!Next]_(Emit!vars)
  BY EmitStep
<1> QED
  BY <1>1, EmitInit, Invariant, PTL DEF Spec, ImplementsEmit, Emit!Spec

-----------------------------------------------------------------------------
(* What a block decodes to                                                 *)

\* One sequence more.
After(s, q) ==
    LET t == s \o q.lit
    IN  CASE q.len = 0            -> t
          [] q.off \in 1..Len(t)  -> CopyBack(t, q.off, q.len)
          [] OTHER                -> <<>>

DecodesTo(out, b, h) ==
    out = [i \in 0..Len(b) |-> IF i = 0 THEN h ELSE After(out[i - 1], b[i])]

\* What holds at 0 and is passed on holds up to n.
LEMMA UpTo ==
    ASSUME NEW n \in Nat, NEW S, 0 \in S, \A k \in 0..(n - 1) : k \in S => k + 1 \in S
    PROVE  \A k \in 0..n : k \in S
<1>1. SUFFICES ASSUME NEW k \in 0..n, k \notin S PROVE FALSE
  OBVIOUS
<1> DEFINE T == {i \in 0..n : i \notin S}
<1>2. T \subseteq Nat /\ T # {}
  BY <1>1
<1>3. PICK x \in T : \A y \in T : x <= y
  <2> HIDE DEF T
  <2> QED
    BY <1>2, LeastOne
<1>4. x \in 0..n /\ x \notin S /\ x # 0
  BY <1>3
<1>5. x - 1 \in 0..(n - 1) /\ x - 1 + 1 = x
  BY <1>4
<1>6. x - 1 \in S
  BY <1>3, <1>5
<1> QED
  BY <1>4, <1>5, <1>6

LEMMA DecodesExist ==
    ASSUME NEW b, Len(b) \in Nat, NEW h
    PROVE  \E out : DecodesTo(out, b, h)
<1> DEFINE Upto(out, n) == out = [i \in 0..n |-> IF i = 0 THEN h ELSE After(out[i - 1], b[i])]
           S == {n \in 0..Len(b) : \E out : Upto(out, n)}
<1>1. 0 \in S
  <2>1. Upto([i \in 0..0 |-> h], 0)
    OBVIOUS
  <2> HIDE DEF Upto
  <2> QED
    BY <2>1
<1>2. ASSUME NEW k \in 0..(Len(b) - 1), k \in S PROVE k + 1 \in S
  <2>1. PICK out : Upto(out, k)
    BY <1>2
  <2> DEFINE next == [i \in 0..(k + 1) |-> IF i = k + 1 THEN After(out[k], b[k + 1]) ELSE out[i]]
  <2>2. Upto(next, k + 1)
    <3>1. out[0] = h /\ \A i \in 1..k : out[i] = After(out[i - 1], b[i])
      BY <2>1
    <3> SUFFICES ASSUME NEW i \in 0..(k + 1)
                 PROVE  next[i] = IF i = 0 THEN h ELSE After(next[i - 1], b[i])
      OBVIOUS
    <3> QED
      BY <3>1
  <2> HIDE DEF Upto
  <2> QED
    BY <2>2
<1> HIDE DEF S
<1>3. Len(b) \in S
  <2>1. \A k \in 0..(Len(b) - 1) : k \in S => k + 1 \in S
    BY <1>2
  <2>2. \A k \in 0..Len(b) : k \in S
    BY <1>1, <2>1, UpTo, Zenon
  <2> QED
    BY <2>2
<1>4. PICK out : Upto(out, Len(b))
  BY <1>3 DEF S
<1> QED
  BY <1>4 DEF DecodesTo

LEMMA DecodedBy ==
    ASSUME NEW b, Len(b) \in Nat, NEW h
    PROVE  \E out : DecodesTo(out, b, h) /\ Decoded(b, h) = out[Len(b)]
<1> DEFINE f == CHOOSE out : DecodesTo(out, b, h)
<1>1. DecodesTo(f, b, h)
  BY DecodesExist, Zenon
<1>2. Decoded(b, h) = f[Len(b)]
  BY Zenon DEF Decoded, DecodesTo, After
<1> QED
  BY <1>1, <1>2

LEMMA DecodedNothing ==
    ASSUME NEW h PROVE Decoded(<<>>, h) = h
<1>1. Len(<<>>) \in Nat /\ Len(<<>>) = 0
  OBVIOUS
<1>2. PICK out : DecodesTo(out, <<>>, h) /\ Decoded(<<>>, h) = out[Len(<<>>)]
  BY <1>1, DecodedBy, Zenon
<1> QED
  BY <1>1, <1>2 DEF DecodesTo

LEMMA DecodedMore ==
    ASSUME NEW T, NEW b \in Seq(T), NEW q \in T, NEW h
    PROVE  Decoded(Append(b, q), h) = After(Decoded(b, h), q)
<1> DEFINE c == Append(b, q)
           n == Len(b)
<1>1. /\ n \in Nat /\ Len(c) \in Nat /\ Len(c) = n + 1 /\ c[n + 1] = q
      /\ \A i \in 1..n : c[i] = b[i]
  OBVIOUS
<1> HIDE DEF c, n
<1>2. PICK out : DecodesTo(out, b, h) /\ Decoded(b, h) = out[n]
  BY <1>1, DecodedBy DEF n
<1>3. PICK more : DecodesTo(more, c, h) /\ Decoded(c, h) = more[n + 1]
  <2>1. PICK more : DecodesTo(more, c, h) /\ Decoded(c, h) = more[Len(c)]
    BY <1>1, DecodedBy, Zenon
  <2> QED
    BY <1>1, <2>1
<1>4. /\ out[0] = h /\ more[0] = h
      /\ \A i \in 1..n : out[i] = After(out[i - 1], b[i])
      /\ \A i \in 1..(n + 1) : more[i] = After(more[i - 1], c[i])
  <2>1. out = [i \in 0..n |-> IF i = 0 THEN h ELSE After(out[i - 1], b[i])]
    BY <1>2, Zenon DEF DecodesTo, n
  <2>2. more = [i \in 0..(n + 1) |-> IF i = 0 THEN h ELSE After(more[i - 1], c[i])]
    BY <1>1, <1>3, Zenon DEF DecodesTo
  <2> QED
    BY <1>1, <2>1, <2>2
<1> DEFINE S == {i \in 0..n : more[i] = out[i]}
<1>5. 0 \in S /\ \A k \in 0..(n - 1) : k \in S => k + 1 \in S
  <2>1. 0 \in S
    BY <1>1, <1>4
  <2>2. ASSUME NEW k \in 0..(n - 1), k \in S PROVE k + 1 \in S
    <3>1. k + 1 \in 1..n /\ k + 1 \in 1..(n + 1) /\ k + 1 - 1 = k /\ k + 1 \in 0..n
      BY <1>1
    <3>2. more[k + 1] = After(more[k], c[k + 1]) /\ out[k + 1] = After(out[k], b[k + 1])
      BY <1>4, <3>1
    <3>3. more[k] = out[k] /\ c[k + 1] = b[k + 1]
      BY <1>1, <2>2, <3>1
    <3> QED
      BY <3>1, <3>2, <3>3
  <2> QED
    BY <2>1, <2>2
<1>6. more[n] = out[n]
  <2> HIDE DEF S
  <2>1. \A k \in 0..n : k \in S
    BY <1>1, <1>5, UpTo
  <2>2. n \in S
    BY <1>1, <2>1
  <2> QED
    BY <2>2 DEF S
<1>7. more[n + 1] = After(more[n], q)
  <2>1. n + 1 \in 1..(n + 1) /\ n + 1 - 1 = n
    BY <1>1
  <2> QED
    BY <1>1, <1>4, <2>1
<1> QED
  BY <1>2, <1>3, <1>6, <1>7 DEF c

LEMMA ModSmall ==
    ASSUME NEW a \in Nat, NEW b \in Nat, a < b PROVE a % b = a
BY SMTT(30)

LEMMA ModIs ==
    ASSUME NEW a \in Nat, NEW b \in Nat, b >= 1
    PROVE  a % b \in 0..(b - 1) /\ a = b * (a \div b) + (a % b)
BY SMTT(30)

LEMMA ModOnly ==
    ASSUME NEW a \in Nat, NEW b \in Nat, b >= 1, NEW q \in Int, NEW r \in 0..(b - 1), a = b * q + r
    PROVE  r = a % b
BY SMTT(30)

LEMMA ModLess ==
    ASSUME NEW a \in Nat, NEW b \in Nat, b >= 1 PROVE (a + b) % b = a % b
<1> DEFINE q == a \div b
           r == a % b
<1>1. q \in Int /\ r \in 0..(b - 1) /\ a = b * q + r
  BY ModIs
<1> HIDE DEF q, r
<1>2. b * (q + 1) = b * q + b
  BY <1>1, SMTT(30)
<1>3. b * q \in Int /\ b * (q + 1) \in Int
  BY <1>1
<1>4. a + b = b * (q + 1) + r
  BY <1>1, <1>2, <1>3
<1>5. a + b \in Nat /\ q + 1 \in Int
  BY <1>1
<1>6. r = (a + b) % b
  BY <1>1, <1>4, <1>5, ModOnly
<1> QED
  BY <1>6 DEF r

LEMMA PrefixIs ==
    ASSUME NEW v \in Seq(Nat), NEW n \in Nat, n <= Len(v)
    PROVE  /\ SubSeq(v, 1, n) \in Seq(Nat) /\ Len(SubSeq(v, 1, n)) = n
           /\ \A i \in 1..n : SubSeq(v, 1, n)[i] = v[i]
<1>1. Len(v) \in Nat
  OBVIOUS
<1> QED
  BY <1>1

\* A prefix and the bytes behind it are a longer prefix.
LEMMA PrefixGrows ==
    ASSUME NEW v \in Seq(Nat), NEW p \in Nat, NEW n \in Nat, p + n <= Len(v),
           NEW b \in Seq(Nat), Len(b) = n, \A i \in 1..n : b[i] = v[p + i]
    PROVE  SubSeq(v, 1, p) \o b = SubSeq(v, 1, p + n)
<1> DEFINE s == SubSeq(v, 1, p)
           r == SubSeq(v, 1, p + n)
<1>1. Len(v) \in Nat /\ p + n \in Nat /\ p <= Len(v)
  <2>1. Len(v) \in Nat
    OBVIOUS
  <2> QED
    BY <2>1
<1>2. s \in Seq(Nat) /\ Len(s) = p /\ \A i \in 1..p : s[i] = v[i]
  BY <1>1, PrefixIs
<1>3. r \in Seq(Nat) /\ Len(r) = p + n /\ \A i \in 1..(p + n) : r[i] = v[i]
  BY <1>1, PrefixIs
<1> HIDE DEF s, r
<1>4. /\ s \o b \in Seq(Nat) /\ Len(s \o b) = p + n
      /\ \A i \in 1..(p + n) : (s \o b)[i] = IF i <= p THEN s[i] ELSE b[i - p]
  <2>1. /\ s \o b \in Seq(Nat) /\ Len(s \o b) = Len(s) + Len(b)
        /\ \A i \in 1..(Len(s) + Len(b)) :
              (s \o b)[i] = IF i <= Len(s) THEN s[i] ELSE b[i - Len(s)]
    BY <1>2, ConcatProperties, Zenon
  <2> QED
    BY <1>2, <2>1
<1>5. ASSUME NEW i \in 1..(p + n) PROVE (s \o b)[i] = r[i]
  <2>1. CASE i <= p
    <3>1. i \in 1..p
      BY <2>1
    <3>2. (s \o b)[i] = s[i]
      BY <1>4, <2>1, Zenon
    <3> QED
      BY <1>2, <1>3, <3>1, <3>2, Zenon
  <2>2. CASE i > p
    <3>1. i - p \in 1..n /\ p + (i - p) = i
      BY <2>2
    <3>2. (s \o b)[i] = b[i - p]
      BY <1>4, <2>2
    <3>3. b[i - p] = v[i]
      BY <3>1
    <3> QED
      BY <1>3, <3>2, <3>3
  <2>3. i <= p \/ i > p
    OBVIOUS
  <2> QED
    BY <2>1, <2>2, <2>3
<1>6. s \o b = r
  <2>1. Len(s \o b) = Len(r) /\ \A i \in 1..Len(s \o b) : (s \o b)[i] = r[i]
    BY <1>3, <1>4, <1>5
  <2> QED
    BY <1>3, <1>4, <2>1, SeqEqual, Zenon
<1> QED
  BY <1>6 DEF s, r

\* A copy from behind continues bytes that repeat with its offset.
LEMMA CopyBackIs ==
    ASSUME NEW v \in Seq(Nat), NEW p \in Nat, NEW off \in Nat, NEW len \in Nat,
           1 <= off, off <= p, p + len <= Len(v),
           \A k \in 1..len : v[p + k] = v[p + k - off]
    PROVE  CopyBack(SubSeq(v, 1, p), off, len) = SubSeq(v, 1, p + len)
<1> DEFINE s == SubSeq(v, 1, p)
           period == [i \in 1..off |-> s[Len(s) - off + i]]
           more == [i \in 1..len |-> period[((i - 1) % off) + 1]]
<1>1. Len(v) \in Nat /\ s \in Seq(Nat) /\ Len(s) = p /\ \A i \in 1..p : s[i] = v[i]
  OBVIOUS
<1>2. \A k \in 1..len : ((k - 1) % off) + 1 \in 1..off
  OBVIOUS
<1> HIDE DEF s
<1>3. \A k \in 1..off : period[k] = v[p - off + k]
  <2> SUFFICES ASSUME NEW k \in 1..off PROVE period[k] = v[p - off + k]
    OBVIOUS
  <2>1. p - off + k \in 1..p
    OBVIOUS
  <2>2. period[k] = s[p - off + k]
    BY <1>1
  <2> QED
    BY <1>1, <2>1, <2>2, Zenon
<1> HIDE DEF period
<1> DEFINE S == {k \in 0..len : k # 0 => v[p + k] = v[p - off + (((k - 1) % off) + 1)]}
<1>4. \A k \in 1..len : k \in S
  <2>1. SUFFICES ASSUME NEW k \in 1..len, k \notin S PROVE FALSE
    OBVIOUS
  <2> DEFINE T == {i \in 0..len : i \notin S}
  <2>2. T \subseteq Nat /\ T # {}
    <3> HIDE DEF S
    <3> QED
      BY <2>1
  <2>3. PICK x \in T : \A y \in T : x <= y
    <3> HIDE DEF T
    <3> QED
      BY <2>2, LeastOne
  <2>4. x \in 1..len /\ v[p + x] # v[p - off + (((x - 1) % off) + 1)] /\ v[p + x] = v[p + x - off]
    BY <2>3
  <2>5. CASE x <= off
    <3>1. (x - 1) % off = x - 1
      <4>1. x - 1 \in Nat /\ x - 1 < off
        BY <2>4, <2>5
      <4> QED
        BY <4>1, ModSmall
    <3>2. p - off + (x - 1 + 1) = p + x - off
      BY <2>4
    <3> QED
      BY <2>4, <3>1, <3>2
  <2>6. CASE x > off
    <3>1. x - off \in 1..len /\ x - off < x
      BY <2>4, <2>6
    <3>2. x - off \in S
      <4>1. x - off \in 0..len /\ ~(x <= x - off)
        BY <2>4, <3>1
      <4>2. x - off \notin T
        BY <2>3, <4>1, Zenon
      <4> HIDE DEF S
      <4> QED
        BY <4>1, <4>2
    <3>3. v[p + (x - off)] = v[p - off + (((x - off - 1) % off) + 1)]
      BY <3>1, <3>2
    <3>4. (x - off - 1) % off = (x - 1) % off
      <4>1. x - off - 1 \in Nat /\ x - off - 1 + off = x - 1
        BY <2>4, <2>6
      <4> QED
        BY <4>1, ModLess
    <3>5. p + (x - off) = p + x - off
      BY <2>4
    <3> QED
      BY <2>4, <3>3, <3>4, <3>5
  <2> QED
    BY <2>4, <2>5, <2>6
<1>5. \A k \in 1..len : v[p + k] = period[((k - 1) % off) + 1]
  <2>1. ASSUME NEW k \in 1..len PROVE v[p + k] = period[((k - 1) % off) + 1]
    <3>1. k \in S /\ k # 0
      BY <1>4
    <3>2. v[p + k] = v[p - off + (((k - 1) % off) + 1)]
      BY <3>1
    <3> QED
      BY <1>2, <1>3, <3>2
  <2> QED
    BY <2>1
<1>6. \A k \in 1..len : v[p + k] \in Nat
  <2>1. ASSUME NEW k \in 1..len PROVE v[p + k] \in Nat
    <3>1. p + k \in 1..Len(v)
      BY <1>1
    <3> QED
      BY <3>1
  <2> QED
    BY <2>1
<1>7. more \in Seq(Nat) /\ Len(more) = len /\ \A k \in 1..len : more[k] = v[p + k]
  BY <1>5, <1>6
<1> HIDE DEF more
<1>8. SubSeq(v, 1, p) \o more = SubSeq(v, 1, p + len)
  BY <1>7, PrefixGrows
<1> QED
  BY <1>8, Zenon DEF CopyBack, s, period, more

-----------------------------------------------------------------------------
(* The inductive invariant: what the decoder has, and what it is told      *)

\* The history ends with the bytes between two addresses.
Remembered(from, end) ==
    \A j \in 1..(end - from) :
       j <= KB64 => j <= Len(history) /\ history[Len(history) + 1 - j] = mem[end - j]

\* Between two calls it ends with what the next call may refer to.
HistoryKept ==
    use # "other" => IF ctx.dictCtx
                     THEN Remembered(dict.dictionary, dict.dictionary + dict.dictSize)
                     ELSE Remembered(ctx.dictionary, ctx.dictionary + ctx.dictSize)

\* During a call, with what the call refers to.
HistoryOK ==
    /\ call.mode = "noDict" => history = <<>> /\ lowLimit = call.source
    /\ call.mode # "noDict" => Remembered(call.dictionary, call.dictEnd)
    /\ call.mode = "withPrefix64k" =>
          /\ call.dictEnd = call.source /\ lowLimit >= call.dictionary
          /\ call.keeps = "context"
          /\ ctx.dictionary = call.dictionary
          /\ ctx.dictionary + ctx.dictSize = call.source + call.size

\* A table of sixteen bits is for small sources.
SizeOK == call.tableType = "byU16" => call.size < LZ4_64Klimit

\* The offset of a match: how far behind it its bytes are, and in two bytes.
Distance == IF maybe_extMem THEN offset ELSE ip - match

DistanceOK ==
    pc \in {"found", "match"} =>
        /\ InDict => offset = (ip - call.source) + (call.dictEnd - match)
        /\ maybe_extMem /\ ~InDict => offset = ip - match
        /\ Distance <= DISTANCE_MAX

Records == [lit : Seq(Nat), off : 0..DISTANCE_MAX, len : Nat]

\* The sequences emitted so far decode to the source up to anchor.
BlockOK ==
    /\ block \in Seq(Records)
    /\ pc # "done" \/ result # 0 => Decoded(block, history) = history \o Consumed

\* The last match leaves enough literals behind it, and room for them.
EndOK ==
    pc # "done" /\ Len(block) > 0 =>
        LET last == block[Len(block)].len
            o    == IF pc = "match" THEN token ELSE op
        IN  /\ anchor <= matchlimit /\ last >= MINMATCH /\ last + (iend - anchor) >= MFLIMIT
            /\ call.directive = "fillOutput" =>
                  /\ o + LASTLITERALS + 1 <= call.olimit
                  /\ o + MFLIMIT - MINMATCH + 1 <= call.olimit \/ last >= MFLIMIT

DoneOK ==
    pc = "done" /\ result # 0 =>
        /\ call.directive # "fillOutput" => anchor = iend
        /\ EndsWithLiterals(block)

RTInv ==
    /\ pc = "idle" => HistoryKept
    /\ pc # "idle" => HistoryOK /\ SizeOK /\ DistanceOK /\ BlockOK /\ EndOK /\ DoneOK

\* The history and the whole source behind it.
Stream == history \o Bytes(call.source, call.size)
At(a) == Len(history) + 1 + (a - call.source)

LEMMA SourceIs ==
    ASSUME StreamOK, CallOK
    PROVE  /\ Stream \in Seq(Nat) /\ Len(history) \in Nat
           /\ Len(Stream) = Len(history) + call.size
           /\ \A i \in 1..Len(history) : Stream[i] = history[i]
           /\ \A a \in call.source..(iend - 1) : At(a) \in 1..Len(Stream) /\ Stream[At(a)] = mem[a]
<1>1. /\ call.source \in Nat /\ call.source >= 1 /\ call.size \in Nat /\ iend = call.source + call.size
      /\ iend <= MemEnd /\ MemEnd \in Nat
  BY CallIs, Constants
<1>2. mem \in [Addresses -> Nat] /\ history \in Seq(Nat) /\ Len(history) \in Nat
  BY DEF StreamOK
<1> DEFINE b == Bytes(call.source, call.size)
<1>3. /\ b \in Seq(Nat) /\ Len(b) = call.size
      /\ \A i \in 1..call.size : b[i] = mem[call.source + i - 1]
  <2>1. call.source + call.size <= MemEnd + 1
    BY <1>1
  <2> QED
    BY <1>1, <1>2, <2>1, BytesIs, Zenon
<1> HIDE DEF b
<1>4. /\ history \o b \in Seq(Nat) /\ Len(history \o b) = Len(history) + Len(b)
      /\ \A i \in 1..(Len(history) + Len(b)) :
            (history \o b)[i] = IF i <= Len(history) THEN history[i] ELSE b[i - Len(history)]
  BY <1>2, <1>3, ConcatProperties, Zenon
<1>5. Stream = history \o b
  BY Zenon DEF Stream, b
<1>6. ASSUME NEW a \in call.source..(iend - 1)
      PROVE  At(a) \in 1..Len(Stream) /\ Stream[At(a)] = mem[a]
  <2>1. At(a) \in 1..(Len(history) + Len(b)) /\ At(a) > Len(history)
        /\ At(a) - Len(history) \in 1..call.size /\ call.source + (At(a) - Len(history)) - 1 = a
    <3>1. PICK l \in Nat : l = Len(history)
      BY <1>2
    <3>2. At(a) = l + 1 + (a - call.source)
      BY <3>1, Zenon DEF At
    <3>3. /\ l + 1 + (a - call.source) \in 1..(l + call.size) /\ l + 1 + (a - call.source) > l
          /\ l + 1 + (a - call.source) - l \in 1..call.size
          /\ call.source + (l + 1 + (a - call.source) - l) - 1 = a
      BY <1>1
    <3>4. At(a) > Len(history)
      BY <3>1, <3>2, <3>3
    <3>5. At(a) \in 1..(l + call.size)
      BY <3>2, <3>3
    <3>6. At(a) - l \in 1..call.size /\ call.source + (At(a) - l) - 1 = a
      BY <1>1, <3>2, <3>3
    <3> QED
      BY <1>3, <3>1, <3>4, <3>5, <3>6, Zenon
  <2>2. Stream[At(a)] = b[At(a) - Len(history)]
    <3>1. ~(At(a) <= Len(history))
      BY <1>2, <2>1
    <3> QED
      BY <1>4, <1>5, <2>1, <3>1, Zenon
  <2> QED
    BY <1>3, <1>4, <1>5, <2>1, <2>2
<1> QED
  BY <1>2, <1>3, <1>4, <1>5, <1>6

LEMMA HistoryIsPart ==
    ASSUME StreamOK, CallOK PROVE history = SubSeq(Stream, 1, Len(history))
<1>1. /\ Stream \in Seq(Nat) /\ Len(history) \in Nat /\ Len(Stream) = Len(history) + call.size
      /\ \A i \in 1..Len(history) : Stream[i] = history[i]
  BY SourceIs
<1>2. call.size \in Nat /\ history \in Seq(Nat)
  BY CallIs DEF StreamOK
<1>3. Len(history) <= Len(Stream)
  BY <1>1, <1>2
<1>4. /\ SubSeq(Stream, 1, Len(history)) \in Seq(Nat)
      /\ Len(SubSeq(Stream, 1, Len(history))) = Len(history)
      /\ \A i \in 1..Len(history) : SubSeq(Stream, 1, Len(history))[i] = Stream[i]
  BY <1>1, <1>3, PrefixIs, Zenon
<1>5. \A i \in 1..Len(history) : history[i] = SubSeq(Stream, 1, Len(history))[i]
  BY <1>1, <1>4, Zenon
<1> QED
  BY <1>2, <1>4, <1>5, SeqEqual, Zenon

\* What is encoded up to a position, with the bytes of the next literals.
LEMMA LiteralsPart ==
    ASSUME StreamOK, CallOK, NEW a \in Nat, call.source <= a, NEW n \in Nat, a + n <= iend
    PROVE  /\ SubSeq(Stream, 1, Len(history) + (a - call.source)) \o Bytes(a, n)
                = SubSeq(Stream, 1, Len(history) + (a - call.source) + n)
           /\ Bytes(a, n) \in Seq(Nat) /\ Len(Bytes(a, n)) = n
<1>1. /\ call.source \in Nat /\ call.source >= 1 /\ iend = call.source + call.size /\ call.size \in Nat
      /\ iend <= MemEnd /\ MemEnd \in Nat
  BY CallIs, Constants
<1>2. mem \in [Addresses -> Nat]
  BY DEF StreamOK
<1>3. /\ Stream \in Seq(Nat) /\ Len(history) \in Nat /\ Len(Stream) = Len(history) + call.size
      /\ \A x \in call.source..(iend - 1) : Stream[At(x)] = mem[x]
  BY SourceIs
<1>4. /\ Bytes(a, n) \in Seq(Nat) /\ Len(Bytes(a, n)) = n
      /\ \A i \in 1..n : Bytes(a, n)[i] = mem[a + i - 1]
  <2>1. a + n <= MemEnd + 1 /\ a >= 1
    BY <1>1
  <2> QED
    BY <1>2, <2>1, BytesIs, Zenon
<1> DEFINE p == Len(history) + (a - call.source)
<1>5. p \in Nat /\ p + n <= Len(Stream)
  <2>1. PICK l \in Nat : l = Len(history)
    BY <1>3
  <2>2. p = l + (a - call.source) /\ Len(Stream) = l + call.size
    BY <1>3, <2>1, Zenon
  <2>3. a + n <= call.source + call.size
    BY <1>1, Zenon
  <2>4. l + (a - call.source) \in Nat /\ l + (a - call.source) + n <= l + call.size
    BY <1>1, <2>3
  <2> HIDE DEF p
  <2> QED
    BY <2>2, <2>4, Zenon
<1>6. ASSUME NEW i \in 1..n PROVE Bytes(a, n)[i] = Stream[p + i]
  <2>1. a + i - 1 \in call.source..(iend - 1)
    BY <1>1
  <2>2. PICK x \in call.source..(iend - 1) : x = a + i - 1
    BY <2>1
  <2>3. At(x) = p + i
    <3>1. PICK l \in Nat : l = Len(history)
      BY <1>3
    <3>2. At(x) = l + 1 + (x - call.source)
      BY <3>1, Zenon DEF At
    <3>3. p = l + (a - call.source)
      BY <3>1, Zenon
    <3> HIDE DEF p
    <3> QED
      BY <1>1, <2>2, <3>2, <3>3
  <2>4. Bytes(a, n)[i] = mem[x]
    BY <1>4, <2>2
  <2>5. Stream[At(x)] = mem[x]
    BY <1>3, <2>2, Zenon
  <2> QED
    BY <2>3, <2>4, <2>5, Zenon
<1> HIDE DEF p
<1>7. SubSeq(Stream, 1, p) \o Bytes(a, n) = SubSeq(Stream, 1, p + n)
  BY <1>3, <1>4, <1>5, <1>6, PrefixGrows, Zenon
<1> QED
  BY <1>4, <1>7 DEF p

LEMMA ConsumedPart ==
    ASSUME StreamOK, CallOK, NEW a \in Nat, call.source <= a, a <= iend
    PROVE  history \o Bytes(call.source, a - call.source)
             = SubSeq(Stream, 1, Len(history) + (a - call.source))
<1>1. call.source \in Nat /\ iend = call.source + call.size /\ call.size \in Nat
  BY CallIs
<1>2. Len(history) \in Nat
  BY SourceIs
<1> DEFINE n == a - call.source
<1>3. n \in Nat /\ call.source + n <= iend /\ call.source <= call.source
  BY <1>1
<1>4. Len(history) + (call.source - call.source) = Len(history)
  BY <1>1, <1>2
<1> HIDE DEF n
<1>5. SubSeq(Stream, 1, Len(history) + (call.source - call.source)) \o Bytes(call.source, n)
        = SubSeq(Stream, 1, Len(history) + (call.source - call.source) + n)
  BY <1>1, <1>3, LiteralsPart, Zenon
<1>6. SubSeq(Stream, 1, Len(history)) = history
  BY HistoryIsPart, Zenon
<1> QED
  BY <1>4, <1>5, <1>6, Zenon DEF n

-----------------------------------------------------------------------------
(* The bytes of a match repeat those its offset leads to                   *)

\* Where the byte of an address behind the dictionary's end is found.
Virtual(a) ==
    IF InDict /\ a >= call.dictEnd THEN call.source + (a - call.dictEnd) ELSE a

LEMMA MatchBytes ==
    ASSUME InCall, pc = "match", NEW i \in Nat, i < MINMATCH + MatchCode
    PROVE  mem[ip + i] = mem[Virtual(match + i)]
<1> DEFINE limit == Min({ip + (call.dictEnd - match), matchlimit})
           first == LZ4_count(ip + MINMATCH, match + MINMATCH, limit)
           second == LZ4_count(limit, call.source, matchlimit)
           plain == LZ4_count(ip + MINMATCH, match + MINMATCH, matchlimit)
<1>1. CallOK /\ PositionsOK /\ AtMatch
  BY DEF InCall, SearchOK
<1>2. PICK last \in {ip, filledIp} : ip <= last /\ CanCopy(last)
  BY <1>1 DEF AtMatch
<1>3. /\ call.source \in Nat /\ mflimitPlusOne = call.source + call.size - 11 /\ call.size \in Nat
      /\ matchlimit = call.source + call.size - 5 /\ matchlimit \in Int /\ call.dictEnd \in Nat
      /\ ip \in Nat /\ match \in Int /\ last \in Nat /\ last < mflimitPlusOne /\ MINMATCH = 4
  BY <1>1, <1>2, CallIs, Masks DEF PositionsOK, AtMatch
<1>4. ip + MINMATCH \in Int /\ match + MINMATCH \in Int /\ ip + MINMATCH <= matchlimit
  BY <1>2, <1>3
<1>5. \A k \in 0..3 : mem[ip + k] = mem[match + k]
  BY <1>2, <1>3 DEF CanCopy
<1>6. CASE ~InDict
  <2>1. MatchCode = plain
    BY <1>6 DEF MatchCode, InDict
  <2>2. plain \in Nat /\ \A k \in 0..(plain - 1) : mem[ip + MINMATCH + k] = mem[match + MINMATCH + k]
    <3>1. ip + MINMATCH \in Int /\ match + MINMATCH \in Int /\ matchlimit \in Int /\ ip + MINMATCH <= matchlimit
      BY <1>3, <1>4
    <3> QED
      BY <3>1, CountIs, ZenonT(30)
  <2> HIDE DEF plain
  <2>3. mem[ip + i] = mem[match + i]
    <3>1. CASE i < 4
      BY <1>5, <3>1
    <3>2. CASE i >= 4
      <4>1. i - 4 \in 0..(plain - 1) /\ ip + MINMATCH + (i - 4) = ip + i
            /\ match + MINMATCH + (i - 4) = match + i
        BY <1>3, <2>1, <2>2, <3>2
      <4> QED
        BY <2>2, <4>1
    <3> QED
      BY <3>1, <3>2
  <2> QED
    BY <1>6, <2>3 DEF Virtual
<1>7. CASE InDict
  <2>1. match + (last - ip) + MINMATCH <= call.dictEnd
    BY <1>2, <1>7 DEF CanCopy
  <2>2. ip + (call.dictEnd - match) \in Int /\ ip + MINMATCH <= ip + (call.dictEnd - match)
    BY <1>2, <1>3, <2>1
  <2>3. /\ limit \in Int /\ limit <= matchlimit /\ ip + MINMATCH <= limit
        /\ limit <= ip + (call.dictEnd - match)
        /\ limit = ip + (call.dictEnd - match) \/ limit = matchlimit
    <3>1. limit = IF ip + (call.dictEnd - match) <= matchlimit THEN ip + (call.dictEnd - match) ELSE matchlimit
      BY <1>3, <2>2, MinTwo
    <3> QED
      BY <1>3, <1>4, <2>2, <3>1
  <2>4. MatchCode = IF ip + MINMATCH + first = limit THEN first + second ELSE first
    BY <1>7 DEF MatchCode, InDict
  <2> HIDE DEF limit
  <2>5. /\ first \in Nat /\ ip + MINMATCH + first <= limit
        /\ \A k \in 0..(first - 1) : mem[ip + MINMATCH + k] = mem[match + MINMATCH + k]
    BY <1>4, <2>3, CountIs, ZenonT(30)
  <2>6. /\ second \in Nat /\ limit + second <= matchlimit
        /\ \A k \in 0..(second - 1) : mem[limit + k] = mem[call.source + k]
    <3>1. call.source \in Int /\ matchlimit \in Int /\ limit \in Int /\ limit <= matchlimit
      BY <1>3, <2>3
    <3> QED
      BY <3>1, CountIs, ZenonT(30)
  <2> HIDE DEF first, second
  <2>7. CASE i < 4 + first
    <3>1. mem[ip + i] = mem[match + i]
      <4>1. CASE i < 4
        BY <1>5, <4>1
      <4>2. CASE i >= 4
        <5>1. i - 4 \in 0..(first - 1) /\ ip + MINMATCH + (i - 4) = ip + i
              /\ match + MINMATCH + (i - 4) = match + i
          BY <1>3, <2>5, <2>7, <4>2
        <5> QED
          BY <2>5, <5>1
      <4> QED
        BY <4>1, <4>2
    <3>2. ~(match + i >= call.dictEnd)
      BY <1>3, <2>3, <2>5, <2>7
    <3> QED
      BY <3>1, <3>2 DEF Virtual
  <2>8. CASE i >= 4 + first
    <3>1. ip + MINMATCH + first = limit /\ MatchCode = first + second
      BY <1>3, <2>4, <2>5, <2>8
    <3>2. limit = ip + (call.dictEnd - match)
      BY <1>3, <2>3, <2>5, <2>6, <2>8, <3>1
    <3>3. i - 4 - first \in 0..(second - 1) /\ limit + (i - 4 - first) = ip + i
          /\ call.source + (i - 4 - first) = call.source + (match + i - call.dictEnd)
          /\ match + i >= call.dictEnd
      BY <1>3, <2>5, <2>6, <2>8, <3>1, <3>2
    <3>4. mem[ip + i] = mem[call.source + (match + i - call.dictEnd)]
      BY <2>6, <3>3
    <3>5. PICK a \in Int : a = match + i
      BY <1>3
    <3>6. a >= call.dictEnd /\ mem[ip + i] = mem[call.source + (a - call.dictEnd)]
      BY <1>3, <3>3, <3>4, <3>5
    <3>7. mem[ip + i] = mem[Virtual(a)]
      BY <1>7, <3>6 DEF Virtual
    <3> QED
      BY <3>5, <3>7, Zenon
  <2> QED
    BY <1>3, <2>5, <2>7, <2>8
<1> QED
  BY <1>6, <1>7

\* What a match needs of the history and the memory.
LEMMA MatchPlace ==
    ASSUME InCall, pc = "match", HistoryOK, DistanceOK
    PROVE  /\ ip \in Nat /\ match \in Int /\ call.source <= ip /\ call.dictEnd \in Nat /\ Distance \in Int
           /\ 1 <= Distance /\ Distance < KB64
           /\ InDict => /\ Distance = (ip - call.source) + (call.dictEnd - match)
                        /\ call.dictionary <= match /\ match + MINMATCH <= call.dictEnd
                        /\ Remembered(call.dictionary, call.dictEnd)
           /\ ~InDict => /\ Distance = ip - match
                         /\ match >= call.source
                            \/ /\ call.dictEnd = call.source /\ call.dictionary <= match
                               /\ Remembered(call.dictionary, call.dictEnd)
<1>1. CallOK /\ ModeOK /\ PositionsOK /\ AtMatch
  BY DEF InCall, SearchOK
<1>2. PICK last \in {ip, filledIp} : ip <= last /\ CanCopy(last)
  BY <1>1 DEF AtMatch
<1>3. /\ call.source \in Nat /\ call.dictEnd \in Nat /\ call.dictionary \in Nat
      /\ ip \in Nat /\ match \in Int /\ last \in Nat /\ anchor \in Nat /\ lowLimit \in Int /\ offset \in Int
      /\ anchor <= ip /\ call.source <= anchor /\ MINMATCH = 4 /\ KB64 \in Nat /\ DISTANCE_MAX = KB64 - 1
  BY <1>1, <1>2, CallIs, Constants DEF PositionsOK, AtMatch
<1>4. /\ InDict => maybe_extMem /\ offset = (ip - call.source) + (call.dictEnd - match)
      /\ maybe_extMem /\ ~InDict => offset = ip - match
      /\ Distance <= DISTANCE_MAX /\ Distance = (IF maybe_extMem THEN offset ELSE ip - match)
  BY DEF DistanceOK, Distance, InDict
<1>5. InDict => match >= call.dictionary /\ match + (last - ip) + MINMATCH <= call.dictEnd
  BY <1>2 DEF CanCopy
<1>6. ~InDict => match >= lowLimit /\ match < ip /\ (maybe_extMem => lowLimit = call.source)
  BY <1>2 DEF CanCopy
<1>7. Distance \in Int
  BY <1>3, <1>4
<1>8. maybe_extMem => Remembered(call.dictionary, call.dictEnd)
  BY DEF HistoryOK, maybe_extMem
<1>9. CASE InDict
  BY <1>2, <1>3, <1>4, <1>5, <1>7, <1>8, <1>9
<1>10. CASE ~InDict
  <2>1. match >= call.source
        \/ /\ call.dictEnd = call.source /\ call.dictionary <= match
           /\ Remembered(call.dictionary, call.dictEnd)
    <3>1. CASE maybe_extMem
      BY <1>6, <1>10, <3>1
    <3>2. CASE call.mode = "noDict"
      BY <1>6, <1>10, <3>2 DEF HistoryOK
    <3>3. CASE ~maybe_extMem /\ call.mode # "noDict"
      <4>1. call.mode = "withPrefix64k"
        BY <1>1, <3>3 DEF CallOK, maybe_extMem
      <4>2. /\ call.dictEnd = call.source /\ lowLimit >= call.dictionary
            /\ Remembered(call.dictionary, call.dictEnd)
        BY <4>1 DEF HistoryOK
      <4> QED
        BY <1>3, <1>6, <1>10, <4>2
    <3> QED
      BY <3>1, <3>2, <3>3
  <2>2. Distance = ip - match
    BY <1>4, <1>10
  <2> QED
    BY <1>3, <1>4, <1>6, <1>7, <1>10, <2>1, <2>2
<1> QED
  BY <1>9, <1>10

\* The history holds what lies at the end of a dictionary.
LEMMA RememberedAt ==
    ASSUME StreamOK, CallOK, NEW from \in Int, NEW end \in Int, Remembered(from, end),
           NEW a \in Int, from <= a, a < end, end - a <= KB64
    PROVE  /\ Len(history) - (end - a) \in Nat
           /\ Stream[Len(history) + 1 - (end - a)] = mem[a]
<1>1. PICK j \in Nat : j = end - a
  OBVIOUS
<1>2. j \in 1..(end - from) /\ j <= KB64 /\ end - j = a
  BY <1>1
<1>3. j <= Len(history) /\ history[Len(history) + 1 - j] = mem[a]
  BY <1>2 DEF Remembered
<1>4. Len(history) \in Nat /\ \A i \in 1..Len(history) : Stream[i] = history[i]
  BY SourceIs
<1>5. Len(history) + 1 - j \in 1..Len(history) /\ Len(history) - j \in Nat
  BY <1>2, <1>3, <1>4
<1>6. Stream[Len(history) + 1 - j] = mem[a]
  BY <1>3, <1>4, <1>5, Zenon
<1> QED
  BY <1>1, <1>5, <1>6

\* The bytes of the match repeat in what is decoded.
LEMMA Repeats ==
    ASSUME StreamOK, InCall, pc = "match", HistoryOK, DistanceOK,
           NEW p \in Nat, p = Len(history) + (ip - call.source),
           NEW len \in Nat, len <= MINMATCH + MatchCode
    PROVE  /\ Distance \in 1..p /\ Distance <= DISTANCE_MAX /\ p + len <= Len(Stream)
           /\ \A k \in 1..len : Stream[p + k] = Stream[p + k - Distance]
<1>1. /\ ip \in Nat /\ match \in Int /\ call.source <= ip /\ call.dictEnd \in Nat /\ Distance \in Int
      /\ 1 <= Distance /\ Distance < KB64
      /\ InDict => /\ Distance = (ip - call.source) + (call.dictEnd - match)
                   /\ call.dictionary <= match /\ match + MINMATCH <= call.dictEnd
                   /\ Remembered(call.dictionary, call.dictEnd)
      /\ ~InDict => /\ Distance = ip - match
                    /\ match >= call.source
                       \/ /\ call.dictEnd = call.source /\ call.dictionary <= match
                          /\ Remembered(call.dictionary, call.dictEnd)
  BY MatchPlace, Zenon
<1>2. CallOK /\ call.source \in Nat /\ call.size \in Nat /\ call.dictionary \in Nat
      /\ iend = call.source + call.size /\ iend \in Nat /\ matchlimit = iend - 5 /\ KB64 \in Nat /\ DISTANCE_MAX = KB64 - 1
      /\ MINMATCH = 4
  BY CallIs, Constants DEF InCall
\* Names for the numbers.
<1>3. PICK l \in Nat, s \in Nat, z \in Nat, e \in Nat, f \in Nat, x \in Nat, y \in Int, d \in Int, m \in Nat :
        /\ l = Len(history) /\ s = call.source /\ z = call.size /\ e = call.dictEnd /\ f = call.dictionary
        /\ x = ip /\ y = match /\ d = Distance /\ m = MatchCode
  BY <1>1, <1>2, SourceIs, MatchIs, Zenon
<1>4. /\ s <= x /\ 1 <= d /\ d < KB64 /\ KB64 \in Nat /\ p = l + (x - s) /\ len <= 4 + m
      /\ x + 4 + m <= s + z - 5
  <2>1. s <= x /\ 1 <= d /\ d < KB64 /\ KB64 \in Nat /\ p = l + (x - s) /\ len <= 4 + m
    BY <1>1, <1>2, <1>3
  <2>2. ip + MINMATCH + MatchCode <= matchlimit
    BY MatchIs, Zenon
  <2>3. matchlimit = s + z - 5
    <3>1. matchlimit = iend - 5 /\ iend = s + z
      BY <1>2, <1>3, Zenon
    <3> QED
      BY <3>1
  <2> QED
    BY <1>2, <1>3, <2>1, <2>2, <2>3
<1>5. InDict => d = (x - s) + (e - y) /\ f <= y /\ y + 4 <= e
  BY <1>1, <1>2, <1>3
<1>6. ~InDict => d = x - y /\ (y >= s \/ (e = s /\ f <= y))
  BY <1>1, <1>3
\* Bytes of the source and of the history.
<1>7. ASSUME NEW a \in s..(s + z - 1) PROVE Stream[l + 1 + (a - s)] = mem[a]
  <2>1. a \in call.source..(iend - 1)
    <3>1. call.source = s /\ iend = s + z
      BY <1>2, <1>3, Zenon
    <3> QED
      BY <3>1
  <2>2. Stream[At(a)] = mem[a]
    BY <1>2, <2>1, SourceIs, Zenon
  <2>3. At(a) = l + 1 + (a - s)
    BY <1>3, Zenon DEF At
  <2> QED
    BY <2>2, <2>3, Zenon
<1>8. ASSUME InDict \/ y < s, NEW a \in Int, f <= a, a < e, e - a <= KB64
      PROVE  l - (e - a) \in Nat /\ Stream[l + 1 - (e - a)] = mem[a]
  <2>1. Remembered(f, e)
    <3>1. InDict \/ ~(match >= call.source)
      BY <1>3, <1>8
    <3>2. Remembered(call.dictionary, call.dictEnd)
      BY <1>1, <3>1, Zenon
    <3> QED
      BY <1>3, <3>2, Zenon
  <2>2. f \in Int /\ e \in Int
    OBVIOUS
  <2>3. /\ Len(history) - (e - a) \in Nat
        /\ Stream[Len(history) + 1 - (e - a)] = mem[a]
    BY <1>2, <1>8, <2>1, <2>2, RememberedAt, Zenon
  <2> QED
    BY <1>3, <2>3, Zenon
<1>9. d \in 1..p
  <2>1. CASE InDict
    <3>1. f <= y /\ y < e /\ e - y <= KB64 /\ d = (x - s) + (e - y)
      BY <1>4, <1>5, <2>1
    <3>2. l - (e - y) \in Nat
      BY <1>8, <2>1, <3>1
    <3> QED
      BY <1>4, <3>1, <3>2
  <2>2. CASE ~InDict /\ y >= s
    BY <1>4, <1>6, <2>2
  <2>3. CASE ~InDict /\ y < s
    <3>1. f <= y /\ y < e /\ e - y <= KB64 /\ d = x - y /\ e = s
      BY <1>4, <1>6, <2>3
    <3>2. l - (e - y) \in Nat
      BY <1>8, <2>3, <3>1
    <3> QED
      BY <1>4, <3>1, <3>2
  <2> QED
    BY <2>1, <2>2, <2>3
<1>10. ASSUME NEW k \in 1..len PROVE Stream[p + k] = Stream[p + k - d]
  <2>1. PICK i \in Nat : i = k - 1
    BY <1>10
  <2>2. mem[x + i] = mem[Virtual(y + i)]
    <3>1. i < 4 + m
      BY <1>4, <1>10, <2>1
    <3>2. mem[ip + i] = mem[Virtual(match + i)]
      BY <1>2, <1>3, <3>1, MatchBytes, Zenon
    <3> QED
      BY <1>3, <3>2, Zenon
  <2>3. PICK b \in s..(s + z - 1) : b = x + i
    BY <1>4, <1>10, <2>1
  <2>4. Stream[p + k] = mem[b]
    <3>1. l + 1 + (b - s) = p + k
      BY <1>4, <1>10, <2>1, <2>3
    <3> QED
      BY <1>7, <3>1, Zenon
  <2>5. PICK v \in Int : v = y + i
    OBVIOUS
  <2>6. mem[b] = mem[Virtual(v)]
    BY <2>2, <2>3, <2>5, Zenon
  \* In the source.
  <2>7. ASSUME NEW c \in s..(s + z - 1), c = b - d, Virtual(v) = c
        PROVE  Stream[p + k - d] = mem[Virtual(v)]
    <3>1. l + 1 + (c - s) = p + k - d
      BY <1>4, <1>10, <2>1, <2>3, <2>7
    <3> QED
      BY <1>7, <2>7, <3>1, Zenon
  \* In the history.
  <2>8. ASSUME InDict \/ y < s, v < e, f <= v, e - v <= KB64, Virtual(v) = v, p + k - d = l + 1 - (e - v)
        PROVE  Stream[p + k - d] = mem[Virtual(v)]
    BY <1>8, <2>8, Zenon
  <2>9. CASE InDict
    <3>1. d = (x - s) + (e - y) /\ f <= v /\ y + 4 <= e
      BY <1>5, <2>5, <2>9
    <3>2. CASE v >= e
      <4>1. Virtual(v) = s + (v - e)
        BY <1>3, <2>9, <3>2 DEF Virtual
      <4>2. PICK c \in s..(s + z - 1) : c = b - d /\ c = s + (v - e)
        BY <1>4, <2>3, <2>5, <3>1, <3>2
      <4> QED
        BY <2>4, <2>6, <2>7, <4>1, <4>2, Zenon
    <3>3. CASE v < e
      <4>1. Virtual(v) = v
        BY <1>3, <3>3 DEF Virtual
      <4>2. p + k - d = l + 1 - (e - v) /\ e - v <= KB64
        BY <1>4, <1>10, <2>1, <2>5, <3>1
      <4> QED
        BY <2>4, <2>6, <2>8, <2>9, <3>1, <3>3, <4>1, <4>2, Zenon
    <3> QED
      BY <3>2, <3>3
  <2>10. CASE ~InDict
    <3>1. d = x - y /\ (y >= s \/ (e = s /\ f <= y))
      BY <1>6, <2>10
    <3>2. Virtual(v) = v
      BY <2>10 DEF Virtual
    <3>3. CASE v >= s
      <4>1. PICK c \in s..(s + z - 1) : c = b - d /\ c = v
        BY <1>4, <2>3, <2>5, <3>1, <3>3
      <4> QED
        BY <2>4, <2>6, <2>7, <3>2, <4>1, Zenon
    <3>4. CASE v < s
      <4>1. y < s /\ e = s /\ f <= v /\ v < e
        BY <2>5, <3>1, <3>4
      <4>2. p + k - d = l + 1 - (e - v) /\ e - v <= KB64
        BY <1>4, <1>10, <2>1, <2>5, <3>1, <4>1
      <4> QED
        BY <2>4, <2>6, <2>8, <3>2, <4>1, <4>2, Zenon
    <3> QED
      BY <3>3, <3>4
  <2> QED
    BY <2>9, <2>10
<1>11. d <= DISTANCE_MAX /\ p + len <= Len(Stream)
  <2>1. Len(Stream) = l + z
    BY <1>2, <1>3, SourceIs, Zenon
  <2>2. p + len <= l + z /\ d <= KB64 - 1
    BY <1>4
  <2> QED
    BY <1>2, <2>1, <2>2, Zenon
<1> QED
  BY <1>3, <1>9, <1>10, <1>11, Zenon

\* A sequence decodes to its bytes of the source.
LEMMA DecodedMatch ==
    ASSUME StreamOK, InCall, pc = "match", HistoryOK, DistanceOK, BlockOK,
           NEW len \in Nat, MINMATCH <= len, len <= MINMATCH + MatchCode,
           NEW q, q = [lit |-> Bytes(anchor, ip - anchor), off |-> Distance, len |-> len]
    PROVE  /\ Append(block, q) \in Seq(Records)
           /\ Decoded(Append(block, q), history)
                = history \o Bytes(call.source, ip + len - call.source)
<1>1. CallOK /\ PositionsOK /\ AtMatch
  BY DEF InCall, SearchOK
<1>2. /\ call.source \in Nat /\ call.size \in Nat /\ iend = call.source + call.size /\ iend \in Nat /\ matchlimit = iend - 5
      /\ anchor \in Nat /\ ip \in Nat /\ call.source <= anchor /\ anchor <= ip /\ MINMATCH = 4
      /\ KB64 \in Nat /\ DISTANCE_MAX = KB64 - 1
  BY <1>1, CallIs, Constants DEF PositionsOK, AtMatch
<1>3. PICK l \in Nat : l = Len(history)
  BY <1>1, SourceIs
<1>4. PICK m \in Nat : m = MatchCode /\ ip + MINMATCH + m <= matchlimit
  BY MatchIs
<1>5. PICK p \in Nat : p = Len(history) + (ip - call.source)
  BY <1>2, <1>3
<1>6. /\ Distance \in 1..p /\ Distance <= DISTANCE_MAX /\ p + len <= Len(Stream)
      /\ \A k \in 1..len : Stream[p + k] = Stream[p + k - Distance]
  BY <1>5, Repeats, Zenon
<1>7. Stream \in Seq(Nat)
  BY <1>1, SourceIs
<1>8. CopyBack(SubSeq(Stream, 1, p), Distance, len) = SubSeq(Stream, 1, p + len)
  <2>1. PICK off \in Nat : off = Distance /\ 1 <= off /\ off <= p
    BY <1>6
  <2> QED
    BY <1>6, <1>7, <2>1, CopyBackIs, ZenonT(30)
<1>9. Len(SubSeq(Stream, 1, p)) = p
  <2>1. p <= Len(Stream)
    <3>1. Len(Stream) = l + call.size
      BY <1>1, <1>3, SourceIs, Zenon
    <3>2. ip <= call.source + call.size
      BY <1>2, <1>4
    <3>3. p <= l + call.size
      <4>1. p = l + (ip - call.source)
        BY <1>3, <1>5, Zenon
      <4> QED
        BY <1>2, <3>2, <4>1
    <3> QED
      BY <3>1, <3>3, Zenon
  <2> QED
    BY <1>7, <2>1, PrefixIs, Zenon
<1> DEFINE lit == Bytes(anchor, ip - anchor)
           n == ip - anchor
<1>10. /\ SubSeq(Stream, 1, Len(history) + (anchor - call.source)) \o lit = SubSeq(Stream, 1, p)
       /\ lit \in Seq(Nat)
  <2>1. n \in Nat /\ anchor + n <= iend
    BY <1>2, <1>4
  <2>2. Len(history) + (anchor - call.source) + n = p
    BY <1>2, <1>3, <1>5
  <2> HIDE DEF n
  <2>3. /\ SubSeq(Stream, 1, Len(history) + (anchor - call.source)) \o Bytes(anchor, n)
            = SubSeq(Stream, 1, Len(history) + (anchor - call.source) + n)
        /\ Bytes(anchor, n) \in Seq(Nat)
    BY <1>1, <1>2, <2>1, LiteralsPart, Zenon
  <2> QED
    BY <2>2, <2>3, Zenon DEF n
<1>11. Decoded(block, history) = SubSeq(Stream, 1, Len(history) + (anchor - call.source))
  <2>1. anchor <= iend
    BY <1>2, <1>4
  <2>2. history \o Bytes(call.source, anchor - call.source)
          = SubSeq(Stream, 1, Len(history) + (anchor - call.source))
    BY <1>1, <1>2, <2>1, ConsumedPart, Zenon
  <2>3. pc # "done"
    OBVIOUS
  <2>4. Decoded(block, history) = history \o Consumed
    BY <2>3, Zenon DEF BlockOK
  <2> QED
    BY <2>2, <2>4, Zenon DEF Consumed
<1> HIDE DEF lit, n
<1>12. /\ q.lit = lit /\ q.off = Distance /\ q.len = len
       /\ q \in Records /\ q.len # 0
  <2>1. q = [lit |-> lit, off |-> Distance, len |-> len]
    BY Zenon DEF lit
  <2>2. lit \in Seq(Nat) /\ Distance \in 0..DISTANCE_MAX /\ len \in Nat /\ len # 0
    BY <1>2, <1>6, <1>10
  <2> HIDE DEF Distance
  <2> QED
    BY <2>1, <2>2 DEF Records
<1>13. block \in Seq(Records) /\ Append(block, q) \in Seq(Records)
  <2>1. block \in Seq(Records)
    BY DEF BlockOK
  <2> HIDE DEF Records
  <2> QED
    BY <1>12, <2>1
<1>14. Decoded(Append(block, q), history) = After(Decoded(block, history), q)
  BY <1>12, <1>13, DecodedMore, Zenon
<1>15. Decoded(Append(block, q), history) = SubSeq(Stream, 1, p + len)
  <2>1. After(Decoded(block, history), q) = CopyBack(SubSeq(Stream, 1, p), Distance, len)
    <3>1. Decoded(block, history) \o q.lit = SubSeq(Stream, 1, p)
      BY <1>10, <1>11, <1>12, Zenon
    <3>2. q.off \in 1..Len(SubSeq(Stream, 1, p))
      BY <1>6, <1>9, <1>12, Zenon
    <3> QED
      BY <1>12, <3>1, <3>2, Zenon DEF After
  <2> QED
    BY <1>8, <1>14, <2>1, Zenon
<1>16. history \o Bytes(call.source, ip + len - call.source) = SubSeq(Stream, 1, p + len)
  <2>1. PICK a \in Nat : a = ip + len
    BY <1>2
  <2>2. call.source <= a /\ a <= iend
    BY <1>2, <1>4, <2>1
  <2>3. history \o Bytes(call.source, a - call.source)
          = SubSeq(Stream, 1, Len(history) + (a - call.source))
    BY <1>1, <2>2, ConsumedPart, Zenon
  <2>4. Len(history) + (a - call.source) = p + len
    <3>1. PICK s \in Nat, i \in Nat : s = call.source /\ i = ip
      BY <1>2
    <3>2. p = l + (i - s) /\ a = i + len
      BY <1>3, <1>5, <2>1, <3>1
    <3>3. l + (a - s) = p + len
      BY <1>2, <3>2
    <3> QED
      BY <1>3, <3>1, <3>3
  <2>5. ip + len - call.source = a - call.source
    BY <1>2, <2>1
  <2> QED
    BY <2>3, <2>4, <2>5, Zenon
<1> QED
  BY <1>13, <1>15, <1>16, Zenon

-----------------------------------------------------------------------------
(* The steps of a call *)

\* What a call refers to stays what it is.
LEMMA HistorySame ==
    ASSUME HistoryOK, SizeOK, UNCHANGED <<mem, history, call>>,
           ctx'.dictionary = ctx.dictionary, ctx'.dictSize = ctx.dictSize,
           ~maybe_extMem => lowLimit' = lowLimit
    PROVE  HistoryOK' /\ SizeOK'
<1>1. SizeOK'
  BY DEF SizeOK
<1>2. Remembered(call.dictionary, call.dictEnd) => Remembered(call.dictionary, call.dictEnd)'
  BY DEF Remembered
<1>3. call.mode \in {"noDict", "withPrefix64k"} => lowLimit' = lowLimit
  BY DEF maybe_extMem
<1> QED
  BY <1>1, <1>2, <1>3 DEF HistoryOK

\* The offset of a candidate is that of its bytes, and in reach.
LEMMA LookupFar ==
    ASSUME StreamOK, CallOK, ModeOK, HistoryOK, SizeOK, lowLimit \in Int,
           NEW table \in [HashValues -> Nat], \A h \in HashValues : EntryOK(h, table[h]),
           NEW at \in Nat, call.source < at, at <= mflimitPlusOne,
           \A h \in HashValues : table[h] < call.startIndex \/ table[h] < at - base,
           Lookup(table, at).hit
    PROVE  LET found == Lookup(table, at)
               inDict == maybe_extMem /\ found.low = call.dictionary
           IN  /\ inDict => found.offset = (at - call.source) + (call.dictEnd - found.at)
               /\ ~inDict => found.offset = at - found.at
               /\ found.offset <= DISTANCE_MAX
               /\ found.at \in Int /\ found.low \in Int /\ found.offset \in Int
<1> DEFINE h == LZ4_hashPosition(at, call.tableType)
           e == table[h]
           c == Candidate(e, h)
           found == Lookup(table, at)
           inDict == maybe_extMem /\ e < call.startIndex
           fromDict == inDict /\ call.mode = "usingDictCtx"
           reached == InReach(c, at - base)
<1>1. /\ found.at \in Int /\ found.low \in Int /\ found.offset \in Int
      /\ ~maybe_extMem => found.low = lowLimit /\ found.at >= found.low
  <2>1. /\ found.at \in Int /\ found.low \in Int /\ found.offset \in Int
        /\ ~maybe_extMem => found.low = lowLimit
        /\ found.hit => IF maybe_extMem /\ found.low = call.dictionary
                        THEN found.at >= call.dictionary /\ found.at + MINMATCH <= call.dictEnd
                        ELSE /\ found.at >= found.low /\ found.at < at
                             /\ maybe_extMem => found.low = call.source
    BY LookupIs, Zenon
  <2> QED
    BY <2>1, Zenon
<1>2. /\ call.source \in Nat /\ call.startIndex \in Nat /\ base = call.source - call.startIndex
      /\ call.dictionary \in Nat /\ call.dictEnd \in Nat /\ call.dictBase \in Int /\ call.dictDelta \in Int
      /\ base \in Int /\ call.tableType \in {"byU16", "byU32"} /\ call.size \in Nat
      /\ mflimitPlusOne = call.source + call.size - 11
  BY CallIs DEF CallOK
<1>3. h \in HashValues /\ e \in Nat
  BY <1>2, HashAt
<1>4. found = [at |-> c.at, low |-> c.low, hit |-> reached /\ Same4(c.at, at),
               offset |-> at - base - c.index, stray |-> reached /\ ~InSegment(c, at)]
  BY Zenon DEF Lookup
<1>d. Loaded(dict) /\ dict.hashTable[h] \in Nat /\ dict.dictSize \in Nat /\ dict.dictionary \in Nat
  BY <1>3, Constants DEF StreamOK, Loaded, Contexts
<1> HIDE DEF h, e
<1>5. /\ fromDict => /\ c.index = dict.hashTable[h] + call.dictDelta
                     /\ c.at = call.dictBase + dict.hashTable[h] /\ c.low = call.dictionary
      /\ inDict /\ ~fromDict => c.index = e /\ c.at = call.dictBase + e /\ c.low = call.dictionary
      /\ ~inDict => c.index = e /\ c.at = base + e /\ c.low = (IF maybe_extMem THEN call.source ELSE lowLimit)
  BY DEF Candidate
<1>a. found.hit
  BY Zenon
<1>r. reached => InReach(c, at - base)
  OBVIOUS
<1> HIDE DEF c, reached
<1>8. found.at = c.at /\ found.low = c.low /\ found.offset = at - base - c.index
  BY <1>4
<1> HIDE DEF found
<1>6. found.hit = (reached /\ Same4(c.at, at))
  BY <1>4, Zenon
<1>7. InReach(c, at - base)
  BY <1>6, <1>a, <1>r, Zenon
<1>9. call.tableType # "byU16" => c.index + DISTANCE_MAX >= at - base
  BY <1>7, Zenon DEF InReach
<1>10. c.index \in Int
  <2> HIDE DEF inDict
  <2> QED
    BY <1>2, <1>3, <1>5, <1>d
<1>11. maybe_extMem => call.source # call.dictionary
  BY DEF ModeOK
<1>12. CASE fromDict
  <2>1. /\ call.tableType = "byU32" /\ call.dictBase = call.dictEnd - KB64
        /\ call.dictDelta = call.startIndex - KB64
    BY <1>12 DEF ModeOK
  <2>2. found.offset = (at - call.source) + (call.dictEnd - found.at)
    BY <1>2, <1>5, <1>8, <1>12, <1>d, <2>1, Constants
  <2>3. found.offset <= DISTANCE_MAX
    BY <1>2, <1>8, <1>9, <1>10, <2>1, Constants
  <2> QED
    BY <1>1, <1>5, <1>8, <1>12, <2>2, <2>3 DEF found
<1>13. CASE inDict /\ ~fromDict
  <2>1. call.mode = "usingExtDict"
    BY <1>13 DEF maybe_extMem
  <2>2. call.tableType = "byU32" /\ call.dictBase = call.dictEnd - call.startIndex
    BY <2>1 DEF ModeOK
  <2>3. found.offset = (at - call.source) + (call.dictEnd - found.at)
    BY <1>2, <1>3, <1>5, <1>8, <1>13, <2>2
  <2>4. found.offset <= DISTANCE_MAX
    BY <1>2, <1>8, <1>9, <1>10, <2>2, Constants
  <2> QED
    BY <1>1, <1>5, <1>8, <1>13, <2>3, <2>4 DEF found
<1>14. CASE ~inDict
  <2>1. found.offset = at - found.at
    BY <1>2, <1>3, <1>5, <1>8, <1>14
  <2>2. ~(maybe_extMem /\ found.low = call.dictionary)
    BY <1>5, <1>8, <1>11, <1>14
  <2>3. found.offset <= DISTANCE_MAX
    <3>1. CASE call.tableType = "byU32"
      BY <1>2, <1>8, <1>9, <1>10, <3>1, Constants
    <3>2. CASE call.tableType = "byU16"
      <4>1. call.mode = "noDict" /\ ~maybe_extMem
        BY <3>2 DEF ModeOK, maybe_extMem
      <4>2. lowLimit = call.source /\ call.size < KB64 + 11
        BY <3>2, <4>1, Constants DEF HistoryOK, SizeOK
      <4>3. found.at >= call.source
        BY <1>1, <4>1, <4>2
      <4> QED
        BY <1>1, <1>2, <2>1, <4>2, <4>3, Constants
    <3> QED
      BY <1>2, <3>1, <3>2
  <2> QED
    BY <1>1, <2>1, <2>2, <2>3 DEF found
<1> QED
  BY <1>12, <1>13, <1>14

LEMMA BlockSame ==
    ASSUME BlockOK, UNCHANGED <<mem, history, call, block, anchor>>, pc # "done"
    PROVE  BlockOK'
<1>1. Decoded(block, history) = history \o Consumed /\ block \in Seq(Records)
  BY Zenon DEF BlockOK
<1>2. Consumed' = Consumed
  BY DEF Consumed, Bytes
<1> QED
  BY <1>1, <1>2, Zenon DEF BlockOK

LEMMA EndSame ==
    ASSUME EndOK, UNCHANGED <<block, anchor, call>>, pc # "done",
           pc' # "done" => (IF pc' = "match" THEN token' ELSE op') = (IF pc = "match" THEN token ELSE op)
    PROVE  EndOK'
<1>1. CASE pc' = "done"
  BY <1>1 DEF EndOK
<1>2. CASE pc' # "done"
  <2> DEFINE o == IF pc = "match" THEN token ELSE op
             o1 == IF pc' = "match" THEN token' ELSE op'
  <2>1. o1 = o
    BY <1>2
  <2>2. matchlimit' = matchlimit /\ iend' = iend
    BY DEF matchlimit, iend
  <2> HIDE DEF o, o1
  <2>3. Len(block) > 0 =>
        LET last == block[Len(block)].len
        IN  /\ anchor <= matchlimit /\ last >= MINMATCH /\ last + (iend - anchor) >= MFLIMIT
            /\ call.directive = "fillOutput" =>
                  /\ o + LASTLITERALS + 1 <= call.olimit
                  /\ o + MFLIMIT - MINMATCH + 1 <= call.olimit \/ last >= MFLIMIT
    BY Zenon DEF EndOK, o
  <2>4. EndOK' <=>
      (Len(block') > 0 =>
        LET last == block'[Len(block')].len
        IN  /\ anchor' <= matchlimit' /\ last >= MINMATCH /\ last + (iend' - anchor') >= MFLIMIT
            /\ call'.directive = "fillOutput" =>
                  /\ o1 + LASTLITERALS + 1 <= call'.olimit
                  /\ o1 + MFLIMIT - MINMATCH + 1 <= call'.olimit \/ last >= MFLIMIT)
    BY <1>2, Zenon DEF EndOK, o1
  <2> QED
    BY <2>1, <2>2, <2>3, <2>4
<1> QED
  BY <1>1, <1>2

LEMMA RTSearch ==
    ASSUME IInv, RTInv, Search PROVE RTInv'
<1>1. /\ pc = "search" /\ UNCHANGED <<stream, call>> /\ UNCHANGED output /\ ip' = forwardIp
  BY DEF Search, Running
<1>2. /\ InCall /\ CallOK /\ ModeOK /\ StreamOK /\ PositionsOK /\ AtSearch /\ Leaves /\ EntriesOK
      /\ HistoryOK /\ SizeOK /\ BlockOK /\ EndOK
  BY <1>1 DEF IInv, InCall, SearchOK, RTInv
<1>3. UNCHANGED <<mem, dict, use, history, calls, call, anchor, token, op, top, block, result>>
  BY <1>1 DEF stream, output
<1>4. call.source < forwardIp /\ forwardIp <= mflimitPlusOne /\ EnteredBefore(forwardIp) /\ forwardIp \in Nat
  BY <1>1, <1>2 DEF AtSearch, IInv
<1>5. lowLimit \in Int /\ ctx \in Contexts /\ ctx.hashTable \in [HashValues -> Nat]
  BY <1>2 DEF PositionsOK, Leaves, Contexts
<1>6. maybe_extMem' = maybe_extMem
  BY <1>3 DEF maybe_extMem
<1>7. BlockOK'
  BY <1>1, <1>2, <1>3, BlockSame
<1> DEFINE found == Lookup(ctx.hashTable, forwardIp)
           table == LZ4_putPosition(ctx.hashTable, forwardIp)
<1>8. \/ pc' = "last" /\ UNCHANGED <<ctx, match, lowLimit, offset, filledIp, stray>>
      \/ /\ ctx' = [ctx EXCEPT !.hashTable = table]
         /\ match' = found.at /\ lowLimit' = found.low
         /\ offset' = (IF found.hit /\ maybe_extMem THEN found.offset ELSE offset)
         /\ pc' = (IF found.hit THEN "found" ELSE "search")
  BY DEF Search
<1>9. \A h \in HashValues : EntryOK(h, ctx.hashTable[h])
  BY <1>2 DEF EntriesOK
<1>10. \A h \in HashValues : ctx.hashTable[h] < call.startIndex \/ ctx.hashTable[h] < forwardIp - base
  BY <1>4 DEF EnteredBefore
<1>11. /\ found.hit \in BOOLEAN
       /\ ~maybe_extMem => found.low = lowLimit
  BY <1>2, <1>4, <1>5, <1>9, <1>10, LookupIs, Zenon
<1>12. found.hit =>
         LET inDict == maybe_extMem /\ found.low = call.dictionary
         IN  /\ inDict => found.offset = (forwardIp - call.source) + (call.dictEnd - found.at)
             /\ ~inDict => found.offset = forwardIp - found.at
             /\ found.offset <= DISTANCE_MAX
             /\ found.at \in Int /\ found.low \in Int /\ found.offset \in Int
  BY <1>2, <1>4, <1>5, <1>9, <1>10, LookupFar, Zenon
<1> HIDE DEF found, table
<1>13. /\ pc' \in {"last", "found", "search"}
       /\ ctx'.dictionary = ctx.dictionary /\ ctx'.dictSize = ctx.dictSize
       /\ ~maybe_extMem => lowLimit' = lowLimit
  <2>1. pc' \in {"last", "found", "search"} /\ (~maybe_extMem => lowLimit' = lowLimit)
    BY <1>8, <1>11
  <2>2. ctx'.dictionary = ctx.dictionary /\ ctx'.dictSize = ctx.dictSize
    BY <1>5, <1>8 DEF Contexts
  <2> QED
    BY <2>1, <2>2
<1>14. HistoryOK' /\ SizeOK'
  BY <1>2, <1>3, <1>13, HistorySame
<1>15. EndOK'
  <2>1. (IF pc' = "match" THEN token' ELSE op') = (IF pc = "match" THEN token ELSE op)
    BY <1>1, <1>3, <1>13
  <2> QED
    BY <1>1, <1>2, <1>3, <2>1, EndSame
<1>16. DistanceOK'
  <2>1. CASE pc' # "found"
    BY <1>13, <2>1 DEF DistanceOK
  <2>2. CASE pc' = "found"
    <3>1. /\ found.hit /\ match' = found.at /\ lowLimit' = found.low
          /\ maybe_extMem => offset' = found.offset
      BY <1>8, <2>2
    <3>2. call' = call /\ call'.source = call.source /\ call'.dictEnd = call.dictEnd
          /\ InDict' = (maybe_extMem /\ found.low = call.dictionary)
      BY <1>3, <1>6, <3>1 DEF InDict
    <3>3. maybe_extMem => Distance' = found.offset
      BY <1>6, <3>1 DEF Distance
    <3>4. ~maybe_extMem => Distance' = forwardIp - found.at
      BY <1>1, <1>6, <3>1 DEF Distance
    <3> QED
      BY <1>1, <1>6, <1>12, <3>1, <3>2, <3>3, <3>4 DEF DistanceOK
  <2> QED
    BY <2>1, <2>2
<1>17. DoneOK' /\ pc' # "idle"
  BY <1>13 DEF DoneOK
<1> QED
  BY <1>7, <1>14, <1>15, <1>16, <1>17 DEF RTInv

LEMMA RTLiterals ==
    ASSUME IInv, RTInv, EncodeLiterals PROVE RTInv'
<1> DEFINE back == Backwards
           lit == ip - back - anchor
<1>1. /\ pc = "found" /\ UNCHANGED <<stream, call>>
      /\ UNCHANGED <<ctx, forwardIp, step, searchMatchNb, lowLimit, offset, filledIp, anchor, block, stray>>
      /\ ip' = ip - back /\ match' = match - back
      /\ \/ pc' = "done" /\ result' = 0 /\ UNCHANGED <<token, op, top>>
         \/ token' = op /\ pc' = "full" /\ UNCHANGED <<op, top>>
         \/ token' = op /\ pc' = "match"
  BY DEF EncodeLiterals, Running
<1>2. /\ InCall /\ CallOK /\ HistoryOK /\ SizeOK /\ BlockOK /\ EndOK /\ DistanceOK
  BY <1>1 DEF IInv, InCall, RTInv
<1>3. UNCHANGED <<mem, dict, use, history, calls, call>>
  BY <1>1 DEF stream
<1>4. back \in Nat /\ ip \in Nat /\ match \in Int
  BY <1>1, <1>2, FoundIs
<1> HIDE DEF back
<1>5. maybe_extMem' = maybe_extMem /\ InDict' = InDict
  BY <1>1, <1>3 DEF maybe_extMem, InDict
<1>6. pc' \in {"done", "full", "match"} /\ pc' # "idle"
  BY <1>1
<1>7. BlockOK'
  BY <1>1, <1>2, <1>3, BlockSame
<1>8. HistoryOK' /\ SizeOK'
  BY <1>1, <1>2, <1>3, HistorySame
<1>9. EndOK'
  <2>1. pc' # "done" => (IF pc' = "match" THEN token' ELSE op') = (IF pc = "match" THEN token ELSE op)
    BY <1>1
  <2> QED
    BY <1>1, <1>2, <1>3, <2>1, EndSame
<1>10. DistanceOK'
  <2>1. CASE pc' # "match"
    BY <1>6, <2>1 DEF DistanceOK
  <2>2. CASE pc' = "match"
    <3>1. /\ InDict => offset = (ip - call.source) + (call.dictEnd - match)
          /\ maybe_extMem /\ ~InDict => offset = ip - match
          /\ Distance <= DISTANCE_MAX
      BY <1>1, <1>2 DEF DistanceOK
    <3>2. call.source \in Nat /\ call.dictEnd \in Nat /\ call'.source = call.source /\ call'.dictEnd = call.dictEnd
      BY <1>2, <1>3, CallIs
    <3>3. ip' - match' = ip - match
          /\ (ip' - call.source) + (call.dictEnd - match') = (ip - call.source) + (call.dictEnd - match)
      BY <1>1, <1>4, <3>2
    <3>4. Distance' = Distance
      BY <1>1, <1>5, <3>3 DEF Distance
    <3> QED
      BY <1>1, <1>5, <3>1, <3>2, <3>3, <3>4 DEF DistanceOK
  <2> QED
    BY <2>1, <2>2
<1>11. DoneOK'
  BY <1>1 DEF DoneOK
<1> QED
  BY <1>6, <1>7, <1>8, <1>9, <1>10, <1>11 DEF RTInv

LEMMA ConsumedSame ==
    ASSUME UNCHANGED <<mem, call>>, NEW a, anchor' = a
    PROVE  Consumed' = Bytes(call.source, a - call.source)
BY DEF Consumed, Bytes

LEMMA RTMatch ==
    ASSUME IInv, RTInv, EncodeMatch PROVE RTInv'
<1> DEFINE matchCode == MatchCode
           oo   == op + 2
           full == call.directive # "notLimited" /\ MatchOverflow(oo, matchCode, call.olimit)
           code == IF full THEN ReducedMatchCode(oo, call.olimit) ELSE matchCode
           len  == MINMATCH + code
           end  == ip + MINMATCH + code
           q    == [lit |-> Bytes(anchor, ip - anchor), off |-> Distance, len |-> len]
           Fills == call.directive = "fillOutput" /\ OffsetFills(op, call.olimit)
           Gives == full /\ call.directive = "limitedOutput"
<1>1. /\ pc = "match" /\ UNCHANGED <<stream, call>>
      /\ UNCHANGED <<forwardIp, step, searchMatchNb, match, lowLimit, offset, filledIp, token, stray>>
      /\ \/ /\ Fills /\ op' = token /\ pc' = "full" /\ UNCHANGED <<ctx, ip, anchor, top, block, result>>
         \/ /\ Gives /\ pc' = "done" /\ result' = 0 /\ UNCHANGED <<ctx, ip, anchor, op, top, block>>
         \/ /\ ~Fills /\ ~Gives
            /\ op' = AfterMatch(oo, code)
            /\ block' = Append(block, q)
            /\ ip' = end /\ anchor' = end
            /\ \E table : ctx' = [ctx EXCEPT !.hashTable = table]
            /\ pc' \in {"last", "next"}
  BY DEF EncodeMatch, Running, Distance
<1>2. /\ InCall /\ CallOK /\ StreamOK /\ PositionsOK /\ Leaves
      /\ HistoryOK /\ SizeOK /\ BlockOK /\ EndOK /\ DistanceOK
  BY <1>1 DEF IInv, InCall, RTInv
<1>3. UNCHANGED <<mem, dict, use, history, calls, call>>
  BY <1>1 DEF stream
<1>4. /\ call.source \in Nat /\ iend \in Nat /\ mflimitPlusOne = iend - 11 /\ matchlimit = iend - 5
      /\ call.directive \in {"notLimited", "limitedOutput", "fillOutput"}
      /\ call.olimit \in Nat
  BY <1>2, CallIs, FastAssumption DEF CallOK
<1>5. iend' = iend /\ matchlimit' = matchlimit
  BY <1>3 DEF iend, matchlimit
<1>6. ip \in Nat /\ anchor \in Nat /\ op \in Nat /\ token \in Nat /\ ip < mflimitPlusOne
  BY <1>1, <1>2 DEF PositionsOK, AtMatch, InCall, SearchOK
<1>7. matchCode \in Nat /\ ip + MINMATCH + matchCode <= matchlimit
  BY <1>1, <1>2, MatchIs
<1>8. ctx'.dictionary = ctx.dictionary /\ ctx'.dictSize = ctx.dictSize
  BY <1>1, <1>2 DEF Leaves, Contexts
<1>9. HistoryOK' /\ SizeOK'
  BY <1>1, <1>2, <1>3, <1>8, HistorySame
<1>10. DistanceOK'
  BY <1>1 DEF DistanceOK
<1>11. DoneOK' /\ pc' # "idle"
  BY <1>1 DEF DoneOK
<1>12. BlockOK' /\ EndOK'
  <2>1. CASE \/ Fills /\ op' = token /\ pc' = "full" /\ UNCHANGED <<ctx, ip, anchor, top, block, result>>
             \/ Gives /\ pc' = "done" /\ result' = 0 /\ UNCHANGED <<ctx, ip, anchor, op, top, block>>
    <3>1. BlockOK'
      BY <1>1, <1>2, <1>3, <2>1, BlockSame
    <3>2. pc' # "done" => (IF pc' = "match" THEN token' ELSE op') = (IF pc = "match" THEN token ELSE op)
      BY <1>1, <2>1
    <3>3. EndOK'
      BY <1>1, <1>2, <1>3, <2>1, <3>2, EndSame
    <3> QED
      BY <3>1, <3>3
  <2>2. CASE /\ ~Fills /\ ~Gives
             /\ op' = AfterMatch(oo, code)
             /\ block' = Append(block, q)
             /\ ip' = end /\ anchor' = end
             /\ pc' \in {"last", "next"}
    <3> HIDE DEF matchCode
    <3>1. oo \in Nat /\ (call.directive = "fillOutput" => oo + 9 <= call.olimit)
          /\ (full => call.directive = "fillOutput" /\ oo + 6 <= call.olimit)
      <4>1. full => call.directive = "fillOutput"
        BY <1>4, <2>2
      <4>2. call.directive = "fillOutput" => oo + 9 <= call.olimit
        BY <1>4, <1>6, <2>2, Masks DEF OffsetFills
      <4> QED
        BY <1>4, <1>6, <4>1, <4>2
    <3>2. code \in Nat /\ code <= matchCode
      <4>1. CASE full
        BY <1>4, <1>7, <3>1, <4>1, ReducedIs
      <4>2. CASE ~full
        BY <1>7, <4>2
      <4> QED
        BY <4>1, <4>2
    <3>3. call.directive = "fillOutput" => AfterMatch(oo, code) + 6 <= call.olimit
      <4>1. SUFFICES ASSUME call.directive = "fillOutput" PROVE AfterMatch(oo, code) + 6 <= call.olimit
        OBVIOUS
      <4>2. CASE full
        BY <1>4, <1>7, <3>1, <4>2, ReducedIs
      <4>3. CASE ~full
        <5>1. code = matchCode /\ ~MatchOverflow(oo, matchCode, call.olimit)
          BY <4>1, <4>3
        <5>2. AfterMatch(oo, matchCode) = oo + (matchCode + 240) \div 255
          BY <1>7, <3>1, MatchCost
        <5> HIDE DEF oo
        <5> QED
          BY <1>4, <1>7, <3>1, <5>1, <5>2, Masks DEF MatchOverflow
      <4> QED
        BY <4>2, <4>3
    <3> HIDE DEF full, code, oo
    <3>4. len \in Nat /\ len >= 4 /\ MINMATCH <= len /\ len <= MINMATCH + matchCode /\ end = ip + len
          /\ end <= matchlimit /\ end \in Nat /\ code = len - 4
      BY <1>4, <1>6, <1>7, <3>2, Masks
    <3> HIDE DEF len, end
    <3>5. /\ Append(block, q) \in Seq(Records)
          /\ Decoded(Append(block, q), history) = history \o Bytes(call.source, ip + len - call.source)
      <4>1. len <= MINMATCH + MatchCode
        BY <3>4 DEF matchCode
      <4> HIDE DEF q
      <4>2. q = [lit |-> Bytes(anchor, ip - anchor), off |-> Distance, len |-> len]
        BY DEF q
      <4> QED
        BY <1>1, <1>2, <3>4, <4>1, <4>2, DecodedMatch, Zenon
    <3>6. block \in Seq(Records) /\ Len(block) \in Nat
      BY <1>2 DEF BlockOK
    <3>7. q.len = len
      BY DEF q
    <3> HIDE DEF q
    <3>8. Len(block') = Len(block) + 1 /\ Len(block') \in Nat /\ block'[Len(block')] = q
      BY <2>2, <3>6
    <3>9. BlockOK'
      <4>1. Consumed' = Bytes(call.source, end - call.source)
        BY <1>3, <2>2, ConsumedSame
      <4>2. Decoded(block', history') = history' \o Consumed'
        <5>1. history' = history /\ block' = Append(block, q)
          BY <1>3, <2>2
        <5>2. end - call.source = ip + len - call.source
          BY <1>4, <1>6, <3>4
        <5> QED
          BY <3>5, <4>1, <5>1, <5>2, Zenon
      <4> QED
        BY <2>2, <3>5, <4>2, Zenon DEF BlockOK
    <3>10. EndOK'
      <4> DEFINE last == block'[Len(block')].len
      <4>1. last = len
        BY <3>7, <3>8
      <4> HIDE DEF last
      <4>2. anchor' <= matchlimit' /\ last >= MINMATCH /\ last + (iend' - anchor') >= MFLIMIT
        BY <1>4, <1>5, <1>6, <2>2, <3>4, <4>1, Masks
      <4>3. call'.directive = "fillOutput" =>
               /\ op' + LASTLITERALS + 1 <= call'.olimit
               /\ op' + MFLIMIT - MINMATCH + 1 <= call'.olimit \/ last >= MFLIMIT
        <5>1. SUFFICES ASSUME call.directive = "fillOutput"
                       PROVE  /\ op' + LASTLITERALS + 1 <= call.olimit
                              /\ op' + MFLIMIT - MINMATCH + 1 <= call.olimit \/ last >= MFLIMIT
          BY <1>3
        <5>2. op' = oo + (code + 240) \div 255 /\ op' + 6 <= call.olimit /\ oo + 9 <= call.olimit
          BY <2>2, <3>1, <3>2, <3>3, <5>1, MatchCost
        <5>3. CASE code < 15
          BY <1>4, <3>1, <3>2, <5>2, <5>3, Masks
        <5>4. CASE code >= 15
          BY <1>4, <3>1, <3>2, <3>4, <4>1, <5>2, <5>4, Masks
        <5> QED
          BY <3>2, <5>3, <5>4
      <4>4. pc' # "match"
        BY <2>2
      <4> QED
        BY <4>2, <4>3, <4>4, Zenon DEF EndOK, last
    <3> QED
      BY <3>9, <3>10
  <2> QED
    BY <1>1, <2>1, <2>2
<1> QED
  BY <1>9, <1>10, <1>11, <1>12 DEF RTInv

LEMMA RTNext ==
    ASSUME IInv, RTInv, TestNextPosition PROVE RTInv'
<1> DEFINE filled == LZ4_putPosition(ctx.hashTable, ip - 2)
           found == Lookup(filled, ip)
           table == LZ4_putPosition(filled, ip)
<1>1. /\ pc = "next" /\ UNCHANGED <<stream, call>>
      /\ ctx' = [ctx EXCEPT !.hashTable = table]
      /\ match' = found.at /\ lowLimit' = found.low
      /\ IF found.hit
         THEN /\ token' = op
              /\ offset' = (IF maybe_extMem THEN found.offset ELSE offset)
              /\ pc' = "match" /\ UNCHANGED ip
         ELSE pc' = "search" /\ UNCHANGED op
      /\ UNCHANGED <<anchor, block, result>>
  BY DEF TestNextPosition, Running, StartSearch
<1>2. /\ InCall /\ CallOK /\ ModeOK /\ StreamOK /\ PositionsOK /\ AtNext /\ Leaves /\ EntriesOK
      /\ HistoryOK /\ SizeOK /\ BlockOK /\ EndOK
  BY <1>1 DEF IInv, InCall, SearchOK, RTInv
<1>3. UNCHANGED <<mem, dict, use, history, calls, call>>
  BY <1>1 DEF stream
<1>4. /\ call.source + MINMATCH <= ip /\ ip < mflimitPlusOne /\ EnteredBefore(ip)
      /\ ip \in Nat /\ lowLimit \in Int
  BY <1>1, <1>2 DEF AtNext, PositionsOK
<1>5. /\ call.source \in Nat /\ call.startIndex \in Nat /\ call.size \in Nat
      /\ mflimitPlusOne = call.source + call.size - 11
      /\ base = call.source - call.startIndex
  BY <1>2, CallIs
<1>6. maybe_extMem' = maybe_extMem
  BY <1>3 DEF maybe_extMem
<1>7. ctx.hashTable \in [HashValues -> Nat] /\ ctx \in Contexts
  BY <1>2 DEF Leaves, Contexts
<1>8. ip - 2 \in Nat /\ call.source <= ip - 2 /\ ip - 2 < mflimitPlusOne /\ ip - 2 - base < ip - base
      /\ call.source < ip /\ ip <= mflimitPlusOne /\ ip - 2 - base \in Int /\ ip - base \in Int
  BY <1>4, <1>5, Constants
<1>9. \A h \in HashValues : EntryOK(h, ctx.hashTable[h])
  BY <1>2 DEF EntriesOK
<1>10. \A h \in HashValues : ctx.hashTable[h] < call.startIndex \/ ctx.hashTable[h] < ip - base
  BY <1>4 DEF EnteredBefore
<1>11. /\ filled \in [HashValues -> Nat]
       /\ \A h \in HashValues :
             /\ filled[h] = ctx.hashTable[h] \/ filled[h] <= ip - 2 - base
             /\ EntryOK(h, ctx.hashTable[h]) => EntryOK(h, filled[h])
  BY <1>2, <1>7, <1>8, PutPositionIs
<1> HIDE DEF filled
<1>12. \A h \in HashValues : EntryOK(h, filled[h])
  BY <1>9, <1>11
<1>13. \A h \in HashValues : filled[h] < call.startIndex \/ filled[h] < ip - base
  <2> SUFFICES ASSUME NEW h \in HashValues
               PROVE  filled[h] < call.startIndex \/ filled[h] < ip - base
    OBVIOUS
  <2>1. filled[h] \in Nat /\ (filled[h] = ctx.hashTable[h] \/ filled[h] <= ip - 2 - base)
    BY <1>11
  <2>2. ctx.hashTable[h] < call.startIndex \/ ctx.hashTable[h] < ip - base
    BY <1>10
  <2> QED
    BY <1>8, <2>1, <2>2
<1>14. /\ found.hit \in BOOLEAN
       /\ ~maybe_extMem => found.low = lowLimit
  BY <1>2, <1>4, <1>8, <1>11, <1>12, <1>13, LookupIs, Zenon
<1>15. found.hit =>
         LET inDict == maybe_extMem /\ found.low = call.dictionary
         IN  /\ inDict => found.offset = (ip - call.source) + (call.dictEnd - found.at)
             /\ ~inDict => found.offset = ip - found.at
             /\ found.offset <= DISTANCE_MAX
             /\ found.at \in Int /\ found.low \in Int /\ found.offset \in Int
  BY <1>2, <1>4, <1>8, <1>11, <1>12, <1>13, LookupFar, Zenon
<1> HIDE DEF found, table
<1>16. /\ pc' \in {"match", "search"}
       /\ ~maybe_extMem => lowLimit' = lowLimit
  BY <1>1, <1>14
<1>17. ctx'.dictionary = ctx.dictionary /\ ctx'.dictSize = ctx.dictSize
  BY <1>1, <1>7 DEF Contexts
<1>18. HistoryOK' /\ SizeOK'
  BY <1>2, <1>3, <1>16, <1>17, HistorySame
<1>19. BlockOK'
  BY <1>1, <1>2, <1>3, BlockSame
<1>20. EndOK'
  <2>1. (IF pc' = "match" THEN token' ELSE op') = (IF pc = "match" THEN token ELSE op)
    BY <1>1
  <2> QED
    BY <1>1, <1>2, <1>3, <2>1, EndSame
<1>21. DistanceOK'
  <2>1. CASE pc' # "match"
    BY <1>16, <2>1 DEF DistanceOK
  <2>2. CASE pc' = "match"
    <3>1. found.hit /\ match' = found.at /\ lowLimit' = found.low /\ ip' = ip
          /\ (maybe_extMem => offset' = found.offset)
      BY <1>1, <2>2
    <3>2. call'.source = call.source /\ call'.dictEnd = call.dictEnd
          /\ InDict' = (maybe_extMem /\ found.low = call.dictionary)
      BY <1>3, <1>6, <3>1 DEF InDict
    <3>3. maybe_extMem => Distance' = found.offset
      BY <1>6, <3>1 DEF Distance
    <3>4. ~maybe_extMem => Distance' = ip - found.at
      BY <1>6, <3>1 DEF Distance
    <3> QED
      BY <1>6, <1>15, <3>1, <3>2, <3>3, <3>4 DEF DistanceOK
  <2> QED
    BY <2>1, <2>2
<1>22. DoneOK' /\ pc' # "idle"
  BY <1>16 DEF DoneOK
<1> QED
  BY <1>18, <1>19, <1>20, <1>21, <1>22 DEF RTInv

LEMMA FilledEnough ==
    ASSUME NEW o \in Nat, NEW r \in Nat, o + 6 <= r
    PROVE  FilledLastRun(o, r) >= 5 /\ (o + 9 <= r => FilledLastRun(o, r) >= 8)
<1>1. PICK room \in Nat : room = r - o - 1 /\ room >= 5
  OBVIOUS
<1>2. FilledLastRun(o, r) = room - (room + 241) \div 256
  BY <1>1 DEF FilledLastRun, RUN_MASK
<1> QED
  BY <1>1, <1>2, SMTT(30)

\* The literals at the end decode to the rest of the source, or to as much of
\* it as fits.
LEMMA DecodedLast ==
    ASSUME StreamOK, CallOK, BlockOK, pc # "done", NEW n \in Nat, anchor \in Nat, call.source <= anchor,
           anchor + n <= iend,
           NEW q, q = [lit |-> Bytes(anchor, n), off |-> 0, len |-> 0]
    PROVE  /\ Append(block, q) \in Seq(Records) /\ Len(q.lit) = n
           /\ Decoded(Append(block, q), history)
                = history \o Bytes(call.source, (anchor + n) - call.source)
<1>1. /\ call.source \in Nat /\ call.size \in Nat /\ iend = call.source + call.size /\ iend \in Nat
      /\ KB64 \in Nat /\ DISTANCE_MAX = KB64 - 1 /\ KB64 >= 1
  BY CallIs, Constants
<1>2. Len(history) \in Nat
  BY SourceIs
<1>3. /\ SubSeq(Stream, 1, Len(history) + (anchor - call.source)) \o Bytes(anchor, n)
            = SubSeq(Stream, 1, Len(history) + (anchor - call.source) + n)
      /\ Bytes(anchor, n) \in Seq(Nat) /\ Len(Bytes(anchor, n)) = n
  BY LiteralsPart, Zenon
<1>4. Decoded(block, history) = SubSeq(Stream, 1, Len(history) + (anchor - call.source))
  <2>1. anchor <= iend
    BY <1>1
  <2>2. history \o Bytes(call.source, anchor - call.source)
          = SubSeq(Stream, 1, Len(history) + (anchor - call.source))
    BY <2>1, ConsumedPart, Zenon
  <2>3. Decoded(block, history) = history \o Consumed
    BY Zenon DEF BlockOK
  <2> QED
    BY <2>2, <2>3, Zenon DEF Consumed
<1>5. q.lit = Bytes(anchor, n) /\ q.len = 0 /\ q \in Records
  <2>1. PICK b \in Seq(Nat) : b = Bytes(anchor, n)
    BY <1>3
  <2>2. q = [lit |-> b, off |-> 0, len |-> 0] /\ 0 \in 0..DISTANCE_MAX
    BY <1>1, <2>1
  <2> QED
    BY <2>1, <2>2 DEF Records
<1>6. block \in Seq(Records) /\ Append(block, q) \in Seq(Records)
  <2>1. block \in Seq(Records)
    BY DEF BlockOK
  <2> HIDE DEF Records
  <2> QED
    BY <1>5, <2>1
<1>7. Decoded(Append(block, q), history) = Decoded(block, history) \o q.lit
  <2>1. Decoded(Append(block, q), history) = After(Decoded(block, history), q)
    BY <1>5, <1>6, DecodedMore, Zenon
  <2>2. ASSUME NEW s, q.len = 0 PROVE After(s, q) = s \o q.lit
    BY <2>2 DEF After
  <2> QED
    BY <1>5, <2>1, <2>2, Zenon
<1>8. history \o Bytes(call.source, (anchor + n) - call.source)
        = SubSeq(Stream, 1, Len(history) + (anchor - call.source) + n)
  <2>1. PICK a \in Nat : a = anchor + n
    OBVIOUS
  <2>2. call.source <= a /\ a <= iend
    BY <1>1, <2>1
  <2>3. history \o Bytes(call.source, a - call.source)
          = SubSeq(Stream, 1, Len(history) + (a - call.source))
    BY <2>2, ConsumedPart, Zenon
  <2>4. Len(history) + (a - call.source) = Len(history) + (anchor - call.source) + n
    BY <1>1, <1>2, <2>1
  <2> QED
    BY <2>1, <2>3, <2>4, Zenon
<1> QED
  BY <1>3, <1>4, <1>5, <1>6, <1>7, <1>8, Zenon

LEMMA RTLast ==
    ASSUME IInv, RTInv, LastLiterals PROVE RTInv'
<1> DEFINE rest == iend - anchor
           full == call.directive # "notLimited" /\ LastOverflow(op, rest, call.olimit)
           lastRun == IF full THEN FilledLastRun(op, call.olimit) ELSE rest
           Gives == full /\ call.directive = "limitedOutput"
           q == [lit |-> Bytes(anchor, lastRun), off |-> 0, len |-> 0]
<1>1. /\ pc \in {"last", "full"} /\ UNCHANGED <<stream, call>> /\ pc' = "done"
      /\ UNCHANGED <<ctx, search, token, stray>>
      /\ \/ Gives /\ result' = 0 /\ UNCHANGED <<op, top, anchor, block>>
         \/ /\ ~Gives /\ anchor' = anchor + lastRun /\ block' = Append(block, q)
  BY DEF LastLiterals, Running
<1>2. /\ InCall /\ CallOK /\ StreamOK /\ PositionsOK
      /\ HistoryOK /\ SizeOK /\ BlockOK /\ EndOK
  BY <1>1 DEF IInv, InCall, RTInv
<1>3. UNCHANGED <<mem, dict, use, history, calls, call>> /\ UNCHANGED <<lowLimit, ctx>>
  BY <1>1 DEF stream, search
<1>4. /\ iend' = iend /\ iend \in Nat /\ call.source \in Nat /\ matchlimit = iend - 5
      /\ call.olimit \in Nat
      /\ call.directive \in {"notLimited", "limitedOutput", "fillOutput"}
  BY <1>2, <1>3, CallIs, FastAssumption DEF iend, CallOK
<1>5. anchor \in Nat /\ anchor <= iend /\ call.source <= anchor /\ op \in Nat
  BY <1>2 DEF PositionsOK
<1>6. HistoryOK' /\ SizeOK'
  BY <1>2, <1>3, HistorySame
<1>7. DistanceOK' /\ EndOK' /\ pc' # "idle"
  BY <1>1 DEF DistanceOK, EndOK
<1>8. BlockOK' /\ DoneOK'
  <2>1. CASE Gives /\ result' = 0 /\ UNCHANGED <<op, top, anchor, block>>
    <3>1. block' \in Seq(Records)
      BY <1>2, <2>1 DEF BlockOK
    <3> QED
      BY <1>1, <2>1, <3>1, Zenon DEF BlockOK, DoneOK
  <2>2. CASE ~Gives /\ anchor' = anchor + lastRun /\ block' = Append(block, q)
    <3>1. rest \in Nat /\ anchor + rest = iend
      BY <1>4, <1>5
    <3>2. full => call.directive = "fillOutput"
      BY <1>4, <2>2
    <3>3. lastRun \in Nat /\ lastRun <= rest
      <4>1. CASE full
        <5>1. op + 1 <= call.olimit
          BY <1>1, <1>2, <3>2, <4>1, FillRoom
        <5> HIDE DEF rest
        <5> QED
          BY <1>4, <1>5, <3>1, <4>1, <5>1, FilledIs
      <4>2. CASE ~full
        BY <3>1, <4>2
      <4> QED
        BY <4>1, <4>2
    <3>4. /\ full => lastRun = FilledLastRun(op, call.olimit)
          /\ ~full => lastRun = rest
      OBVIOUS
    <3> HIDE DEF lastRun, rest, full
    <3>5. anchor + lastRun <= iend
      BY <1>4, <1>5, <3>1, <3>3
    <3>6. pc # "done"
      BY <1>1
    <3>7. /\ Append(block, q) \in Seq(Records) /\ Len(q.lit) = lastRun
          /\ Decoded(Append(block, q), history)
               = history \o Bytes(call.source, (anchor + lastRun) - call.source)
      <4> HIDE DEF q
      <4>1. q = [lit |-> Bytes(anchor, lastRun), off |-> 0, len |-> 0]
        BY DEF q
      <4> QED
        BY <1>2, <1>5, <3>3, <3>5, <3>6, <4>1, DecodedLast, Zenon
    <3> HIDE DEF q
    <3>8. block \in Seq(Records) /\ Len(block) \in Nat
      BY <1>2 DEF BlockOK
    <3>9. /\ Len(block') = Len(block) + 1 /\ block'[Len(block')] = q
          /\ Len(block) > 0 => block'[Len(block') - 1] = block[Len(block)]
      BY <2>2, <3>8
    <3>10. BlockOK'
      <4>1. Consumed' = Bytes(call.source, (anchor + lastRun) - call.source)
        BY <1>3, <2>2, ConsumedSame
      <4>2. history' = history /\ block' = Append(block, q)
        BY <1>3, <2>2
      <4> QED
        BY <3>7, <4>1, <4>2, Zenon DEF BlockOK
    <3>11. call.directive # "fillOutput" => anchor' = iend
      BY <1>4, <1>5, <2>2, <3>1, <3>2, <3>4
    <3>12. EndsWithLiterals(block')
      <4>1. SUFFICES ASSUME Len(block) > 0
                     PROVE  lastRun >= 5 /\ block[Len(block)].len + lastRun >= 12
        <5>1. Len(block') > 1 => Len(block) > 0
          BY <3>8, <3>9
        <5> QED
          BY <3>7, <3>9, <5>1, Masks DEF EndsWithLiterals
      <4>2. PICK last \in Nat : last = block[Len(block)].len
        <5>1. block[Len(block)] \in Records
          BY <3>8, <4>1
        <5> QED
          BY <5>1 DEF Records
      <4>3. /\ anchor <= matchlimit /\ last >= MINMATCH /\ last + (iend - anchor) >= MFLIMIT
            /\ call.directive = "fillOutput" =>
                  /\ op + LASTLITERALS + 1 <= call.olimit
                  /\ op + MFLIMIT - MINMATCH + 1 <= call.olimit \/ last >= MFLIMIT
        BY <1>1, <1>2, <4>1, <4>2 DEF EndOK
      <4>4. rest >= 5 /\ last + rest >= 12
        BY <1>4, <1>5, <3>1, <4>3, Masks
      <4>5. CASE full
        <5>1. op + 6 <= call.olimit /\ (op + 9 <= call.olimit \/ last >= 12) /\ last >= 4
          BY <1>4, <1>5, <3>2, <4>3, <4>5, Masks
        <5>2. lastRun >= 5 /\ (op + 9 <= call.olimit => lastRun >= 8)
          BY <1>4, <1>5, <3>4, <4>5, <5>1, FilledEnough
        <5> QED
          BY <3>3, <4>2, <5>1, <5>2
      <4>6. CASE ~full
        BY <3>4, <4>2, <4>4, <4>6
      <4> QED
        BY <4>5, <4>6
    <3> QED
      BY <1>3, <1>4, <3>10, <3>11, <3>12, Zenon DEF DoneOK
  <2> QED
    BY <1>1, <2>1, <2>2
<1> QED
  BY <1>6, <1>7, <1>8 DEF RTInv

-----------------------------------------------------------------------------
(* The end of a call *)

\* What a decoder keeps ends as what it produced.
LEMMA ReachableEnds ==
    ASSUME NEW s \in Seq(Nat), NEW j \in 1..KB64, j <= Len(s)
    PROVE  /\ j <= Len(Reachable(s))
           /\ Reachable(s)[Len(Reachable(s)) + 1 - j] = s[Len(s) + 1 - j]
<1>1. PICK l \in Nat, r \in Nat, t \in Seq(Nat) :
        l = Len(s) /\ t = Reachable(s) /\ r = Len(t) /\ (r = IF l <= KB64 THEN l ELSE KB64)
        /\ \A i \in 1..r : t[i] = s[l - r + i]
  <2>1. Len(s) \in Nat /\ KB64 \in Nat
    BY Constants
  <2>2. /\ Reachable(s) \in Seq(Nat)
        /\ Len(Reachable(s)) = IF Len(s) <= KB64 THEN Len(s) ELSE KB64
        /\ \A i \in 1..Len(Reachable(s)) : Reachable(s)[i] = s[Len(s) - Len(Reachable(s)) + i]
    BY ReachableIs, Zenon
  <2>3. Len(Reachable(s)) \in Nat
    BY <2>1, <2>2
  <2> QED
    BY <2>1, <2>2, <2>3, Zenon
<1>2. r + 1 - j \in 1..r /\ j <= r /\ l - r + (r + 1 - j) = l + 1 - j
  <2>1. j <= l /\ (r = l \/ r = KB64) /\ KB64 \in Nat
    BY <1>1, Constants
  <2> QED
    BY <2>1
<1>3. t[r + 1 - j] = s[l + 1 - j]
  BY <1>1, <1>2
<1> QED
  BY <1>1, <1>2, <1>3, Zenon

\* Behind a call it ends with the source, and before it with what it ended with.
LEMMA KeptIs ==
    ASSUME StreamOK, InCall, NEW from \in Int, from <= call.source, Remembered(from, call.source),
           mem' = mem, history' = Reachable(history \o Consumed),
           NEW end, end = anchor
    PROVE  \A j \in 1..(end - from) :
              j <= KB64 => j <= Len(history') /\ history'[Len(history') + 1 - j] = mem'[end - j]
<1>1. /\ Consumed \in Seq(Nat) /\ Len(Consumed) = anchor - call.source
      /\ \A i \in 1..Len(Consumed) : Consumed[i] = mem[call.source + i - 1]
  BY ConsumedIs, Zenon
<1>2. /\ call.source \in Nat /\ anchor \in Nat /\ call.source <= anchor
      /\ history \in Seq(Nat)
  BY CallIs DEF InCall, PositionsOK, StreamOK
<1>3. PICK n \in Nat, l \in Nat, s \in Nat, c \in Seq(Nat) :
        n = Len(Consumed) /\ l = Len(history) /\ s = call.source /\ c = Consumed
  <2>1. Len(Consumed) \in Nat /\ Len(history) \in Nat
    BY <1>1, <1>2
  <2> QED
    BY <1>1, <1>2, <2>1, Zenon
<1>e. PICK e \in Nat : e = end
  BY <1>2
<1>4. e = s + n /\ Len(c) = n /\ \A i \in 1..n : c[i] = mem[s + i - 1]
  BY <1>1, <1>2, <1>3, <1>e
<1>5. PICK w \in Seq(Nat) :
        /\ w = history \o Consumed /\ Len(w) = l + n
        /\ \A i \in 1..(l + n) : w[i] = IF i <= l THEN history[i] ELSE c[i - l]
  <2>1. /\ history \o c \in Seq(Nat) /\ Len(history \o c) = Len(history) + Len(c)
        /\ \A i \in 1..(Len(history) + Len(c)) :
              (history \o c)[i] = IF i <= Len(history) THEN history[i] ELSE c[i - Len(history)]
    BY <1>2, ConcatProperties, Zenon
  <2> QED
    BY <1>3, <1>4, <2>1, Zenon
<1>6. \A j \in 1..(s - from) : j <= KB64 => j <= l /\ history[l + 1 - j] = mem[s - j]
  BY <1>3, Zenon DEF Remembered
<1>7. ASSUME NEW j \in 1..(e - from), j <= KB64 PROVE j <= l + n /\ w[l + n + 1 - j] = mem[e - j]
  <2>1. CASE j <= n
    <3>1. /\ n + 1 - j \in 1..n /\ l + n + 1 - j \in 1..(l + n) /\ ~(l + n + 1 - j <= l)
          /\ l + n + 1 - j - l = n + 1 - j /\ s + (n + 1 - j) - 1 = e - j
      BY <1>4, <2>1
    <3>2. w[l + n + 1 - j] = c[n + 1 - j]
      <4>1. PICK i \in 1..(l + n) : i = l + n + 1 - j
        BY <3>1
      <4>2. ~(i <= l) /\ i - l = n + 1 - j
        BY <3>1, <4>1
      <4>3. w[i] = c[i - l]
        BY <1>5, <4>2, Zenon
      <4> QED
        BY <4>1, <4>2, <4>3, Zenon
    <3>3. c[n + 1 - j] = mem[e - j]
      BY <1>4, <3>1
    <3> QED
      BY <2>1, <3>2, <3>3
  <2>2. CASE j > n
    <3>1. PICK k \in Nat : k = j - n
      BY <2>2
    <3>2. k \in 1..(s - from) /\ k <= KB64
      <4>1. e = s + n /\ KB64 \in Nat
        BY <1>4, Constants
      <4> QED
        BY <1>7, <2>2, <3>1, <4>1
    <3>3. k <= l /\ history[l + 1 - k] = mem[s - k]
      BY <1>6, <3>2
    <3>4. /\ l + n + 1 - j \in 1..(l + n) /\ l + n + 1 - j <= l /\ l + n + 1 - j = l + 1 - k
          /\ s - k = e - j /\ j <= l + n
      BY <1>4, <3>1, <3>2, <3>3
    <3>5. w[l + n + 1 - j] = history[l + 1 - k]
      BY <1>5, <3>4
    <3> QED
      BY <3>3, <3>4, <3>5
  <2> QED
    BY <2>1, <2>2
<1>8. ASSUME NEW j \in 1..(e - from), j <= KB64
      PROVE  j <= Len(history') /\ history'[Len(history') + 1 - j] = mem'[e - j]
  <2>1. j \in 1..KB64 /\ j <= Len(w)
    <3>1. j <= l + n
      BY <1>7, <1>8
    <3> QED
      BY <1>5, <1>8, <3>1, Constants
  <2>2. /\ j <= Len(Reachable(w))
        /\ Reachable(w)[Len(Reachable(w)) + 1 - j] = w[Len(w) + 1 - j]
    BY <2>1, ReachableEnds, Zenon
  <2>3. w[Len(w) + 1 - j] = mem[e - j]
    BY <1>5, <1>7, <1>8, Zenon
  <2> QED
    BY <1>5, <2>2, <2>3, Zenon
<1> QED
  BY <1>8, <1>e, Zenon

\* Nothing is remembered of nothing.
LEMMA NothingRemembered ==
    ASSUME NEW a \in Int PROVE Remembered(a, a) /\ \A j \in 1..(a - a) : FALSE
BY DEF Remembered

LEMMA RTReturn ==
    ASSUME IInv, RTInv, Return PROVE RTInv'
<1>1. /\ pc = "done" /\ pc' = "idle"
      /\ ctx' = CASE call.keeps = "source" ->
                       [ctx EXCEPT !.dictionary = call.source, !.dictSize = call.size]
                  [] call.keeps = "initialised" -> LZ4_initStream
                  [] OTHER -> ctx
      /\ use' = IF result = 0 THEN "other"
                ELSE IF call.keeps = "initialised" THEN "fresh" ELSE use
      /\ history' = IF use # "stream" \/ result = 0 THEN <<>>
                    ELSE Reachable(history \o Consumed)
      /\ UNCHANGED <<mem, dict>>
  BY DEF Return
<1>2. /\ InCall /\ CallOK /\ ModeOK /\ StreamOK /\ PositionsOK /\ Leaves
      /\ HistoryOK /\ DoneOK
  BY <1>1 DEF IInv, InCall, RTInv
<1>3. /\ call.source \in Nat /\ call.size \in Nat /\ iend = call.source + call.size
      /\ call.dictionary \in Nat /\ call.dictEnd \in Nat
  BY <1>2, CallIs
<1>4. /\ ctx \in Contexts /\ ctx.dictCtx = FALSE
      /\ call.keeps \in {"context", "source", "initialised"}
      /\ call.mode \in {"noDict", "withPrefix64k", "usingExtDict", "usingDictCtx"}
  BY <1>2 DEF Leaves, CallOK, Contexts
<1>5. SUFFICES ASSUME use' # "other" PROVE HistoryKept'
  BY <1>1 DEF RTInv, HistoryKept
<1>6. result # 0
  BY <1>1, <1>5
<1>7. CASE call.keeps = "initialised"
  <2>1. ctx' = LZ4_initStream
    BY <1>1, <1>7
  <2>2. ctx'.dictCtx = FALSE /\ ctx'.dictionary = 0 /\ ctx'.dictSize = 0
    BY <2>1, Constants DEF LZ4_initStream
  <2>3. \A j \in 1..(0 + 0 - 0) : FALSE
    OBVIOUS
  <2> QED
    BY <2>2, <2>3 DEF HistoryKept, Remembered
<1>8. CASE call.keeps # "initialised"
  <2>1. use' = use /\ use = "stream" /\ call.mode # "noDict"
    BY <1>1, <1>2, <1>5, <1>6, <1>8 DEF ModeOK, StreamOK
  <2>2. history' = Reachable(history \o Consumed)
    BY <1>1, <1>6, <2>1
  <2>3. anchor = iend
    <3>1. call.directive = "limitedOutput"
      BY <1>2, <2>1 DEF ModeOK
    <3> QED
      BY <1>1, <1>2, <1>6, <3>1 DEF DoneOK
  <2>4. ASSUME NEW from \in Int, from <= call.source, Remembered(from, call.source),
               ctx'.dictCtx = FALSE, ctx'.dictionary = from, from + ctx'.dictSize = iend
        PROVE  HistoryKept'
    <3>1. PICK end : end = iend
      OBVIOUS
    <3>2. \A j \in 1..(end - from) :
             j <= KB64 => j <= Len(history') /\ history'[Len(history') + 1 - j] = mem'[end - j]
      <4>1. mem' = mem /\ end = anchor
        BY <1>1, <2>3, <3>1
      <4>2. StreamOK /\ InCall
        BY <1>2, Zenon
      <4>3. from \in Int /\ from <= call.source /\ Remembered(from, call.source)
        BY <2>4, Zenon
      <4> QED
        BY <2>2, <4>1, <4>2, <4>3, KeptIs, ZenonT(30)
    <3>3. from + ctx'.dictSize = end
      BY <2>4, <3>1
    <3> QED
      BY <2>4, <3>2, <3>3 DEF HistoryKept, Remembered
  <2>5. CASE call.keeps = "source"
    <3>1. ctx' = [ctx EXCEPT !.dictionary = call.source, !.dictSize = call.size]
      BY <1>1, <2>5
    <3>2. ctx'.dictionary = call.source /\ ctx'.dictSize = call.size
      BY <1>4, <3>1 DEF Contexts
    <3>3. ctx'.dictCtx = FALSE
      BY <1>4, <3>1 DEF Contexts
    <3>4. Remembered(call.source, call.source) /\ call.source <= call.source /\ call.source \in Int
      BY <1>3, NothingRemembered
    <3> QED
      BY <1>3, <2>4, <3>2, <3>3, <3>4
  <2>6. CASE call.keeps = "context"
    <3>1. ctx' = ctx
      BY <1>1, <2>6
    <3>2. call.mode = "withPrefix64k"
      BY <1>2, <1>4, <2>1, <2>6 DEF ModeOK, maybe_extMem
    <3>3. /\ call.dictEnd = call.source /\ lowLimit >= call.dictionary
          /\ ctx.dictionary = call.dictionary
          /\ ctx.dictionary + ctx.dictSize = call.source + call.size
          /\ Remembered(call.dictionary, call.dictEnd)
      BY <1>2, <3>2 DEF HistoryOK
    <3>4. call.dictionary <= call.source
      <4>1. lowLimit \in Int /\ lowLimit <= call.source
        BY <1>2, <3>2 DEF PositionsOK, ModeOK, maybe_extMem
      <4> QED
        BY <1>3, <3>3, <4>1
    <3>5. Remembered(call.dictionary, call.source) /\ call.dictionary \in Int
      BY <1>3, <3>3
    <3>6. /\ ctx'.dictCtx = FALSE /\ ctx'.dictionary = call.dictionary
          /\ call.dictionary + ctx'.dictSize = iend
      BY <1>3, <1>4, <3>1, <3>3
    <3> QED
      BY <2>4, <3>4, <3>5, <3>6
  <2> QED
    BY <1>4, <1>8, <2>5, <2>6
<1> QED
  BY <1>7, <1>8

-----------------------------------------------------------------------------
(* The calls *)

\* A call starts with an empty block.
LEMMA RTEnter ==
    ASSUME NEW cx, NEW c, Enter(cx, c), c.source \in Nat, history' \in Seq(Nat), HistoryOK', SizeOK'
    PROVE  RTInv'
<1>1. /\ pc' \in {"search", "last"} /\ block' = <<>> /\ anchor' = c.source /\ call' = c
  BY Zenon DEF Enter, StartSearch
<1>2. Consumed' = <<>>
  <2>1. Consumed' = [i \in 1..(anchor' - call'.source) |-> mem'[call'.source + i - 1]]
    BY Zenon DEF Consumed, Bytes
  <2>2. anchor' - call'.source = 0
    BY <1>1
  <2>3. Consumed' \in Seq(Nat) /\ Len(Consumed') = 0
    BY <2>1, <2>2
  <2> QED
    BY <2>3, EmptySeq, Zenon
<1>3. Decoded(block', history') = history' \o Consumed'
  <2>1. Decoded(block', history') = history'
    BY <1>1, DecodedNothing, Zenon
  <2>2. history' \o <<>> = history'
    BY ConcatEmptySeq, Zenon
  <2> QED
    BY <1>2, <2>1, <2>2, Zenon
<1>4. BlockOK'
  <2>1. block' \in Seq(Records)
    BY <1>1, EmptySeq, Zenon
  <2> QED
    BY <1>3, <2>1, Zenon DEF BlockOK
<1>5. EndOK'
  <2>1. Len(block') = 0
    BY <1>1
  <2> QED
    BY <2>1 DEF EndOK
<1>6. DistanceOK' /\ DoneOK'
  BY <1>1 DEF DistanceOK, DoneOK
<1> QED
  BY <1>1, <1>4, <1>5, <1>6 DEF RTInv

\* A one-shot call is decoded without history.
LEMMA RTOneShot ==
    ASSUME NEW text \in Texts, NEW room, NEW cx \in Contexts, NEW directive, NEW tableType, NEW small,
           NEW keeps, OneShot, tableType = "byU16" => Len(text) < LZ4_64Klimit,
           Compress(cx, OneShotAt, text, room, directive, tableType, "noDict", small, keeps)
    PROVE  RTInv'
<1>1. pc = "idle" /\ history' = <<>> /\ use' = "other"
  BY Zenon DEF Compress, Idle, OneShot
<1>2. CASE text = <<>>
  <2>1. pc' = "idle"
    BY <1>1, <1>2 DEF Compress
  <2> QED
    BY <1>1, <2>1 DEF RTInv, HistoryKept
<1>3. CASE text # <<>>
  <2> DEFINE c == CallOf(cx, OneShotAt, Len(text), room, directive, tableType, "noDict", small, keeps)
  <2>1. Enter(cx, c)
    BY <1>3, Zenon DEF Compress
  <2>2. c.source = OneShotAt /\ c.size = Len(text) /\ c.tableType = tableType /\ c.mode = "noDict"
    BY CallOfIs
  <2> HIDE DEF c
  <2>3. c.source \in Nat
    BY <2>2, Layout
  <2>4. call' = c /\ lowLimit' = c.source - 0
    BY <2>1, <2>2 DEF Enter
  <2>5. lowLimit' = call'.source
    BY <2>3, <2>4
  <2>6. HistoryOK'
    BY <1>1, <2>2, <2>4, <2>5 DEF HistoryOK
  <2>7. SizeOK'
    BY <2>2, <2>4 DEF SizeOK
  <2>8. history' \in Seq(Nat)
    BY <1>1, EmptySeq, Zenon
  <2> QED
    BY <2>1, <2>3, <2>6, <2>7, <2>8, RTEnter, Zenon
<1> QED
  BY <1>2, <1>3

LEMMA RTOneShotCall ==
    ASSUME IInv, NEW text \in Texts, NEW room \in Rooms, OneShotCall(text, room) PROVE RTInv'
<1> DEFINE tableType == IF Len(text) < LZ4_64Klimit THEN "byU16" ELSE "byU32"
<1>1. tableType = "byU16" => Len(text) < LZ4_64Klimit
  OBVIOUS
<1>2. tableType \in {"byU16", "byU32"}
  OBVIOUS
<1> HIDE DEF tableType
<1>3. CASE LZ4_compress_fast_extState(OneShotAt, text, room)
  <2>1. OneShot /\ Compress(LZ4_initStream, OneShotAt, text, room, Limited(text, room), tableType,
                            "noDict", FALSE, "context")
    BY <1>3, Zenon DEF LZ4_compress_fast_extState, tableType
  <2> QED
    BY <1>1, <2>1, InitStreamIs, RTOneShot, Zenon
<1>4. CASE LZ4_compress_fast_extState_fastReset(OneShotAt, text, room)
  <2> DEFINE cx == LZ4_prepareTable(ctx, Len(text), tableType)
  <2>1. OneShot /\ Compress(cx, OneShotAt, text, room, Limited(text, room), tableType,
                            "noDict", tableType = "byU16" /\ cx.currentOffset # 0, "context")
    <3>1. \E x \in {cx} : Compress(x, OneShotAt, text, room, Limited(text, room), tableType,
                            "noDict", tableType = "byU16" /\ x.currentOffset # 0, "context")
      BY <1>4, Zenon DEF LZ4_compress_fast_extState_fastReset, tableType
    <3> QED
      BY <1>4, <3>1, Zenon DEF LZ4_compress_fast_extState_fastReset
  <2>2. cx \in Contexts
    <3>1. ctx \in Contexts /\ Behind(ctx) /\ Len(text) \in Nat
      BY <2>1, TextFits DEF Compress, Idle, IInv, ContextOK
    <3> QED
      BY <1>2, <3>1, PrepareIs
  <2> HIDE DEF cx
  <2> QED
    BY <1>1, <2>1, <2>2, RTOneShot, Zenon
<1>5. CASE LZ4_compress_destSize_extState(OneShotAt, text, room)
  <2> DEFINE directive == IF Limited(text, room) = "notLimited" THEN "notLimited" ELSE "fillOutput"
  <2>1. OneShot /\ Compress(LZ4_initStream, OneShotAt, text, room, directive, tableType,
                            "noDict", FALSE, "initialised")
    BY <1>5, Zenon DEF LZ4_compress_destSize_extState, tableType
  <2> HIDE DEF directive
  <2> QED
    BY <1>1, <2>1, InitStreamIs, RTOneShot, Zenon
<1> QED
  BY <1>3, <1>4, <1>5 DEF OneShotCall

\* The same of another history and another memory.
RememberedBy(h, m, from, end) ==
    \A j \in 1..(end - from) : j <= KB64 => j <= Len(h) /\ h[Len(h) + 1 - j] = m[end - j]

\* A text that is placed elsewhere changes nothing of it.
LEMMA KeptByPlace ==
    ASSUME mem \in [Addresses -> Nat], NEW source \in Nat, source >= 1, NEW text \in Seq(Nat),
           source + Len(text) <= MemEnd + 1, Place(source, text), history' = history,
           NEW from \in Nat, NEW end \in Nat, end > from => from >= 1 /\ end <= MemEnd + 1,
           end > from => source + Len(text) <= from \/ source >= end,
           Remembered(from, end)
    PROVE  RememberedBy(history', mem', from, end)
<1>1. \A a \in Addresses : a < source \/ a >= source + Len(text) => mem'[a] = mem[a]
  BY PlaceIs, Zenon
<1>2. PICK n \in Nat : n = source + Len(text)
  OBVIOUS
<1>3. SUFFICES ASSUME NEW j \in 1..(end - from) PROVE mem'[end - j] = mem[end - j]
  BY Zenon DEF Remembered, RememberedBy
<1>4. PICK a \in Int : a = end - j
  OBVIOUS
<1>5. a \in Addresses /\ (a < source \/ a >= n)
  BY <1>2, <1>4, Constants DEF Addresses
<1> QED
  BY <1>1, <1>2, <1>4, <1>5, Zenon

\* A streaming call that refers to what the decoder has.
LEMMA RTStream ==
    ASSUME IInv', NEW text \in Texts, NEW room, NEW source \in Slots,
           NEW cx \in Contexts, Behind(cx), NEW mode \in {"withPrefix64k", "usingExtDict", "usingDictCtx"},
           NEW small, NEW keeps, keeps = (IF mode = "withPrefix64k" THEN "context" ELSE "source"),
           Compress(cx, source, text, room, "limitedOutput", "byU32", mode, small, keeps),
           cx.dictCtx => mode = "usingDictCtx" \/ text # <<>>,
           mode = "usingDictCtx" => cx.dictCtx,
           text # <<>> => mode = "usingDictCtx" \/ ~cx.dictCtx,
           mode = "withPrefix64k" => cx.dictionary + cx.dictSize = source,
           NEW d \in Contexts, d = (IF mode = "usingDictCtx" THEN dict ELSE cx),
           RememberedBy(history', mem', d.dictionary, d.dictionary + d.dictSize)
    PROVE  RTInv'
<1>1. pc = "idle" /\ Place(source, text) /\ dict' = dict
  BY Zenon DEF Compress, Idle
<1>2. source \in Sources /\ source \in Nat /\ source < DictAt /\ source \in 0..MemEnd
  BY TextFits, Layout, Constants
<1>3. /\ cx.dictSize \in Nat /\ cx.dictionary \in Nat /\ cx.dictCtx \in BOOLEAN
  BY Constants DEF Contexts
<1>4. CASE text = <<>>
  <2> DEFINE emptied == [cx EXCEPT !.dictionary = source, !.dictSize = 0]
  <2>1. ctx' = (IF keeps = "source" THEN emptied ELSE cx) /\ pc' = "idle"
    BY <1>1, <1>4 DEF Compress
  <2>2. emptied.dictSize = 0 /\ emptied.dictionary = source
    BY DEF Contexts
  <2>3. emptied.dictCtx = cx.dictCtx
    BY DEF Contexts
  <2> HIDE DEF emptied
  <2>4. HistoryKept'
    <3>1. CASE mode = "usingDictCtx"
      <4>1. d = dict' /\ ctx'.dictCtx
        BY <1>1, <2>1, <2>3, <3>1
      <4> QED
        BY <4>1 DEF HistoryKept, Remembered, RememberedBy
    <3>2. CASE mode = "withPrefix64k"
      <4>1. d = cx /\ ctx' = cx /\ ~cx.dictCtx
        BY <1>4, <2>1, <3>2
      <4> QED
        BY <4>1 DEF HistoryKept, Remembered, RememberedBy
    <3>3. CASE mode = "usingExtDict"
      <4>1. ctx' = emptied /\ ~cx.dictCtx
        BY <1>4, <2>1, <3>3
      <4>2. (ctx'.dictionary + ctx'.dictSize) - ctx'.dictionary = 0 /\ ~ctx'.dictCtx
        BY <1>2, <2>2, <2>3, <4>1
      <4>3. \A j \in 1..0 : FALSE
        OBVIOUS
      <4> QED
        BY <4>2, <4>3 DEF HistoryKept, Remembered
    <3> QED
      BY <3>1, <3>2, <3>3
  <2> QED
    BY <2>1, <2>4 DEF RTInv
<1>5. CASE text # <<>>
  <2> DEFINE c == CallOf(cx, source, Len(text), room, "limitedOutput", "byU32", mode, small, keeps)
  <2>1. Enter(cx, c)
    BY <1>5, Zenon DEF Compress
  <2>2. /\ c.source = source /\ c.size = Len(text) /\ c.tableType = "byU32" /\ c.mode = mode
        /\ c.keeps = keeps /\ c.startIndex = cx.currentOffset
        /\ c.dictionary = d.dictionary /\ c.dictEnd = d.dictionary + d.dictSize
    BY CallOfIs
  <2> HIDE DEF c
  <2>3. /\ call' = c /\ lowLimit' = c.source - (IF c.mode = "withPrefix64k" THEN cx.dictSize ELSE 0)
        /\ ctx' = Entered(mem', cx, c) /\ pc' # "idle"
    BY <2>1 DEF Enter, StartSearch
  <2>4. mem' \in [Addresses -> Nat] /\ history' \in Seq(Nat)
    BY Zenon DEF IInv, StreamOK
  <2>5. c.size \in InputSizes /\ c.size > 0
    BY <1>5, <2>2, TextFits
  <2>6. mode = "withPrefix64k" =>
          /\ ctx'.dictionary = cx.dictionary /\ ctx'.dictSize = cx.dictSize + c.size
    <3> SUFFICES ASSUME mode = "withPrefix64k"
                 PROVE  ctx'.dictionary = cx.dictionary /\ ctx'.dictSize = cx.dictSize + c.size
      OBVIOUS
    <3>1. ~cx.dictCtx /\ c.mode # "usingDictCtx" /\ c.tableType \in {"byU16", "byU32"}
          /\ c.source \in Sources
      BY <1>2, <1>5, <2>2
    <3>2. /\ Entered(mem', cx, c).dictionary = cx.dictionary
          /\ Entered(mem', cx, c).dictSize = cx.dictSize + c.size
      BY <2>2, <2>4, <2>5, <3>1, EnteredIs
    <3> QED
      BY <2>3, <3>2
  <2>7. Remembered(call.dictionary, call.dictEnd)'
    BY <2>2, <2>3 DEF Remembered, RememberedBy
  <2>8. mode = "withPrefix64k" =>
          /\ call'.dictEnd = call'.source /\ lowLimit' >= call'.dictionary
          /\ call'.keeps = "context"
          /\ ctx'.dictionary = call'.dictionary
          /\ ctx'.dictionary + ctx'.dictSize = call'.source + call'.size
    <3> SUFFICES ASSUME mode = "withPrefix64k"
                 PROVE  /\ call'.dictEnd = call'.source /\ lowLimit' >= call'.dictionary
                        /\ call'.keeps = "context"
                        /\ ctx'.dictionary = call'.dictionary
                        /\ ctx'.dictionary + ctx'.dictSize = call'.source + call'.size
      OBVIOUS
    <3>1. d = cx /\ cx.dictionary + cx.dictSize = source /\ keeps = "context"
      OBVIOUS
    <3>2. c.size \in Nat
      BY <2>2, TextFits
    <3>3. /\ c.dictEnd = source /\ c.dictionary = cx.dictionary /\ lowLimit' = source - cx.dictSize
      BY <2>2, <2>3, <3>1
    <3>4. lowLimit' = cx.dictionary
      BY <1>2, <1>3, <3>1, <3>3
    <3>5. ctx'.dictionary + ctx'.dictSize = source + c.size
      BY <1>2, <1>3, <2>6, <3>1, <3>2
    <3> QED
      BY <1>3, <2>2, <2>3, <2>6, <3>1, <3>3, <3>4, <3>5
  <2>9. HistoryOK'
    <3>1. call'.mode = mode /\ mode # "noDict"
      BY <2>2, <2>3
    <3> QED
      BY <2>7, <2>8, <3>1, Zenon DEF HistoryOK
  <2>10. SizeOK'
    BY <2>2, <2>3 DEF SizeOK
  <2> QED
    BY <1>2, <2>1, <2>2, <2>4, <2>9, <2>10, RTEnter
<1> QED
  BY <1>4, <1>5

LEMMA RTContinue ==
    ASSUME IInv, IInv', RTInv, NEW text \in Texts, NEW room \in Rooms, NEW source \in Slots,
           LZ4_compress_fast_continue(source, text, room)
    PROVE  RTInv'
<1> DEFINE size == Len(text)
           renormed == LZ4_renormDictT(ctx, size)
           t == Trimmed(renormed, source, size)
           cx == t.cx
           small == cx.dictSize < KB64 /\ cx.dictSize < cx.currentOffset
           Go(c, mode, issue, keeps) ==
             Compress(c, source, text, room, "limitedOutput", "byU32", mode, issue, keeps)
<1>1. /\ use \in {"fresh", "stream"} /\ MayPlace(source, size)
      /\ use' = "stream" /\ history' = history
      /\ \/ t.dictEnd = source /\ Go(cx, "withPrefix64k", small, "context")
         \/ t.dictEnd # source /\ cx.dictCtx /\ size > KB4 /\ Go(dict, "usingExtDict", FALSE, "source")
         \/ t.dictEnd # source /\ cx.dictCtx /\ Go(cx, "usingDictCtx", FALSE, "source")
         \/ t.dictEnd # source /\ ~cx.dictCtx /\ Go(cx, "usingExtDict", small, "source")
  BY DEF LZ4_compress_fast_continue
<1>2. pc = "idle" /\ Loaded(dict) /\ dict \in Contexts /\ ~dict.dictCtx
  BY <1>1 DEF Compress, Idle, IInv, StreamOK, Loaded
<1>3. /\ ctx \in Contexts /\ Behind(ctx) /\ Placed(ctx)
      /\ ctx.dictCtx => ctx.dictSize = 0 /\ dict.dictSize > 0
  BY <1>1, <1>2 DEF IInv, ContextOK
<1>4. /\ size \in InputSizes /\ size \in Nat /\ source \in Sources /\ source \in Nat /\ source < DictAt
      /\ source >= 1 /\ text \in Seq(Nat) /\ source + size <= DictAt
  BY TextFits, Layout
<1>5. /\ renormed \in Contexts /\ Behind(renormed) /\ Placed(renormed)
      /\ renormed.dictCtx = ctx.dictCtx /\ renormed.dictSize <= ctx.dictSize
      /\ renormed.dictionary + renormed.dictSize = ctx.dictionary + ctx.dictSize
  BY <1>3, <1>4, RenormIs
<1>s. size = Len(text)
  OBVIOUS
<1> HIDE DEF renormed, size
<1>6. /\ ctx.dictSize \in Nat /\ ctx.dictionary \in Nat
      /\ renormed.dictSize \in Nat /\ renormed.dictionary \in Nat
  BY <1>3, <1>5, Constants DEF Contexts
<1>7. Apart(renormed, source, size)
  BY <1>1, <1>4, <1>5, <1>6 DEF MayPlace, Apart
<1>8. renormed.dictCtx => renormed.dictSize = 0
  BY <1>3, <1>5, <1>6
<1>9. /\ cx \in Contexts /\ Behind(cx) /\ Placed(cx)
      /\ cx.dictCtx = renormed.dictCtx /\ cx.dictSize <= renormed.dictSize
      /\ cx.dictSize > 0 =>
            /\ cx.dictionary + cx.dictSize = renormed.dictionary + renormed.dictSize
            /\ source + size <= cx.dictionary \/ source >= cx.dictionary + cx.dictSize
      /\ t.dictEnd = source => ~renormed.dictCtx /\ cx.dictionary + cx.dictSize = source
  BY <1>4, <1>5, <1>7, <1>8, TrimIs
<1> HIDE DEF t
<1> HIDE DEF cx
<1>10. cx.dictSize \in Nat /\ cx.dictionary \in Nat /\ cx.dictCtx \in BOOLEAN
  BY <1>9, Constants DEF Contexts
<1>11. HistoryKept /\ use # "other"
  BY <1>1, <1>2 DEF RTInv
<1>12. mem \in [Addresses -> Nat] /\ Place(source, text)
  BY <1>1, Zenon DEF Compress, IInv, StreamOK
<1>13. source + Len(text) <= MemEnd + 1 /\ source + Len(text) <= DictAt
  BY <1>4, <1>s, Layout, Constants
\* What is left of the dictionary keeps its bytes.
<1>14. ~cx.dictCtx => RememberedBy(history', mem', cx.dictionary, cx.dictionary + cx.dictSize)
  <2> SUFFICES ASSUME ~cx.dictCtx
               PROVE  RememberedBy(history', mem', cx.dictionary, cx.dictionary + cx.dictSize)
    OBVIOUS
  <2>1. PICK f \in Nat, e \in Nat : f = cx.dictionary /\ e = cx.dictionary + cx.dictSize
    BY <1>10
  <2>2. Remembered(ctx.dictionary, ctx.dictionary + ctx.dictSize)
    <3>1. ~ctx.dictCtx
      BY <1>5, <1>9
    <3> QED
      BY <1>11, <3>1, Zenon DEF HistoryKept
  <2>3. e > f => /\ e = ctx.dictionary + ctx.dictSize /\ e - f <= ctx.dictSize
                 /\ source + size <= f \/ source >= e
    BY <1>5, <1>6, <1>9, <1>10, <2>1
  <2>4. Remembered(f, e)
    <3>1. ASSUME NEW j \in 1..(e - f), j <= KB64
          PROVE  j <= Len(history) /\ history[Len(history) + 1 - j] = mem[e - j]
      <4>1. e > f /\ e = ctx.dictionary + ctx.dictSize
        BY <2>1, <2>3
      <4>2. j \in 1..((ctx.dictionary + ctx.dictSize) - ctx.dictionary)
        BY <1>6, <2>1, <2>3, <4>1
      <4> QED
        BY <2>2, <3>1, <4>1, <4>2, Zenon DEF Remembered
    <3> QED
      BY <3>1, Zenon DEF Remembered
  <2>5. e > f => f >= 1 /\ e <= MemEnd + 1
    <3>1. cx.dictSize > 0 => cx.dictionary >= 1 /\ cx.dictionary + cx.dictSize <= MemEnd + 1
      BY <1>9, <1>10, Layout, Constants DEF Placed, InMemory
    <3> QED
      BY <1>10, <2>1, <3>1
  <2>6. e > f => source + Len(text) <= f \/ source >= e
    BY <1>s, <2>3
  <2>7. RememberedBy(history', mem', f, e)
    BY <1>1, <1>4, <1>12, <1>13, <2>4, <2>5, <2>6, KeptByPlace, Zenon
  <2> QED
    BY <2>1, <2>7
\* The source lies before the memory of the attached dictionary.
<1>15. cx.dictCtx => RememberedBy(history', mem', dict.dictionary, dict.dictionary + dict.dictSize)
  <2> SUFFICES ASSUME cx.dictCtx
               PROVE  RememberedBy(history', mem', dict.dictionary, dict.dictionary + dict.dictSize)
    OBVIOUS
  <2>0. dict.dictionary \in Nat /\ dict.dictSize \in Nat
    BY <1>2, Constants DEF Contexts
  <2>1. PICK f \in Nat, e \in Nat : f = dict.dictionary /\ e = dict.dictionary + dict.dictSize
    BY <2>0
  <2>2. Remembered(f, e)
    <3>1. ctx.dictCtx
      BY <1>5, <1>9
    <3> QED
      BY <1>11, <2>1, <3>1, Zenon DEF HistoryKept
  <2>3. e > f => f >= DictAt /\ e <= SaveAt
    BY <1>2, <2>0, <2>1 DEF Loaded
  <2>4. e > f => f >= 1 /\ e <= MemEnd + 1
    BY <2>1, <2>3, Layout, Constants
  <2>5. e > f => source + Len(text) <= f \/ source >= e
    BY <1>4, <1>s, <1>13, <2>1, <2>3, Constants
  <2>6. RememberedBy(history', mem', f, e)
    BY <1>1, <1>4, <1>12, <1>13, <2>2, <2>4, <2>5, KeptByPlace, Zenon
  <2> QED
    BY <2>1, <2>6
<1> HIDE DEF small
<1>16. CASE t.dictEnd = source /\ Go(cx, "withPrefix64k", small, "context")
  <2>1. ~cx.dictCtx /\ cx.dictionary + cx.dictSize = source
    BY <1>9, <1>16
  <2>2. Compress(cx, source, text, room, "limitedOutput", "byU32", "withPrefix64k", small, "context")
    BY <1>16
  <2> QED
    BY <1>9, <1>14, <2>1, <2>2, RTStream
<1>17. CASE t.dictEnd # source /\ cx.dictCtx /\ Go(cx, "usingDictCtx", FALSE, "source")
  <2>1. Compress(cx, source, text, room, "limitedOutput", "byU32", "usingDictCtx", FALSE, "source")
    BY <1>17
  <2> QED
    BY <1>2, <1>9, <1>15, <1>17, <2>1, RTStream
<1>18. CASE t.dictEnd # source /\ ~cx.dictCtx /\ Go(cx, "usingExtDict", small, "source")
  <2>1. Compress(cx, source, text, room, "limitedOutput", "byU32", "usingExtDict", small, "source")
    BY <1>18
  <2> QED
    BY <1>9, <1>14, <1>18, <2>1, RTStream
<1>19. CASE t.dictEnd # source /\ cx.dictCtx /\ size > KB4 /\ Go(dict, "usingExtDict", FALSE, "source")
  <2>1. Compress(dict, source, text, room, "limitedOutput", "byU32", "usingExtDict", FALSE, "source")
    BY <1>19
  <2>2. Behind(dict)
    <3>1. dict.currentOffset = KB64 /\ dict.hashTable \in [HashValues -> Nat]
      BY <1>2 DEF Loaded, Contexts
    <3>2. ASSUME NEW h \in HashValues
          PROVE  dict.hashTable[h] = 0 \/ dict.hashTable[h] + HASH_UNIT <= dict.currentOffset
      BY <1>2, <3>1 DEF Loaded
    <3> QED
      BY <3>2 DEF Behind
  <2> QED
    BY <1>2, <1>15, <1>19, <2>1, <2>2, RTStream
<1> QED
  BY <1>1, <1>16, <1>17, <1>18, <1>19

-----------------------------------------------------------------------------
(* Between two calls *)

LEMMA RTReset ==
    ASSUME IInv, LZ4_resetStream_fast PROVE RTInv'
<1>1. pc = "idle" /\ pc' = "idle" /\ ctx' = LZ4_prepareTable(ctx, 0, "byU32")
  BY DEF LZ4_resetStream_fast, Idle
<1>2. ctx \in Contexts /\ Behind(ctx)
  BY <1>1 DEF IInv, ContextOK
<1> DEFINE cx == LZ4_prepareTable(ctx, 0, "byU32")
<1>3. cx \in Contexts /\ cx.dictSize = 0 /\ ~cx.dictCtx
  BY <1>2, PrepareIs
<1> HIDE DEF cx
<1>4. ctx' = cx
  BY <1>1 DEF cx
<1>5. (ctx'.dictionary + ctx'.dictSize) - ctx'.dictionary = 0 /\ ~ctx'.dictCtx
  BY <1>3, <1>4, Constants DEF Contexts
<1>6. \A j \in 1..0 : FALSE
  OBVIOUS
<1> QED
  BY <1>1, <1>5, <1>6 DEF RTInv, HistoryKept, Remembered

\* A loaded dictionary ends with the text, or is empty.
LEMMA LoadEnds ==
    ASSUME NEW m \in [Addresses -> Nat], NEW size \in Nat, NEW slow \in BOOLEAN, DictAt + size <= SaveAt
    PROVE  LET new == LZ4_loadDict_internal(m, DictAt, size, slow)
           IN  /\ new.dictSize \in Nat /\ new.dictSize <= size /\ new.dictionary \in Nat
               /\ new.dictSize = 0 \/ new.dictionary + new.dictSize = DictAt + size
<1> DEFINE empty == [LZ4_initStream EXCEPT !.currentOffset = KB64]
           kept  == IF size > KB64 THEN KB64 ELSE size
           p     == DictAt + size - kept
           table == LoadedTable(m, p, kept, slow)
           full  == [empty EXCEPT !.dictionary = p, !.dictSize = kept, !.tableType = "byU32",
                                  !.hashTable = table]
<1>1. LZ4_loadDict_internal(m, DictAt, size, slow) = IF size < HASH_UNIT THEN empty ELSE full
  BY DEF LZ4_loadDict_internal
<1>2. kept \in Nat /\ kept <= size /\ p \in Nat /\ p + kept = DictAt + size
  BY Constants
<1> HIDE DEF kept, p, table
<1>3. full.dictionary = p /\ full.dictSize = kept /\ empty.dictSize = 0 /\ empty.dictionary = 0
  BY Constants DEF LZ4_initStream
<1> HIDE DEF full, empty
<1> QED
  BY <1>1, <1>2, <1>3

\* What a dictionary and the history that goes with it have in common.
LEMMA RTLoadDict ==
    ASSUME IInv, NEW text \in DictTexts, NEW slow \in BOOLEAN, LZ4_loadDict(text, slow) PROVE RTInv'
<1>1. /\ pc = "idle" /\ pc' = "idle"
      /\ history' = Reachable(text) /\ Place(DictAt, text)
      /\ ctx' = LZ4_loadDict_internal(mem', DictAt, Len(text), slow)
  BY DEF LZ4_loadDict, Idle
<1>2. mem \in [Addresses -> Nat] /\ text \in Seq(Nat) /\ Len(text) \in Nat /\ DictAt + Len(text) <= SaveAt
  BY FastAssumption DEF IInv, StreamOK
<1>3. /\ mem' \in [Addresses -> Nat]
      /\ \A i \in 1..Len(text) : mem'[DictAt + i - 1] = text[i]
  BY <1>1, <1>2, PlaceIs, Layout, Constants
<1> DEFINE cx == LZ4_loadDict_internal(mem', DictAt, Len(text), slow)
<1>4. Loaded(cx)
  BY <1>2, <1>3, LoadIs, Layout
<1>5. /\ cx.dictSize \in Nat /\ cx.dictSize <= Len(text) /\ cx.dictionary \in Nat
      /\ cx.dictSize = 0 \/ cx.dictionary + cx.dictSize = DictAt + Len(text)
  BY <1>2, <1>3, LoadEnds
<1> HIDE DEF cx
<1>6. ctx' = cx /\ ~cx.dictCtx
  BY <1>1, <1>4 DEF cx, Loaded
<1>7. PICK n \in Nat, s \in Nat, p \in Nat : n = Len(text) /\ s = cx.dictSize /\ p = cx.dictionary
  BY <1>2, <1>5
<1>8. ASSUME NEW j \in 1..((p + s) - p), j <= KB64
      PROVE  j <= Len(history') /\ history'[Len(history') + 1 - j] = mem'[(p + s) - j]
  <2>1. j \in 1..s /\ s <= n /\ p + s = DictAt + n /\ j \in 1..KB64
    BY <1>5, <1>7, <1>8, Constants
  <2>2. /\ j <= Len(Reachable(text))
        /\ Reachable(text)[Len(Reachable(text)) + 1 - j] = text[Len(text) + 1 - j]
    <3>1. j <= Len(text)
      BY <1>7, <2>1
    <3> QED
      BY <1>2, <2>1, <3>1, ReachableEnds, Zenon
  <2>3. PICK i \in 1..n : i = n + 1 - j
    BY <2>1
  <2>4. mem'[DictAt + i - 1] = text[i]
    BY <1>3, <1>7
  <2>5. DictAt + i - 1 = (p + s) - j
    BY <2>1, <2>3, Constants
  <2> QED
    BY <1>1, <1>7, <2>2, <2>3, <2>4, <2>5, Zenon
<1>9. Remembered(ctx.dictionary, ctx.dictionary + ctx.dictSize)'
  BY <1>6, <1>7, <1>8, Zenon DEF Remembered
<1> QED
  BY <1>1, <1>6, <1>9 DEF RTInv, HistoryKept

LEMMA RTAttach ==
    ASSUME IInv, RTInv, LZ4_attachDictionary PROVE RTInv'
<1>1. /\ pc = "idle" /\ pc' = "idle" /\ mem' = mem /\ dict' = dict
      /\ use = "fresh" /\ ctx.dictSize = 0 /\ ctx' = LZ4_attach_dictionary(ctx, dict)
      /\ history' = IF ctx'.dictCtx THEN Bytes(dict.dictionary, dict.dictSize) ELSE <<>>
  BY DEF LZ4_attachDictionary, Idle
<1>2. /\ ctx \in Contexts /\ mem \in [Addresses -> Nat]
      /\ Loaded(dict) /\ dict.dictSize \in Nat /\ dict.dictionary \in Nat
  BY <1>1, Constants DEF IInv, ContextOK, StreamOK, Loaded, Contexts
<1> DEFINE offset0 == IF ctx.currentOffset = 0 THEN KB64 ELSE ctx.currentOffset
<1>5. ctx' = [ctx EXCEPT !.currentOffset = offset0, !.dictCtx = dict.dictSize # 0]
  BY <1>1 DEF LZ4_attach_dictionary
<1> HIDE DEF offset0
<1>6. ctx'.dictSize = 0 /\ ctx'.dictionary = ctx.dictionary /\ ctx.dictionary \in Nat
  BY <1>1, <1>2, <1>5, Constants DEF Contexts
<1>7. CASE ctx'.dictCtx
  <2>1. history' = Bytes(dict.dictionary, dict.dictSize)
    BY <1>1, <1>7
  <2>2. PICK n \in Nat, p \in Nat : n = dict.dictSize /\ p = dict.dictionary
    BY <1>2
  <2>3. /\ history' \in Seq(Nat) /\ Len(history') = n
        /\ \A i \in 1..n : history'[i] = mem[p + i - 1]
    <3>1. dict.dictSize > 0 => dict.dictionary >= 1 /\ dict.dictionary + dict.dictSize <= MemEnd + 1
      BY <1>2, Layout, Constants DEF Loaded
    <3> QED
      BY <1>2, <2>1, <2>2, <3>1, BytesIs, Zenon
  <2>4. ASSUME NEW j \in 1..((p + n) - p)
        PROVE  j <= Len(history') /\ history'[Len(history') + 1 - j] = mem'[(p + n) - j]
    <3>1. PICK i \in 1..n : i = n + 1 - j
      OBVIOUS
    <3>2. j <= n /\ p + i - 1 = (p + n) - j
      BY <3>1
    <3>3. history'[i] = mem[p + i - 1]
      BY <2>3
    <3> QED
      BY <1>1, <2>3, <3>1, <3>2, <3>3, Zenon
  <2>5. Remembered(dict.dictionary, dict.dictionary + dict.dictSize)'
    BY <1>1, <2>2, <2>4, Zenon DEF Remembered
  <2> QED
    BY <1>1, <1>7, <2>5 DEF RTInv, HistoryKept
<1>8. CASE ~ctx'.dictCtx
  <2>1. (ctx'.dictionary + ctx'.dictSize) - ctx'.dictionary = 0
    BY <1>6
  <2>2. \A j \in 1..0 : FALSE
    OBVIOUS
  <2> QED
    BY <1>1, <1>8, <2>1, <2>2 DEF RTInv, HistoryKept, Remembered
<1> QED
  BY <1>7, <1>8

LEMMA RTSaveDict ==
    ASSUME IInv, RTInv, NEW size \in {0, 3, 6, KB64}, LZ4_saveDict(size) PROVE RTInv'
<1> DEFINE kept == Min({size, KB64, ctx.dictSize})
           saved == Bytes(ctx.dictionary + ctx.dictSize - kept, kept)
<1>1. /\ pc = "idle" /\ pc' = "idle" /\ history' = history /\ dict' = dict
      /\ use = "stream" /\ Place(SaveAt, saved)
      /\ ctx' = [ctx EXCEPT !.dictionary = SaveAt, !.dictSize = kept]
  BY DEF LZ4_saveDict, Idle
<1>2. /\ ctx \in Contexts /\ Placed(ctx) /\ mem \in [Addresses -> Nat] /\ Loaded(dict)
      /\ ctx.dictCtx => ctx.dictSize = 0
      /\ HistoryKept
  BY <1>1 DEF IInv, ContextOK, StreamOK, RTInv
<1>3. ctx.dictSize \in Nat /\ ctx.dictionary \in Nat /\ ctx.dictCtx \in BOOLEAN
  BY <1>2, Constants DEF Contexts
<1>4. kept \in Nat /\ kept <= ctx.dictSize /\ kept <= KB64
  BY <1>3, MinThree, Constants
<1> HIDE DEF kept
<1>5. PICK from \in Nat : from = ctx.dictionary + ctx.dictSize - kept
  BY <1>3, <1>4
<1>6. /\ saved \in Seq(Nat) /\ Len(saved) = kept
      /\ \A i \in 1..kept : saved[i] = mem[from + i - 1]
  <2>1. kept > 0 => from >= 1 /\ from + kept <= MemEnd + 1
    BY <1>2, <1>3, <1>4, <1>5, Layout, Constants DEF Placed, InMemory
  <2>2. saved = Bytes(from, kept)
    BY <1>5
  <2> HIDE DEF saved
  <2> QED
    BY <1>2, <1>4, <2>1, <2>2, BytesIs, Zenon
<1> HIDE DEF saved
<1>7. SaveAt \in Nat /\ SaveAt >= 1 /\ SaveAt + Len(saved) <= MemEnd + 1
  BY <1>4, <1>6, Layout, Constants
<1>8. \A i \in 1..kept : mem'[SaveAt + i - 1] = mem[from + i - 1]
  BY <1>1, <1>2, <1>6, <1>7, PlaceIs, Zenon
<1>9. ctx'.dictSize = kept /\ ctx'.dictionary = SaveAt
  BY <1>1, <1>2 DEF Contexts
<1>10. ctx'.dictCtx = ctx.dictCtx
  BY <1>1, <1>2 DEF Contexts
<1>11. CASE ctx.dictCtx
  <2>1. dict.dictionary \in Nat /\ dict.dictSize \in Nat
    BY <1>2, Constants DEF Loaded, Contexts
  <2>2. PICK f \in Nat, e \in Nat : f = dict.dictionary /\ e = dict.dictionary + dict.dictSize
    BY <2>1
  <2>3. Remembered(f, e)
    BY <1>1, <1>2, <1>11, <2>2, Zenon DEF HistoryKept
  <2>4. Len(saved) = 0
    BY <1>2, <1>3, <1>4, <1>6, <1>11
  <2>5. e > f => /\ f >= 1 /\ e <= MemEnd + 1
                 /\ SaveAt + Len(saved) <= f \/ SaveAt >= e
    BY <1>2, <2>1, <2>2, Layout, Constants DEF Loaded
  <2>6. RememberedBy(history', mem', f, e)
    BY <1>1, <1>2, <1>6, <1>7, <2>3, <2>5, KeptByPlace, Zenon
  <2>7. Remembered(dict.dictionary, dict.dictionary + dict.dictSize)'
    BY <1>1, <2>2, <2>6, Zenon DEF Remembered, RememberedBy
  <2> QED
    BY <1>1, <1>10, <1>11, <2>7 DEF RTInv, HistoryKept
<1>12. CASE ~ctx.dictCtx
  <2>1. Remembered(ctx.dictionary, ctx.dictionary + ctx.dictSize)
    BY <1>1, <1>2, <1>12 DEF HistoryKept
  <2>2. PICK end \in Nat : end = ctx.dictionary + ctx.dictSize
    BY <1>3
  <2>3. ASSUME NEW j \in 1..((SaveAt + kept) - SaveAt), j <= KB64
        PROVE  j <= Len(history') /\ history'[Len(history') + 1 - j] = mem'[(SaveAt + kept) - j]
    <3>1. j \in 1..(end - ctx.dictionary)
      BY <1>3, <1>4, <1>7, <2>2
    <3>2. j <= Len(history) /\ history[Len(history) + 1 - j] = mem[end - j]
      BY <2>1, <2>2, <2>3, <3>1, Zenon DEF Remembered
    <3>3. PICK i \in 1..kept : i = kept + 1 - j
      BY <1>4, <1>7
    <3>4. SaveAt + i - 1 = (SaveAt + kept) - j /\ from + i - 1 = end - j
      <4>1. from = end - kept
        BY <1>3, <1>4, <1>5, <2>2
      <4>2. j \in Int /\ kept \in Int /\ SaveAt \in Int /\ i = kept + 1 - j
        BY <1>4, <1>7, <3>3
      <4> QED
        BY <4>1, <4>2
    <3>5. mem'[SaveAt + i - 1] = mem[from + i - 1]
      BY <1>8
    <3> QED
      BY <1>1, <3>2, <3>4, <3>5, Zenon
  <2>4. Remembered(ctx.dictionary, ctx.dictionary + ctx.dictSize)'
    BY <1>9, <2>3, Zenon DEF Remembered
  <2> QED
    BY <1>1, <1>10, <1>12, <2>4 DEF RTInv, HistoryKept
<1> QED
  BY <1>3, <1>11, <1>12

-----------------------------------------------------------------------------
(* The theorem *)

LEMMA RTInit == Init => RTInv
<1> SUFFICES ASSUME Init PROVE RTInv
  OBVIOUS
<1>1. ctx = LZ4_initStream /\ pc = "idle"
  BY DEF Init
<1>2. ctx.dictSize = 0 /\ ctx.dictionary = 0
  BY <1>1, Constants DEF LZ4_initStream
<1>3. ~ctx.dictCtx
  BY <1>1, InitStreamIs
<1>4. (ctx.dictionary + ctx.dictSize) - ctx.dictionary = 0
  BY <1>2
<1>5. \A j \in 1..0 : FALSE
  OBVIOUS
<1> QED
  BY <1>1, <1>3, <1>4, <1>5 DEF RTInv, HistoryKept, Remembered

LEMMA RTStutters ==
    ASSUME RTInv, UNCHANGED vars PROVE RTInv'
<1>1. UNCHANGED <<mem, dict, use, history, ctx, call, pc, ip, match, lowLimit, offset, anchor, token, op,
                  block, result>>
  BY DEF vars, stream, search, output
<1>2. CASE pc = "idle"
  BY <1>1, <1>2 DEF RTInv, HistoryKept, Remembered
<1>3. CASE pc # "idle"
  <2>1. HistoryOK /\ SizeOK /\ DistanceOK /\ BlockOK /\ EndOK /\ DoneOK
    BY <1>3 DEF RTInv
  <2>2. HistoryOK' /\ SizeOK'
    BY <1>1, <2>1, HistorySame
  <2>3. DistanceOK'
    BY <1>1, <2>1 DEF DistanceOK, Distance, InDict, maybe_extMem
  <2>4. BlockOK'
    <3>1. Consumed' = Consumed
      BY <1>1 DEF Consumed, Bytes
    <3> QED
      BY <1>1, <2>1, <3>1, Zenon DEF BlockOK
  <2>5. EndOK'
    <3>1. matchlimit' = matchlimit /\ iend' = iend
      BY <1>1 DEF matchlimit, iend
    <3> QED
      BY <1>1, <2>1, <3>1 DEF EndOK
  <2>6. DoneOK'
    BY <1>1, <2>1, Zenon DEF DoneOK, EndsWithLiterals, iend
  <2> QED
    BY <1>1, <1>3, <2>2, <2>3, <2>4, <2>5, <2>6 DEF RTInv
<1> QED
  BY <1>2, <1>3

LEMMA RTStep == IInv /\ IInv' /\ RTInv /\ [Next]_vars => RTInv'
<1> SUFFICES ASSUME IInv, IInv', RTInv, [Next]_vars PROVE RTInv'
  OBVIOUS
<1>1. CASE UNCHANGED vars
  BY <1>1, RTStutters
<1>2. CASE \E text \in Texts, room \in Rooms : OneShotCall(text, room)
  BY <1>2, RTOneShotCall
<1>3. CASE \E text \in Texts, room \in Rooms, source \in Slots : LZ4_compress_fast_continue(source, text, room)
  BY <1>3, RTContinue
<1>4. CASE LZ4_resetStream_fast
  BY <1>4, RTReset
<1>5. CASE \E text \in DictTexts, slow \in BOOLEAN : LZ4_loadDict(text, slow)
  BY <1>5, RTLoadDict
<1>6. CASE LZ4_attachDictionary
  BY <1>6, RTAttach
<1>7. CASE \E size \in {0, 3, 6, KB64} : LZ4_saveDict(size)
  BY <1>7, RTSaveDict
<1>8. CASE Search
  BY <1>8, RTSearch
<1>9. CASE EncodeLiterals
  BY <1>9, RTLiterals
<1>10. CASE EncodeMatch
  BY <1>10, RTMatch
<1>11. CASE TestNextPosition
  BY <1>11, RTNext
<1>12. CASE LastLiterals
  BY <1>12, RTLast
<1>13. CASE Return
  BY <1>13, RTReturn
<1> QED
  BY <1>1, <1>2, <1>3, <1>4, <1>5, <1>6, <1>7, <1>8, <1>9, <1>10, <1>11, <1>12, <1>13 DEF Next

(* Every block decodes to its source with what the decoder has before it:  *)
(* the matches copy the right bytes, overlapping themselves or not, from a *)
(* history the stream did not lose when its dictionary was trimmed, saved, *)
(* renumbered or attached; offsets fit sixteen bits; and the block ends    *)
(* with the literals the format asks for.                                  *)
THEOREM BlocksDecode == Spec => []RoundTrip
<1>1. ASSUME IInv, RTInv PROVE RoundTrip
  <2> SUFFICES ASSUME pc = "done", result > 0
               PROVE  /\ Decoded(block, history) = history \o Consumed
                      /\ call.directive # "fillOutput" => Len(Consumed) = call.size
                      /\ \A i \in DOMAIN block : block[i].off <= DISTANCE_MAX
                      /\ EndsWithLiterals(block)
    BY DEF RoundTrip
  <2>1. result # 0 /\ StreamOK /\ InCall /\ BlockOK /\ DoneOK
    BY <1>1 DEF IInv, RTInv
  <2>2. Decoded(block, history) = history \o Consumed
    BY <2>1, Zenon DEF BlockOK
  <2>3. call.directive # "fillOutput" => Len(Consumed) = call.size
    <3>1. Len(Consumed) = anchor - call.source
      BY <2>1, ConsumedIs, Zenon
    <3>2. call.source \in Nat /\ call.size \in Nat /\ iend = call.source + call.size
      BY <2>1, CallIs DEF InCall
    <3>3. call.directive # "fillOutput" => anchor = iend
      BY <2>1 DEF DoneOK
    <3> QED
      BY <3>1, <3>2, <3>3
  <2>4. \A i \in DOMAIN block : block[i].off <= DISTANCE_MAX
    <3>1. block \in Seq(Records)
      BY <2>1 DEF BlockOK
    <3>2. \A i \in DOMAIN block : block[i] \in Records
      BY <3>1
    <3>3. \A q \in Records : q.off <= DISTANCE_MAX
      BY Constants DEF Records
    <3> QED
      BY <3>2, <3>3, Zenon
  <2>5. EndsWithLiterals(block)
    BY <2>1 DEF DoneOK
  <2> QED
    BY <2>2, <2>3, <2>4, <2>5
<1>2. IInv /\ RTInv /\ [Next]_vars => IInv' /\ RTInv'
  BY StepInv, RTStep
<1>3. Init => IInv /\ RTInv
  BY InitInv, RTInit
<1> QED
  BY <1>1, <1>2, <1>3, PTL DEF Spec

=============================================================================

------------------------------ MODULE SyncReader ------------------------------
(***************************************************************************)
(* The serial block reader of one frame, internal/pkg/sync/reader.go, with *)
(* the dictionary of compress/dict.go its decompressor keeps.  The packets *)
(* of a frame are those of ReaderSpec; the bytes of the content are        *)
(* numbered from 1 on, those of the user's dictionary up to 0.             *)
(***************************************************************************)
EXTENDS Integers, Sequences, FiniteSets

CONSTANTS
  MaxBlks,     \* bound: blocks in the frame
  lz4DictSz,   \* 64 KB, scaled down
  DictSizes,   \* sizes of opts.Dictionary
  Sizes,       \* sizes of a block
  RawLinked    \* bound: a linked frame may hold uncompressed blocks

VARIABLES
  pc,         \* where NextBlock is
  packets,    \* what the io.Reader has delivered
  taken,      \* packets NextBlock has answered for
  held,       \* the pool block the caller has, or NoBlk
  hasher,     \* there is one: the content hash is present and checked
  hsum,       \* blocks hashed in frame order, -1 if out of order
  err,        \* "none", or the error NextBlock returned
  closed,     \* the stream reader has closed this reader
  live,       \* pool blocks borrowed and not returned
  linked,     \* the frame has linked blocks
  first,      \* the bytes of opts.Dictionary end at 0 and begin here
  dict,       \* DictT.dict: the bytes a match may go back to
  content     \* bytes of the frame's content given to the caller

vars == <<pc, packets, taken, held, hasher, hsum, err, closed, live, linked, first,
          dict, content>>

Kinds  == {"raw", "packed", "corrupt"}
EndsOf == {"end", "badsum", "fail"}

NoBlk  == <<"none", 0>>
Src(i) == <<"src", i>>
Dst(i) == <<"dst", i>>

last == packets[Len(packets)]

\* The bytes lo, lo + 1, ..., hi, and the last n elements.
Run(lo, hi)  == [i \in 1..(hi - lo + 1) |-> lo + i - 1]
Tail64(s, n) == SubSeq(s, Len(s) - n + 1, Len(s))

dupeDict(data) ==
  IF Len(data) <= lz4DictSz THEN data ELSE Tail64(data, lz4DictSz)

\* The three cases: a block that fills the window, one that pushes out the
\* front of it, and one there is room for.
UpdateCutsFront(d, bytes) ==  \* mutant
  IF Len(bytes) >= lz4DictSz THEN Tail64(bytes, lz4DictSz)
  ELSE IF Len(d) + Len(bytes) > lz4DictSz
       THEN SubSeq(d, 1, lz4DictSz - Len(bytes)) \o bytes
       ELSE d \o bytes
Update(d, bytes) ==
  IF Len(bytes) >= lz4DictSz THEN Tail64(bytes, lz4DictSz)
  ELSE IF Len(d) + Len(bytes) > lz4DictSz
       THEN Tail64(d, lz4DictSz - Len(bytes)) \o bytes
       ELSE d \o bytes

Init ==
  /\ pc = "idle" /\ packets = <<>> /\ taken = 0 /\ held = NoBlk /\ hsum = 0
  /\ err = "none" /\ closed = FALSE /\ live = {}
  /\ hasher \in BOOLEAN /\ linked \in BOOLEAN /\ content = 0
  /\ \E n \in DictSizes : first = 1 - n
  /\ dict = dupeDict(Run(first, 0))

frame == <<hasher, linked, first>>

\* The block of the call before is hashed, then returned.
HashPrevNot == UNCHANGED hsum  \* mutant
HashPrev ==
  hsum' = IF hasher /\ held # NoBlk
          THEN IF held[2] = hsum + 1 THEN hsum + 1 ELSE -1
          ELSE hsum

NextBlock ==
  /\ pc = "idle" /\ err = "none" /\ ~closed
  /\ HashPrev
  /\ live' = live \ {held} /\ held' = NoBlk
  /\ pc' = "read"
  /\ UNCHANGED <<packets, taken, err, closed, frame, dict, content>>

\* r.frameRdr.Read(): a block in a pool block, or an error without one.
ReadFrame ==
  /\ pc = "read"
  /\ \/ \E k \in Kinds :
          /\ Len(packets) < MaxBlks
          /\ k = "raw" /\ linked => RawLinked
          /\ packets' = Append(packets, k)
          /\ live' = live \cup {Src(Len(packets'))}
     \/ \E k \in EndsOf : packets' = Append(packets, k) /\ UNCHANGED live
  /\ pc' = "decide"
  /\ UNCHANGED <<taken, held, hsum, err, closed, frame, dict, content>>

Answer(e, b) ==
  /\ err' = e /\ held' = b /\ taken' = taken + 1 /\ pc' = "idle"
  /\ UNCHANGED <<packets, hsum, closed, frame>>

\* The end mark, with the hash compared when there is a hasher.
SumMatches == ~hasher \/ (last = "end" /\ hsum = taken)

ReturnEnd ==
  /\ pc = "decide" /\ last \in {"end", "badsum"}
  /\ Answer(IF SumMatches THEN "end" ELSE "badsum", NoBlk)
  /\ UNCHANGED <<live, dict, content>>

ReturnFailed ==
  /\ pc = "decide" /\ last = "fail"
  /\ Answer("fail", NoBlk)
  /\ UNCHANGED <<live, dict, content>>

\* An uncompressed block goes to the caller as it is.
ReturnRaw ==
  /\ pc = "decide" /\ last = "raw"
  /\ Answer("none", Src(Len(packets)))
  /\ \E n \in Sizes : content' = content + n
  /\ UNCHANGED <<live, dict>>

\* Decompress: the source block is returned whether it decodes or not, and the
\* dictionary of a linked frame moves on.
ReturnDecoded ==
  /\ pc = "decide"
  /\ \/ /\ last = "packed"
        /\ live' = (live \ {Src(Len(packets))}) \cup {Dst(Len(packets))}
        /\ Answer("none", Dst(Len(packets)))
        /\ \E n \in Sizes :
             /\ content' = content + n
             /\ dict' = IF linked THEN Update(dict, Run(content + 1, content')) ELSE dict
     \/ /\ last = "corrupt"
        /\ live' = live \ {Src(Len(packets))}
        /\ Answer("corrupt", NoBlk)
        /\ UNCHANGED <<dict, content>>

\* Close does nothing here; Reader.Close then returns the block it still has.
Close ==
  /\ pc = "idle" /\ ~closed
  /\ closed' = TRUE
  /\ live' = live \ {held} /\ held' = NoBlk
  /\ UNCHANGED <<pc, packets, taken, hsum, err, frame, dict, content>>

CallStep == ReadFrame \/ ReturnEnd \/ ReturnFailed \/ ReturnRaw \/ ReturnDecoded

Next == NextBlock \/ CallStep \/ Close

Spec == Init /\ [][Next]_vars

-----------------------------------------------------------------------------

\* Every pool block is returned once nobody can use it: between calls the only
\* one out is the one the caller holds, so that none is out after Close.
PoolBalanced ==
  /\ pc = "idle" => live = (IF held = NoBlk THEN {} ELSE {held})
  /\ closed => live = {}

\* A match of a compressed block goes back to the same bytes here as where the
\* block was compressed: in a linked frame to the last 64 KB of the dictionary
\* and all the content before it, otherwise to the dictionary alone.
WindowHolds ==
  pc = "decide" /\ last = "packed" =>
    dict = dupeDict(Run(first, IF linked THEN content ELSE 0))

-----------------------------------------------------------------------------
(* Why they hold.                                                           *)

\* The reader is one packet ahead of the caller while it decides, the block
\* the caller holds is the last one it was given, and the hasher has had those
\* before it.
InFrame ==
  /\ pc \in {"idle", "read", "decide"}
  /\ packets \in Seq(Kinds \cup EndsOf) /\ taken \in Nat
  /\ hasher \in BOOLEAN /\ closed \in BOOLEAN
  /\ Len(packets) = taken + (IF pc = "decide" THEN 1 ELSE 0)
  /\ pc # "idle" => err = "none" /\ ~closed
  /\ pc # "idle" \/ closed \/ err # "none" => held = NoBlk
  /\ err # "none" => taken > 0
  /\ err = "none" => \A i \in 1 .. taken : packets[i] \in {"raw", "packed"}
  /\ held # NoBlk => taken > 0 /\ held \in {Src(taken), Dst(taken)}
  /\ hasher /\ ~closed => hsum = IF held = NoBlk /\ err = "none" THEN taken ELSE taken - 1

\* The pool block that is out: the one just read, or the one the caller holds.
OneOut ==
  live = IF pc = "decide" THEN (IF last \in Kinds THEN {Src(Len(packets))} ELSE {})
         ELSE IF held = NoBlk THEN {} ELSE {held}

\* The dictionary follows the content, unless it is that of the user.
DictFollows ==
  /\ first \in Int /\ first <= 1 /\ content \in Nat /\ linked \in BOOLEAN
  /\ pc = "decide" /\ last = "raw" => ~linked
  /\ dict = dupeDict(Run(first, IF linked THEN content ELSE 0))
=============================================================================

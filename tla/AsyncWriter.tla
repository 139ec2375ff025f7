----------------------------- MODULE AsyncWriter -----------------------------
(***************************************************************************)
(* The parallel frame writer: internal/pkg/async/writer.go with the        *)
(* content hasher of internal/pkg/async/hash.go (AsyncHashIdx) and the     *)
(* block pool of internal/pkg/blk/pool.go.                                 *)
(*                                                                         *)
(*   caller    the goroutine that calls Write, ReadFrom, Flush and Close   *)
(*   Workers   compressLoop tasks run by opts.WorkerPool                   *)
(*   loop      writeLoop, the only goroutine that touches the io.Writer    *)
(*   hasher    AsyncHashIdx.Run, started when ContentChecksum is on        *)
(*                                                                         *)
(* Bytes are abstracted to offsets of the source stream: a block carries   *)
(* the range [lo, hi) of the bytes the caller handed over.  An unbuffered  *)
(* channel is a joint step of its two ends; a buffered one is a counter    *)
(* (semChan) or a sequence (the hasher's channel).                         *)
(*                                                                         *)
(* A definition marked "mutant" is a plausible bug in the definition after *)
(* it, used to see that a property fails when the code is wrong there.     *)
(***************************************************************************)
EXTENDS Integers, Sequences, FiniteSets

CONSTANTS
  Workers,    \* opts.NParallel compression tasks
  NPending,   \* capacity of semChan, opts.CalcPending()
  PoolSlots,  \* tasks opts.WorkerPool can run at the same time
  BlkSz,      \* bytes in a full block
  MaxBytes,   \* bound: bytes the caller hands over in a behaviour
  HashOn,     \* opts.ContentChecksum
  Linked,     \* opts.BlockLinked
  Faults      \* the operations that may fail, a subset of FaultKinds

FaultKinds == {"hdr", "blk", "trl", "cmp", "read"}

ASSUME WorkersAssumption   == IsFiniteSet(Workers) /\ Workers # {}
ASSUME NPendingAssumption  == NPending \in Nat \ {0}
ASSUME PoolSlotsAssumption == PoolSlots \in Nat \ {0}
ASSUME BlkSzAssumption     == BlkSz \in Nat \ {0}
ASSUME MaxBytesAssumption  == MaxBytes \in Nat
ASSUME OptionsAssumption   == HashOn \in BOOLEAN /\ Linked \in BOOLEAN
ASSUME FaultsAssumption    == Faults \subseteq FaultKinds

VARIABLES
  \* the caller and the fields only it touches
  cpc, retTo,     \* where the caller is; where _flushBlk returns to
  call, ret,      \* the API call in progress or last made, and its error
  left,           \* bytes of the current Write not copied yet
  srcOff,         \* bytes cached in srcBlk
  starts,         \* starts[i+1] is the offset at which block i begins
  report,         \* an error was returned by an API call
  srcNil,         \* srcBlk = nil, the mark of a closed writer
  \* shared by the goroutines
  state,          \* "none", or the first error set
  sem,            \* tokens in semChan
  chClosed,       \* the channels closed so far
  \* compressLoop tasks
  wpc, wblk,
  \* writeLoop
  lpc, cur, nextIdx, flushIdx, pending,
  out,            \* what the io.Writer has received
  \* AsyncHashIdx
  hpc, hch, href, hnext,
  hsum,           \* bytes hashed in stream order, -1 if out of order
  \* blk pool
  live,           \* the blocks borrowed and not returned
  cntBorrowed

callFields == <<retTo, call, ret, left, srcOff, starts, report, srcNil>>
callerVars == <<cpc, callFields>>
sharedVars == <<state, sem, chClosed>>
workerVars == <<wpc, wblk>>
loopFields == <<cur, nextIdx, flushIdx, pending, out>>
loopVars   == <<lpc, loopFields>>
hashVars   == <<hpc, hch, href, hnext, hsum>>
poolVars   == <<live, cntBorrowed>>
vars == <<callerVars, sharedVars, workerVars, loopVars, hashVars, poolVars>>

othersOfCaller == <<sharedVars, workerVars, loopVars, hashVars, poolVars>>
othersOfHasher == <<callerVars, sharedVars, workerVars, loopVars>>

-----------------------------------------------------------------------------
(* Data *)

\* Index of the block being filled: as many blocks were queued before it.
srcIdx   == Len(starts) - 1
Start    == starts[Len(starts)]
Accepted == Start + srcOff

\* A block on its way through the pipeline.  "err" is an outBlkT whose err
\* is set and whose blk is nil, "drop" one dropped before compression.
Block == [idx : Nat, lo : Nat, hi : Nat, st : {"ok", "err", "drop"}]
NoBlk == [idx |-> 0, lo |-> 0, hi |-> 0, st |-> "ok"]

\* A reference on the hasher's channel: to hash the block, or to free it.
HashRef == [free : BOOLEAN, idx : Nat, lo : Nat, hi : Nat]
NoRef   == [free |-> TRUE, idx |-> 0, lo |-> 0, hi |-> 0]

\* What reaches the io.Writer: header, blocks, end mark (hi is the length of
\* the stream its content hash covers), "bad" for a Write that failed.
Item == [k : {"hdr", "blk", "end", "bad"}, idx : Nat, lo : Nat, hi : Int]

Mark(kind, h) == [k |-> kind, idx |-> 0, lo |-> 0, hi |-> h]

HashCap == Cardinality(Workers)

Src(i)  == <<"src", i>>
Dst(i)  == <<"dst", i>>
Dict(i) == <<"dict", i>>

-----------------------------------------------------------------------------
(* Shared helpers: blk.BorrowBlk, blk.ReturnBlk, setError, kickBlock *)

Borrow(bs) ==
  /\ live' = live \cup bs
  /\ cntBorrowed' = cntBorrowed + Cardinality(bs)

Return(bs) ==
  /\ live' = live \ bs
  /\ cntBorrowed' = cntBorrowed - Cardinality(bs)

\* CompareAndSwap(nil, err): the first error wins.
SetErrorLast(e) == state' = e  \* mutant
SetError(e) == state' = IF state = "none" THEN e ELSE state

\* Room for a token in semChan.
RoomOffByOne == sem <= NPending  \* mutant
Room == sem < NPending

\* A receive from semChan never blocks once the channel is closed.
Release ==
  /\ sem > 0 \/ "sem" \in chClosed
  /\ sem' = IF sem > 0 THEN sem - 1 ELSE sem

DstOf(b) == IF b.st = "ok" THEN {Dst(b.idx)} ELSE {}

Kick(b) == Release /\ Return(DstOf(b))

-----------------------------------------------------------------------------
(* NewAsyncWriter: the tasks submitted first depend on opts.ContentSz *)

Init ==
  /\ cpc = "idle" /\ retTo = "write" /\ call = "new" /\ ret = "none"
  /\ left = 0 /\ srcOff = 0 /\ starts = <<0>>
  /\ report = FALSE /\ srcNil = FALSE
  /\ state = "none" /\ sem = 0 /\ chClosed = {}
  /\ wpc \in [Workers -> {"off", "queued"}]
  /\ \E w \in Workers : wpc[w] = "queued"
  /\ wblk = [w \in Workers |-> NoBlk]
  /\ lpc = "hdr" /\ cur = NoBlk /\ nextIdx = 0 /\ flushIdx = -1
  /\ pending = {} /\ out = <<>>
  /\ hpc = (IF HashOn THEN "take" ELSE "exit")
  /\ hch = <<>> /\ href = NoRef /\ hnext = 0 /\ hsum = 0
  /\ live = {Src(0)} /\ cntBorrowed = 1

-----------------------------------------------------------------------------
(* The caller.  A call ends by returning to "idle" with ret set. *)

\* return w.reportError()
ReportReturnAlways == cpc' = "idle" /\ ret' = state /\ report' = TRUE  \* mutant
ReportReturn ==
  /\ cpc' = "idle" /\ ret' = state
  /\ report' = (report \/ state # "none")

Enter(op) == cpc = "idle" /\ call' = op

\* Entry of _flushBlk, which goes back to r when it is done.
EnterFlush(r) == cpc' = (IF HashOn THEN "hash" ELSE "sem") /\ retTo' = r

\* flushBlk: only if srcBlk caches something.
FlushBlkNever(r) == cpc' = r /\ UNCHANGED retTo  \* mutant
FlushBlk(r) == IF srcOff = 0 THEN cpc' = r /\ UNCHANGED retTo ELSE EnterFlush(r)

Write ==
  /\ Enter("write")
  /\ \E n \in 0 .. (MaxBytes - Accepted) : left' = n
  /\ cpc' = "write"
  /\ UNCHANGED <<retTo, ret, srcOff, starts, report, srcNil, othersOfCaller>>

\* Top of the loop of Write: go on, or return.
WriteTop ==
  /\ cpc = "write"
  /\ \/ left > 0 /\ state = "none" /\ cpc' = "copy" /\ UNCHANGED <<ret, report, left>>
     \/ (left = 0 \/ state # "none") /\ left' = 0 /\ ReportReturn
  /\ UNCHANGED <<retTo, call, srcOff, starts, srcNil, othersOfCaller>>

Copy ==
  /\ cpc = "copy"
  /\ LET room == BlkSz - srcOff
         n    == IF left < room THEN left ELSE room
     IN  /\ srcOff' = srcOff + n
         /\ left' = left - n
         /\ IF n = room THEN EnterFlush("write") ELSE cpc' = "write" /\ UNCHANGED retTo
  /\ UNCHANGED <<call, ret, starts, report, srcNil, othersOfCaller>>

ReadFrom ==
  /\ Enter("readfrom")
  /\ cpc' = "read"
  /\ UNCHANGED <<retTo, ret, left, srcOff, starts, report, srcNil, othersOfCaller>>

\* Top of the loop of ReadFrom.
ReadTop ==
  /\ cpc = "read"
  /\ \/ state = "none" /\ cpc' = "fill" /\ UNCHANGED <<ret, report>>
     \/ state # "none" /\ ReportReturn
  /\ UNCHANGED <<retTo, call, left, srcOff, starts, srcNil, othersOfCaller>>

\* io.ReadFull into the rest of srcBlk: full, short, at the end, or failed.
Fill ==
  /\ cpc = "fill"
  /\ \E n \in 0 .. (BlkSz - srcOff) :
       /\ Accepted + n <= MaxBytes
       /\ srcOff' = srcOff + n
       /\ \/ /\ n = BlkSz - srcOff
             /\ EnterFlush("read")
             /\ UNCHANGED <<ret, report, state>>
          \/ /\ 0 < n /\ n < BlkSz - srcOff
             /\ cpc' = "read"
             /\ UNCHANGED <<retTo, ret, report, state>>
          \/ /\ n = 0
             /\ ReportReturn
             /\ UNCHANGED <<retTo, state>>
          \/ /\ n < BlkSz - srcOff /\ "read" \in Faults
             /\ SetError("read")
             /\ cpc' = "read"
             /\ UNCHANGED <<retTo, ret, report>>
  /\ UNCHANGED <<call, left, starts, srcNil, sem, chClosed, workerVars, loopVars, hashVars, poolVars>>

Flush ==
  /\ Enter("flush")
  /\ \/ state # "none" /\ ReportReturn /\ UNCHANGED retTo
     \/ /\ state = "none"
        /\ FlushBlk("sync")
        /\ UNCHANGED <<ret, report>>
  /\ UNCHANGED <<left, srcOff, starts, srcNil, othersOfCaller>>

\* Flush with no block ever queued returns nil without asking writeLoop.
FlushNothing ==
  /\ cpc = "sync" /\ srcIdx = 0
  /\ cpc' = "idle" /\ ret' = "none"
  /\ UNCHANGED <<retTo, call, left, srcOff, starts, report, srcNil, othersOfCaller>>

FlushReturns ==
  /\ cpc = "synced"
  /\ ReportReturn
  /\ UNCHANGED <<retTo, call, left, srcOff, starts, srcNil, othersOfCaller>>

Close ==
  /\ Enter("close")
  /\ \/ srcNil /\ ReportReturn /\ UNCHANGED retTo
     \/ /\ ~srcNil
        /\ FlushBlk("close")
        /\ UNCHANGED <<ret, report>>
  /\ UNCHANGED <<left, srcOff, starts, srcNil, othersOfCaller>>

CloseChans ==
  /\ cpc = "close"
  /\ cpc' = "join"
  /\ chClosed' = chClosed \cup {"sem", "in"}
  /\ UNCHANGED <<callFields, state, sem, workerVars, loopVars, hashVars, poolVars>>

\* w.wg.Wait() has returned.
TasksDone == \A w \in Workers : wpc[w] \in {"off", "exit"}

\* close(w.outChan), once no task can send on it
JoinTasks ==
  /\ cpc = "join" /\ TasksDone
  /\ cpc' = "joinloop"
  /\ chClosed' = chClosed \cup {"out"}
  /\ UNCHANGED <<callFields, state, sem, workerVars, loopVars, hashVars, poolVars>>

\* w.dict, the dictionary kept for a next block that never came
LastDictKept == {}  \* mutant
LastDict == IF Linked /\ srcIdx > 0 THEN {Dict(srcIdx - 1)} ELSE {}

\* An error already reported is not returned again; no error leaves ErrClosed.
CloseReturns ==
  /\ cpc = "joinloop" /\ "syn" \in chClosed
  /\ Return({Src(srcIdx)} \cup LastDict)
  /\ srcNil' = TRUE /\ srcOff' = 0
  /\ cpc' = "idle"
  /\ ret' = IF report THEN "none" ELSE state
  /\ report' = TRUE
  /\ state' = IF ~report /\ state = "none" THEN "closed" ELSE state
  /\ UNCHANGED <<retTo, call, left, starts, sem, chClosed, workerVars, loopVars, hashVars>>

-----------------------------------------------------------------------------
(* _flushBlk: queue to the hasher, take a token, hand the block to a task *)

QueueHash ==
  /\ cpc = "hash" /\ Len(hch) < HashCap
  /\ hch' = Append(hch, [free |-> FALSE, idx |-> srcIdx, lo |-> Start, hi |-> Accepted])
  /\ cpc' = "sem"
  /\ UNCHANGED <<callFields, sharedVars, workerVars, loopVars, hpc, href, hnext, hsum, poolVars>>

\* The token, then _genDict: the dictionary for the next block.
Acquire ==
  /\ cpc = "sem" /\ Room
  /\ sem' = sem + 1
  /\ cpc' = "send"
  /\ Borrow(IF Linked THEN {Dict(srcIdx)} ELSE {})
  /\ UNCHANGED <<callFields, state, chClosed, workerVars, loopVars, hashVars>>

\* w.inChan <- inBlkT{...}, received by the task w
SendBlk(w) ==
  /\ cpc = "send" /\ wpc[w] = "recv"
  /\ wblk' = [wblk EXCEPT ![w] = [idx |-> srcIdx, lo |-> Start, hi |-> Accepted, st |-> "ok"]]
  /\ wpc' = [wpc EXCEPT ![w] = "work"]
  /\ cpc' = "next"
  /\ UNCHANGED <<callFields, sharedVars, loopVars, hashVars, poolVars>>

\* Submit one more task if there is one, and borrow the next srcBlk.
NextBlk ==
  /\ cpc = "next"
  /\ IF \E w \in Workers : wpc[w] = "off"
     THEN \E w \in Workers : wpc[w] = "off" /\ wpc' = [wpc EXCEPT ![w] = "queued"]
     ELSE UNCHANGED wpc
  /\ Borrow({Src(srcIdx + 1)})
  /\ starts' = Append(starts, Accepted)
  /\ srcOff' = 0
  /\ cpc' = retTo
  /\ UNCHANGED <<retTo, call, ret, left, report, srcNil, sharedVars, wblk, loopVars, hashVars>>

-----------------------------------------------------------------------------
(* compressLoop *)

\* The pool starts a submitted task when it has a slot for it.
TaskStarts(w) ==
  /\ wpc[w] = "queued"
  /\ Cardinality({x \in Workers : wpc[x] \notin {"off", "queued", "exit"}}) < PoolSlots
  /\ wpc' = [wpc EXCEPT ![w] = "recv"]
  /\ UNCHANGED <<callerVars, sharedVars, wblk, loopVars, hashVars, poolVars>>

\* In an error state the block is dropped, otherwise it is compressed into a
\* block of the pool; a compressor may fail with an error that is not
\* ErrCompress, and then no block comes out.
Compress(w) ==
  /\ wpc[w] = "work"
  /\ \/ /\ state # "none"
        /\ wblk' = [wblk EXCEPT ![w].st = "drop"]
        /\ UNCHANGED poolVars
     \/ /\ state = "none"
        /\ Borrow({Dst(wblk[w].idx)})
        /\ UNCHANGED wblk
     \/ /\ state = "none" /\ "cmp" \in Faults
        /\ wblk' = [wblk EXCEPT ![w].st = "err"]
        /\ UNCHANGED poolVars
  /\ wpc' = [wpc EXCEPT ![w] = "free"]
  /\ UNCHANGED <<callerVars, sharedVars, loopVars, hashVars>>

\* Where the task goes when it is done with the source block.
Then(w) == IF wblk[w].st = "drop" THEN "token" ELSE "out"

\* AsyncHashIdx.Free: the hasher has consumed the block already.
HashedTooSoon(i) == i <= hnext  \* mutant
Hashed(i) == i < hnext

\* freeSrcBlk: return the dictionary, and the source block too if the hasher
\* is past it; if not, the hasher will return it.
FreeSrc(w) ==
  LET i    == wblk[w].idx
      dict == IF Linked /\ i > 0 THEN {Dict(i - 1)} ELSE {}
      mine == ~HashOn \/ Hashed(i)
  IN  /\ wpc[w] = "free"
      /\ Return(dict \cup IF mine THEN {Src(i)} ELSE {})
      /\ wpc' = [wpc EXCEPT ![w] = IF mine THEN Then(w) ELSE "hfree"]
      /\ UNCHANGED <<callerVars, sharedVars, wblk, loopVars, hashVars>>

QueueFree(w) ==
  /\ wpc[w] = "hfree" /\ Len(hch) < HashCap
  /\ hch' = Append(hch, [free |-> TRUE, idx |-> wblk[w].idx, lo |-> 0, hi |-> 0])
  /\ wpc' = [wpc EXCEPT ![w] = Then(w)]
  /\ UNCHANGED <<callerVars, sharedVars, wblk, loopVars, hpc, href, hnext, hsum, poolVars>>

DropToken(w) ==
  /\ wpc[w] = "token"
  /\ Release
  /\ wpc' = [wpc EXCEPT ![w] = "recv"]
  /\ UNCHANGED <<callerVars, state, chClosed, wblk, loopVars, hashVars, poolVars>>

TaskExits(w) ==
  /\ wpc[w] = "recv" /\ "in" \in chClosed
  /\ wpc' = [wpc EXCEPT ![w] = "exit"]
  /\ UNCHANGED <<callerVars, sharedVars, wblk, loopVars, hashVars, poolVars>>

-----------------------------------------------------------------------------
(* writeLoop *)

Emit(item) == out' = Append(out, item)

WriteHeader ==
  /\ lpc = "hdr"
  /\ lpc' = "select"
  /\ \/ Emit(Mark("hdr", 0)) /\ UNCHANGED state
     \/ "hdr" \in Faults /\ Emit(Mark("bad", 0)) /\ SetError("hdr")
  /\ UNCHANGED <<callerVars, sem, chClosed, workerVars, cur, nextIdx, flushIdx, pending, hashVars, poolVars>>

\* case flushIdx = <-w.synChan, sent by Flush
RecvFlush ==
  /\ lpc = "select" /\ cpc = "sync" /\ srcIdx # 0
  /\ flushIdx' = srcIdx
  /\ lpc' = "reply"
  /\ cpc' = "wait"
  /\ UNCHANGED <<callFields, sharedVars, workerVars, cur, nextIdx, pending, out, hashVars, poolVars>>

\* case outBlk, ok := <-w.outChan, sent by the task w
RecvOut(w) ==
  /\ lpc = "select" /\ wpc[w] = "out"
  /\ cur' = wblk[w]
  /\ lpc' = "poll"
  /\ wpc' = [wpc EXCEPT ![w] = "recv"]
  /\ UNCHANGED <<callerVars, sharedVars, wblk, nextIdx, flushIdx, pending, out, hashVars, poolVars>>

OutClosed ==
  /\ lpc = "select" /\ "out" \in chClosed
  /\ lpc' = "drain"
  /\ UNCHANGED <<callerVars, sharedVars, workerVars, loopFields, hashVars, poolVars>>

IsNextOrLater(b) == b.idx >= nextIdx  \* mutant
IsNext(b) == b.idx = nextIdx

Failed(b) == b.st = "err"

\* The switch on the block received.
Poll ==
  /\ lpc = "poll"
  /\ \/ /\ state # "none"
        /\ Kick(cur)
        /\ lpc' = "reply" /\ UNCHANGED pending
     \/ /\ state = "none" /\ ~IsNext(cur)
        /\ pending' = pending \cup {cur}
        /\ lpc' = "reply" /\ UNCHANGED <<sem, poolVars>>
     \/ /\ state = "none" /\ IsNext(cur) /\ Failed(cur)
        /\ Kick(cur)
        /\ lpc' = "fail" /\ UNCHANGED pending
     \/ /\ state = "none" /\ IsNext(cur) /\ ~Failed(cur)
        /\ lpc' = "write" /\ UNCHANGED <<sem, pending, poolVars>>
  /\ UNCHANGED <<callerVars, state, chClosed, workerVars, cur, nextIdx, flushIdx, out, hashVars>>

\* wr.Write(outBlk.blk.Data()): a block that failed to compress has no blk,
\* and the program panics.
WriteBlk ==
  /\ lpc = "write"
  /\ IF cur.st = "err"
     THEN lpc' = "panic" /\ UNCHANGED <<out, nextIdx, sem, poolVars>>
     ELSE /\ \/ /\ Emit([k |-> "blk", idx |-> cur.idx, lo |-> cur.lo, hi |-> cur.hi])
                /\ lpc' = "more"
             \/ "blk" \in Faults /\ Emit(Mark("bad", 0)) /\ lpc' = "fail"
          /\ Kick(cur)
          /\ nextIdx' = nextIdx + 1
  /\ UNCHANGED <<callerVars, state, chClosed, workerVars, cur, flushIdx, pending, hashVars>>

\* setError(werr), or setError(outBlk.err)
LoopFails ==
  /\ lpc = "fail"
  /\ SetError(IF cur.st = "err" THEN "cmp" ELSE "blk")
  /\ lpc' = "reply"
  /\ UNCHANGED <<callerVars, sem, chClosed, workerVars, loopFields, hashVars, poolVars>>

\* The next block may be pending already.
More ==
  /\ lpc = "more"
  /\ \/ \E b \in pending :
          /\ IsNext(b)
          /\ cur' = b /\ pending' = pending \ {b}
          /\ lpc' = "write"
     \/ /\ \A b \in pending : ~IsNext(b)
        /\ lpc' = "reply" /\ UNCHANGED <<cur, pending>>
  /\ UNCHANGED <<callerVars, sharedVars, workerVars, nextIdx, flushIdx, out, hashVars, poolVars>>

FlushReachedEarly == flushIdx # -1 /\ (flushIdx <= nextIdx + 1 \/ state # "none")  \* mutant
FlushReachedClean == flushIdx # -1 /\ flushIdx <= nextIdx  \* mutant
FlushReached == flushIdx # -1 /\ (flushIdx <= nextIdx \/ state # "none")

\* Answer a waiting Flush once its blocks are written or an error is set.
Reply ==
  /\ lpc = "reply" /\ FlushReached /\ cpc = "wait"
  /\ flushIdx' = -1
  /\ lpc' = "select"
  /\ cpc' = "synced"
  /\ UNCHANGED <<callFields, sharedVars, workerVars, cur, nextIdx, pending, out, hashVars, poolVars>>

NoReply ==
  /\ lpc = "reply" /\ ~FlushReached
  /\ lpc' = "select"
  /\ UNCHANGED <<callerVars, sharedVars, workerVars, loopFields, hashVars, poolVars>>

\* for _, outBlk := range pending: in any order
Drain ==
  /\ lpc = "drain"
  /\ \E b \in pending : pending' = pending \ {b} /\ Kick(b)
  /\ UNCHANGED <<callerVars, state, chClosed, workerVars, lpc, cur, nextIdx, flushIdx, out, hashVars>>

CleanNoCheck == TRUE  \* mutant
Clean == state = "none"

JoinHash == HashOn

\* With a hasher, Done() is called on every way out: it closes the hasher's
\* channel and waits for the goroutine.
Drained ==
  /\ lpc = "drain" /\ pending = {}
  /\ IF JoinHash
     THEN lpc' = "joinhash" /\ chClosed' = chClosed \cup {"hash"}
     ELSE IF Clean
          THEN lpc' = "trl" /\ UNCHANGED chClosed
          ELSE lpc' = "done" /\ chClosed' = chClosed \cup {"syn"}
  /\ UNCHANGED <<callerVars, state, sem, workerVars, loopFields, hashVars, poolVars>>

\* Nobody else can set an error here: the state read before Done() still holds.
HashJoined ==
  /\ lpc = "joinhash" /\ hpc = "exit"
  /\ IF Clean
     THEN lpc' = "trl" /\ UNCHANGED chClosed
     ELSE lpc' = "done" /\ chClosed' = chClosed \cup {"syn"}
  /\ UNCHANGED <<callerVars, state, sem, workerVars, loopFields, hashVars, poolVars>>

WriteTrailer ==
  /\ lpc = "trl"
  /\ \/ Emit(Mark("end", hsum)) /\ UNCHANGED state
     \/ "trl" \in Faults /\ Emit(Mark("bad", 0)) /\ SetError("trl")
  /\ lpc' = "done"
  /\ chClosed' = chClosed \cup {"syn"}
  /\ UNCHANGED <<callerVars, sem, workerVars, cur, nextIdx, flushIdx, pending, hashVars, poolVars>>

-----------------------------------------------------------------------------
(* AsyncHashIdx.Run *)

HashTakes ==
  /\ hpc = "take" /\ hch # <<>>
  /\ href' = Head(hch) /\ hch' = Tail(hch)
  /\ hpc' = "use"
  /\ UNCHANGED <<othersOfHasher, hnext, hsum, poolVars>>

HashUses ==
  /\ hpc = "use"
  /\ \/ /\ ~href.free
        /\ hsum' = IF hsum = href.lo THEN href.hi ELSE -1
        /\ hnext' = hnext + 1
        /\ UNCHANGED poolVars
     \/ /\ href.free
        /\ Return({Src(href.idx)})
        /\ UNCHANGED <<hsum, hnext>>
  /\ hpc' = "take"
  /\ UNCHANGED <<othersOfHasher, hch, href>>

HashExits ==
  /\ hpc = "take" /\ hch = <<>> /\ "hash" \in chClosed
  /\ hpc' = "exit"
  /\ UNCHANGED <<othersOfHasher, hch, href, hnext, hsum, poolVars>>

-----------------------------------------------------------------------------
(* The specification *)

\* An API call the user may make at any time, or never.
Call == Write \/ ReadFrom \/ Flush \/ Close

CallerStep ==
  \/ WriteTop \/ Copy \/ ReadTop \/ Fill \/ FlushNothing \/ FlushReturns
  \/ CloseChans \/ JoinTasks \/ CloseReturns \/ QueueHash \/ Acquire \/ NextBlk

Task(w) ==
  \/ TaskStarts(w) \/ Compress(w) \/ FreeSrc(w) \/ QueueFree(w) \/ DropToken(w) \/ TaskExits(w)

Loop ==
  \/ WriteHeader \/ OutClosed \/ Poll \/ WriteBlk \/ LoopFails \/ More \/ NoReply
  \/ Drain \/ Drained \/ HashJoined \/ WriteTrailer

Hasher == HashTakes \/ HashUses \/ HashExits

\* Steps of two goroutines at an unbuffered channel.
Meet == RecvFlush \/ Reply \/ \E w \in Workers : SendBlk(w) \/ RecvOut(w)

\* A panic ends the program.
Next ==
  /\ lpc # "panic"
  /\ Call \/ CallerStep \/ Meet \/ (\E w \in Workers : Task(w)) \/ Loop \/ Hasher

Spec == Init /\ [][Next]_vars

\* The Go scheduler runs every goroutine that can run, the pool starts a
\* submitted task when a slot is free, and a channel operation whose two ends
\* wait is taken: a sender blocked on a channel is queued first come first
\* served, so the select of writeLoop passes over none of them for ever.  No
\* fairness is assumed of Call.
Fairness ==
  /\ WF_vars(Next /\ CallerStep)
  /\ \A w \in Workers : WF_vars(Next /\ Task(w))
  /\ WF_vars(Next /\ Loop) /\ WF_vars(Next /\ Hasher) /\ WF_vars(Next /\ Meet)

FairSpec == Spec /\ Fairness
=============================================================================

----------------------------- MODULE AsyncReader -----------------------------
(***************************************************************************)
(* The parallel block reader of one frame: internal/pkg/async/reader.go    *)
(* with the content hasher AsyncHash of internal/pkg/async/hash.go, the    *)
(* frame reader's results (internal/pkg/blk/frame.go) and the block pool.  *)
(*                                                                         *)
(*   caller    the stream reader (rdr.go) in NextBlock and Close           *)
(*   dispatch  the goroutine that reads the io.Reader, _readLoop           *)
(*   Workers   decompressLoop tasks run by opts.WorkerPool                 *)
(*   hasher    AsyncHash.Run, when the content hash is checked             *)
(*                                                                         *)
(* A frame is a sequence of packets, each known by what it turns out to    *)
(* be: "raw" is an uncompressed block, "packed" a compressed one,          *)
(* "corrupt" one that does not decompress; "end" is the end mark with the  *)
(* right content hash, "badsum" one with a wrong one, "fail" a Read that   *)
(* failed.  inChan and outChan are unbuffered: a joint step of two ends.   *)
(***************************************************************************)
EXTENDS Integers, Sequences, FiniteSets

CONSTANTS
  Workers,    \* opts.NParallel decompression tasks
  NPending,   \* capacity of semChan, opts.CalcPending()
  PoolSlots,  \* tasks opts.WorkerPool can run at the same time
  MaxBlks     \* bound: blocks in the frame

ASSUME WorkersAssumption   == IsFiniteSet(Workers) /\ Workers # {}
ASSUME NPendingAssumption  == NPending \in Nat \ {0}
ASSUME PoolSlotsAssumption == PoolSlots \in Nat \ {0}
ASSUME MaxBlksAssumption   == MaxBlks \in Nat

VARIABLES
  \* the caller
  cpc,
  held,       \* the block NextBlock returned last: [idx, st], or NoPacket
  nextIdx, pending,
  cur,        \* the packet just received
  err,        \* "none", or the error NextBlock returned
  \* shared
  sem,        \* tokens in semChan
  chClosed,   \* the channels closed so far
  \* dispatch
  dpc,
  packets,    \* what the io.Reader has delivered
  \* decompressLoop tasks
  wpc, wblk,
  \* AsyncHash
  hasher,     \* there is one: the content hash is present and checked
  hpc, hch, href,
  hsum,       \* blocks hashed in frame order, -1 if out of order
  \* blk pool
  live, cntBorrowed

callerVars == <<cpc, held, nextIdx, pending, cur, err>>
dispVars   == <<dpc, packets>>
workerVars == <<wpc, wblk>>
hashVars   == <<hasher, hpc, hch, href, hsum>>
poolVars   == <<live, cntBorrowed>>
vars == <<callerVars, sem, chClosed, dispVars, workerVars, hashVars, poolVars>>

-----------------------------------------------------------------------------
(* Data *)

Kinds  == {"raw", "packed", "corrupt"}
EndsOf == {"end", "badsum", "fail"}

\* An inBlkT or an outBlkT: its place in the frame and what is in it.  "ok"
\* is a decompressed block; "corrupt" and EndsOf carry an error and no block.
Packet   == [idx : Nat, st : Kinds \cup EndsOf \cup {"ok"}]
NoPacket == [idx |-> 0, st |-> "end"]

HashCap == Cardinality(Workers)

\* Places of dispatch: curIdx is the place of the packet it holds.
Ended   == packets # <<>> /\ packets[Len(packets)] \in EndsOf
curIdx  == Len(packets) - 1
Current == [idx |-> curIdx, st |-> packets[Len(packets)]]

Src(i) == <<"src", i>>
Dst(i) == <<"dst", i>>

\* The pool block in a packet.
BlkOf(p) == CASE p.st \in {"raw", "packed"} -> {Src(p.idx)}
              [] p.st = "ok" -> {Dst(p.idx)}
              [] OTHER -> {}

-----------------------------------------------------------------------------
(* Shared helpers *)

Borrow(bs) ==
  /\ live' = live \cup bs
  /\ cntBorrowed' = cntBorrowed + Cardinality(bs)

Return(bs) ==
  /\ live' = live \ bs
  /\ cntBorrowed' = cntBorrowed - Cardinality(bs)

Closed(ch) == ch \in chClosed

Room == sem < NPending

\* <-r.semChan: never blocks once the channel is closed.
Release ==
  /\ sem > 0 \/ Closed("sem")
  /\ sem' = IF sem > 0 THEN sem - 1 ELSE sem

-----------------------------------------------------------------------------
(* NewAsyncReader *)

Init ==
  /\ cpc = "idle" /\ held = NoPacket /\ nextIdx = 0 /\ pending = {}
  /\ cur = NoPacket /\ err = "none"
  /\ sem = 0 /\ chClosed = {}
  /\ dpc = "sem" /\ packets = <<>>
  /\ wpc = [w \in Workers |-> "queued"] /\ wblk = [w \in Workers |-> NoPacket]
  /\ hasher \in BOOLEAN
  /\ hpc = (IF hasher THEN "take" ELSE "exit")
  /\ hch = <<>> /\ href = NoPacket /\ hsum = 0
  /\ live = {} /\ cntBorrowed = 0

-----------------------------------------------------------------------------
(* dispatch *)

\* select: a token, or finChan.
Acquire ==
  /\ dpc = "sem" /\ Room
  /\ sem' = sem + 1
  /\ dpc' = "read"
  /\ UNCHANGED <<callerVars, chClosed, packets, workerVars, hashVars, poolVars>>

FinSeenNever == FALSE  \* mutant
FinSeen == Closed("fin")

AcquireAborts ==
  /\ dpc = "sem" /\ FinSeen
  /\ dpc' = "close"
  /\ UNCHANGED <<callerVars, sem, chClosed, packets, workerVars, hashVars, poolVars>>

\* r.frameRdr.Read(): a block in a pool block, or an error without one.
ReadFrame ==
  /\ dpc = "read"
  /\ \/ \E k \in Kinds :
          /\ Len(packets) < MaxBlks
          /\ packets' = Append(packets, k)
          /\ dpc' = "send"
          /\ Borrow({Src(Len(packets))})
     \/ \E k \in EndsOf :
          /\ packets' = Append(packets, k)
          /\ dpc' = "close"
          /\ UNCHANGED poolVars
  /\ UNCHANGED <<callerVars, sem, chClosed, workerVars, hashVars>>

\* inChan <- inBlk, received by the task w
SendIn(w) ==
  /\ dpc = "send" /\ Current.st # "raw" /\ wpc[w] = "recv"
  /\ wblk' = [wblk EXCEPT ![w] = Current]
  /\ wpc' = [wpc EXCEPT ![w] = "work"]
  /\ dpc' = "sem"
  /\ UNCHANGED <<callerVars, sem, chClosed, packets, hashVars, poolVars>>

\* outChan <- outBlk of a block that needs no decompression
SendRaw ==
  /\ dpc = "send" /\ Current.st = "raw" /\ cpc = "recv"
  /\ cur' = Current
  /\ cpc' = "got" /\ dpc' = "sem"
  /\ UNCHANGED <<held, nextIdx, pending, err, sem, chClosed, packets, workerVars, hashVars, poolVars>>

SendAborts ==
  /\ dpc = "send" /\ FinSeen
  /\ Return({Src(curIdx)})
  /\ dpc' = "close"
  /\ UNCHANGED <<callerVars, sem, chClosed, packets, workerVars, hashVars>>

\* close(r.inChan), close(r.semChan)
CloseChans ==
  /\ dpc = "close"
  /\ chClosed' = chClosed \cup {"in", "sem"}
  /\ dpc' = IF Ended THEN "err" ELSE "exit"
  /\ UNCHANGED <<callerVars, sem, packets, workerVars, hashVars, poolVars>>

\* outChan <- the error packet, received by NextBlock or by the drain of Close
SendErr ==
  /\ dpc = "err"
  /\ \/ cpc = "recv" /\ cur' = Current /\ cpc' = "got"
     \/ cpc = "drainout" /\ UNCHANGED <<cur, cpc>>
  /\ dpc' = "exit"
  /\ UNCHANGED <<held, nextIdx, pending, err, sem, chClosed, packets, workerVars, hashVars, poolVars>>

ErrGivesUp == FinSeen

SendErrAborts ==
  /\ dpc = "err" /\ ErrGivesUp
  /\ dpc' = "exit"
  /\ UNCHANGED <<callerVars, sem, chClosed, packets, workerVars, hashVars, poolVars>>

-----------------------------------------------------------------------------
(* decompressLoop *)

TaskStarts(w) ==
  /\ wpc[w] = "queued"
  /\ Cardinality({x \in Workers : wpc[x] \notin {"queued", "exit"}}) < PoolSlots
  /\ wpc' = [wpc EXCEPT ![w] = "recv"]
  /\ UNCHANGED <<callerVars, sem, chClosed, dispVars, wblk, hashVars, poolVars>>

\* Decompress into a block of the pool, and return the source block.
Decompress(w) ==
  LET b == wblk[w]
  IN  /\ wpc[w] = "work"
      /\ IF b.st = "corrupt"
         THEN /\ Return({Src(b.idx)})
              /\ UNCHANGED wblk
         ELSE /\ live' = (live \cup {Dst(b.idx)}) \ {Src(b.idx)}
              /\ wblk' = [wblk EXCEPT ![w].st = "ok"]
              /\ UNCHANGED cntBorrowed
      /\ wpc' = [wpc EXCEPT ![w] = "send"]
      /\ UNCHANGED <<callerVars, sem, chClosed, dispVars, hashVars>>

\* outChan <- outBlkT, received by NextBlock
SendOut(w) ==
  /\ wpc[w] = "send" /\ cpc = "recv"
  /\ cur' = wblk[w]
  /\ cpc' = "got"
  /\ wpc' = [wpc EXCEPT ![w] = "recv"]
  /\ UNCHANGED <<held, nextIdx, pending, err, sem, chClosed, dispVars, wblk, hashVars, poolVars>>

\* What a task gives back when it is told to stop with a block in its hands.
AbortedKept(b) == {}  \* mutant
Aborted(b) == BlkOf(b)

SendOutAborts(w) ==
  /\ wpc[w] = "send" /\ FinSeen
  /\ Return(Aborted(wblk[w]))
  /\ wpc' = [wpc EXCEPT ![w] = "exit"]
  /\ UNCHANGED <<callerVars, sem, chClosed, dispVars, wblk, hashVars>>

TaskExits(w) ==
  /\ wpc[w] = "recv" /\ Closed("in")
  /\ wpc' = [wpc EXCEPT ![w] = "exit"]
  /\ UNCHANGED <<callerVars, sem, chClosed, dispVars, wblk, hashVars, poolVars>>

-----------------------------------------------------------------------------
(* NextBlock *)

\* The block of the call before goes back to the pool, by way of the hasher
\* if there is one.
PrevReturned == BlkOf(held)  \* mutant
PrevToPool == IF hasher THEN {} ELSE BlkOf(held)

\* The stream reader calls until it is given an error.
NextBlock ==
  /\ cpc = "idle" /\ err = "none" /\ ~Closed("fin")
  /\ Return(PrevToPool)
  /\ IF hasher /\ BlkOf(held) # {}
     THEN cpc' = "queue" /\ UNCHANGED held
     ELSE cpc' = "next" /\ held' = NoPacket
  /\ UNCHANGED <<nextIdx, pending, cur, err, sem, chClosed, dispVars, workerVars, hashVars>>

QueueHash ==
  /\ cpc = "queue" /\ Len(hch) < HashCap
  /\ hch' = Append(hch, held)
  /\ held' = NoPacket /\ cpc' = "next"
  /\ UNCHANGED <<nextIdx, pending, cur, err, sem, chClosed, dispVars, workerVars, hasher, hpc, href, hsum, poolVars>>

IsNextOrLater(p) == p.idx >= nextIdx  \* mutant
IsNext(p) == p.idx = nextIdx

Due == {p \in pending : IsNext(p)}

\* What NextBlock does with the packet it takes: the end mark with a hasher
\* goes through hasher.Done(), which closes the hasher's channel.
Take(p) ==
  /\ Release
  /\ nextIdx' = nextIdx + 1
  /\ IF hasher /\ p.st \in {"end", "badsum"}
     THEN /\ cpc' = "sum" /\ cur' = p
          /\ chClosed' = chClosed \cup {"hash"}
          /\ UNCHANGED <<held, err>>
     ELSE /\ cpc' = "idle"
          /\ IF BlkOf(p) # {} THEN held' = p /\ UNCHANGED err
             ELSE /\ err' = IF p.st = "badsum" THEN "end" ELSE p.st
                  /\ UNCHANGED held
          /\ UNCHANGED <<cur, chClosed>>

TakePending ==
  /\ cpc = "next"
  /\ \E p \in Due : Take(p) /\ pending' = pending \ {p}
  /\ UNCHANGED <<dispVars, workerVars, hashVars, poolVars>>

NonePending ==
  /\ cpc = "next" /\ Due = {}
  /\ cpc' = "recv"
  /\ UNCHANGED <<held, nextIdx, pending, cur, err, sem, chClosed, dispVars, workerVars, hashVars, poolVars>>

TakeReceived ==
  /\ cpc = "got" /\ IsNext(cur)
  /\ Take(cur)
  /\ UNCHANGED <<pending, dispVars, workerVars, hashVars, poolVars>>

KeepReceived ==
  /\ cpc = "got" /\ ~IsNext(cur)
  /\ pending' = pending \cup {cur}
  /\ cpc' = "recv"
  /\ UNCHANGED <<held, nextIdx, cur, err, sem, chClosed, dispVars, workerVars, hashVars, poolVars>>

\* hasher.Done() != frameRdr.ContentChecksum(), once the hasher has exited:
\* the sum in the frame is that of all its blocks, or a wrong one.
HasherDone == hpc = "exit"

CheckSum ==
  /\ cpc = "sum" /\ HasherDone
  /\ err' = IF cur.st = "end" /\ hsum = cur.idx THEN "end" ELSE "badsum"
  /\ cpc' = "idle"
  /\ UNCHANGED <<held, nextIdx, pending, cur, sem, chClosed, dispVars, workerVars, hashVars, poolVars>>

-----------------------------------------------------------------------------
(* Close *)

Close ==
  /\ cpc = "idle"
  /\ IF Closed("fin") THEN UNCHANGED <<cpc, chClosed>>
     ELSE cpc' = "join" /\ chClosed' = chClosed \cup {"fin"}
  /\ UNCHANGED <<held, nextIdx, pending, cur, err, sem, dispVars, workerVars, hashVars, poolVars>>

TasksDone == \A w \in Workers : wpc[w] = "exit"

JoinTasks ==
  /\ cpc = "join" /\ TasksDone
  /\ cpc' = "drainin"
  /\ UNCHANGED <<held, nextIdx, pending, cur, err, sem, chClosed, dispVars, workerVars, hashVars, poolVars>>

\* for inBlk := range r.inChan: dispatch may still choose to send
DrainIn ==
  /\ cpc = "drainin" /\ dpc = "send" /\ Current.st # "raw"
  /\ Return({Src(curIdx)})
  /\ dpc' = "sem"
  /\ UNCHANGED <<callerVars, sem, chClosed, packets, workerVars, hashVars>>

InClosed ==
  /\ cpc = "drainin" /\ Closed("in")
  /\ cpc' = "drainout"
  /\ UNCHANGED <<held, nextIdx, pending, cur, err, sem, chClosed, dispVars, workerVars, hashVars, poolVars>>

\* The drain of outChan ends when nobody is seen sending (an error packet it
\* takes is SendErr), then the pending blocks are returned and the hasher
\* closed, unless NextBlock did.
Drained ==
  /\ cpc = "drainout"
  /\ Return(UNION {BlkOf(p) : p \in pending})
  /\ pending' = {}
  /\ cpc' = (IF hasher /\ ~Closed("hash") THEN "joinhash" ELSE "idle")
  /\ chClosed' = IF hasher THEN chClosed \cup {"hash"} ELSE chClosed
  /\ UNCHANGED <<held, nextIdx, cur, err, sem, dispVars, workerVars, hashVars>>

JoinHash ==
  /\ cpc = "joinhash" /\ HasherDone
  /\ cpc' = "idle"
  /\ UNCHANGED <<held, nextIdx, pending, cur, err, sem, chClosed, dispVars, workerVars, hashVars, poolVars>>

\* Reader.Close returns the block it still has, after closing this reader.
ReturnHeld ==
  /\ cpc = "idle" /\ Closed("fin") /\ BlkOf(held) # {}
  /\ Return(BlkOf(held))
  /\ held' = NoPacket
  /\ UNCHANGED <<cpc, nextIdx, pending, cur, err, sem, chClosed, dispVars, workerVars, hashVars>>

-----------------------------------------------------------------------------
(* AsyncHash.Run *)

HashTakes ==
  /\ hpc = "take" /\ hch # <<>>
  /\ href' = Head(hch) /\ hch' = Tail(hch)
  /\ hpc' = "use"
  /\ UNCHANGED <<callerVars, sem, chClosed, dispVars, workerVars, hasher, hsum, poolVars>>

HashUses ==
  /\ hpc = "use"
  /\ hsum' = IF hsum = href.idx THEN hsum + 1 ELSE -1
  /\ Return(BlkOf(href))
  /\ hpc' = "take"
  /\ UNCHANGED <<callerVars, sem, chClosed, dispVars, workerVars, hasher, hch, href>>

HashExits ==
  /\ hpc = "take" /\ hch = <<>> /\ Closed("hash")
  /\ hpc' = "exit"
  /\ UNCHANGED <<callerVars, sem, chClosed, dispVars, workerVars, hasher, hch, href, hsum, poolVars>>

-----------------------------------------------------------------------------
(* The specification *)

Call == NextBlock \/ Close

CallerStep ==
  \/ QueueHash \/ TakePending \/ NonePending \/ TakeReceived \/ KeepReceived \/ CheckSum
  \/ JoinTasks \/ InClosed \/ Drained \/ JoinHash \/ ReturnHeld

Dispatch ==
  Acquire \/ AcquireAborts \/ ReadFrame \/ SendAborts \/ CloseChans \/ SendErrAborts

Task(w) == TaskStarts(w) \/ Decompress(w) \/ SendOutAborts(w) \/ TaskExits(w)

Hasher == HashTakes \/ HashUses \/ HashExits

Meet == SendRaw \/ SendErr \/ DrainIn \/ \E w \in Workers : SendIn(w) \/ SendOut(w)

Next == Call \/ CallerStep \/ Dispatch \/ (\E w \in Workers : Task(w)) \/ Hasher \/ Meet

Spec == Init /\ [][Next]_vars

\* Every goroutine that can run runs, a Read of the io.Reader returns, the
\* pool starts a queued task when it has a slot, and two ends that wait at a
\* channel meet.  No fairness is assumed of Call.
Fairness ==
  /\ WF_vars(CallerStep) /\ WF_vars(Dispatch) /\ WF_vars(Hasher) /\ WF_vars(Meet)
  /\ \A w \in Workers : WF_vars(Task(w))

FairSpec == Spec /\ Fairness
=============================================================================

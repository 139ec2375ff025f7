--------------------------- MODULE AsyncWriterProps ---------------------------
(***************************************************************************)
(* What must hold of the parallel writer                                   *)
(***************************************************************************)
EXTENDS AsyncWriter

\* The bytes in the last block the io.Writer has received, and those before.
BlkAt   == {i \in DOMAIN out : out[i].k = "blk"}
Written == IF BlkAt = {} THEN 0 ELSE out[CHOOSE i \in BlkAt : \A j \in BlkAt : j <= i].hi
Broken  == \E i \in DOMAIN out : out[i].k = "bad"
Complete == \E i \in DOMAIN out : out[i].k = "end"

\* Tasks that hold a block, and with it a token.
Busy == {w \in Workers : wpc[w] \in {"work", "free", "hfree", "token", "out"}}

-----------------------------------------------------------------------------

CallerTypeOK ==
  /\ cpc \in {"idle", "write", "copy", "read", "fill", "sync", "wait", "synced",
              "close", "join", "joinloop", "hash", "sem", "send", "next"}
  /\ retTo \in {"write", "read", "sync", "close"}
  /\ call \in {"new", "write", "readfrom", "flush", "close"}
  /\ ret \in FaultKinds \cup {"none", "closed"}
  /\ left \in Nat /\ srcOff \in 0 .. BlkSz
  /\ starts \in Seq(Nat) /\ starts # <<>>
  /\ report \in BOOLEAN /\ srcNil \in BOOLEAN

SharedTypeOK ==
  /\ state \in FaultKinds \cup {"none", "closed"}
  /\ sem \in 0 .. NPending
  /\ chClosed \subseteq {"sem", "in", "out", "syn", "hash"}

TaskTypeOK ==
  /\ wpc \in [Workers -> {"off", "queued", "recv", "work", "free", "hfree",
                          "token", "out", "exit"}]
  /\ wblk \in [Workers -> Block]

LoopTypeOK ==
  /\ lpc \in {"hdr", "select", "poll", "write", "fail", "more", "reply", "drain",
              "joinhash", "trl", "done", "panic"}
  /\ cur \in Block /\ nextIdx \in Nat /\ flushIdx \in Nat \cup {-1}
  /\ pending \subseteq Block
  /\ out \in Seq(Item)

HashTypeOK ==
  /\ hpc \in {"take", "use", "exit"}
  /\ hch \in Seq(HashRef) /\ href \in HashRef
  /\ hnext \in Nat /\ hsum \in Nat \cup {-1}

PoolBlocks == {"src", "dst", "dict"} \X Nat
PoolTypeOK == live \subseteq PoolBlocks /\ cntBorrowed \in Int

\* Every variable has its type: the places of the goroutines, the blocks and
\* references in flight, the items in the io.Writer and the pool's books; no
\* more than NPending tokens are ever out.
TypeOK ==
  CallerTypeOK /\ SharedTypeOK /\ TaskTypeOK /\ LoopTypeOK /\ HashTypeOK /\ PoolTypeOK

\* The offset at which block i ends.
EndOf(i) == IF i + 2 <= Len(starts) THEN starts[i + 2] ELSE Accepted

\* The io.Writer receives the header, then the blocks with the bytes the
\* caller handed over, in stream order whatever order the tasks finish in,
\* and nothing after the end mark or after a Write that failed.
OutputInOrder ==
  \A i \in DOMAIN out :
    /\ out[i].k = "hdr" => i = 1
    /\ out[i].k = "blk" => /\ i > 1 /\ out[1].k = "hdr"
                           /\ out[i].idx = i - 2 /\ i - 1 <= Len(starts)
                           /\ out[i].lo = starts[i - 1] /\ out[i].hi = EndOf(i - 2)
    /\ out[i].k \in {"end", "bad"} => i = Len(out)

\* The blocks handed to tasks so far, and the bytes a block must carry.
Sent       == IF cpc = "next" THEN srcIdx + 1 ELSE srcIdx
BytesOf(b) == b.idx < Sent /\ b.lo = starts[b.idx + 1] /\ b.hi = EndOf(b.idx)

\* writeLoop has written the header and all blocks below nextIdx, and no Write
\* has failed: it is inside its write loop, or no error is set.
Healthy == \/ lpc \in {"write", "more", "trl"}
           \/ state = "none" /\ lpc \notin {"hdr", "fail", "done"}

\* Every block in flight carries the bytes its index stands for.
TaskBytes == \A w \in Busy : BytesOf(wblk[w])
LoopBytes ==
  /\ \A b \in pending : BytesOf(b)
  /\ lpc \in {"poll", "write"} => BytesOf(cur)
  /\ \A i \in DOMAIN out : out[i].k = "blk" => out[i].idx < Sent

\* The header and the blocks below nextIdx are out, and the next is nextIdx.
LoopPlace ==
  /\ lpc = "hdr" => out = <<>> /\ nextIdx = 0
  /\ lpc = "write" => cur.idx = nextIdx
  /\ Healthy => /\ Len(out) = nextIdx + 1 /\ out[1].k = "hdr"
                /\ \A i \in 2 .. Len(out) : out[i].k = "blk"

\* Why OutputInOrder holds: blocks carry their bytes through the tasks and
\* the pending map, and writeLoop writes a block only when it is the next one.
OrderInv == TaskBytes /\ LoopBytes /\ LoopPlace

\* An end mark is written only behind every byte accepted, without an error
\* in any goroutine, and its content hash is the hash of all those bytes in
\* order (writeTrailer after hasher.Done()).
TrailerMeansComplete ==
  Complete => /\ state \in {"none", "closed"}
              /\ Written = Accepted
              /\ HashOn => out[Len(out)].hi = Accepted

\* Flush returned nil: every byte accepted before it is in the io.Writer.
FlushDurable ==
  cpc = "idle" /\ call = "flush" /\ ret = "none" =>
    Accepted = 0 \/ (Written = Accepted /\ ~Broken)

\* A closed writer left a complete frame, or an error the caller was told of:
\* data is never lost in silence.
NoSilentLoss ==
  srcNil => \/ Complete /\ state = "closed"
            \/ report /\ state \notin {"none", "closed"}

\* The first error set is the one every later call returns.
FirstErrorStays == [][state # "none" => state' = state]_vars

\* Nobody sends on a closed channel, which would panic: the tasks have exited
\* before writeLoop closes the hasher's, the caller is past _flushBlk when
\* Close closes the others, and a Flush waits for no closed synChan.
NoSendOnClosed ==
  /\ "in" \in chClosed => cpc \notin {"hash", "sem", "send", "next"}
  /\ "out" \in chClosed => \A w \in Workers : wpc[w] \in {"off", "exit"}
  /\ "hash" \in chClosed => /\ cpc # "hash"
                            /\ \A w \in Workers : wpc[w] # "hfree"
  /\ "syn" \in chClosed => cpc \notin {"sync", "wait"} /\ lpc # "reply"

\* A block of the pool is not used after it was returned: by the hasher, by a
\* task (source and dictionary), by writeLoop, or by the caller; nor is a
\* channel sent to after it was closed.
NoUseAfterReturn ==
  /\ NoSendOnClosed
  /\ \A i \in DOMAIN hch : Src(hch[i].idx) \in live
  /\ hpc = "use" => Src(href.idx) \in live
  /\ \A w \in Workers :
       /\ wpc[w] \in {"work", "free"} => /\ Src(wblk[w].idx) \in live
                                         /\ Linked /\ wblk[w].idx > 0 => Dict(wblk[w].idx - 1) \in live
       /\ wpc[w] = "hfree" => Src(wblk[w].idx) \in live
       /\ wpc[w] = "out" => DstOf(wblk[w]) \subseteq live
  /\ \A b \in pending : DstOf(b) \subseteq live
  /\ lpc \in {"poll", "write"} => DstOf(cur) \subseteq live
  /\ cpc # "next" /\ ~srcNil => Src(srcIdx) \in live

\* semChan holds one token per block between _flushBlk and kickBlock, so that
\* no kick ever waits and at most NPending blocks are in flight.
TokensExact ==
  sem = Cardinality(Busy) + Cardinality(pending)
        + (IF lpc \in {"poll", "write"} THEN 1 ELSE 0)
        + (IF cpc = "send" THEN 1 ELSE 0)

\* No goroutine is left, and no block in any channel.
NobodyLeft ==
  /\ \A w \in Workers : wpc[w] \in {"off", "exit"}
  /\ lpc = "done" /\ hpc = "exit" /\ hch = <<>> /\ pending = {}

\* Each block borrowed is returned once, and each token released once: the
\* count of the pool is the number of blocks out, and a closed writer has
\* returned all of them and left no goroutine behind.
PoolBalanced ==
  /\ cntBorrowed = Cardinality(live)
  /\ TokensExact
  /\ srcNil => live = {} /\ NobodyLeft

\* The comment at writer.go:323, "Error on incoming block puts parser in error
\* state": a block that failed to compress is never written.
NoPanic == lpc # "panic"

\* Every API call returns, in an error state too: no goroutine waits for ever
\* on a channel, a token or a slot of the pool.
CallsReturn == (cpc # "idle") ~> (cpc = "idle")

-----------------------------------------------------------------------------
(* Why they hold: one conjunct per channel, map and queue of the pipeline.  *)

\* Which channels are closed says how far Close, writeLoop and the hasher are.
ChannelPhase ==
  /\ "in" \in chClosed <=> cpc \in {"join", "joinloop"} \/ srcNil
  /\ "out" \in chClosed <=> cpc = "joinloop" \/ srcNil
  /\ "out" \in chClosed => TasksDone
  /\ lpc \in {"drain", "joinhash", "trl", "done"} => "out" \in chClosed
  /\ "hash" \in chClosed <=> HashOn /\ lpc \in {"joinhash", "trl", "done"}
  /\ "syn" \in chClosed <=> lpc = "done"
  /\ lpc \in {"trl", "done"} => hpc = "exit"
  /\ hpc = "exit" => hch = <<>> /\ (HashOn => "hash" \in chClosed)
  /\ ~HashOn => hpc = "exit" /\ cpc # "hash" /\ \A w \in Workers : wpc[w] # "hfree"

\* What the caller knows where it waits, and after Close.
CallPhase ==
  /\ starts[1] = 0
  /\ flushIdx = IF cpc = "wait" THEN srcIdx ELSE -1
  /\ cpc \in {"wait", "synced"} => srcIdx # 0
  /\ cpc \in {"sync", "wait", "synced", "close", "join", "joinloop"} => srcOff = 0
  /\ srcNil => cpc \in {"idle", "write", "read"} /\ state # "none" /\ srcOff = 0 /\ lpc = "done"
  /\ report /\ ~srcNil => state # "none"
  /\ state = "closed" => srcNil

\* Blocks begin in stream order.
StartsRise == \A i, j \in DOMAIN starts : i <= j => starts[i] <= starts[j]

\* Where the caller is in a call, or goes back to from _flushBlk.
CallOf ==
  LET p == IF cpc \in {"hash", "sem", "send", "next"} THEN retTo ELSE cpc
  IN  /\ p \in {"write", "copy"} => call = "write"
      /\ p \in {"read", "fill"} => call = "readfrom"
      /\ p \in {"sync", "wait", "synced"} => call = "flush"
      /\ p \in {"close", "join", "joinloop"} => call = "close"

\* writeLoop holds a block of which it has the token.
InLoop == lpc \in {"poll", "write"}

\* A block is in one place only: with a task, in the pending map, or in cur.
OnePlace ==
  /\ \A w, x \in Busy : w # x => wblk[w].idx # wblk[x].idx
  /\ \A b, c \in pending : b # c => b.idx # c.idx
  /\ \A w \in Busy, b \in pending : wblk[w].idx # b.idx
  /\ InLoop => (\A w \in Busy : wblk[w].idx # cur.idx) /\ (\A b \in pending : b.idx # cur.idx)

\* Blocks in flight are not written yet.
NotWritten ==
  /\ nextIdx <= Sent
  /\ \A w \in Busy : nextIdx <= wblk[w].idx
  /\ \A b \in pending : nextIdx <= b.idx
  /\ InLoop => nextIdx <= cur.idx

Carried(i) ==
  \/ \E w \in Busy : wblk[w].idx = i
  \/ \E b \in pending : b.idx = i
  \/ InLoop /\ cur.idx = i

\* Without an error no block is missing, and writeLoop never leaves the next
\* one in the pending map.
NoneMissing ==
  /\ state = "none" /\ lpc # "fail" => \A i \in nextIdx .. Sent - 1 : Carried(i)
  /\ state = "none" /\ lpc \notin {"more", "fail"} => \A b \in pending : ~IsNext(b)
  /\ \A w \in Busy : wblk[w].st = "drop" \/ wpc[w] = "token" => state # "none"
  /\ lpc \in {"hdr", "joinhash", "trl", "done"} => pending = {}
  /\ IsFiniteSet(pending)

CarrierInv == OnePlace /\ NotWritten /\ NoneMissing /\ TokensExact

\* Every block queued is in the io.Writer.
AllOut == nextIdx = srcIdx /\ srcOff = 0 /\ \A i \in 2 .. nextIdx + 1 : out[i].k = "blk"

FlushedTo ==
  /\ cpc = "synced" /\ state = "none" => AllOut /\ lpc = "select"
  /\ cpc = "idle" /\ call = "flush" /\ ret = "none" =>
       IF srcIdx = 0 THEN srcOff = 0
       ELSE AllOut /\ Len(out) = nextIdx + 1 /\ lpc = "select" /\ ~srcNil

ClosedWith ==
  /\ Complete => /\ lpc = "done" /\ state \in {"none", "closed"}
                 /\ AllOut /\ Len(out) = nextIdx + 2
                 /\ HashOn => out[Len(out)].hi = Accepted
  /\ lpc = "trl" => state = "none"
  /\ lpc = "done" /\ state \in {"none", "closed"} => Complete

\* The hasher's channel has the blocks from the one it waits for to the last
\* queued, in order.
QueuedTo  == srcIdx + (IF cpc \in {"sem", "send", "next"} THEN 1 ELSE 0)
TakenTo   == hnext + (IF hpc = "use" /\ ~href.free THEN 1 ELSE 0)
RefBytes(r) == r.lo = starts[r.idx + 1] /\ r.hi = EndOf(r.idx)

HashOrder ==
  IF ~HashOn
  THEN hnext = 0 /\ hsum = 0
  ELSE /\ hsum = EndOf(hnext - 1) /\ TakenTo <= QueuedTo
       /\ hpc = "use" /\ ~href.free => href.idx = hnext /\ RefBytes(href)
       /\ \A j \in DOMAIN hch : ~hch[j].free => /\ TakenTo <= hch[j].idx /\ hch[j].idx < QueuedTo
                                                /\ RefBytes(hch[j])
       /\ \A j, k \in DOMAIN hch : j < k /\ ~hch[j].free /\ ~hch[k].free => hch[j].idx < hch[k].idx
       /\ \A i \in TakenTo .. QueuedTo - 1 : \E k \in DOMAIN hch : ~hch[k].free /\ hch[k].idx = i

\* A source block is with its task until the task frees it, or queues it to
\* be freed behind the reference that hashes it.
WithTask(i) == \E w \in Workers : wpc[w] \in {"work", "free", "hfree"} /\ wblk[w].idx = i
ToFree(i)   == \/ hpc = "use" /\ href.free /\ href.idx = i
               \/ \E k \in DOMAIN hch : hch[k].free /\ hch[k].idx = i

FreeOrder ==
  /\ hpc = "use" /\ href.free => /\ href.idx < hnext /\ href.idx < Sent
                                 /\ \A j \in DOMAIN hch : hch[j].free => hch[j].idx # href.idx
  /\ \A j \in DOMAIN hch : hch[j].free =>
       /\ hch[j].idx < Sent
       /\ hch[j].idx < TakenTo \/ \E k \in 1 .. j - 1 : ~hch[k].free /\ hch[k].idx = hch[j].idx
  /\ \A j, k \in DOMAIN hch : j # k /\ hch[j].free /\ hch[k].free => hch[j].idx # hch[k].idx
  /\ \A i \in Nat : ~(WithTask(i) /\ ToFree(i))
  /\ HashOn => \A i \in hnext .. Sent - 1 : WithTask(i) \/ ToFree(i)

\* A task compresses the block as it came.
Uncompressed == \A w \in Workers : wpc[w] = "work" => wblk[w].st = "ok"

\* The blocks borrowed and not returned, by who has them.
SrcHeld(i)  == (i = srcIdx /\ cpc # "next" /\ ~srcNil) \/ WithTask(i) \/ ToFree(i)

DstTask(i)  == \E w \in Workers : wpc[w] \in {"free", "hfree", "out"} /\ wblk[w].st = "ok" /\ wblk[w].idx = i
DstHeld(i)  ==
  \/ DstTask(i)
  \/ \E b \in pending : b.st = "ok" /\ b.idx = i
  \/ InLoop /\ cur.st = "ok" /\ cur.idx = i

DictTask(i) == \E w \in Workers : wpc[w] \in {"work", "free"} /\ wblk[w].idx = i + 1
DictHeld(i) ==
  Linked /\ (DictTask(i) \/ (~srcNil /\ (i = Sent - 1 \/ (cpc = "send" /\ i = srcIdx))))

Held ==
  \A i \in Nat : /\ Src(i) \in live <=> SrcHeld(i)
                 /\ Dst(i) \in live <=> DstHeld(i)
                 /\ Dict(i) \in live <=> DictHeld(i)

Counted == IsFiniteSet(live) /\ cntBorrowed = Cardinality(live)
=============================================================================

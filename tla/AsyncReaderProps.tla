--------------------------- MODULE AsyncReaderProps ---------------------------
(***************************************************************************)
(* What must hold of the parallel reader                                   *)
(***************************************************************************)
EXTENDS AsyncReader

\* Close has returned.
Done == Closed("fin") /\ cpc = "idle"

\* Tasks that hold a packet, and with it a token.
Busy == {w \in Workers : wpc[w] \in {"work", "send"}}

-----------------------------------------------------------------------------

CallerTypeOK ==
  /\ cpc \in {"idle", "queue", "next", "recv", "got", "sum", "join", "drainin",
              "drainout", "joinhash"}
  /\ held \in Packet /\ nextIdx \in Nat /\ pending \subseteq Packet /\ cur \in Packet
  /\ err \in EndsOf \cup {"none", "corrupt"}

DispatchTypeOK ==
  /\ sem \in 0 .. NPending
  /\ chClosed \subseteq {"fin", "in", "sem", "hash"}
  /\ dpc \in {"sem", "read", "send", "close", "err", "exit"}
  /\ packets \in Seq(Kinds \cup EndsOf)

TaskTypeOK ==
  /\ wpc \in [Workers -> {"queued", "recv", "work", "send", "exit"}]
  /\ wblk \in [Workers -> Packet]

HashTypeOK ==
  /\ hasher \in BOOLEAN
  /\ hpc \in {"take", "use", "exit"}
  /\ hch \in Seq(Packet) /\ href \in Packet
  /\ hsum \in Nat \cup {-1}

PoolTypeOK == live \subseteq {"src", "dst"} \X Nat /\ cntBorrowed \in Int

\* Every variable has its type: the places of the goroutines, the packets in
\* flight and the pool's books; no more than NPending tokens are ever out.
TypeOK == CallerTypeOK /\ DispatchTypeOK /\ TaskTypeOK /\ HashTypeOK /\ PoolTypeOK

\* A packet carries what the io.Reader had at its place, "ok" what a task
\* made of a "packed" block there.
Genuine(p) ==
  /\ p.idx < Len(packets)
  /\ packets[p.idx + 1] = IF p.st = "ok" THEN "packed" ELSE p.st

\* The places in flight between dispatch and NextBlock: each is above those
\* delivered, none is there twice, none is lost until Close is called.
InFlight ==
  {p.idx : p \in pending} \cup {wblk[w].idx : w \in Busy}
  \cup (IF cpc = "got" THEN {cur.idx} ELSE {})
  \cup (IF dpc = "send" \/ (dpc \in {"close", "err"} /\ Ended) THEN {curIdx} ELSE {})

\* Exactly the packets read and not delivered are in flight, so every block
\* of the frame is delivered once and NextBlock never waits for a place that
\* nobody holds (the pending map, nextIdx and the two channels of reader.go),
\* and each carries what a task made of the data at its own place.
\* semChan holds one token per packet in flight and one for the packet that
\* dispatch reads: a delivery never waits for a token (reader.go:251, 263), and
\* dispatch reads at most NPending packets ahead of the caller.  Every variable
\* has its type.
NothingLost ==
  /\ TypeOK
  /\ ~Closed("fin") =>
       /\ InFlight = nextIdx .. (Len(packets) - 1)
       /\ sem = Cardinality(InFlight) + (IF dpc = "read" THEN 1 ELSE 0)
       /\ \A p \in pending : Genuine(p)

\* A block of the pool is not used after it was returned: by a task, by the
\* caller that holds or is about to be given it, or by the hasher.
NoUseAfterReturn ==
  /\ BlkOf(held) \subseteq live
  /\ \A w \in Busy : wblk[w].st # "corrupt" => BlkOf(wblk[w]) \subseteq live
  /\ \A w \in Workers : wpc[w] = "work" => Src(wblk[w].idx) \in live
  /\ \A p \in pending : BlkOf(p) \subseteq live
  /\ cpc = "got" => BlkOf(cur) \subseteq live
  /\ dpc = "send" => Src(curIdx) \in live
  /\ \A i \in DOMAIN hch : BlkOf(hch[i]) \subseteq live
  /\ hpc = "use" => BlkOf(href) \subseteq live

\* The tasks and the hasher are gone and dispatch will not touch the io.Reader
\* again: the caller may read the next frame from it.
NobodyLeft ==
  /\ \A w \in Workers : wpc[w] = "exit"
  /\ hpc = "exit" /\ hch = <<>> /\ pending = {}
  /\ dpc \in {"err", "exit"}

\* Each block borrowed is returned once, and when Close returns, whenever it
\* was called, the only one out is the one the caller still holds, and nobody
\* is left to use another.
PoolBalanced ==
  /\ cntBorrowed = Cardinality(live)
  /\ Done => live = BlkOf(held) /\ NobodyLeft

-----------------------------------------------------------------------------
(* Why they hold: where everybody is, and one place for every packet.       *)

\* What dispatch has read: it stops at the first packet that ends the frame.
FrameRead ==
  /\ \A i \in 1 .. Len(packets) - 1 : packets[i] \in Kinds
  /\ Ended => dpc \in {"close", "err", "exit"}
  /\ dpc = "send" => packets # <<>>
  /\ dpc = "err" => Ended
  /\ dpc \in {"close", "err", "exit"} => Ended \/ Closed("fin")

\* Which channels are closed says how far dispatch, the hasher and Close are.
ChannelPhase ==
  /\ Closed("in") <=> dpc \in {"err", "exit"}
  /\ cpc \in {"join", "drainin", "drainout", "joinhash"} => Closed("fin")
  /\ cpc \in {"queue", "next", "recv", "got", "sum"} => ~Closed("fin")
  /\ cpc \in {"drainin", "drainout", "joinhash"} \/ Done => TasksDone
  /\ cpc \in {"drainout", "joinhash"} \/ Done => Closed("in")
  /\ cpc = "joinhash" \/ Done => pending = {} /\ (hasher => Closed("hash"))
  /\ Closed("hash") => /\ hasher
                       /\ hpc = "exit" \/ cpc \in {"sum", "joinhash"}
                       /\ cpc \notin {"queue", "next", "recv", "got"}
                       /\ err # "none" \/ cpc = "sum" \/ Closed("fin")
  /\ hpc = "exit" => hch = <<>> /\ (hasher => Closed("hash"))
  /\ ~hasher => hpc = "exit"

\* What the caller holds where it is in a call, and after an error.
CallPhase ==
  /\ cpc \in {"queue", "next", "recv", "got", "sum"} => err = "none"
  /\ cpc \in {"next", "recv", "got", "sum"} => BlkOf(held) = {}
  /\ cpc = "queue" => hasher /\ BlkOf(held) # {}
  /\ cpc = "sum" => /\ hasher /\ Closed("hash")
                    /\ cur.idx = nextIdx - 1 /\ cur.st \in {"end", "badsum"} /\ Genuine(cur)
  /\ err # "none" => BlkOf(held) = {} /\ nextIdx > 0
  /\ BlkOf(held) # {} => held.idx = nextIdx - 1

\* The packets dispatch is done with are those below Passed.
AtDispatch == dpc = "send" \/ (dpc \in {"close", "err"} /\ Ended)
Passed     == IF AtDispatch THEN curIdx ELSE Len(packets)

\* A packet is in one place only: with a task, in the pending map, or in cur.
OnePlace ==
  /\ \A w, x \in Busy : w # x => wblk[w].idx # wblk[x].idx
  /\ \A p, q \in pending : p # q => p.idx # q.idx
  /\ \A w \in Busy, p \in pending : wblk[w].idx # p.idx
  /\ cpc = "got" => (\A w \in Busy : wblk[w].idx # cur.idx) /\ (\A p \in pending : p.idx # cur.idx)

\* Packets in flight were passed on by dispatch and not delivered, and carry
\* what was read at their place.
Awaited(p) == nextIdx <= p.idx /\ p.idx < Passed /\ Genuine(p)

InTransit ==
  /\ nextIdx <= Passed
  /\ \A w \in Busy : Awaited(wblk[w])
  /\ \A p \in pending : Awaited(p)
  /\ cpc = "got" => Awaited(cur)
  /\ \A w \in Workers : /\ wpc[w] = "work" => wblk[w].st \in {"packed", "corrupt"}
                        /\ wpc[w] = "send" => wblk[w].st \in {"ok", "corrupt"}

Carried(i) ==
  \/ \E w \in Busy : wblk[w].idx = i
  \/ \E p \in pending : p.idx = i
  \/ cpc = "got" /\ cur.idx = i

\* None is missing before Close, and each has its token.
NoneMissing ==
  /\ ~Closed("fin") => \A i \in nextIdx .. Passed - 1 : Carried(i)
  /\ sem = Len(packets) - nextIdx + (IF dpc = "read" THEN 1 ELSE 0)
  /\ IsFiniteSet(pending)

CarrierInv == OnePlace /\ InTransit /\ NoneMissing

\* The hasher has had the blocks of the frame in order, and its channel has
\* those up to the one the caller holds.
TakenTo  == hsum + (IF hpc = "use" THEN 1 ELSE 0)
QueuedTo == TakenTo + Len(hch)

HashOrder ==
  /\ hsum \in Nat
  /\ hpc = "use" => href.idx = hsum
  /\ \A j \in DOMAIN hch : hch[j].idx = TakenTo + j - 1
  /\ QueuedTo <= nextIdx
  /\ hasher /\ BlkOf(held) # {} => held.idx = QueuedTo
  /\ hasher /\ ~Closed("fin") =>
       QueuedTo = IF BlkOf(held) = {} /\ err = "none" /\ cpc # "sum" THEN nextIdx ELSE nextIdx - 1

\* The blocks borrowed and not returned, by who has them.
TaskBlk(w) == IF wpc[w] = "work" THEN {Src(wblk[w].idx)}
              ELSE IF wpc[w] = "send" THEN BlkOf(wblk[w]) ELSE {}

DispatchHas == IF dpc = "send" THEN {Src(curIdx)} ELSE {}
TasksHave   == UNION {TaskBlk(w) : w \in Workers}
PendingHas  == UNION {BlkOf(p) : p \in pending}
CurHas      == IF cpc = "got" THEN BlkOf(cur) ELSE {}
HasherHas   == (UNION {BlkOf(hch[j]) : j \in DOMAIN hch}) \cup (IF hpc = "use" THEN BlkOf(href) ELSE {})

Out == DispatchHas \cup TasksHave \cup PendingHas \cup CurHas \cup BlkOf(held) \cup HasherHas

Held == live = Out

Counted == IsFiniteSet(live) /\ cntBorrowed = Cardinality(live)
=============================================================================

---------------------------- MODULE BlkReaderProofs ----------------------------
(***************************************************************************)
(* What TLAPS proves of the block readers: first of AsyncReader, for every *)
(* number of tasks, tokens, slots of the pool and blocks, with and without *)
(* a content hash; then of the block reader that makeBlockReader makes, the*)
(* parallel or the serial one, for every instance.                         *)
(***************************************************************************)
EXTENDS BlkReader, FiniteSetTheorems, TLAPS

-----------------------------------------------------------------------------
(* Packets and the blocks they carry *)

LEMMA BlkIs ==
  ASSUME NEW p
  PROVE  /\ p.st \in {"raw", "packed"} => BlkOf(p) = {Src(p.idx)}
         /\ p.st = "ok" => BlkOf(p) = {Dst(p.idx)}
         /\ p.st \notin {"raw", "packed", "ok"} => BlkOf(p) = {}
BY DEF BlkOf

LEMMA NamesDiffer ==
  /\ \A i, j : Src(i) # Dst(j) /\ (Src(i) = Src(j) => i = j) /\ (Dst(i) = Dst(j) => i = j)
  /\ \A i : Src(i)[2] = i /\ Dst(i)[2] = i
BY DEF Src, Dst

\* The blocks of a packet are named after its place, and are at most one.
LEMMA BlkPlace ==
  ASSUME NEW p
  PROVE  /\ \A b \in BlkOf(p) : b[2] = p.idx
         /\ IsFiniteSet(BlkOf(p))
         /\ p \in Packet => BlkOf(p) \subseteq {"src", "dst"} \X Nat
<1>1. BlkOf(p) \in {{Src(p.idx)}, {Dst(p.idx)}, {}}
  BY BlkIs, Zenon
<1>2. \A b \in BlkOf(p) : b[2] = p.idx
  BY <1>1, NamesDiffer
<1>3. IsFiniteSet(BlkOf(p))
  <2>1. IsFiniteSet({Src(p.idx)}) /\ IsFiniteSet({Dst(p.idx)}) /\ IsFiniteSet({})
    BY FS_Singleton, FS_EmptySet, Zenon
  <2>. QED  BY <1>1, <2>1
<1>4. ASSUME p \in Packet  PROVE BlkOf(p) \subseteq {"src", "dst"} \X Nat
  <2>1. p.idx \in Nat
    BY <1>4 DEF Packet
  <2>2. {Src(p.idx), Dst(p.idx)} \subseteq {"src", "dst"} \X Nat
    BY <2>1 DEF Src, Dst
  <2>. QED  BY <1>1, <2>2
<1>. QED  BY <1>2, <1>3, <1>4

\* Of finitely many packets too.
LEMMA BlksFinite ==
  ASSUME NEW ps, IsFiniteSet(ps)
  PROVE  IsFiniteSet(UNION {BlkOf(p) : p \in ps})
<1>. DEFINE T == {BlkOf(p) : p \in ps}
            f == [p \in ps |-> BlkOf(p)]
<1>1. f \in Surjection(ps, T)
  BY DEF Surjection
<1>2. IsFiniteSet(T)
  BY <1>1, FS_Surjection
<1>3. \A t \in T : IsFiniteSet(t)
  BY BlkPlace
<1>. HIDE DEF T
<1>4. IsFiniteSet(UNION T)
  BY <1>2, <1>3, FS_UNION
<1>. QED  BY <1>4 DEF T

-----------------------------------------------------------------------------
(* Type correctness, with what dispatch has read *)

LEMMA CurrentTyped ==
  ASSUME DispatchTypeOK, packets # <<>>
  PROVE  /\ Current \in Packet /\ Current.idx = curIdx /\ Current.st \in Kinds \cup EndsOf
         /\ curIdx \in Nat /\ curIdx + 1 = Len(packets) /\ curIdx < Len(packets)
         /\ Current.st = packets[Len(packets)]
         /\ Genuine(Current)
BY DEF DispatchTypeOK, Current, Packet, curIdx, Genuine, Kinds, EndsOf

LEMMA Frames ==
  /\ CallerTypeOK /\ UNCHANGED callerVars => CallerTypeOK'
  /\ DispatchTypeOK /\ UNCHANGED <<sem, chClosed, dispVars>> => DispatchTypeOK'
  /\ TaskTypeOK /\ UNCHANGED workerVars => TaskTypeOK'
  /\ HashTypeOK /\ UNCHANGED hashVars => HashTypeOK'
  /\ PoolTypeOK /\ UNCHANGED poolVars => PoolTypeOK'
<1>1. CallerTypeOK /\ UNCHANGED callerVars => CallerTypeOK'
  BY DEF CallerTypeOK, callerVars
<1>2. DispatchTypeOK /\ UNCHANGED <<sem, chClosed, dispVars>> => DispatchTypeOK'
  BY DEF DispatchTypeOK, dispVars
<1>3. TaskTypeOK /\ UNCHANGED workerVars => TaskTypeOK'
  BY DEF TaskTypeOK, workerVars
<1>4. HashTypeOK /\ UNCHANGED hashVars => HashTypeOK'
  BY DEF HashTypeOK, hashVars
<1>5. PoolTypeOK /\ UNCHANGED poolVars => PoolTypeOK'
  BY DEF PoolTypeOK, poolVars
<1>. QED  BY <1>1, <1>2, <1>3, <1>4, <1>5

LEMMA PoolTyped ==
  ASSUME PoolTypeOK, NEW bs, IsFiniteSet(bs), bs \subseteq {"src", "dst"} \X Nat, Borrow(bs) \/ Return(bs)
  PROVE  PoolTypeOK'
<1>1. Cardinality(bs) \in Nat
  BY FS_CardinalityType
<1>2. (cntBorrowed \in Int)'
  BY <1>1 DEF PoolTypeOK, Borrow, Return
<1>3. (live \subseteq {"src", "dst"} \X Nat)'
  BY DEF PoolTypeOK, Borrow, Return
<1>. QED  BY <1>2, <1>3 DEF PoolTypeOK

\* The source block of a place in the frame.
LEMMA SrcTyped ==
  ASSUME NEW i \in Nat
  PROVE  /\ IsFiniteSet({Src(i)}) /\ {Src(i)} \subseteq {"src", "dst"} \X Nat
         /\ IsFiniteSet({Dst(i)}) /\ {Dst(i)} \subseteq {"src", "dst"} \X Nat
<1>1. IsFiniteSet({Src(i)}) /\ IsFiniteSet({Dst(i)})
  BY FS_Singleton, Zenon
<1>. QED  BY <1>1 DEF Src, Dst

LEMMA TypeDispatch ==
  ASSUME TypeOK, FrameRead, Dispatch
  PROVE  TypeOK' /\ FrameRead'
<1>. USE DEF TypeOK, FrameRead, Closed, FinSeen, ErrGivesUp
<1>0. Len(packets) \in Nat /\ packets \in Seq(Kinds \cup EndsOf) /\ sem \in 0 .. NPending /\ NPending \in Nat
  BY NPendingAssumption DEF DispatchTypeOK
<1>1. CASE Acquire
  BY <1>0, <1>1, Frames DEF Acquire, DispatchTypeOK, Room, Ended
<1>2. CASE AcquireAborts
  BY <1>2, Frames DEF AcquireAborts, DispatchTypeOK, Ended
<1>3. CASE ReadFrame
  <2>1. PICK k \in Kinds \cup EndsOf : packets' = Append(packets, k)
    BY <1>3 DEF ReadFrame
  <2>2. /\ packets' \in Seq(Kinds \cup EndsOf) /\ Len(packets') = Len(packets) + 1 /\ packets' # <<>>
        /\ packets'[Len(packets')] = k
        /\ \A i \in 1 .. Len(packets) : packets'[i] = packets[i]
    BY <1>0, <2>1
  <2>3. ~Ended
    BY <1>3 DEF ReadFrame
  <2>4. \A i \in 1 .. Len(packets) : packets[i] \in Kinds
    BY <1>0, <2>3 DEF Ended
  <2>5. \A i \in 1 .. Len(packets') - 1 : packets'[i] \in Kinds
    BY <1>0, <2>2, <2>4
  <2>6. DispatchTypeOK'
    BY <1>3, <2>2 DEF ReadFrame, DispatchTypeOK
  <2>7. Kinds \cap EndsOf = {}
    BY DEF Kinds, EndsOf
  <2>8. /\ dpc' \in {"send", "close"} /\ (dpc' = "close" <=> Ended') /\ (dpc' = "send" => packets' # <<>>)
    BY <1>3, <2>1, <2>2, <2>7 DEF ReadFrame, Ended
  <2>9. FrameRead'
    BY <2>5, <2>8 DEF Ended
  <2>10. PoolTypeOK'
    BY <1>0, <1>3, PoolTyped, SrcTyped, Frames DEF ReadFrame
  <2>. QED  BY <1>3, <2>6, <2>9, <2>10, Frames DEF ReadFrame
<1>4. CASE SendAborts
  <2>1. PoolTypeOK'
    BY <1>4, CurrentTyped, PoolTyped, SrcTyped DEF SendAborts
  <2>. QED  BY <1>4, <2>1, Frames DEF SendAborts, DispatchTypeOK, Ended
<1>5. CASE CloseChans
  BY <1>5, Frames DEF CloseChans, DispatchTypeOK, Ended
<1>6. CASE SendErrAborts
  BY <1>6, Frames DEF SendErrAborts, DispatchTypeOK, Ended
<1>. QED  BY <1>1, <1>2, <1>3, <1>4, <1>5, <1>6 DEF Dispatch

LEMMA TypeMeet ==
  ASSUME TypeOK, FrameRead, Meet
  PROVE  TypeOK' /\ FrameRead'
<1>. USE DEF TypeOK, FrameRead, Closed
<1>1. CASE SendRaw
  BY <1>1, Frames, CurrentTyped DEF SendRaw, CallerTypeOK, DispatchTypeOK, Ended
<1>2. CASE SendErr
  BY <1>2, Frames, CurrentTyped DEF SendErr, CallerTypeOK, DispatchTypeOK, Ended
<1>3. CASE DrainIn
  <2>1. PoolTypeOK'
    BY <1>3, CurrentTyped, PoolTyped, SrcTyped DEF DrainIn
  <2>. QED  BY <1>3, <2>1, Frames DEF DrainIn, DispatchTypeOK, Ended
<1>4. ASSUME NEW w \in Workers, SendIn(w)  PROVE TypeOK' /\ FrameRead'
  <2>1. TaskTypeOK'
    BY <1>4, CurrentTyped DEF SendIn, TaskTypeOK
  <2>. QED  BY <1>4, <2>1, Frames DEF SendIn, DispatchTypeOK, Ended
<1>5. ASSUME NEW w \in Workers, SendOut(w)  PROVE TypeOK' /\ FrameRead'
  <2>1. CallerTypeOK' /\ TaskTypeOK'
    BY <1>5 DEF SendOut, CallerTypeOK, TaskTypeOK
  <2>. QED  BY <1>5, <2>1, Frames DEF SendOut, dispVars, Ended
<1>. QED  BY <1>1, <1>2, <1>3, <1>4, <1>5 DEF Meet

LEMMA TypeTask ==
  ASSUME TypeOK, NEW w \in Workers, Task(w)
  PROVE  TypeOK'
<1>. USE DEF TypeOK
<1>0. wblk[w] \in Packet /\ wblk[w].idx \in Nat
  BY DEF TaskTypeOK, Packet
<1>1. CASE TaskStarts(w) \/ TaskExits(w)
  BY <1>1, Frames DEF TaskStarts, TaskExits, TaskTypeOK
<1>2. CASE Decompress(w)
  <2>1. TaskTypeOK'
    BY <1>2 DEF Decompress, TaskTypeOK, Packet
  <2>2. PoolTypeOK'
    <3>1. CASE wblk[w].st = "corrupt"
      BY <1>0, <1>2, <3>1, PoolTyped, SrcTyped DEF Decompress
    <3>2. CASE wblk[w].st # "corrupt"
      BY <1>0, <1>2, <3>2, SrcTyped DEF Decompress, PoolTypeOK
    <3>. QED  BY <3>1, <3>2
  <2>. QED  BY <1>2, <2>1, <2>2, Frames DEF Decompress
<1>3. CASE SendOutAborts(w)
  <2>1. PoolTypeOK'
    BY <1>0, <1>3, BlkPlace, PoolTyped DEF SendOutAborts, Aborted
  <2>. QED  BY <1>3, <2>1, Frames DEF SendOutAborts, TaskTypeOK
<1>. QED  BY <1>1, <1>2, <1>3 DEF Task

LEMMA TypeHasher ==
  ASSUME TypeOK, Hasher
  PROVE  TypeOK'
<1>. USE DEF TypeOK
<1>1. CASE HashTakes
  BY <1>1, Frames DEF HashTakes, HashTypeOK
<1>2. CASE HashUses
  <2>1. PoolTypeOK'
    BY <1>2, BlkPlace, PoolTyped DEF HashUses, HashTypeOK
  <2>2. HashTypeOK'
    BY <1>2 DEF HashUses, HashTypeOK
  <2>. QED  BY <1>2, <2>1, <2>2, Frames DEF HashUses
<1>3. CASE HashExits
  BY <1>3, Frames DEF HashExits, HashTypeOK
<1>. QED  BY <1>1, <1>2, <1>3 DEF Hasher

LEMMA TakeTyped ==
  ASSUME TypeOK, NEW p \in Packet, Take(p)
  PROVE  /\ cpc' \in {"idle", "sum"} /\ held' \in Packet /\ nextIdx' \in Nat /\ cur' \in Packet
         /\ err' \in EndsOf \cup {"none", "corrupt"}
         /\ sem' \in 0 .. NPending /\ chClosed' \subseteq {"fin", "in", "sem", "hash"}
<1>. USE DEF TypeOK, CallerTypeOK, DispatchTypeOK
<1>1. sem' \in 0 .. NPending /\ nextIdx' \in Nat
  BY NPendingAssumption DEF Take, Release
<1>2. BlkOf(p) = {} => p.st \in EndsOf \cup {"corrupt"}
  <2>1. p.st \in Kinds \cup EndsOf \cup {"ok"}
    BY DEF Packet
  <2>2. p.st \in {"raw", "packed", "ok"} => BlkOf(p) # {}
    BY BlkIs
  <2>. QED  BY <2>1, <2>2 DEF Kinds
<1>3. "end" \in EndsOf
  BY DEF EndsOf
<1>. QED  BY <1>1, <1>2, <1>3 DEF Take

LEMMA TypeCaller ==
  ASSUME TypeOK, IsFiniteSet(pending), Call \/ CallerStep
  PROVE  TypeOK' /\ IsFiniteSet(pending)'
<1>. USE DEF TypeOK
<1>0. "end" \in EndsOf /\ "badsum" \in EndsOf /\ NoPacket \in Packet
  BY DEF EndsOf, NoPacket, Packet
<1>1. CASE NextBlock
  <2>1. IsFiniteSet(PrevToPool) /\ PrevToPool \subseteq {"src", "dst"} \X Nat
    BY BlkPlace, FS_EmptySet DEF PrevToPool, CallerTypeOK
  <2>2. PoolTypeOK'
    BY <1>1, <2>1, PoolTyped DEF NextBlock
  <2>. QED  BY <1>0, <1>1, <2>2, Frames DEF NextBlock, CallerTypeOK
<1>2. CASE Close
  <2>1. CallerTypeOK' /\ DispatchTypeOK'
    BY <1>2 DEF Close, CallerTypeOK, DispatchTypeOK, dispVars
  <2>. QED  BY <1>2, <2>1, Frames DEF Close
<1>3. CASE QueueHash
  <2>1. CallerTypeOK' /\ HashTypeOK'
    BY <1>0, <1>3 DEF QueueHash, CallerTypeOK, HashTypeOK
  <2>. QED  BY <1>3, <2>1, Frames DEF QueueHash
<1>4. CASE TakePending
  <2>1. PICK p \in Due : Take(p) /\ pending' = pending \ {p}
    BY <1>4 DEF TakePending
  <2>2. p \in Packet
    BY DEF Due, CallerTypeOK
  <2>3. IsFiniteSet(pending')
    BY <2>1, FS_RemoveElement
  <2>4. CallerTypeOK' /\ DispatchTypeOK'
    BY <1>4, <2>1, <2>2, TakeTyped DEF TakePending, CallerTypeOK, DispatchTypeOK, dispVars
  <2>. QED  BY <1>4, <2>3, <2>4, Frames DEF TakePending
<1>5. CASE TakeReceived
  <2>1. CallerTypeOK' /\ DispatchTypeOK'
    BY <1>5, TakeTyped DEF TakeReceived, CallerTypeOK, DispatchTypeOK, dispVars
  <2>. QED  BY <1>5, <2>1, Frames DEF TakeReceived
<1>6. CASE KeepReceived
  <2>1. IsFiniteSet(pending')
    BY <1>6, FS_AddElement DEF KeepReceived
  <2>2. CallerTypeOK'
    BY <1>6 DEF KeepReceived, CallerTypeOK
  <2>. QED  BY <1>6, <2>1, <2>2, Frames DEF KeepReceived
<1>7. CASE NonePending \/ CheckSum \/ JoinTasks \/ InClosed \/ JoinHash
  <2>1. CallerTypeOK' /\ IsFiniteSet(pending')
    BY <1>0, <1>7 DEF NonePending, CheckSum, JoinTasks, InClosed, JoinHash, CallerTypeOK
  <2>. QED  BY <1>7, <2>1, Frames DEF NonePending, CheckSum, JoinTasks, InClosed, JoinHash
<1>8. CASE Drained
  <2>1. pending \subseteq Packet
    BY DEF CallerTypeOK
  <2>2. IsFiniteSet(UNION {BlkOf(p) : p \in pending})
    BY <2>1, BlksFinite
  <2>3. UNION {BlkOf(p) : p \in pending} \subseteq {"src", "dst"} \X Nat
    BY <2>1, BlkPlace, Zenon
  <2>4. PoolTypeOK'
    BY <1>8, <2>2, <2>3, PoolTyped DEF Drained
  <2>5. CallerTypeOK' /\ DispatchTypeOK' /\ IsFiniteSet(pending')
    BY <1>8, FS_EmptySet DEF Drained, CallerTypeOK, DispatchTypeOK, dispVars
  <2>. QED  BY <1>8, <2>4, <2>5, Frames DEF Drained
<1>9. CASE ReturnHeld
  <2>1. PoolTypeOK'
    BY <1>9, BlkPlace, PoolTyped DEF ReturnHeld, CallerTypeOK
  <2>. QED  BY <1>0, <1>9, <2>1, Frames DEF ReturnHeld, CallerTypeOK
<1>. QED  BY <1>1, <1>2, <1>3, <1>4, <1>5, <1>6, <1>7, <1>8, <1>9 DEF Call, CallerStep

-----------------------------------------------------------------------------
(* Which channels are closed, and what the caller knows                    *)

LEMMA NoBlock == BlkOf(NoPacket) = {} /\ NoPacket.idx = 0
BY BlkIs DEF NoPacket

LEMMA PhaseInit == Init => FrameRead /\ ChannelPhase /\ CallPhase
<1>. SUFFICES ASSUME Init  PROVE FrameRead /\ ChannelPhase /\ CallPhase
  OBVIOUS
<1>1. packets = <<>> /\ Len(packets) = 0
  BY DEF Init
<1>2. FrameRead
  BY <1>1 DEF Init, FrameRead, Ended
<1>3. ChannelPhase
  BY DEF Init, ChannelPhase, Done, Closed
<1>4. CallPhase
  BY NoBlock DEF Init, CallPhase
<1>. QED  BY <1>2, <1>3, <1>4

LEMMA PhaseDispatch ==
  ASSUME TypeOK, FrameRead, ChannelPhase, CallPhase, Dispatch
  PROVE  ChannelPhase' /\ CallPhase'
<1>. USE DEF ChannelPhase, CallPhase, Closed, Done, TasksDone, callerVars, workerVars, hashVars
<1>1. CASE Acquire \/ AcquireAborts \/ SendAborts \/ CloseChans \/ SendErrAborts
  BY <1>1 DEF Acquire, AcquireAborts, SendAborts, CloseChans, SendErrAborts, Genuine
<1>2. CASE ReadFrame
  <2>1. PICK k : packets' = Append(packets, k)
    BY <1>2 DEF ReadFrame
  <2>2. Len(packets') = Len(packets) + 1 /\ \A i \in 1 .. Len(packets) : packets'[i] = packets[i]
    BY <2>1 DEF TypeOK, DispatchTypeOK
  <2>3. cur.idx \in Nat /\ Len(packets) \in Nat
    BY DEF TypeOK, CallerTypeOK, Packet, DispatchTypeOK
  <2>4. Genuine(cur) => Genuine(cur)'
    BY <1>2, <2>2, <2>3 DEF ReadFrame, Genuine
  <2>. QED  BY <1>2, <2>4 DEF ReadFrame
<1>. QED  BY <1>1, <1>2 DEF Dispatch

LEMMA PhaseMeet ==
  ASSUME TypeOK, FrameRead, ChannelPhase, CallPhase, Meet
  PROVE  ChannelPhase' /\ CallPhase'
<1>. USE DEF ChannelPhase, CallPhase, Closed, Done, TasksDone, callerVars, dispVars, workerVars, hashVars
<1>1. CASE SendRaw \/ SendErr \/ DrainIn
  BY <1>1 DEF SendRaw, SendErr, DrainIn, Genuine
<1>2. ASSUME NEW w \in Workers, SendIn(w)  PROVE ChannelPhase' /\ CallPhase'
  BY <1>2 DEF SendIn, Genuine, TypeOK, TaskTypeOK
<1>3. ASSUME NEW w \in Workers, SendOut(w)  PROVE ChannelPhase' /\ CallPhase'
  BY <1>3 DEF SendOut, Genuine, TypeOK, TaskTypeOK
<1>. QED  BY <1>1, <1>2, <1>3 DEF Meet

LEMMA PhaseTask ==
  ASSUME TypeOK, ChannelPhase, CallPhase, NEW w \in Workers, Task(w)
  PROVE  ChannelPhase' /\ CallPhase'
BY DEF ChannelPhase, CallPhase, Closed, Done, TasksDone, callerVars, dispVars, hashVars, Genuine,
   Task, TaskStarts, Decompress, SendOutAborts, TaskExits, TypeOK, TaskTypeOK

LEMMA PhaseHasher ==
  ASSUME TypeOK, ChannelPhase, CallPhase, Hasher
  PROVE  ChannelPhase' /\ CallPhase'
BY DEF ChannelPhase, CallPhase, Closed, Done, TasksDone, callerVars, dispVars, workerVars, Genuine,
   Hasher, HashTakes, HashUses, HashExits, TypeOK, HashTypeOK

\* The caller takes a packet that was read at the place it waits for.
LEMMA PhaseTake ==
  ASSUME TypeOK, ChannelPhase, CallPhase, NEW p \in Packet, IsNext(p), Genuine(p), Take(p),
         cpc \in {"next", "got"}, UNCHANGED <<dispVars, workerVars, hashVars>>
  PROVE  ChannelPhase' /\ CallPhase'
<1>. USE DEF ChannelPhase, CallPhase, Closed, Done, TasksDone, dispVars, workerVars, hashVars, Take, IsNext
<1>0. nextIdx \in Nat /\ nextIdx' - 1 = nextIdx /\ nextIdx' > 0
  BY DEF TypeOK, CallerTypeOK
<1>1. CASE hasher /\ p.st \in {"end", "badsum"}
  BY <1>0, <1>1 DEF Genuine
<1>2. CASE ~(hasher /\ p.st \in {"end", "badsum"})
  BY <1>0, <1>2
<1>. QED  BY <1>1, <1>2

LEMMA PhaseCaller ==
  ASSUME TypeOK, ChannelPhase, CallPhase, InTransit, Call \/ CallerStep
  PROVE  ChannelPhase' /\ CallPhase'
<1>. USE DEF ChannelPhase, CallPhase, Closed, Done, TasksDone, dispVars, workerVars, hashVars, Genuine
<1>1. CASE NextBlock
  BY <1>1, NoBlock DEF NextBlock
<1>2. CASE Close
  BY <1>2 DEF Close
<1>3. CASE QueueHash
  BY <1>3, NoBlock DEF QueueHash
<1>4. CASE TakePending
  <2>1. PICK p \in Due : Take(p) /\ pending' = pending \ {p}
    BY <1>4 DEF TakePending
  <2>2. p \in Packet /\ IsNext(p) /\ Genuine(p)
    BY DEF Due, InTransit, Awaited, TypeOK, CallerTypeOK
  <2>. QED  BY <1>4, <2>1, <2>2, PhaseTake DEF TakePending
<1>5. CASE TakeReceived
  BY <1>5, PhaseTake DEF TakeReceived, InTransit, Awaited, TypeOK, CallerTypeOK
<1>6. CASE NonePending \/ KeepReceived
  BY <1>6 DEF NonePending, KeepReceived
<1>7. CASE CheckSum
  BY <1>7 DEF CheckSum, HasherDone, TypeOK, CallerTypeOK, Packet
<1>8. CASE JoinTasks \/ InClosed \/ JoinHash
  BY <1>8 DEF JoinTasks, InClosed, JoinHash, HasherDone
<1>9. CASE Drained
  BY <1>9 DEF Drained
<1>10. CASE ReturnHeld
  BY <1>10, NoBlock DEF ReturnHeld
<1>. QED  BY <1>1, <1>2, <1>3, <1>4, <1>5, <1>6, <1>7, <1>8, <1>9, <1>10 DEF Call, CallerStep

-----------------------------------------------------------------------------
(* Every packet is in one place, with its token                            *)

LEMMA PassedIs ==
  ASSUME TypeOK, FrameRead
  PROVE  /\ Passed \in Nat /\ Passed <= Len(packets) /\ Len(packets) \in Nat /\ sem \in Nat /\ nextIdx \in Nat
         /\ AtDispatch => packets # <<>> /\ Passed = curIdx /\ Passed + 1 = Len(packets)
         /\ ~AtDispatch => Passed = Len(packets)
         /\ \A w \in Workers : wblk[w] \in Packet /\ wblk[w].idx \in Nat
         /\ \A p \in pending : p \in Packet /\ p.idx \in Nat
         /\ cur \in Packet /\ cur.idx \in Nat
         /\ wpc \in [Workers -> {"queued", "recv", "work", "send", "exit"}]
         /\ wblk \in [Workers -> Packet]
<1>1. packets \in Seq(Kinds \cup EndsOf) /\ Len(packets) \in Nat
  BY DEF TypeOK, DispatchTypeOK
<1>2. AtDispatch => packets # <<>>
  BY DEF AtDispatch, FrameRead, Ended
<1>3. /\ AtDispatch => Passed = curIdx /\ Passed + 1 = Len(packets) /\ Passed \in Nat
      /\ ~AtDispatch => Passed = Len(packets)
  BY <1>1, <1>2 DEF Passed, curIdx
<1>4. sem \in Nat /\ nextIdx \in Nat
  BY NPendingAssumption DEF TypeOK, DispatchTypeOK, CallerTypeOK
<1>5. \A p \in Packet : p.idx \in Nat
  BY DEF Packet
<1>. QED  BY <1>1, <1>2, <1>3, <1>4, <1>5 DEF TypeOK, TaskTypeOK, CallerTypeOK

\* Steps that move no packet between the tasks and the caller, and let dispatch
\* drop one only after Close was called.
Quiet ==
  /\ UNCHANGED <<nextIdx, pending, packets>>
  /\ (cpc' = "got" <=> cpc = "got") /\ (cpc = "got" => cur' = cur)
  /\ Busy' = Busy /\ \A w \in Busy : wblk'[w] = wblk[w] /\ wpc'[w] = wpc[w]
  /\ Closed("fin") => Closed("fin")'
  /\ Passed' \in Nat /\ Passed <= Passed' /\ (Closed("fin")' \/ Passed' = Passed)
  /\ sem' - (IF dpc' = "read" THEN 1 ELSE 0) = sem - (IF dpc = "read" THEN 1 ELSE 0)
  /\ sem' \in Nat

LEMMA QuietStep ==
  ASSUME TypeOK, FrameRead, CarrierInv, Quiet
  PROVE  CarrierInv'
<1>. USE PassedIs
<1>1. OnePlace'
  BY SMTT(30) DEF Quiet, CarrierInv, OnePlace
<1>2. \A p : p.idx \in Nat /\ Awaited(p) =>
         nextIdx' <= p.idx /\ p.idx < Passed' /\ p.idx < Len(packets')
         /\ packets'[p.idx + 1] = IF p.st = "ok" THEN "packed" ELSE p.st
  BY DEF Quiet, Awaited, Genuine
<1>3. InTransit'
  <2>1. nextIdx' <= Passed'
    BY DEF Quiet, CarrierInv, InTransit
  <2>2. \A w \in Busy' : Awaited(wblk[w])'
    BY <1>2 DEF Quiet, CarrierInv, InTransit, Awaited, Genuine, Busy
  <2>3. \A p \in pending' : Awaited(p)'
    BY <1>2 DEF Quiet, CarrierInv, InTransit, Awaited, Genuine
  <2>4. (cpc = "got" => Awaited(cur))'
    BY <1>2 DEF Quiet, CarrierInv, InTransit, Awaited, Genuine
  <2>5. \A w \in Workers : wpc'[w] \in {"work", "send"} =>
           w \in Busy /\ wpc'[w] = wpc[w] /\ wblk'[w] = wblk[w]
    BY DEF Quiet, Busy
  <2>6. \A w \in Workers : /\ wpc'[w] = "work" => wblk'[w].st \in {"packed", "corrupt"}
                           /\ wpc'[w] = "send" => wblk'[w].st \in {"ok", "corrupt"}
    BY <2>5 DEF CarrierInv, InTransit
  <2>. QED  BY <2>1, <2>2, <2>3, <2>4, <2>6 DEF InTransit
<1>4. NoneMissing'
  <2>1. \A i : Carried(i) => Carried(i)'
    BY DEF Quiet, Carried
  <2>2. ~Closed("fin")' => \A i \in nextIdx' .. Passed' - 1 : Carried(i)'
    BY <2>1 DEF Quiet, CarrierInv, NoneMissing
  <2>3. (sem = Len(packets) - nextIdx + (IF dpc = "read" THEN 1 ELSE 0))'
    BY SMTT(30) DEF Quiet, CarrierInv, NoneMissing
  <2>4. IsFiniteSet(pending)'
    BY DEF Quiet, CarrierInv, NoneMissing
  <2>. QED  BY <2>2, <2>3, <2>4 DEF NoneMissing
<1>. QED  BY <1>1, <1>3, <1>4 DEF CarrierInv

LEMMA QuietDispatch ==
  ASSUME TypeOK, FrameRead, Dispatch \/ DrainIn \/ (SendErr /\ cpc = "drainout"), ~ReadFrame, ChannelPhase
  PROVE  Quiet
<1>. USE PassedIs DEF Quiet, callerVars, workerVars, Busy, Closed, FinSeen, ErrGivesUp
<1>0. dpc = "send" => ~Ended
  BY DEF FrameRead
<1>1. CASE Acquire
  BY <1>1 DEF Acquire, Passed, AtDispatch, Ended, curIdx
<1>2. CASE AcquireAborts
  <2>1. ~Ended /\ Ended' = Ended
    BY <1>2 DEF AcquireAborts, FrameRead, Ended
  <2>. QED  BY <1>2, <2>1 DEF AcquireAborts, Passed, AtDispatch, curIdx
<1>3. CASE SendAborts \/ DrainIn
  <2>1. ~Ended /\ Ended' = Ended
    BY <1>0, <1>3 DEF SendAborts, DrainIn, Ended
  <2>2. "fin" \in chClosed
    BY <1>3 DEF SendAborts, DrainIn, ChannelPhase
  <2>. QED  BY <1>3, <2>1, <2>2 DEF SendAborts, DrainIn, Passed, AtDispatch
<1>4. CASE CloseChans
  <2>1. Ended' = Ended
    BY <1>4 DEF CloseChans, Ended
  <2>. QED  BY <1>4, <2>1 DEF CloseChans, Passed, AtDispatch, curIdx
<1>5. CASE SendErrAborts \/ (SendErr /\ cpc = "drainout")
  <2>1. Ended' = Ended
    BY <1>5 DEF SendErrAborts, SendErr, Ended
  <2>2. "fin" \in chClosed
    BY <1>5 DEF SendErrAborts, SendErr, ChannelPhase
  <2>. QED  BY <1>5, <2>1, <2>2 DEF SendErrAborts, SendErr, Passed, AtDispatch
<1>. QED  BY <1>1, <1>2, <1>3, <1>4, <1>5 DEF Dispatch

LEMMA QuietRest ==
  ASSUME TypeOK, FrameRead,
         \/ Call \/ QueueHash \/ NonePending \/ CheckSum \/ JoinTasks \/ InClosed \/ JoinHash \/ ReturnHeld
         \/ Hasher \/ UNCHANGED vars
         \/ \E w \in Workers : TaskStarts(w) \/ TaskExits(w)
  PROVE  Quiet
<1>. USE PassedIs
<1>0. UNCHANGED <<dispVars, sem>> => Passed' = Passed /\ sem' = sem /\ dpc' = dpc
  BY DEF dispVars, Passed, AtDispatch, Ended, curIdx
<1>1. CASE Call
  BY <1>0, <1>1 DEF Quiet, Call, NextBlock, Close, dispVars, workerVars, Busy, Closed
<1>2. CASE QueueHash \/ NonePending \/ CheckSum \/ JoinTasks \/ InClosed \/ JoinHash \/ ReturnHeld
  BY <1>0, <1>2 DEF Quiet, QueueHash, NonePending, CheckSum, JoinTasks, InClosed, JoinHash, ReturnHeld,
     dispVars, workerVars, Busy, Closed
<1>3. CASE Hasher
  BY <1>0, <1>3 DEF Quiet, Hasher, HashTakes, HashUses, HashExits, callerVars, dispVars, workerVars, Busy, Closed
<1>4. CASE UNCHANGED vars
  BY <1>0, <1>4 DEF Quiet, vars, callerVars, dispVars, workerVars, Busy, Closed
<1>5. ASSUME NEW w \in Workers, TaskStarts(w) \/ TaskExits(w)  PROVE Quiet
  BY <1>0, <1>5 DEF Quiet, TaskStarts, TaskExits, callerVars, dispVars, Busy, Closed
<1>. QED  BY <1>1, <1>2, <1>3, <1>4, <1>5

\* ReadFrame puts the packet it read at the place of dispatch.
LEMMA CarrierRead ==
  ASSUME TypeOK, FrameRead, CarrierInv, ReadFrame
  PROVE  CarrierInv'
<1>. USE PassedIs
<1>1. PICK k \in Kinds \cup EndsOf : packets' = Append(packets, k)
  BY DEF ReadFrame
<1>2. /\ Len(packets') = Len(packets) + 1 /\ packets'[Len(packets')] = k /\ packets' # <<>>
      /\ \A i \in 1 .. Len(packets) : packets'[i] = packets[i]
  BY <1>1 DEF TypeOK, DispatchTypeOK
<1>3. Kinds \cap EndsOf = {}
  BY DEF Kinds, EndsOf
<1>4. ~AtDispatch /\ AtDispatch' /\ curIdx' = Len(packets)
  BY <1>1, <1>2, <1>3 DEF ReadFrame, AtDispatch, Ended, curIdx
<1>5. Passed' = Passed /\ Passed = Len(packets)
  BY <1>4 DEF Passed
<1>6. UNCHANGED <<callerVars, workerVars, sem, chClosed>> /\ Busy' = Busy
  BY DEF ReadFrame, workerVars, Busy
<1>7. \A p : p.idx \in Nat /\ Awaited(p) =>
         /\ nextIdx <= p.idx /\ p.idx < Passed /\ p.idx < Len(packets')
         /\ packets'[p.idx + 1] = IF p.st = "ok" THEN "packed" ELSE p.st
  BY <1>2, <1>5 DEF Awaited, Genuine
<1>8. InTransit'
  <2>1. \A w \in Busy : wblk[w].idx \in Nat /\ Awaited(wblk[w])
    BY DEF CarrierInv, InTransit, Busy
  <2>2. \A p \in pending : p.idx \in Nat /\ Awaited(p)
    BY DEF CarrierInv, InTransit
  <2>3. cpc = "got" => cur.idx \in Nat /\ Awaited(cur)
    BY DEF CarrierInv, InTransit
  <2>. QED  BY <1>5, <1>6, <1>7, <2>1, <2>2, <2>3 DEF CarrierInv, InTransit, Awaited, Genuine, callerVars, workerVars
<1>9. OnePlace'
  BY <1>6 DEF CarrierInv, OnePlace, callerVars, workerVars
<1>10. NoneMissing'
  <2>1. \A i : Carried(i)' <=> Carried(i)
    BY <1>6 DEF Carried, callerVars, workerVars
  <2>2. dpc = "read" /\ dpc' # "read"
    BY DEF ReadFrame
  <2>. QED  BY <1>2, <1>5, <1>6, <2>1, <2>2 DEF CarrierInv, NoneMissing, callerVars, Closed
<1>. QED  BY <1>8, <1>9, <1>10 DEF CarrierInv

\* A packet goes from dispatch to a task or to the caller.
LEMMA CarrierSend ==
  ASSUME TypeOK, FrameRead, CarrierInv,
         SendRaw \/ (SendErr /\ cpc = "recv") \/ \E w \in Workers : SendIn(w)
  PROVE  CarrierInv'
<1>. USE PassedIs
<1>0. /\ UNCHANGED <<nextIdx, pending, packets, sem, chClosed>>
      /\ dpc \in {"send", "err"} /\ dpc' \in {"sem", "exit"}
  BY DEF SendRaw, SendErr, SendIn, callerVars
<1>1. AtDispatch /\ ~AtDispatch' /\ packets # <<>>
  BY <1>0 DEF AtDispatch, FrameRead, Ended
<1>2. Passed = curIdx /\ Passed' = Passed + 1 /\ Passed' = Len(packets) /\ Passed \in Nat
  BY <1>0, <1>1 DEF Passed
<1>3. Current \in Packet /\ Current.idx = Passed /\ Genuine(Current) /\ Current.st \in Kinds \cup EndsOf
  BY <1>1, <1>2, CurrentTyped DEF TypeOK
<1>4. \A p : Genuine(p)' <=> Genuine(p)
  BY <1>0 DEF Genuine
<1>5. /\ \A w \in Busy : wblk[w].idx < Passed
      /\ \A p \in pending : p.idx < Passed
      /\ nextIdx <= Passed
  BY DEF CarrierInv, InTransit, Awaited
<1>6. \A p : nextIdx <= p.idx /\ p.idx < Passed' /\ Genuine(p) =>
          nextIdx' <= p.idx /\ p.idx < Passed' /\ p.idx < Len(packets')
          /\ packets'[p.idx + 1] = IF p.st = "ok" THEN "packed" ELSE p.st
  BY <1>0 DEF Genuine
<1>7. /\ \A w \in Busy : nextIdx <= wblk[w].idx /\ wblk[w].idx < Passed' /\ Genuine(wblk[w])
      /\ \A p \in pending : nextIdx <= p.idx /\ p.idx < Passed' /\ Genuine(p)
      /\ nextIdx <= Passed /\ Passed < Passed'
  <2>1. /\ \A w \in Busy : Awaited(wblk[w]) /\ wblk[w].idx \in Nat
        /\ \A p \in pending : Awaited(p) /\ p.idx \in Nat
    BY DEF CarrierInv, InTransit, Busy
  <2>. QED  BY <1>2, <1>5, <2>1 DEF Awaited
<1>8. (sem = Len(packets) - nextIdx + (IF dpc = "read" THEN 1 ELSE 0))' /\ IsFiniteSet(pending)'
  BY <1>0 DEF CarrierInv, NoneMissing
<1>9. \A i \in nextIdx .. Passed' - 1 : i = Passed \/ i \in nextIdx .. Passed - 1
  BY <1>2
<1>10. ASSUME SendRaw \/ (SendErr /\ cpc = "recv")  PROVE CarrierInv'
  <2>1. cpc = "recv" /\ cpc' = "got" /\ cur' = Current /\ UNCHANGED workerVars /\ Busy' = Busy
    BY <1>10 DEF SendRaw, SendErr, workerVars, Busy
  <2>2. cur'.idx = Passed
    BY <1>3, <2>1
  <2>3. OnePlace'
    BY <1>0, <1>5, <2>1, <2>2 DEF CarrierInv, OnePlace, workerVars
  <2>4. InTransit'
    <3>1. (nextIdx <= Passed)'
      BY <1>0, <1>2, <1>5
    <3>2. (\A w \in Busy : Awaited(wblk[w]))'
      BY <1>0, <1>6, <1>7, <2>1 DEF Awaited, Genuine, workerVars
    <3>3. (\A p \in pending : Awaited(p))'
      BY <1>0, <1>6, <1>7 DEF Awaited, Genuine
    <3>4. (cpc = "got" => Awaited(cur))'
      BY <1>0, <1>3, <1>6, <1>7, <2>1, <2>2 DEF Awaited, Genuine
    <3>. QED  BY <2>1, <3>1, <3>2, <3>3, <3>4 DEF CarrierInv, InTransit, workerVars
  <2>5. \A i : Carried(i) => Carried(i)'
    BY <1>0, <2>1 DEF Carried, workerVars
  <2>6. \A i : i = Passed => Carried(i)'
    BY <1>2, <2>1, <2>2 DEF Carried
  <2>7. ~Closed("fin")' => \A i \in nextIdx' .. Passed' - 1 : Carried(i)'
    BY <1>0, <1>9, <2>5, <2>6 DEF CarrierInv, NoneMissing, Closed
  <2>. QED  BY <1>8, <2>3, <2>4, <2>7 DEF CarrierInv, NoneMissing
<1>11. ASSUME NEW w \in Workers, SendIn(w)  PROVE CarrierInv'
  <2>0. UNCHANGED callerVars /\ wpc[w] = "recv" /\ dpc = "send" /\ Current.st # "raw"
    BY <1>11 DEF SendIn
  <2>1. /\ wblk'[w] = Current /\ wpc'[w] = "work"
        /\ \A x \in Workers : x # w => wblk'[x] = wblk[x] /\ wpc'[x] = wpc[x]
    BY <1>11 DEF SendIn
  <2>2. Busy' = Busy \cup {w} /\ w \notin Busy
    BY <2>0, <2>1 DEF Busy
  <2>3. wblk'[w].idx = Passed /\ wblk'[w].st \in {"packed", "corrupt"}
    <3>1. ~Ended /\ packets # <<>>
      BY <2>0 DEF FrameRead
    <3>2. Current.st \in Kinds
      BY <1>3, <2>0, <3>1, CurrentTyped DEF Ended, TypeOK
    <3>. QED  BY <1>3, <2>0, <2>1, <3>2 DEF Kinds
  <2>4. \A x \in Busy' : x = w \/ (x \in Busy /\ wblk'[x] = wblk[x] /\ wpc'[x] = wpc[x])
    BY <2>1, <2>2 DEF Busy
  <2>5. OnePlace'
    BY <1>0, <1>5, <2>0, <2>2, <2>3, <2>4 DEF CarrierInv, OnePlace, callerVars, InTransit, Awaited
  <2>6. InTransit'
    <3>1. (nextIdx <= Passed)'
      BY <1>0, <1>2, <1>5
    <3>2. (\A x \in Busy : Awaited(wblk[x]))'
      BY <1>0, <1>3, <1>6, <1>7, <2>1, <2>4 DEF Awaited, Genuine
    <3>3. (\A p \in pending : Awaited(p))'
      BY <1>0, <1>6, <1>7 DEF Awaited, Genuine
    <3>4. (cpc = "got" => Awaited(cur))'
      <4>1. cpc' = cpc /\ cur' = cur
        BY <2>0 DEF callerVars
      <4>2. cpc = "got" => nextIdx <= cur.idx /\ cur.idx < Passed' /\ Genuine(cur)
        BY <1>2 DEF CarrierInv, InTransit, Awaited
      <4>. QED  BY <1>0, <1>6, <4>1, <4>2 DEF Awaited, Genuine
    <3>5. \A x \in Workers : x = w \/ (wpc'[x] = wpc[x] /\ wblk'[x] = wblk[x])
      BY <2>1
    <3>6. \A x \in Workers : /\ wpc'[x] = "work" => wblk'[x].st \in {"packed", "corrupt"}
                             /\ wpc'[x] = "send" => wblk'[x].st \in {"ok", "corrupt"}
      BY <2>1, <2>3, <3>5 DEF CarrierInv, InTransit
    <3>. QED  BY <3>1, <3>2, <3>3, <3>4, <3>6 DEF InTransit
  <2>7. \A i : Carried(i) => Carried(i)'
    BY <1>0, <2>0, <2>2, <2>4 DEF Carried, callerVars
  <2>8. \A i : i = Passed => Carried(i)'
    BY <1>2, <2>2, <2>3 DEF Carried
  <2>9. ~Closed("fin")' => \A i \in nextIdx' .. Passed' - 1 : Carried(i)'
    BY <1>0, <1>9, <2>7, <2>8 DEF CarrierInv, NoneMissing, Closed
  <2>. QED  BY <1>8, <2>5, <2>6, <2>9 DEF CarrierInv, NoneMissing
<1>. QED  BY <1>10, <1>11

\* A task works on its packet, hands it to the caller, or is told to stop.
LEMMA CarrierTask ==
  ASSUME TypeOK, FrameRead, CarrierInv, NEW w \in Workers,
         Decompress(w) \/ SendOut(w) \/ SendOutAborts(w)
  PROVE  CarrierInv'
<1>. USE PassedIs
<1>0. /\ UNCHANGED <<nextIdx, pending, sem, chClosed, dispVars>> /\ w \in Busy
      /\ \A x \in Workers : x # w => wpc'[x] = wpc[x] /\ wblk'[x] = wblk[x]
  BY DEF Decompress, SendOut, SendOutAborts, callerVars, Busy
<1>1. Passed' = Passed /\ \A p : Genuine(p)' <=> Genuine(p)
  BY <1>0 DEF dispVars, Passed, AtDispatch, Ended, curIdx, Genuine
<1>2. \A p : Awaited(p)' <=> nextIdx <= p.idx /\ p.idx < Passed /\ Genuine(p)
  BY <1>0, <1>1 DEF Awaited, Genuine
<1>3. (sem = Len(packets) - nextIdx + (IF dpc = "read" THEN 1 ELSE 0))' /\ IsFiniteSet(pending)'
  BY <1>0 DEF CarrierInv, NoneMissing, dispVars
<1>4. nextIdx' <= Passed' /\ \A p \in pending' : Awaited(p)'
  BY <1>0, <1>1, <1>2 DEF CarrierInv, InTransit, Awaited
<1>5. CASE Decompress(w)
  <2>1. /\ UNCHANGED callerVars /\ wpc[w] = "work" /\ wpc'[w] = "send"
        /\ wblk'[w].idx = wblk[w].idx
        /\ IF wblk[w].st = "corrupt" THEN wblk'[w] = wblk[w] ELSE wblk'[w].st = "ok"
    BY <1>5 DEF Decompress, Packet
  <2>2. Busy' = Busy
    BY <1>0, <2>1 DEF Busy
  <2>3. \A x \in Busy : wblk'[x].idx = wblk[x].idx
    BY <1>0, <2>1 DEF Busy
  <2>4. OnePlace'
    BY <1>0, <2>1, <2>2, <2>3 DEF CarrierInv, OnePlace, callerVars
  <2>5. wblk[w].st \in {"packed", "corrupt"} /\ Awaited(wblk[w])
    BY <1>0, <2>1 DEF CarrierInv, InTransit
  <2>6. nextIdx <= wblk'[w].idx /\ wblk'[w].idx < Passed /\ Genuine(wblk'[w])
    BY <2>1, <2>5 DEF Awaited, Genuine
  <2>7. \A x \in Busy' : Awaited(wblk[x])'
    <3>1. ASSUME NEW x \in Busy  PROVE nextIdx <= wblk'[x].idx /\ wblk'[x].idx < Passed /\ Genuine(wblk'[x])
      BY <1>0, <2>6 DEF CarrierInv, InTransit, Awaited, Busy
    <3>. QED  BY <1>0, <1>1, <2>2, <3>1 DEF Awaited, Genuine
  <2>8. (cpc = "got" => Awaited(cur))'
    BY <1>2, <2>1 DEF CarrierInv, InTransit, Awaited, callerVars, Genuine
  <2>9. wblk'[w].st \in {"ok", "corrupt"}
    BY <2>1, <2>5
  <2>10. InTransit'
    BY <1>0, <1>4, <2>1, <2>7, <2>8, <2>9 DEF CarrierInv, InTransit
  <2>11. \A i : Carried(i)' <=> Carried(i)
    BY <1>0, <2>1, <2>2, <2>3 DEF Carried, callerVars
  <2>12. ~Closed("fin")' => \A i \in nextIdx' .. Passed' - 1 : Carried(i)'
    BY <1>0, <1>1, <2>11 DEF CarrierInv, NoneMissing, Closed
  <2>. QED  BY <1>3, <2>4, <2>10, <2>12 DEF CarrierInv, NoneMissing
<1>6. CASE SendOut(w)
  <2>1. cpc = "recv" /\ cpc' = "got" /\ cur' = wblk[w] /\ wpc'[w] = "recv" /\ wblk' = wblk
    BY <1>6 DEF SendOut
  <2>2. Busy' = Busy \ {w}
    BY <1>0, <2>1 DEF Busy
  <2>3. OnePlace'
    BY <1>0, <2>1, <2>2 DEF CarrierInv, OnePlace
  <2>4. InTransit'
    <3>1. \A x \in Busy : nextIdx <= wblk[x].idx /\ wblk[x].idx < Passed /\ Genuine(wblk[x])
      BY DEF CarrierInv, InTransit, Awaited
    <3>2. \A x \in Busy' : Awaited(wblk[x])'
      BY <1>0, <1>1, <2>1, <2>2, <3>1 DEF Awaited, Genuine
    <3>3. Awaited(cur)'
      BY <1>0, <1>1, <2>1, <3>1 DEF Awaited, Genuine
    <3>. QED  BY <1>0, <1>4, <2>1, <3>2, <3>3 DEF CarrierInv, InTransit
  <2>5. \A i : Carried(i) => Carried(i)'
    BY <1>0, <2>1, <2>2 DEF Carried
  <2>6. ~Closed("fin")' => \A i \in nextIdx' .. Passed' - 1 : Carried(i)'
    BY <1>0, <1>1, <2>5 DEF CarrierInv, NoneMissing, Closed
  <2>. QED  BY <1>3, <2>3, <2>4, <2>6 DEF CarrierInv, NoneMissing
<1>7. CASE SendOutAborts(w)
  <2>1. UNCHANGED callerVars /\ wpc'[w] = "exit" /\ wblk' = wblk /\ Closed("fin")
    BY <1>7 DEF SendOutAborts, FinSeen
  <2>2. Busy' = Busy \ {w}
    BY <1>0, <2>1 DEF Busy
  <2>3. OnePlace'
    BY <1>0, <2>1, <2>2 DEF CarrierInv, OnePlace, callerVars
  <2>4. InTransit'
    <3>1. \A x \in Busy : nextIdx <= wblk[x].idx /\ wblk[x].idx < Passed /\ Genuine(wblk[x])
      BY DEF CarrierInv, InTransit, Awaited
    <3>2. \A x \in Busy' : Awaited(wblk[x])'
      BY <1>0, <1>1, <2>1, <2>2, <3>1 DEF Awaited, Genuine
    <3>3. (cpc = "got" => Awaited(cur))'
      BY <1>2, <2>1 DEF CarrierInv, InTransit, Awaited, callerVars, Genuine
    <3>. QED  BY <1>0, <1>4, <2>1, <3>2, <3>3 DEF CarrierInv, InTransit
  <2>5. Closed("fin")'
    BY <1>0, <2>1 DEF Closed
  <2>. QED  BY <1>3, <2>3, <2>4, <2>5 DEF CarrierInv, NoneMissing
<1>. QED  BY <1>5, <1>6, <1>7

\* The caller takes the next packet, wherever it was, or keeps one for later.
LEMMA CarrierTake ==
  ASSUME TypeOK, FrameRead, CarrierInv, TakePending \/ TakeReceived
  PROVE  CarrierInv'
<1>. USE PassedIs
<1>0. UNCHANGED <<dispVars, workerVars>> /\ Busy' = Busy
  BY DEF TakePending, TakeReceived, workerVars, Busy
<1>1. Passed' = Passed /\ Len(packets') = Len(packets) /\ dpc' = dpc /\ \A p : Genuine(p)' <=> Genuine(p)
  BY <1>0 DEF dispVars, Passed, AtDispatch, Ended, curIdx, Genuine
<1>2. PICK p : /\ Take(p) /\ p.idx = nextIdx /\ cpc' # "got" /\ Awaited(p)
               /\ pending' = pending \ {p} /\ \A w \in Busy : wblk[w].idx # p.idx
               /\ \A q \in pending' : q.idx # p.idx
               /\ (cpc = "got" => cur = p)
  <2>1. CASE TakePending
    <3>1. PICK p \in Due : Take(p) /\ pending' = pending \ {p}
      BY <2>1 DEF TakePending
    <3>2. cpc = "next" /\ p.idx = nextIdx /\ p \in pending
      BY <2>1, <3>1 DEF TakePending, Due, IsNext
    <3>3. cpc' # "got"
      BY <3>1 DEF Take
    <3>. QED  BY <3>1, <3>2, <3>3 DEF CarrierInv, OnePlace, InTransit
  <2>2. CASE TakeReceived
    <3>1. cpc = "got" /\ cur.idx = nextIdx /\ Take(cur) /\ pending' = pending
      BY <2>2 DEF TakeReceived, IsNext
    <3>2. cpc' # "got"
      BY <3>1 DEF Take
    <3>3. cur \notin pending /\ \A q \in pending : q.idx # cur.idx
      BY <3>1 DEF CarrierInv, OnePlace
    <3>. QED  BY <3>1, <3>2, <3>3 DEF CarrierInv, OnePlace, InTransit
  <2>. QED  BY <2>1, <2>2
<1>3. /\ nextIdx' = nextIdx + 1 /\ nextIdx < Passed
      /\ sem' = sem - 1
  <2>1. nextIdx < Passed
    BY <1>2 DEF Awaited
  <2>2. sem > 0
    BY <2>1 DEF CarrierInv, NoneMissing
  <2>. QED  BY <1>2, <2>1, <2>2 DEF Take, Release
<1>4. OnePlace'
  BY <1>0, <1>2 DEF CarrierInv, OnePlace, workerVars
<1>5. InTransit'
  <2>1. \A w \in Busy : nextIdx + 1 <= wblk[w].idx /\ wblk[w].idx < Passed /\ Genuine(wblk[w])
    <3>1. ASSUME NEW w \in Busy  PROVE nextIdx + 1 <= wblk[w].idx /\ wblk[w].idx < Passed /\ Genuine(wblk[w])
      <4>1. Awaited(wblk[w]) /\ wblk[w].idx # nextIdx /\ wblk[w].idx \in Nat
        BY <1>2 DEF CarrierInv, InTransit, Busy
      <4>. QED  BY <4>1 DEF Awaited
    <3>. QED  BY <3>1
  <2>2. \A q \in pending' : nextIdx + 1 <= q.idx /\ q.idx < Passed /\ Genuine(q)
    <3>1. ASSUME NEW q \in pending'  PROVE nextIdx + 1 <= q.idx /\ q.idx < Passed /\ Genuine(q)
      <4>1. Awaited(q) /\ q.idx # nextIdx /\ q.idx \in Nat
        BY <1>2 DEF CarrierInv, InTransit
      <4>. QED  BY <4>1 DEF Awaited
    <3>. QED  BY <3>1
  <2>3. (\A w \in Busy : Awaited(wblk[w]))'
    BY <1>0, <1>1, <1>3, <2>1 DEF Awaited, Genuine, workerVars
  <2>4. (\A q \in pending : Awaited(q))'
    BY <1>1, <1>3, <2>2 DEF Awaited, Genuine
  <2>. QED  BY <1>0, <1>1, <1>2, <1>3, <2>3, <2>4 DEF CarrierInv, InTransit, workerVars
<1>6. NoneMissing'
  <2>1. \A i : Carried(i) => i = nextIdx \/ Carried(i)'
    BY <1>0, <1>2 DEF Carried, workerVars
  <2>2. Closed("fin")' <=> Closed("fin")
    BY <1>2 DEF Take, Closed
  <2>3. ~Closed("fin")' => \A i \in nextIdx' .. Passed' - 1 : Carried(i)'
    BY <1>1, <1>3, <2>1, <2>2, SMTT(30) DEF CarrierInv, NoneMissing
  <2>4. IsFiniteSet(pending')
    BY <1>2, FS_RemoveElement DEF CarrierInv, NoneMissing
  <2>. QED  BY <1>1, <1>3, <2>3, <2>4, SMTT(30) DEF CarrierInv, NoneMissing
<1>. QED  BY <1>4, <1>5, <1>6 DEF CarrierInv

LEMMA CarrierKeep ==
  ASSUME TypeOK, FrameRead, ChannelPhase, CarrierInv, KeepReceived \/ Drained
  PROVE  CarrierInv'
<1>. USE PassedIs
<1>0. UNCHANGED <<nextIdx, cur, sem, dispVars, workerVars>> /\ Busy' = Busy /\ cpc' # "got"
  BY DEF KeepReceived, Drained, workerVars, Busy
<1>1. Passed' = Passed /\ Len(packets') = Len(packets) /\ dpc' = dpc /\ \A p : Genuine(p)' <=> Genuine(p)
  BY <1>0 DEF dispVars, Passed, AtDispatch, Ended, curIdx, Genuine
<1>2. (\A w \in Busy : Awaited(wblk[w]))' /\ (nextIdx <= Passed)'
  BY <1>0, <1>1 DEF CarrierInv, InTransit, Awaited, Genuine, workerVars
<1>3. CASE KeepReceived
  <2>1. cpc = "got" /\ pending' = pending \cup {cur} /\ chClosed' = chClosed
    BY <1>3 DEF KeepReceived
  <2>2. OnePlace'
    BY <1>0, <2>1 DEF CarrierInv, OnePlace, workerVars
  <2>3. (\A p \in pending : Awaited(p))'
    <3>1. \A p \in pending' : nextIdx <= p.idx /\ p.idx < Passed /\ Genuine(p)
      BY <2>1 DEF CarrierInv, InTransit, Awaited
    <3>. QED  BY <1>0, <1>1, <3>1 DEF Awaited, Genuine
  <2>4. InTransit'
    BY <1>0, <1>2, <2>3 DEF CarrierInv, InTransit, workerVars
  <2>5. \A i : Carried(i) => Carried(i)'
    BY <1>0, <2>1 DEF Carried, workerVars
  <2>6. IsFiniteSet(pending')
    BY <2>1, FS_AddElement DEF CarrierInv, NoneMissing
  <2>7. NoneMissing'
    BY <1>0, <1>1, <2>1, <2>5, <2>6 DEF CarrierInv, NoneMissing, Closed
  <2>. QED  BY <2>2, <2>4, <2>7 DEF CarrierInv
<1>4. CASE Drained
  <2>1. pending' = {} /\ Closed("fin")'
    BY <1>4 DEF Drained, ChannelPhase, Closed
  <2>2. OnePlace'
    BY <1>0, <2>1 DEF CarrierInv, OnePlace, workerVars
  <2>3. InTransit'
    BY <1>0, <1>2, <2>1 DEF CarrierInv, InTransit, workerVars
  <2>4. NoneMissing'
    BY <1>0, <1>1, <2>1, FS_EmptySet DEF CarrierInv, NoneMissing
  <2>. QED  BY <2>2, <2>3, <2>4 DEF CarrierInv
<1>. QED  BY <1>3, <1>4

LEMMA CarrierInit == Init => CarrierInv
<1>. SUFFICES ASSUME Init  PROVE CarrierInv
  OBVIOUS
<1>1. /\ Busy = {} /\ pending = {} /\ nextIdx = 0 /\ Len(packets) = 0 /\ Passed = 0
      /\ sem = 0 /\ dpc = "sem" /\ cpc = "idle" /\ \A w \in Workers : wpc[w] = "queued"
  BY DEF Init, Busy, Passed, AtDispatch, Ended
<1>. QED  BY <1>1, FS_EmptySet DEF CarrierInv, OnePlace, InTransit, NoneMissing

LEMMA CarrierStep ==
  ASSUME TypeOK, FrameRead, ChannelPhase, CarrierInv, [Next]_vars
  PROVE  CarrierInv'
<1>1. SendErr => cpc = "recv" \/ cpc = "drainout"
  BY DEF SendErr
<1>. QED  BY <1>1, QuietStep, QuietDispatch, QuietRest, CarrierRead, CarrierSend, CarrierTask, CarrierTake, CarrierKeep
     DEF Next, Call, CallerStep, Dispatch, Task, Meet

-----------------------------------------------------------------------------
(* The hasher has the blocks in order                                      *)

LEMMA HashOrderInit == Init => HashOrder
<1>. SUFFICES ASSUME Init  PROVE HashOrder
  OBVIOUS
<1>1. hsum = 0 /\ hch = <<>> /\ hpc # "use" /\ nextIdx = 0 /\ BlkOf(held) = {} /\ err = "none" /\ cpc = "idle"
  BY NoBlock DEF Init
<1>2. TakenTo = 0 /\ QueuedTo = 0
  BY <1>1 DEF TakenTo, QueuedTo
<1>. QED  BY <1>1, <1>2 DEF HashOrder

\* Steps that touch neither the hasher nor what the caller has taken.
LEMMA HashQuiet ==
  ASSUME TypeOK, HashOrder, UNCHANGED <<hashVars, held, nextIdx, err>>, cpc' = "sum" <=> cpc = "sum",
         Closed("fin") => Closed("fin")'
  PROVE  HashOrder'
<1>1. TakenTo' = TakenTo /\ QueuedTo' = QueuedTo
  BY DEF TakenTo, QueuedTo, hashVars
<1>. QED  BY <1>1 DEF HashOrder, hashVars

LEMMA HashQuietSteps ==
  ASSUME TypeOK, HashOrder,
         \/ Close \/ NonePending \/ KeepReceived \/ JoinTasks \/ InClosed \/ Drained \/ JoinHash
         \/ Dispatch \/ Meet \/ UNCHANGED vars \/ \E w \in Workers : Task(w)
  PROVE  HashOrder'
<1>. USE HashQuiet
<1>1. CASE Close \/ NonePending \/ KeepReceived \/ JoinTasks \/ InClosed \/ Drained \/ JoinHash
  BY <1>1 DEF Close, NonePending, KeepReceived, JoinTasks, InClosed, Drained, JoinHash, Closed
<1>2. CASE Dispatch
  BY <1>2 DEF Dispatch, Acquire, AcquireAborts, ReadFrame, SendAborts, CloseChans, SendErrAborts, callerVars, Closed
<1>3. CASE Meet
  BY <1>3 DEF Meet, SendRaw, SendErr, DrainIn, SendIn, SendOut, callerVars, Closed
<1>4. CASE UNCHANGED vars
  BY <1>4 DEF vars, callerVars, Closed
<1>5. ASSUME NEW w \in Workers, Task(w)  PROVE HashOrder'
  BY <1>5 DEF Task, TaskStarts, Decompress, SendOutAborts, TaskExits, callerVars, Closed
<1>. QED  BY <1>1, <1>2, <1>3, <1>4, <1>5

LEMMA HashOrderTake ==
  ASSUME TypeOK, ChannelPhase, CallPhase, HashOrder, NEW p \in Packet, IsNext(p), Take(p),
         cpc \in {"next", "got"}, UNCHANGED hashVars
  PROVE  HashOrder'
<1>1. TakenTo' = TakenTo /\ QueuedTo' = QueuedTo
  BY DEF TakenTo, QueuedTo, hashVars
<1>2. nextIdx \in Nat /\ nextIdx' = nextIdx + 1 /\ p.idx = nextIdx /\ p.st # "none"
  BY DEF TypeOK, CallerTypeOK, Take, IsNext, Packet, Kinds, EndsOf
<1>3. BlkOf(held) = {} /\ err = "none" /\ cpc # "sum" /\ ~Closed("fin")
  BY DEF CallPhase, ChannelPhase
<1>4. /\ hsum \in Nat /\ QueuedTo <= nextIdx
      /\ hpc = "use" => href.idx = hsum
      /\ \A j \in DOMAIN hch : hch[j].idx = TakenTo + j - 1
      /\ hasher => QueuedTo = nextIdx
  BY <1>3 DEF HashOrder
<1>5. CASE cpc' = "sum"
  <2>1. held' = held /\ BlkOf(held)' = {}
    BY <1>3, <1>5 DEF Take
  <2>2. QueuedTo' <= nextIdx' /\ (hasher' => QueuedTo' = nextIdx' - 1)
    <3>1. QueuedTo \in Int
      BY <1>4 DEF TypeOK, HashTypeOK, QueuedTo, TakenTo
    <3>. QED  BY <1>1, <1>2, <1>4, <3>1 DEF hashVars
  <2>3. (hasher /\ ~Closed("fin"))' =>
          QueuedTo' = IF BlkOf(held)' = {} /\ err' = "none" /\ cpc' # "sum" THEN nextIdx' ELSE nextIdx' - 1
    BY <1>5, <2>2
  <2>. QED  BY <1>1, <1>4, <2>1, <2>2, <2>3 DEF HashOrder, hashVars
<1>6. CASE cpc' # "sum"
  <2>1. IF BlkOf(p) # {} THEN held' = p /\ err' = err ELSE err' # "none" /\ held' = held
    BY <1>2, <1>6 DEF Take
  <2>2. QueuedTo \in Int
    BY <1>4 DEF TypeOK, HashTypeOK, QueuedTo, TakenTo
  <2>3. hasher' => IF BlkOf(held') = {} /\ err' = "none" THEN FALSE ELSE QueuedTo' = nextIdx' - 1
    BY <1>1, <1>2, <1>3, <1>4, <2>1, <2>2 DEF hashVars
  <2>4. hasher' /\ BlkOf(held') # {} => held'.idx = QueuedTo'
    BY <1>1, <1>2, <1>3, <1>4, <2>1 DEF hashVars
  <2>5. QueuedTo' <= nextIdx'
    BY <1>1, <1>2, <1>4, <2>2
  <2>6. (hasher /\ ~Closed("fin"))' =>
          QueuedTo' = IF BlkOf(held') = {} /\ err' = "none" /\ cpc' # "sum" THEN nextIdx' ELSE nextIdx' - 1
    BY <2>3
  <2>. QED  BY <1>1, <1>4, <2>4, <2>5, <2>6 DEF HashOrder, hashVars
<1>. QED  BY <1>5, <1>6

LEMMA HashOrderCaller ==
  ASSUME TypeOK, ChannelPhase, CallPhase, HashOrder, InTransit,
         NextBlock \/ QueueHash \/ TakePending \/ TakeReceived \/ CheckSum \/ ReturnHeld
  PROVE  HashOrder'
<1>0. nextIdx \in Nat /\ hsum \in Nat /\ Len(hch) \in Nat /\ hch \in Seq(Packet)
  BY DEF TypeOK, CallerTypeOK, HashOrder, HashTypeOK
<1>1. CASE NextBlock
  <2>1. UNCHANGED <<hashVars, nextIdx, err, chClosed>> /\ cpc # "sum" /\ cpc' # "sum"
    BY <1>1 DEF NextBlock
  <2>2. TakenTo' = TakenTo /\ QueuedTo' = QueuedTo
    BY <2>1 DEF TakenTo, QueuedTo, hashVars
  <2>3. hasher => (BlkOf(held)' = {} <=> BlkOf(held) = {}) /\ (BlkOf(held) # {} => held' = held)
    BY <1>1, NoBlock DEF NextBlock
  <2>4. ~hasher \/ hasher
    BY DEF TypeOK, HashTypeOK
  <2>. QED  BY <2>1, <2>2, <2>3, <2>4 DEF HashOrder, hashVars, Closed
<1>2. CASE QueueHash
  <2>1. /\ cpc = "queue" /\ cpc' = "next" /\ hch' = Append(hch, held) /\ held' = NoPacket
        /\ UNCHANGED <<nextIdx, err, chClosed, hasher, hpc, href, hsum>>
    BY <1>2 DEF QueueHash
  <2>2. hasher /\ BlkOf(held) # {} /\ err = "none" /\ ~Closed("fin") /\ held.idx = nextIdx - 1
    BY <2>1 DEF CallPhase, ChannelPhase
  <2>3. held.idx = QueuedTo
    BY <2>2 DEF HashOrder
  <2>4. TakenTo' = TakenTo /\ TakenTo \in Nat /\ QueuedTo = TakenTo + Len(hch)
    BY <1>0, <2>1 DEF TakenTo, QueuedTo
  <2>5. /\ Len(hch') = Len(hch) + 1 /\ hch'[Len(hch) + 1] = held
        /\ DOMAIN hch' = 1 .. Len(hch) + 1 /\ DOMAIN hch = 1 .. Len(hch)
        /\ \A j \in DOMAIN hch : hch'[j] = hch[j]
    BY <1>0, <2>1
  <2>6. QueuedTo' = QueuedTo + 1
    BY <1>0, <2>4, <2>5 DEF QueuedTo
  <2>7. \A j \in DOMAIN hch' : hch'[j].idx = TakenTo' + j - 1
    <3>1. \A j \in DOMAIN hch : hch'[j].idx = TakenTo + j - 1
      BY <2>5 DEF HashOrder
    <3>2. hch'[Len(hch) + 1].idx = TakenTo + (Len(hch) + 1) - 1
      BY <1>0, <2>3, <2>4, <2>5
    <3>. QED  BY <1>0, <2>4, <2>5, <3>1, <3>2
  <2>8. QueuedTo' = nextIdx'
    BY <1>0, <2>1, <2>2, <2>3, <2>4, <2>6
  <2>9. BlkOf(held)' = {} /\ cpc' # "sum" /\ err' = "none"
    BY <2>1, <2>2, NoBlock
  <2>. QED  BY <1>0, <2>1, <2>7, <2>8, <2>9 DEF HashOrder
<1>3. CASE TakePending
  <2>1. PICK p \in Due : Take(p) /\ pending' = pending \ {p}
    BY <1>3 DEF TakePending
  <2>2. p \in Packet /\ IsNext(p)
    BY DEF Due, TypeOK, CallerTypeOK
  <2>. QED  BY <1>3, <2>1, <2>2, HashOrderTake DEF TakePending
<1>4. CASE TakeReceived
  BY <1>4, HashOrderTake DEF TakeReceived, TypeOK, CallerTypeOK
<1>5. CASE CheckSum
  <2>1. UNCHANGED <<hashVars, held, nextIdx, chClosed>> /\ cpc = "sum" /\ err' # "none" /\ BlkOf(held) = {}
    BY <1>5 DEF CheckSum, CallPhase
  <2>2. TakenTo' = TakenTo /\ QueuedTo' = QueuedTo
    BY <2>1 DEF TakenTo, QueuedTo, hashVars
  <2>. QED  BY <2>1, <2>2 DEF HashOrder, hashVars, Closed
<1>6. CASE ReturnHeld
  <2>1. UNCHANGED <<hashVars, nextIdx, chClosed>> /\ Closed("fin") /\ BlkOf(held)' = {}
    BY <1>6, NoBlock DEF ReturnHeld
  <2>2. TakenTo' = TakenTo /\ QueuedTo' = QueuedTo
    BY <2>1 DEF TakenTo, QueuedTo, hashVars
  <2>. QED  BY <2>1, <2>2 DEF HashOrder, hashVars, Closed
<1>. QED  BY <1>1, <1>2, <1>3, <1>4, <1>5, <1>6

\* The hasher takes the oldest reference and hashes it.
LEMMA HashOrderHasher ==
  ASSUME TypeOK, HashOrder, Hasher
  PROVE  HashOrder'
<1>0. hsum \in Nat /\ Len(hch) \in Nat /\ hch \in Seq(Packet)
  BY DEF TypeOK, HashOrder, HashTypeOK
<1>1. UNCHANGED <<callerVars, chClosed, hasher>>
  BY DEF Hasher, HashTakes, HashUses, HashExits
<1>2. CASE HashTakes
  <2>1. /\ hpc = "take" /\ hpc' = "use" /\ hch # <<>> /\ href' = Head(hch) /\ hch' = Tail(hch) /\ hsum' = hsum
    BY <1>2 DEF HashTakes
  <2>2. /\ Len(hch') = Len(hch) - 1 /\ href' = hch[1] /\ 1 \in DOMAIN hch
        /\ \A j \in DOMAIN hch' : j + 1 \in DOMAIN hch /\ hch'[j] = hch[j + 1] /\ j \in Nat
    BY <1>0, <2>1
  <2>3. TakenTo = hsum /\ TakenTo' = hsum + 1 /\ QueuedTo' = QueuedTo
    BY <1>0, <2>1, <2>2 DEF TakenTo, QueuedTo
  <2>4. href'.idx = hsum'
    BY <1>0, <2>1, <2>2, <2>3 DEF HashOrder
  <2>5. ASSUME NEW j \in DOMAIN hch'  PROVE hch'[j].idx = TakenTo' + j - 1
    <3>1. hch[j + 1].idx = TakenTo + (j + 1) - 1
      BY <2>2 DEF HashOrder
    <3>. QED  BY <1>0, <2>2, <2>3, <3>1
  <2>. QED  BY <1>0, <1>1, <2>1, <2>3, <2>4, <2>5 DEF HashOrder, callerVars, Closed
<1>3. CASE HashUses
  <2>1. /\ hpc = "use" /\ hpc' = "take" /\ hch' = hch /\ href' = href /\ hsum' = hsum + 1
    BY <1>3 DEF HashUses, HashOrder
  <2>2. TakenTo' = TakenTo /\ QueuedTo' = QueuedTo
    BY <1>0, <2>1 DEF TakenTo, QueuedTo
  <2>. QED  BY <1>0, <1>1, <2>1, <2>2 DEF HashOrder, callerVars, Closed
<1>4. CASE HashExits
  <2>1. hpc = "take" /\ hpc' = "exit" /\ hch' = hch /\ href' = href /\ hsum' = hsum
    BY <1>4 DEF HashExits
  <2>2. TakenTo' = TakenTo /\ QueuedTo' = QueuedTo
    BY <1>0, <2>1 DEF TakenTo, QueuedTo
  <2>. QED  BY <1>0, <1>1, <2>1, <2>2 DEF HashOrder, callerVars, Closed
<1>. QED  BY <1>2, <1>3, <1>4 DEF Hasher

LEMMA HashOrderStep ==
  ASSUME TypeOK, ChannelPhase, CallPhase, HashOrder, InTransit, [Next]_vars
  PROVE  HashOrder'
BY HashQuietSteps, HashOrderCaller, HashOrderHasher DEF Next, Call, CallerStep

-----------------------------------------------------------------------------
(* The blocks that are out, and who has them                               *)

LEMMA HasherBlk ==
  \A b : b \in HasherHas <=> (\E j \in DOMAIN hch : b \in BlkOf(hch[j])) \/ (hpc = "use" /\ b \in BlkOf(href))
<1>. DEFINE Queued == UNION {BlkOf(hch[j]) : j \in DOMAIN hch}
<1>1. \A b : b \in Queued <=> \E j \in DOMAIN hch : b \in BlkOf(hch[j])
  BY Zenon
<1>2. HasherHas = Queued \cup (IF hpc = "use" THEN BlkOf(href) ELSE {})
  BY DEF HasherHas
<1>. HIDE DEF Queued
<1>3. \A b : b \in HasherHas <=> b \in Queued \/ (hpc = "use" /\ b \in BlkOf(href))
  BY <1>2
<1>. QED  BY <1>1, <1>3

\* A block in the hands of somebody is named after the place of his packet.
LEMMA Where ==
  ASSUME TypeOK, FrameRead, CallPhase, CarrierInv, HashOrder
  PROVE  /\ \A b \in DispatchHas : b[2] = Passed
         /\ \A b \in TasksHave : \E w \in Busy : b \in TaskBlk(w) /\ b[2] = wblk[w].idx
         /\ \A b \in PendingHas : \E p \in pending : b \in BlkOf(p) /\ b[2] = p.idx
         /\ \A b \in CurHas : cpc = "got" /\ b[2] = cur.idx
         /\ \A b \in BlkOf(held) : b[2] = nextIdx - 1
         /\ \A b \in HasherHas : hsum <= b[2] /\ b[2] < QueuedTo
         /\ \A w \in Workers : \A b \in TaskBlk(w) : w \in Busy /\ b[2] = wblk[w].idx
<1>. USE PassedIs, BlkPlace, NamesDiffer
<1>1. \A b \in DispatchHas : b[2] = Passed
  BY DEF DispatchHas, Passed, AtDispatch
<1>2. \A w \in Workers : \A b \in TaskBlk(w) : w \in Busy /\ b[2] = wblk[w].idx
  BY DEF TaskBlk, Busy
<1>3. \A b \in TasksHave : \E w \in Busy : b \in TaskBlk(w) /\ b[2] = wblk[w].idx
  BY <1>2 DEF TasksHave
<1>4. \A b \in PendingHas : \E p \in pending : b \in BlkOf(p) /\ b[2] = p.idx
  BY DEF PendingHas
<1>5. \A b \in CurHas : cpc = "got" /\ b[2] = cur.idx
  BY DEF CurHas
<1>6. \A b \in BlkOf(held) : b[2] = nextIdx - 1
  BY DEF CallPhase
<1>7. \A b \in HasherHas : hsum <= b[2] /\ b[2] < QueuedTo
  <2>0. hsum \in Nat /\ hch \in Seq(Packet) /\ Len(hch) \in Nat /\ TakenTo \in Nat /\ hsum <= TakenTo
        /\ QueuedTo = TakenTo + Len(hch)
    BY DEF TypeOK, HashTypeOK, HashOrder, TakenTo, QueuedTo
  <2>1. ASSUME NEW j \in DOMAIN hch, NEW b \in BlkOf(hch[j])  PROVE hsum <= b[2] /\ b[2] < QueuedTo
    <3>1. b[2] = hch[j].idx /\ hch[j].idx = TakenTo + j - 1 /\ j \in 1 .. Len(hch)
      BY <2>0, <2>1 DEF HashOrder
    <3>. QED  BY <2>0, <3>1, SMTT(30)
  <2>2. ASSUME hpc = "use", NEW b \in BlkOf(href)  PROVE hsum <= b[2] /\ b[2] < QueuedTo
    <3>1. b[2] = hsum /\ TakenTo = hsum + 1
      BY <2>2 DEF HashOrder, TakenTo
    <3>. QED  BY <2>0, <3>1
  <2>. QED  BY <2>1, <2>2, HasherBlk
<1>. QED  BY <1>1, <1>2, <1>3, <1>4, <1>5, <1>6, <1>7

\* No block is in two hands.
LEMMA Separate ==
  ASSUME TypeOK, FrameRead, ChannelPhase, CallPhase, CarrierInv, HashOrder
  PROVE  /\ \A b \in DispatchHas : b \notin TasksHave \cup PendingHas \cup CurHas \cup BlkOf(held) \cup HasherHas
         /\ \A b \in TasksHave : b \notin PendingHas \cup CurHas \cup BlkOf(held) \cup HasherHas
         /\ \A b \in PendingHas : b \notin CurHas \cup BlkOf(held) \cup HasherHas
         /\ \A b \in CurHas : b \notin BlkOf(held) \cup HasherHas
         /\ \A b \in BlkOf(held) : b \notin HasherHas
<1>. USE PassedIs
<1>0. /\ \A w \in Busy : nextIdx <= wblk[w].idx /\ wblk[w].idx < Passed
      /\ \A p \in pending : nextIdx <= p.idx /\ p.idx < Passed
      /\ cpc = "got" => nextIdx <= cur.idx /\ cur.idx < Passed
      /\ nextIdx <= Passed
  BY DEF CarrierInv, InTransit, Awaited
<1>1. \A b \in TasksHave \cup PendingHas \cup CurHas : nextIdx <= b[2] /\ b[2] < Passed /\ b[2] \in Nat
  BY <1>0, Where DEF Busy
<1>2. \A b \in BlkOf(held) : b[2] = nextIdx - 1 /\ b[2] < nextIdx
  BY Where
<1>3. \A b \in HasherHas : b[2] < nextIdx
  <2>1. QueuedTo <= nextIdx /\ QueuedTo \in Int /\ hsum \in Nat
    BY DEF HashOrder, QueuedTo, TakenTo, TypeOK, HashTypeOK
  <2>2. \A b \in HasherHas : b[2] \in Nat
    <3>1. href \in Packet /\ \A j \in DOMAIN hch : hch[j] \in Packet
      BY DEF TypeOK, HashTypeOK
    <3>2. \A p \in Packet : \A b \in BlkOf(p) : b[2] \in Nat
      BY BlkPlace DEF Packet
    <3>. QED  BY <3>1, <3>2, HasherBlk
  <2>. QED  BY <2>1, <2>2, Where
<1>4. \A b \in DispatchHas : b[2] = Passed
  BY Where
<1>5. \A b \in DispatchHas : b \notin TasksHave \cup PendingHas \cup CurHas \cup BlkOf(held) \cup HasherHas
  BY <1>0, <1>1, <1>2, <1>3, <1>4
<1>6. \A b \in TasksHave \cup PendingHas \cup CurHas : b \notin BlkOf(held) \cup HasherHas
  BY <1>1, <1>2, <1>3
<1>7. \A b \in TasksHave : b \notin PendingHas \cup CurHas
  BY Where DEF CarrierInv, OnePlace
<1>8. \A b \in PendingHas : b \notin CurHas
  BY Where DEF CarrierInv, OnePlace
<1>9. \A b \in BlkOf(held) : b \notin HasherHas
  <2>1. BlkOf(held) # {} /\ hasher => QueuedTo = nextIdx - 1
    BY DEF HashOrder, CallPhase
  <2>2. ~hasher => HasherHas = {}
    BY DEF ChannelPhase, HasherHas
  <2>3. \A b \in HasherHas : b[2] < QueuedTo
    BY Where
  <2>. QED  BY <1>2, <2>1, <2>2, <2>3
<1>. QED  BY <1>5, <1>6, <1>7, <1>8, <1>9

\* The books stay right if what is borrowed was not out, and what is returned was.
LEMMA HeldBorrow ==
  ASSUME Held, Counted, NEW b, b \notin live, Borrow({b}), Out' = Out \cup {b}
  PROVE  Held' /\ Counted'
<1>1. Cardinality({b}) = 1 /\ IsFiniteSet(live \cup {b}) /\ Cardinality(live \cup {b}) = Cardinality(live) + 1
  BY FS_AddElement, FS_Singleton DEF Counted
<1>. QED  BY <1>1 DEF Held, Counted, Borrow

LEMMA HeldReturn ==
  ASSUME Held, Counted, NEW bs, bs \subseteq Out, Return(bs), Out' = Out \ bs
  PROVE  Held' /\ Counted'
<1>1. bs \subseteq live /\ IsFiniteSet(live)
  BY DEF Held, Counted
<1>2. IsFiniteSet(bs) /\ IsFiniteSet(live \ bs) /\ live \cap bs = bs
  BY <1>1, FS_Subset
<1>3. Cardinality(live \ bs) = Cardinality(live) - Cardinality(live \cap bs)
  BY <1>1, FS_Difference
<1>. QED  BY <1>1, <1>2, <1>3 DEF Held, Counted, Return

LEMMA HeldSame ==
  ASSUME Held, Counted, UNCHANGED poolVars, Out' = Out
  PROVE  Held' /\ Counted'
BY DEF Held, Counted, poolVars

\* Who is not in a step keeps what he has.
LEMMA Parts ==
  /\ UNCHANGED workerVars => TasksHave' = TasksHave
  /\ UNCHANGED pending => PendingHas' = PendingHas
  /\ UNCHANGED hashVars => HasherHas' = HasherHas
  /\ (cpc' = "got" <=> cpc = "got") /\ UNCHANGED cur => CurHas' = CurHas
  /\ cpc # "got" => CurHas = {}
  /\ cpc' # "got" => CurHas' = {}
  /\ (dpc' = "send" <=> dpc = "send") /\ UNCHANGED packets => DispatchHas' = DispatchHas
  /\ dpc # "send" => DispatchHas = {}
  /\ dpc' # "send" => DispatchHas' = {}
  /\ UNCHANGED held => BlkOf(held)' = BlkOf(held)
BY DEF workerVars, hashVars, TasksHave, TaskBlk, PendingHas, HasherHas, CurHas, DispatchHas, curIdx

\* What the tasks have is what they had, but for the block of w, which no
\* other task has.
LEMMA TasksSet ==
  ASSUME TypeOK, FrameRead, CallPhase, CarrierInv, HashOrder,
         NEW w \in Workers, \A x \in Workers : x # w => wpc'[x] = wpc[x] /\ wblk'[x] = wblk[x]
  PROVE  TasksHave' = (TasksHave \ TaskBlk(w)) \cup TaskBlk(w)' /\ TaskBlk(w) \subseteq TasksHave
<1>1. \A x \in Workers : x # w => TaskBlk(x)' = TaskBlk(x)
  BY DEF TaskBlk
<1>2. \A b : b \in TasksHave <=> \E x \in Workers : b \in TaskBlk(x)
  BY Zenon DEF TasksHave
<1>3. \A b : b \in TasksHave' <=> \E x \in Workers : b \in TaskBlk(x)'
  BY Zenon DEF TasksHave
<1>4. \A x \in Workers : x # w => \A b \in TaskBlk(x) : b \notin TaskBlk(w)
  BY Where DEF CarrierInv, OnePlace
<1>. QED  BY <1>1, <1>2, <1>3, <1>4

HeldInvs == /\ TypeOK /\ FrameRead /\ ChannelPhase /\ CallPhase /\ CarrierInv /\ HashOrder
            /\ Held /\ Counted

LEMMA HeldDispatch ==
  ASSUME HeldInvs, Dispatch \/ SendRaw \/ SendErr \/ DrainIn
  PROVE  Held' /\ Counted'
<1>. USE Parts DEF HeldInvs
<1>1. CASE Acquire \/ AcquireAborts \/ CloseChans \/ SendErrAborts
  <2>1. UNCHANGED poolVars /\ Out' = Out
    BY <1>1 DEF Acquire, AcquireAborts, CloseChans, SendErrAborts, Out, callerVars
  <2>. QED  BY <2>1, HeldSame
<1>2. CASE ReadFrame
  <2>1. CASE dpc' = "close"
    <3>1. UNCHANGED poolVars /\ Out' = Out
      BY <1>2, <2>1 DEF ReadFrame, Out, callerVars
    <3>. QED  BY <3>1, HeldSame
  <2>2. CASE dpc' # "close"
    <3>1. dpc = "read" /\ dpc' = "send" /\ Borrow({Src(Len(packets))}) /\ UNCHANGED <<callerVars, workerVars, hashVars>>
      BY <1>2, <2>2 DEF ReadFrame
    <3>2. curIdx' = Len(packets) /\ Passed = Len(packets) /\ Passed \in Nat
      <4>1. PICK k \in Kinds \cup EndsOf : packets' = Append(packets, k)
        BY <1>2 DEF ReadFrame
      <4>2. Len(packets') = Len(packets) + 1
        BY <4>1 DEF TypeOK, DispatchTypeOK
      <4>. QED  BY <3>1, <4>2, PassedIs DEF curIdx, AtDispatch
    <3>3. DispatchHas' = {Src(Len(packets))} /\ DispatchHas = {}
      BY <3>1, <3>2 DEF DispatchHas
    <3>4. Out' = Out \cup {Src(Len(packets))}
      BY <3>1, <3>3 DEF Out, callerVars
    <3>5. \A b \in Out : b[2] < Passed
      <4>0. /\ \A x \in Busy : wblk[x].idx < Passed
            /\ \A p \in pending : p.idx < Passed
            /\ cpc = "got" => cur.idx < Passed
            /\ nextIdx <= Passed
        BY DEF CarrierInv, InTransit, Awaited
      <4>1. \A b \in TasksHave \cup PendingHas \cup CurHas : b[2] < Passed
        BY <4>0, Where DEF Busy
      <4>2. \A b \in BlkOf(held) : b[2] < Passed
        BY <4>0, Where, PassedIs
      <4>3. \A b \in HasherHas : b[2] < Passed
        <5>1. QueuedTo \in Nat /\ QueuedTo <= nextIdx
          BY DEF HashOrder, QueuedTo, TakenTo, TypeOK, HashTypeOK
        <5>2. \A b \in HasherHas : b[2] \in Nat
          <6>1. href \in Packet /\ \A j \in DOMAIN hch : hch[j] \in Packet
            BY DEF TypeOK, HashTypeOK
          <6>2. \A p \in Packet : \A b \in BlkOf(p) : b[2] \in Nat
            BY BlkPlace DEF Packet
          <6>. QED  BY <6>1, <6>2, HasherBlk
        <5>. QED  BY <4>0, <5>1, <5>2, Where, PassedIs
      <4>. QED  BY <3>3, <4>1, <4>2, <4>3 DEF Out
    <3>6. Src(Len(packets)) \notin live
      BY <3>2, <3>5, NamesDiffer DEF Held
    <3>. QED  BY <3>1, <3>4, <3>6, HeldBorrow
  <2>. QED  BY <2>1, <2>2
<1>3. CASE SendAborts \/ DrainIn
  <2>1. Return({Src(curIdx)}) /\ DispatchHas = {Src(curIdx)} /\ DispatchHas' = {}
    BY <1>3 DEF SendAborts, DrainIn, DispatchHas
  <2>2. \A b \in DispatchHas : b \notin TasksHave \cup PendingHas \cup CurHas \cup BlkOf(held) \cup HasherHas
    BY Separate
  <2>3. Out' = Out \ {Src(curIdx)} /\ {Src(curIdx)} \subseteq Out
    BY <1>3, <2>1, <2>2 DEF SendAborts, DrainIn, Out, callerVars
  <2>. QED  BY <2>1, <2>3, HeldReturn
<1>4. CASE SendRaw
  <2>1. /\ dpc = "send" /\ cpc = "recv" /\ dpc' = "sem" /\ cpc' = "got" /\ cur' = Current /\ Current.st = "raw"
        /\ UNCHANGED <<held, pending, workerVars, hashVars, poolVars>>
    BY <1>4 DEF SendRaw
  <2>2. CurHas' = {Src(curIdx)} /\ DispatchHas = {Src(curIdx)}
    <3>1. BlkOf(Current) = {Src(curIdx)}
      BY <2>1, BlkIs, CurrentTyped DEF Current
    <3>. QED  BY <2>1, <3>1 DEF CurHas, DispatchHas
  <2>3. Out' = Out
    BY <2>1, <2>2 DEF Out
  <2>. QED  BY <2>1, <2>3, HeldSame
<1>5. CASE SendErr
  <2>1. BlkOf(Current) = {}
    BY <1>5, BlkIs DEF SendErr, FrameRead, Ended, Current, EndsOf
  <2>2. UNCHANGED <<held, pending, workerVars, hashVars, poolVars>> /\ CurHas' = CurHas /\ DispatchHas' = {} /\ DispatchHas = {}
    BY <1>5, <2>1 DEF SendErr, CurHas
  <2>3. Out' = Out
    BY <2>2 DEF Out
  <2>. QED  BY <2>2, <2>3, HeldSame
<1>. QED  BY <1>1, <1>2, <1>3, <1>4, <1>5 DEF Dispatch

LEMMA HeldTask ==
  ASSUME HeldInvs, NEW w \in Workers, SendIn(w) \/ SendOut(w) \/ Task(w)
  PROVE  Held' /\ Counted'
<1>. USE Parts DEF HeldInvs
<1>0. \A x \in Workers : x # w => wpc'[x] = wpc[x] /\ wblk'[x] = wblk[x]
  BY PassedIs DEF SendIn, SendOut, Task, TaskStarts, Decompress, SendOutAborts, TaskExits
<1>1. TasksHave' = (TasksHave \ TaskBlk(w)) \cup TaskBlk(w)' /\ TaskBlk(w) \subseteq TasksHave
  BY <1>0, TasksSet
<1>2. \A b \in TaskBlk(w) : b \notin DispatchHas \cup PendingHas \cup CurHas \cup BlkOf(held) \cup HasherHas
  BY <1>1, Separate
<1>3. CASE TaskStarts(w) \/ TaskExits(w)
  <2>1. TaskBlk(w) = {} /\ TaskBlk(w)' = {}
    BY <1>3, PassedIs DEF TaskStarts, TaskExits, TaskBlk
  <2>2. UNCHANGED poolVars /\ Out' = Out
    BY <1>1, <1>3, <2>1 DEF TaskStarts, TaskExits, Out, callerVars, dispVars
  <2>. QED  BY <2>2, HeldSame
<1>4. CASE SendIn(w)
  <2>1. dpc = "send" /\ dpc' = "sem" /\ UNCHANGED <<callerVars, hashVars, poolVars>>
    BY <1>4 DEF SendIn
  <2>2. TaskBlk(w) = {} /\ wpc'[w] = "work" /\ wblk'[w] = Current
    BY <1>4, PassedIs DEF SendIn, TaskBlk
  <2>3. TaskBlk(w)' = {Src(curIdx)} /\ DispatchHas = {Src(curIdx)} /\ DispatchHas' = {}
    BY <2>1, <2>2 DEF TaskBlk, Current, DispatchHas
  <2>4. Out' = Out
    BY <1>1, <2>1, <2>2, <2>3 DEF Out, callerVars
  <2>. QED  BY <2>1, <2>4, HeldSame
<1>5. CASE SendOut(w)
  <2>1. /\ UNCHANGED <<held, pending, dispVars, hashVars, poolVars>>
        /\ cpc = "recv" /\ cpc' = "got" /\ cur' = wblk[w] /\ wpc[w] = "send" /\ wpc'[w] = "recv"
    BY <1>5, PassedIs DEF SendOut
  <2>2. CurHas' = TaskBlk(w) /\ CurHas = {} /\ TaskBlk(w)' = {}
    BY <2>1 DEF CurHas, TaskBlk
  <2>3. Out' = Out
    BY <1>1, <2>1, <2>2 DEF Out, dispVars
  <2>. QED  BY <2>1, <2>3, HeldSame
<1>6. CASE SendOutAborts(w)
  <2>1. /\ UNCHANGED <<callerVars, dispVars, hashVars>> /\ Return(BlkOf(wblk[w]))
        /\ wpc[w] = "send" /\ wpc'[w] = "exit"
    BY <1>6, PassedIs DEF SendOutAborts, Aborted
  <2>2. TaskBlk(w) = BlkOf(wblk[w]) /\ TaskBlk(w)' = {}
    BY <2>1 DEF TaskBlk
  <2>3. Out' = Out \ TaskBlk(w) /\ TaskBlk(w) \subseteq Out
    BY <1>1, <1>2, <2>1, <2>2 DEF Out, callerVars, dispVars
  <2>. QED  BY <2>1, <2>2, <2>3, HeldReturn
<1>7. CASE Decompress(w)
  <2>0. wblk[w] \in Packet /\ wblk[w].idx \in Nat
    BY PassedIs
  <2>1. /\ UNCHANGED <<callerVars, dispVars, hashVars>> /\ wpc[w] = "work" /\ wpc'[w] = "send"
        /\ TaskBlk(w) = {Src(wblk[w].idx)}
    BY <1>7, PassedIs DEF Decompress, TaskBlk
  <2>2. CASE wblk[w].st = "corrupt"
    <3>1. Return(TaskBlk(w)) /\ wblk'[w] = wblk[w]
      BY <1>7, <2>1, <2>2 DEF Decompress
    <3>2. TaskBlk(w)' = {}
      BY <2>1, <2>2, <3>1, BlkIs DEF TaskBlk
    <3>3. Out' = Out \ TaskBlk(w) /\ TaskBlk(w) \subseteq Out
      BY <1>1, <1>2, <2>1, <3>2 DEF Out, callerVars, dispVars
    <3>. QED  BY <3>1, <3>3, HeldReturn
  <2>3. CASE wblk[w].st # "corrupt"
    <3>. DEFINE i == wblk[w].idx
    <3>1. /\ live' = (live \cup {Dst(i)}) \ {Src(i)} /\ cntBorrowed' = cntBorrowed
          /\ wblk'[w].idx = i /\ wblk'[w].st = "ok"
      BY <1>7, <2>0, <2>3, PassedIs DEF Decompress, Packet
    <3>2. TaskBlk(w)' = {Dst(i)}
      BY <2>1, <3>1, BlkIs DEF TaskBlk
    <3>3. Out' = (Out \cup {Dst(i)}) \ {Src(i)}
      BY <1>1, <1>2, <2>1, <3>2, NamesDiffer DEF Out, callerVars, dispVars
    <3>4. Src(i) \in live
      BY <1>1, <2>1 DEF Held, Out
    <3>5. Dst(i) \notin live
      <4>1. w \in Busy /\ nextIdx <= i /\ i < Passed /\ Dst(i)[2] = i
        BY <2>1, NamesDiffer DEF Busy, CarrierInv, InTransit, Awaited
      <4>2. \A x \in Busy : x # w => wblk[x].idx # i
        BY <4>1 DEF CarrierInv, OnePlace
      <4>3. Dst(i) \notin TasksHave
        BY <2>1, <4>1, <4>2, Where, NamesDiffer
      <4>4. Dst(i) \notin PendingHas /\ Dst(i) \notin CurHas
        BY <4>1, Where DEF CarrierInv, OnePlace
      <4>5. Dst(i) \notin DispatchHas
        BY NamesDiffer DEF DispatchHas
      <4>6. Dst(i) \notin BlkOf(held)
        BY <2>0, <4>1, Where, PassedIs
      <4>7. Dst(i) \notin HasherHas
        <5>1. QueuedTo \in Nat /\ QueuedTo <= nextIdx
          BY DEF HashOrder, QueuedTo, TakenTo, TypeOK, HashTypeOK
        <5>. QED  BY <2>0, <4>1, <5>1, Where, PassedIs
      <4>. QED  BY <4>3, <4>4, <4>5, <4>6, <4>7 DEF Held, Out
    <3>6. /\ IsFiniteSet((live \cup {Dst(i)}) \ {Src(i)})
          /\ Cardinality((live \cup {Dst(i)}) \ {Src(i)}) = Cardinality(live)
      <4>. DEFINE both == live \cup {Dst(i)}
      <4>1. IsFiniteSet(both) /\ Cardinality(both) = Cardinality(live) + 1
        BY <3>5, FS_AddElement DEF Counted
      <4>2. Src(i) \in both /\ Cardinality(live) \in Nat
        BY <3>4, FS_CardinalityType DEF Counted
      <4>. HIDE DEF both
      <4>3. IsFiniteSet(both \ {Src(i)}) /\ Cardinality(both \ {Src(i)}) = Cardinality(both) - 1
        BY <4>1, <4>2, FS_RemoveElement
      <4>4. Cardinality(both \ {Src(i)}) = Cardinality(live)
        BY <4>1, <4>2, <4>3
      <4>. QED  BY <4>3, <4>4 DEF both
    <3>7. Held'
      BY <3>1, <3>3 DEF Held
    <3>8. Counted'
      BY <3>1, <3>6 DEF Counted
    <3>. QED  BY <3>7, <3>8
  <2>. QED  BY <2>2, <2>3
<1>. QED  BY <1>3, <1>4, <1>5, <1>6, <1>7 DEF Task

LEMMA HeldHasher ==
  ASSUME HeldInvs, Hasher
  PROVE  Held' /\ Counted'
<1>. USE Parts DEF HeldInvs
<1>0. hch \in Seq(Packet) /\ Len(hch) \in Nat /\ UNCHANGED <<callerVars, dispVars, workerVars>>
  BY DEF TypeOK, HashTypeOK, Hasher, HashTakes, HashUses, HashExits
<1>1. HasherHas' = HasherHas => Out' = Out
  BY <1>0 DEF Out, callerVars, dispVars
<1>2. \A b : b \in HasherHas' <=> (\E j \in DOMAIN hch' : b \in BlkOf(hch'[j])) \/ (hpc' = "use" /\ b \in BlkOf(href'))
  <2>. DEFINE Queued == UNION {BlkOf(hch'[j]) : j \in DOMAIN hch'}
  <2>1. \A b : b \in Queued <=> \E j \in DOMAIN hch' : b \in BlkOf(hch'[j])
    BY Zenon
  <2>2. HasherHas' = Queued \cup (IF hpc' = "use" THEN BlkOf(href') ELSE {})
    BY DEF HasherHas
  <2>. HIDE DEF Queued
  <2>3. \A b : b \in HasherHas' <=> b \in Queued \/ (hpc' = "use" /\ b \in BlkOf(href'))
    BY <2>2
  <2>. QED  BY <2>1, <2>3
<1>3. CASE HashTakes
  <2>1. hpc = "take" /\ hpc' = "use" /\ hch # <<>> /\ href' = Head(hch) /\ hch' = Tail(hch) /\ UNCHANGED poolVars
    BY <1>3 DEF HashTakes
  <2>2. /\ href' = hch[1] /\ 1 \in DOMAIN hch
        /\ \A j \in DOMAIN hch' : j + 1 \in DOMAIN hch /\ hch'[j] = hch[j + 1]
        /\ \A j \in DOMAIN hch : j = 1 \/ (j - 1 \in DOMAIN hch' /\ hch'[j - 1] = hch[j])
    BY <1>0, <2>1
  <2>3. \A b : (\E j \in DOMAIN hch : b \in BlkOf(hch[j])) <=>
               (\E j \in DOMAIN hch' : b \in BlkOf(hch'[j])) \/ b \in BlkOf(href')
    BY <2>2
  <2>4. HasherHas' = HasherHas
    BY <1>2, <2>1, <2>3, HasherBlk
  <2>. QED  BY <1>1, <2>1, <2>4, HeldSame
<1>4. CASE HashUses
  <2>1. hpc = "use" /\ hpc' = "take" /\ hch' = hch /\ Return(BlkOf(href))
    BY <1>4 DEF HashUses
  <2>2. \A j \in DOMAIN hch : \A b \in BlkOf(hch[j]) : b \notin BlkOf(href)
    <3>1. ASSUME NEW j \in DOMAIN hch, NEW b \in BlkOf(hch[j])  PROVE b \notin BlkOf(href)
      <4>1. b[2] = hch[j].idx /\ hch[j].idx = TakenTo + j - 1 /\ TakenTo = hsum + 1 /\ hsum \in Nat /\ j \in 1 .. Len(hch)
        BY <1>0, <2>1, BlkPlace DEF HashOrder, TakenTo
      <4>2. \A c \in BlkOf(href) : c[2] = hsum
        BY <2>1, BlkPlace DEF HashOrder
      <4>. QED  BY <1>0, <4>1, <4>2
    <3>. QED  BY <3>1
  <2>3. HasherHas' = HasherHas \ BlkOf(href) /\ BlkOf(href) \subseteq HasherHas
    BY <1>2, <2>1, <2>2, HasherBlk
  <2>4. Out' = Out \ BlkOf(href) /\ BlkOf(href) \subseteq Out
    <3>1. \A b \in HasherHas : b \notin DispatchHas \cup TasksHave \cup PendingHas \cup CurHas \cup BlkOf(held)
      BY Separate
    <3>. QED  BY <1>0, <2>3, <3>1 DEF Out, callerVars, dispVars
  <2>. QED  BY <2>1, <2>4, HeldReturn
<1>5. CASE HashExits
  <2>1. UNCHANGED poolVars /\ HasherHas' = HasherHas
    BY <1>5, <1>2, HasherBlk DEF HashExits
  <2>. QED  BY <1>1, <2>1, HeldSame
<1>. QED  BY <1>3, <1>4, <1>5 DEF Hasher

LEMMA PendingBlk == \A b : b \in PendingHas <=> \E p \in pending : b \in BlkOf(p)
BY Zenon DEF PendingHas

\* The caller takes the packet p out of the map, or out of its hands.
LEMMA HeldTake ==
  ASSUME HeldInvs, NEW p, Take(p), UNCHANGED <<dispVars, workerVars, hashVars, poolVars>>, cpc \in {"next", "got"},
         PendingHas \cup CurHas = (PendingHas' \cup BlkOf(p)), CurHas' = {}
  PROVE  Held' /\ Counted'
<1>. USE Parts DEF HeldInvs
<1>1. BlkOf(held) = {}
  BY DEF CallPhase
<1>2. BlkOf(held)' = BlkOf(p)
  <2>1. BlkOf(p) # {} => held' = p \/ cpc' = "sum"
    BY DEF Take
  <2>2. cpc' = "sum" => BlkOf(p) = {} /\ held' = held
    BY BlkIs DEF Take
  <2>3. BlkOf(p) = {} => held' = held
    BY DEF Take
  <2>. QED  BY <1>1, <2>1, <2>2, <2>3
<1>3. DispatchHas' = DispatchHas /\ TasksHave' = TasksHave /\ HasherHas' = HasherHas
  BY DEF dispVars
<1>4. Out' = Out
  BY <1>1, <1>2, <1>3 DEF Out
<1>. QED  BY <1>4, HeldSame

LEMMA HeldCaller ==
  ASSUME HeldInvs, Call \/ CallerStep
  PROVE  Held' /\ Counted'
<1>. USE Parts DEF HeldInvs
<1>1. CASE NextBlock
  <2>1. /\ UNCHANGED <<pending, cur, dispVars, workerVars, hashVars>> /\ cpc = "idle" /\ cpc' \in {"queue", "next"}
        /\ Return(PrevToPool)
    BY <1>1 DEF NextBlock
  <2>2. PrevToPool \subseteq BlkOf(held) /\ BlkOf(held)' = BlkOf(held) \ PrevToPool
    BY <1>1, NoBlock DEF NextBlock, PrevToPool
  <2>3. \A b \in BlkOf(held) : b \notin DispatchHas \cup TasksHave \cup PendingHas \cup CurHas \cup HasherHas
    BY Separate
  <2>4. Out' = Out \ PrevToPool /\ PrevToPool \subseteq Out
    BY <2>1, <2>2, <2>3 DEF Out, dispVars
  <2>. QED  BY <2>1, <2>4, HeldReturn
<1>2. CASE QueueHash
  <2>1. /\ UNCHANGED <<pending, cur, dispVars, workerVars, poolVars, hpc, href>> /\ cpc = "queue" /\ cpc' = "next"
        /\ hch' = Append(hch, held) /\ held' = NoPacket
    BY <1>2 DEF QueueHash
  <2>2. /\ DOMAIN hch' = 1 .. Len(hch) + 1 /\ DOMAIN hch = 1 .. Len(hch) /\ Len(hch) \in Nat
        /\ hch'[Len(hch) + 1] = held /\ \A j \in DOMAIN hch : hch'[j] = hch[j]
    BY <2>1 DEF TypeOK, HashTypeOK
  <2>3. \A b : b \in HasherHas' <=> (\E j \in DOMAIN hch' : b \in BlkOf(hch'[j])) \/ (hpc = "use" /\ b \in BlkOf(href))
    <3>. DEFINE Queued == UNION {BlkOf(hch'[j]) : j \in DOMAIN hch'}
    <3>1. \A b : b \in Queued <=> \E j \in DOMAIN hch' : b \in BlkOf(hch'[j])
      BY Zenon
    <3>2. HasherHas' = Queued \cup (IF hpc = "use" THEN BlkOf(href) ELSE {})
      BY <2>1 DEF HasherHas
    <3>. HIDE DEF Queued
    <3>3. \A b : b \in HasherHas' <=> b \in Queued \/ (hpc = "use" /\ b \in BlkOf(href))
      BY <3>2
    <3>. QED  BY <3>1, <3>3
  <2>4. \A b : (\E j \in DOMAIN hch' : b \in BlkOf(hch'[j])) <=>
               (\E j \in DOMAIN hch : b \in BlkOf(hch[j])) \/ b \in BlkOf(held)
    <3>1. \A j \in DOMAIN hch' : j \in DOMAIN hch \/ j = Len(hch) + 1
      BY <2>2
    <3>2. Len(hch) + 1 \in DOMAIN hch' /\ \A j \in DOMAIN hch : j \in DOMAIN hch'
      BY <2>2
    <3>. QED  BY <2>2, <3>1, <3>2
  <2>5. HasherHas' = HasherHas \cup BlkOf(held)
    BY <2>3, <2>4, HasherBlk
  <2>6. BlkOf(held)' = {} /\ CurHas' = CurHas
    BY <2>1, NoBlock
  <2>7. Out' = Out
    BY <2>1, <2>5, <2>6 DEF Out, dispVars
  <2>. QED  BY <2>1, <2>7, HeldSame
<1>3. CASE TakePending
  <2>1. PICK p \in Due : Take(p) /\ pending' = pending \ {p}
    BY <1>3 DEF TakePending
  <2>2. cpc = "next" /\ cpc' # "got" /\ p \in pending
    BY <1>3, <2>1 DEF TakePending, Take, Due
  <2>3. \A b : b \in PendingHas' <=> \E q \in pending' : b \in BlkOf(q)
    BY Zenon DEF PendingHas
  <2>4. PendingHas = PendingHas' \cup BlkOf(p)
    BY <2>1, <2>2, <2>3, PendingBlk
  <2>5. CurHas = {} /\ CurHas' = {}
    BY <2>2 DEF CurHas
  <2>. QED  BY <1>3, <2>1, <2>2, <2>4, <2>5, HeldTake DEF TakePending
<1>4. CASE TakeReceived
  <2>1. cpc = "got" /\ cpc' # "got" /\ Take(cur)
    BY <1>4 DEF TakeReceived, Take
  <2>2. PendingHas' = PendingHas /\ CurHas = BlkOf(cur) /\ CurHas' = {}
    BY <1>4, <2>1 DEF TakeReceived, CurHas
  <2>. QED  BY <1>4, <2>1, <2>2, HeldTake DEF TakeReceived
<1>5. CASE KeepReceived
  <2>1. cpc = "got" /\ cpc' = "recv" /\ pending' = pending \cup {cur} /\ UNCHANGED <<held, dispVars, workerVars, hashVars, poolVars>>
    BY <1>5 DEF KeepReceived
  <2>2. \A b : b \in PendingHas' <=> \E q \in pending' : b \in BlkOf(q)
    BY Zenon DEF PendingHas
  <2>3. PendingHas' = PendingHas \cup BlkOf(cur)
    BY <2>1, <2>2, PendingBlk
  <2>4. CurHas = BlkOf(cur) /\ CurHas' = {}
    BY <2>1 DEF CurHas
  <2>5. Out' = Out
    BY <2>1, <2>3, <2>4 DEF Out, dispVars
  <2>. QED  BY <2>1, <2>5, HeldSame
<1>6. CASE Close \/ NonePending \/ CheckSum \/ JoinTasks \/ InClosed \/ JoinHash
  <2>1. UNCHANGED <<held, pending, dispVars, workerVars, hashVars, poolVars>> /\ cpc # "got" /\ cpc' # "got"
    BY <1>6 DEF Close, NonePending, CheckSum, JoinTasks, InClosed, JoinHash
  <2>2. Out' = Out
    BY <2>1 DEF Out, dispVars
  <2>. QED  BY <2>1, <2>2, HeldSame
<1>7. CASE Drained
  <2>1. /\ UNCHANGED <<held, dispVars, workerVars, hashVars>> /\ cpc = "drainout" /\ cpc' # "got"
        /\ Return(PendingHas) /\ pending' = {}
    BY <1>7 DEF Drained, PendingHas
  <2>2. \A b : b \in PendingHas' <=> \E q \in pending' : b \in BlkOf(q)
    BY Zenon DEF PendingHas
  <2>3. PendingHas' = {} /\ CurHas' = {} /\ CurHas = {}
    BY <2>1, <2>2 DEF CurHas
  <2>4. \A b \in PendingHas : b \notin DispatchHas \cup TasksHave \cup BlkOf(held) \cup HasherHas
    BY Separate
  <2>5. Out' = Out \ PendingHas /\ PendingHas \subseteq Out
    BY <2>1, <2>3, <2>4 DEF Out, dispVars
  <2>. QED  BY <2>1, <2>5, HeldReturn
<1>8. CASE ReturnHeld
  <2>1. /\ UNCHANGED <<cpc, cur, pending, dispVars, workerVars, hashVars>> /\ Return(BlkOf(held))
        /\ BlkOf(held)' = {}
    BY <1>8, NoBlock DEF ReturnHeld
  <2>2. \A b \in BlkOf(held) : b \notin DispatchHas \cup TasksHave \cup PendingHas \cup CurHas \cup HasherHas
    BY Separate
  <2>3. Out' = Out \ BlkOf(held) /\ BlkOf(held) \subseteq Out
    BY <2>1, <2>2 DEF Out, dispVars
  <2>. QED  BY <2>1, <2>3, HeldReturn
<1>. QED  BY <1>1, <1>2, <1>3, <1>4, <1>5, <1>6, <1>7, <1>8 DEF Call, CallerStep

LEMMA HeldInit == Init => Held /\ Counted
<1>. SUFFICES ASSUME Init  PROVE Held /\ Counted
  OBVIOUS
<1>1. /\ live = {} /\ cntBorrowed = 0 /\ pending = {} /\ dpc = "sem" /\ cpc = "idle" /\ hch = <<>> /\ hpc # "use"
      /\ BlkOf(held) = {} /\ \A w \in Workers : wpc[w] = "queued"
  BY NoBlock DEF Init
<1>2. \A w \in Workers : TaskBlk(w) = {}
  BY <1>1 DEF TaskBlk
<1>3. TasksHave = {}
  BY <1>2 DEF TasksHave
<1>4. PendingHas = {} /\ DispatchHas = {} /\ CurHas = {}
  BY <1>1 DEF PendingHas, DispatchHas, CurHas
<1>5. HasherHas = {}
  BY <1>1, HasherBlk
<1>. QED  BY <1>1, <1>3, <1>4, <1>5, FS_EmptySet DEF Held, Out, Counted

LEMMA HeldStep == HeldInvs /\ [Next]_vars => Held' /\ Counted'
<1>1. HeldInvs /\ UNCHANGED vars => Held' /\ Counted'
  <2>. SUFFICES ASSUME HeldInvs, UNCHANGED vars  PROVE Held' /\ Counted'
    OBVIOUS
  <2>1. Out' = Out /\ UNCHANGED poolVars
    BY Parts DEF vars, Out, callerVars, dispVars
  <2>. QED  BY <2>1, HeldSame DEF HeldInvs
<1>. QED  BY <1>1, HeldDispatch, HeldTask, HeldHasher, HeldCaller DEF Next, Meet

-----------------------------------------------------------------------------
(* Theorems                                                                *)

LEMMA TypeInit == Init => TypeOK
<1>. SUFFICES ASSUME Init  PROVE TypeOK
  OBVIOUS
<1>1. NoPacket \in Packet
  BY DEF NoPacket, Packet, EndsOf
<1>2. CallerTypeOK /\ TaskTypeOK /\ HashTypeOK /\ PoolTypeOK
  BY <1>1 DEF Init, CallerTypeOK, TaskTypeOK, HashTypeOK, PoolTypeOK
<1>3. DispatchTypeOK
  BY NPendingAssumption DEF Init, DispatchTypeOK
<1>. QED  BY <1>2, <1>3 DEF TypeOK

LEMMA TypeStep ==
  ASSUME TypeOK, FrameRead, IsFiniteSet(pending), [Next]_vars
  PROVE  TypeOK' /\ FrameRead'
<1>1. UNCHANGED <<packets, dpc, chClosed>> => FrameRead'
  BY DEF FrameRead, Ended, Closed
<1>2. CASE Call \/ CallerStep
  <2>1. UNCHANGED <<packets, dpc>> /\ chClosed \subseteq chClosed'
    BY <1>2 DEF Call, CallerStep, NextBlock, Close, QueueHash, TakePending, NonePending, TakeReceived, KeepReceived,
       CheckSum, JoinTasks, InClosed, Drained, JoinHash, ReturnHeld, Take, dispVars
  <2>2. FrameRead'
    BY <2>1 DEF FrameRead, Ended, Closed
  <2>. QED  BY <1>2, <2>2, TypeCaller
<1>3. ASSUME NEW w \in Workers, Task(w)  PROVE TypeOK' /\ FrameRead'
  BY <1>1, <1>3, TypeTask DEF Task, TaskStarts, Decompress, SendOutAborts, TaskExits, dispVars
<1>4. CASE Hasher
  BY <1>1, <1>4, TypeHasher DEF Hasher, HashTakes, HashUses, HashExits, dispVars
<1>5. CASE UNCHANGED vars
  BY <1>1, <1>5, Frames DEF vars, dispVars, TypeOK
<1>. QED  BY <1>2, <1>3, <1>4, <1>5, TypeDispatch, TypeMeet DEF Next

LEMMA PhaseStep ==
  ASSUME TypeOK, FrameRead, ChannelPhase, CallPhase, InTransit, [Next]_vars
  PROVE  ChannelPhase' /\ CallPhase'
<1>1. CASE UNCHANGED vars
  BY <1>1 DEF ChannelPhase, CallPhase, Closed, Done, TasksDone, Genuine, vars, callerVars, dispVars, workerVars, hashVars
<1>. QED  BY <1>1, PhaseDispatch, PhaseMeet, PhaseTask, PhaseHasher, PhaseCaller DEF Next

LEMMA HeldInvsStep == HeldInvs /\ [Next]_vars => HeldInvs'
<1>. SUFFICES ASSUME HeldInvs, [Next]_vars  PROVE HeldInvs'
  OBVIOUS
<1>1. TypeOK' /\ FrameRead'
  BY TypeStep DEF HeldInvs, CarrierInv, NoneMissing
<1>2. ChannelPhase' /\ CallPhase'
  BY PhaseStep DEF HeldInvs, CarrierInv
<1>3. CarrierInv'
  BY CarrierStep DEF HeldInvs
<1>4. HashOrder'
  BY HashOrderStep DEF HeldInvs, CarrierInv
<1>5. Held' /\ Counted'
  BY HeldStep
<1>. QED  BY <1>1, <1>2, <1>3, <1>4, <1>5 DEF HeldInvs

LEMMA HeldInvsInit == Init => HeldInvs
BY TypeInit, PhaseInit, CarrierInit, HashOrderInit, HeldInit DEF HeldInvs

LEMMA HeldInvsHold == Spec => []HeldInvs
BY HeldInvsInit, HeldInvsStep, PTL DEF Spec

LEMMA NoneLost == HeldInvs => NothingLost
<1>. SUFFICES ASSUME HeldInvs  PROVE NothingLost
  OBVIOUS
<1>. USE PassedIs DEF HeldInvs
<1>1. SUFFICES ASSUME ~Closed("fin")
               PROVE  /\ InFlight = nextIdx .. (Len(packets) - 1)
                      /\ sem = Cardinality(InFlight) + (IF dpc = "read" THEN 1 ELSE 0)
                      /\ \A p \in pending : Genuine(p)
  BY DEF NothingLost
<1>2. \A i : Carried(i) => i \in nextIdx .. Passed - 1
  BY DEF CarrierInv, InTransit, Awaited, Carried, Busy
<1>3. \A i \in nextIdx .. Passed - 1 : Carried(i)
  BY <1>1 DEF CarrierInv, NoneMissing
<1>4. \A i : i \in InFlight <=> Carried(i) \/ (AtDispatch /\ i = curIdx)
  BY DEF InFlight, Carried, AtDispatch
<1>5. nextIdx <= Passed
  BY DEF CarrierInv, InTransit
<1>6. InFlight = nextIdx .. (Len(packets) - 1)
  <2>1. CASE AtDispatch
    <3>1. \A i : i \in InFlight <=> i \in nextIdx .. Passed - 1 \/ i = Passed
      BY <1>2, <1>3, <1>4, <2>1
    <3>2. \A i : i \in nextIdx .. (Len(packets) - 1) <=> i \in nextIdx .. Passed - 1 \/ i = Passed
      BY <1>5, <2>1
    <3>. QED  BY <3>1, <3>2
  <2>2. CASE ~AtDispatch
    BY <1>2, <1>3, <1>4, <2>2
  <2>. QED  BY <2>1, <2>2
<1>7. Cardinality(InFlight) = Len(packets) - nextIdx
  <2>1. Cardinality(nextIdx .. (Len(packets) - 1)) =
          IF nextIdx > Len(packets) - 1 THEN 0 ELSE (Len(packets) - 1) - nextIdx + 1
    <3>1. Len(packets) - 1 \in Int /\ nextIdx \in Int
      OBVIOUS
    <3>. HIDE DEF HeldInvs
    <3>. QED  BY <3>1, FS_Interval, Zenon
  <2>. QED  BY <1>5, <1>6, <2>1
<1>. QED  BY <1>6, <1>7 DEF CarrierInv, NoneMissing, InTransit, Awaited

LEMMA NoneUsed == HeldInvs => NoUseAfterReturn
<1>. SUFFICES ASSUME HeldInvs  PROVE NoUseAfterReturn
  OBVIOUS
<1>. USE DEF HeldInvs, Held
<1>0. /\ DispatchHas \subseteq live /\ TasksHave \subseteq live /\ PendingHas \subseteq live
      /\ CurHas \subseteq live /\ BlkOf(held) \subseteq live /\ HasherHas \subseteq live
  BY DEF Out
<1>1. \A w \in Workers : TaskBlk(w) \subseteq live
  BY <1>0 DEF TasksHave
<1>2. \A w \in Workers : wpc[w] = "work" => Src(wblk[w].idx) \in live
  BY <1>1 DEF TaskBlk
<1>3. \A w \in Busy : wblk[w].st # "corrupt" => BlkOf(wblk[w]) \subseteq live
  <2>1. ASSUME NEW w \in Busy, wblk[w].st # "corrupt"  PROVE BlkOf(wblk[w]) \subseteq live
    <3>1. CASE wpc[w] = "work"
      <4>1. wblk[w].st = "packed"
        BY <2>1, <3>1 DEF Busy, CarrierInv, InTransit
      <4>. QED  BY <1>2, <3>1, <4>1, BlkIs DEF Busy
    <3>2. CASE wpc[w] = "send"
      BY <1>1, <3>2 DEF TaskBlk, Busy
    <3>. QED  BY <3>1, <3>2 DEF Busy
  <2>. QED  BY <2>1
<1>4. \A p \in pending : BlkOf(p) \subseteq live
  BY <1>0, PendingBlk
<1>5. (\A i \in DOMAIN hch : BlkOf(hch[i]) \subseteq live) /\ (hpc = "use" => BlkOf(href) \subseteq live)
  BY <1>0, HasherBlk
<1>6. (cpc = "got" => BlkOf(cur) \subseteq live) /\ (dpc = "send" => Src(curIdx) \in live)
  BY <1>0 DEF CurHas, DispatchHas
<1>. QED  BY <1>0, <1>2, <1>3, <1>4, <1>5, <1>6 DEF NoUseAfterReturn

LEMMA Balanced == HeldInvs => PoolBalanced
<1>. SUFFICES ASSUME HeldInvs  PROVE PoolBalanced
  OBVIOUS
<1>. USE DEF HeldInvs
<1>1. ASSUME Done  PROVE live = BlkOf(held) /\ NobodyLeft
  <2>1. (\A w \in Workers : wpc[w] = "exit") /\ pending = {} /\ dpc \in {"err", "exit"} /\ cpc = "idle"
    BY <1>1 DEF ChannelPhase, TasksDone, Done
  <2>2. hpc = "exit" /\ hch = <<>>
    <3>1. hasher => Closed("hash")
      BY <1>1 DEF ChannelPhase
    <3>2. hpc = "exit"
      BY <1>1, <2>1, <3>1 DEF ChannelPhase
    <3>. QED  BY <3>2 DEF ChannelPhase
  <2>3. \A w \in Workers : TaskBlk(w) = {}
    BY <2>1 DEF TaskBlk
  <2>4. TasksHave = {} /\ PendingHas = {} /\ CurHas = {} /\ DispatchHas = {}
    BY <2>1, <2>3 DEF TasksHave, PendingHas, CurHas, DispatchHas
  <2>5. HasherHas = {}
    BY <2>2, HasherBlk
  <2>. QED  BY <2>1, <2>2, <2>4, <2>5 DEF Held, Out, NobodyLeft
<1>. QED  BY <1>1 DEF PoolBalanced, Counted

\* The frame arrives whole: dispatch, the tasks, the pending map and NextBlock
\* lose, repeat and swap no block, and as many tokens are out as blocks
\* are read ahead (reader.go), for any number of tasks and tokens.
THEOREM FrameArrivesWhole == Spec => []NothingLost
BY HeldInvsHold, NoneLost, PTL

\* No task, no hasher and no caller uses a block of the pool that was returned
\* (reader.go, hash.go), whenever Close is called.
THEOREM NothingUsedAfterReturn == Spec => []NoUseAfterReturn
BY HeldInvsHold, NoneUsed, PTL

\* Every block is borrowed and returned once, and when Close has returned only
\* the block of the caller is out and every goroutine but dispatch is gone.
THEOREM PoolKept == Spec => []PoolBalanced
BY HeldInvsHold, Balanced, PTL

-----------------------------------------------------------------------------
(* Numbered bytes *)

LEMMA RunIs ==
  ASSUME NEW lo \in Int, NEW hi \in Int, lo <= hi + 1
  PROVE  /\ S!Run(lo, hi) \in Seq(Int) /\ Len(S!Run(lo, hi)) = hi - lo + 1
         /\ \A i \in 1 .. hi - lo + 1 : S!Run(lo, hi)[i] = lo + i - 1
<1>. DEFINE n == hi - lo + 1
<1>1. n \in Nat
  OBVIOUS
<1>2. S!Run(lo, hi) = [i \in 1 .. n |-> lo + i - 1]
  BY DEF S!Run
<1>3. \A i \in 1 .. n : lo + i - 1 \in Int
  OBVIOUS
<1>. HIDE DEF n
<1>4. [i \in 1 .. n |-> lo + i - 1] \in Seq(Int) /\ Len([i \in 1 .. n |-> lo + i - 1]) = n
  BY <1>1, <1>3
<1>5. \A i \in 1 .. n : [j \in 1 .. n |-> lo + j - 1][i] = lo + i - 1
  OBVIOUS
<1>. QED  BY <1>2, <1>4, <1>5 DEF n

LEMMA SameSeq ==
  ASSUME NEW s \in Seq(Int), NEW t \in Seq(Int), Len(s) = Len(t), \A i \in 1 .. Len(s) : s[i] = t[i]
  PROVE  s = t
OBVIOUS

\* The last bytes of a run are a run, and two runs make one.
LEMMA TailRun ==
  ASSUME NEW lo \in Int, NEW hi \in Int, NEW n \in Nat, n <= hi - lo + 1
  PROVE  S!Tail64(S!Run(lo, hi), n) = S!Run(hi - n + 1, hi)
<1>. DEFINE s == S!Run(lo, hi)
            t == S!Tail64(s, n)
            r == S!Run(hi - n + 1, hi)
<1>1. /\ s \in Seq(Int) /\ Len(s) = hi - lo + 1 /\ \A i \in 1 .. Len(s) : s[i] = lo + i - 1
  BY RunIs, SMTT(30)
<1>2. r \in Seq(Int) /\ Len(r) = n /\ \A i \in 1 .. n : r[i] = hi - n + 1 + i - 1
  <2>1. hi - n + 1 \in Int /\ hi - n + 1 <= hi + 1 /\ hi - (hi - n + 1) + 1 = n
    OBVIOUS
  <2>. QED  BY <2>1, RunIs
<1>. HIDE DEF s, r
<1>3. t = SubSeq(s, Len(s) - n + 1, Len(s))
  BY DEF S!Tail64
<1>4. t \in Seq(Int) /\ Len(t) = n /\ \A i \in 1 .. n : t[i] = s[Len(s) - n + i]
  BY <1>1, <1>3
<1>. HIDE DEF t
<1>5. ASSUME NEW i \in 1 .. n
      PROVE  t[i] = r[i]
  <2>. DEFINE k == Len(s) - n + i
  <2>1. k \in 1 .. Len(s) /\ lo + k - 1 = hi - n + 1 + i - 1
    BY <1>1
  <2>2. t[i] = s[k] /\ r[i] = hi - n + 1 + i - 1
    BY <1>2, <1>4
  <2>. HIDE DEF k
  <2>3. s[k] = lo + k - 1
    BY <1>1, <2>1
  <2>. QED  BY <2>1, <2>2, <2>3
<1>6. t = r
  BY <1>2, <1>4, <1>5, SameSeq
<1>. QED  BY <1>6 DEF t, s, r

LEMMA JoinRuns ==
  ASSUME NEW lo \in Int, NEW mid \in Int, NEW hi \in Int, lo <= mid + 1, mid <= hi
  PROVE  S!Run(lo, mid) \o S!Run(mid + 1, hi) = S!Run(lo, hi)
<1>. DEFINE s == S!Run(lo, mid)
            t == S!Run(mid + 1, hi)
            r == S!Run(lo, hi)
<1>1. s \in Seq(Int) /\ Len(s) = mid - lo + 1 /\ \A i \in 1 .. Len(s) : s[i] = lo + i - 1
  BY RunIs
<1>2. t \in Seq(Int) /\ Len(t) = hi - mid /\ \A i \in 1 .. Len(t) : t[i] = mid + i
  <2>1. mid + 1 \in Int /\ mid + 1 <= hi + 1
    OBVIOUS
  <2>2. /\ t \in Seq(Int) /\ Len(t) = hi - (mid + 1) + 1
        /\ \A i \in 1 .. hi - (mid + 1) + 1 : t[i] = mid + 1 + i - 1
    BY <2>1, RunIs
  <2>. HIDE DEF t
  <2>. QED  BY <2>2
<1>3. r \in Seq(Int) /\ Len(r) = hi - lo + 1 /\ \A i \in 1 .. Len(r) : r[i] = lo + i - 1
  BY RunIs
<1>. HIDE DEF s, t, r
<1>4. s \o t \in Seq(Int) /\ Len(s \o t) = Len(r)
  BY <1>1, <1>2, <1>3
<1>5. \A i \in 1 .. Len(r) : (s \o t)[i] = IF i <= Len(s) THEN s[i] ELSE t[i - Len(s)]
  BY <1>1, <1>2, <1>3, SMTT(30)
<1>6. ASSUME NEW i \in 1 .. Len(r)
      PROVE  (s \o t)[i] = r[i]
  <2>1. CASE i <= Len(s)
    <3>1. i \in 1 .. Len(s)
      BY <1>1, <1>3, <2>1
    <3>2. (s \o t)[i] = s[i]
      BY <1>5, <2>1
    <3>. QED  BY <1>1, <1>3, <3>1, <3>2
  <2>2. CASE ~(i <= Len(s))
    <3>. DEFINE k == i - Len(s)
    <3>1. k \in 1 .. Len(t) /\ mid + k = lo + i - 1
      BY <1>1, <1>2, <1>3, <2>2
    <3>2. (s \o t)[i] = t[k]
      BY <1>5, <2>2
    <3>. HIDE DEF k
    <3>3. t[k] = mid + k
      BY <1>2, <3>1
    <3>4. r[i] = lo + i - 1
      BY <1>3
    <3>. QED  BY <3>1, <3>2, <3>3, <3>4
  <2>. QED  BY <2>1, <2>2
<1>7. s \o t = r
  BY <1>3, <1>4, <1>6, SameSeq
<1>. QED  BY <1>7 DEF s, t, r
-----------------------------------------------------------------------------
(* The dictionary of a linked frame                                        *)

LEMMA DictIs ==
  ASSUME NEW f \in Int, NEW c \in Int, f <= c + 1
  PROVE  /\ c - f + 1 <= lz4DictSz => S!dupeDict(S!Run(f, c)) = S!Run(f, c)
         /\ c - f + 1 > lz4DictSz => S!dupeDict(S!Run(f, c)) = S!Run(c - lz4DictSz + 1, c)
<1>. DEFINE r == S!Run(f, c)
<1>1. Len(r) = c - f + 1 /\ lz4DictSz \in Nat
  BY RunIs, DictAssumption
<1>2. lz4DictSz <= c - f + 1 => S!Tail64(r, lz4DictSz) = S!Run(c - lz4DictSz + 1, c)
  BY <1>1, TailRun
<1>3. S!dupeDict(r) = IF Len(r) <= lz4DictSz THEN r ELSE S!Tail64(r, lz4DictSz)
  BY DEF S!dupeDict
<1>. HIDE DEF r
<1>4. /\ c - f + 1 <= lz4DictSz => S!dupeDict(r) = r
      /\ c - f + 1 > lz4DictSz => S!dupeDict(r) = S!Run(c - lz4DictSz + 1, c)
  BY <1>1, <1>2, <1>3
<1>. QED  BY <1>4 DEF r

\* The update of a dictionary that is right by the bytes of the next block, in
\* each of its three cases, makes the one that is right for the block after it.
LEMMA DictMovesOn ==
  ASSUME NEW f \in Int, f <= 1, NEW c \in Nat, NEW n \in Nat
  PROVE  S!Update(S!dupeDict(S!Run(f, c)), S!Run(c + 1, c + n)) = S!dupeDict(S!Run(f, c + n))
<1>. DEFINE z == lz4DictSz
            d == S!dupeDict(S!Run(f, c))
            b == S!Run(c + 1, c + n)
            lo == IF c - f + 1 <= z THEN f ELSE c - z + 1
<1>0. z \in Nat
  BY DictAssumption
<1>1. Len(b) = n
  <2>. DEFINE e == c + n
              g == c + 1
  <2>1. e \in Int /\ g \in Int /\ g <= e + 1 /\ e - g + 1 = n
    OBVIOUS
  <2>. HIDE DEF e, g
  <2>2. Len(S!Run(g, e)) = e - g + 1
    BY <2>1, RunIs
  <2>. QED  BY <2>1, <2>2 DEF e, g
<1>2. lo \in Int /\ lo <= c + 1 /\ (c - f + 1 <= z => lo = f) /\ (c - f + 1 > z => lo = c - z + 1)
  BY <1>0
<1>3. d = S!Run(lo, c)
  BY <1>0, DictIs
<1>4. /\ (c + n) - f + 1 <= z => S!dupeDict(S!Run(f, c + n)) = S!Run(f, c + n)
      /\ (c + n) - f + 1 > z => S!dupeDict(S!Run(f, c + n)) = S!Run((c + n) - z + 1, c + n)
  <2>. DEFINE e == c + n
  <2>1. e \in Int /\ f <= e + 1
    OBVIOUS
  <2>. HIDE DEF e
  <2>2. /\ e - f + 1 <= z => S!dupeDict(S!Run(f, e)) = S!Run(f, e)
        /\ e - f + 1 > z => S!dupeDict(S!Run(f, e)) = S!Run(e - z + 1, e)
    BY <2>1, DictIs
  <2>. QED  BY <2>2 DEF e
<1>5. S!Update(d, b) = IF Len(b) >= z THEN S!Tail64(b, z)
                       ELSE IF Len(d) + Len(b) > z THEN S!Tail64(d, z - Len(b)) \o b
                       ELSE d \o b
  BY DEF S!Update
<1>. HIDE DEF d, b, lo
<1>6. Len(d) = c - lo + 1
  <2>1. Len(S!Run(lo, c)) = c - lo + 1
    BY <1>2, RunIs
  <2>. QED  BY <1>3, <2>1
<1>. HIDE DEF z
<1>7. CASE n >= z
  <2>1. S!Update(d, b) = S!Tail64(b, z)
    BY <1>1, <1>5, <1>7
  <2>2. S!Tail64(b, z) = S!Run((c + n) - z + 1, c + n)
    <3>1. c + 1 \in Int /\ c + n \in Int /\ z <= c + n - (c + 1) + 1
      BY <1>0, <1>7
    <3>. QED  BY <1>0, <3>1, TailRun DEF b
  <2>3. S!dupeDict(S!Run(f, c + n)) = S!Run((c + n) - z + 1, c + n)
    <3>1. CASE (c + n) - f + 1 <= z
      <4>1. f = (c + n) - z + 1
        BY <1>0, <1>7, <3>1
      <4>. QED  BY <1>4, <3>1, <4>1
    <3>2. CASE ~((c + n) - f + 1 <= z)
      BY <1>0, <1>4, <3>2
    <3>. QED  BY <3>1, <3>2
  <2>. QED  BY <2>1, <2>2, <2>3 DEF d, b
<1>8. CASE n < z /\ Len(d) + n > z
  <2>. DEFINE m == c - (z - n) + 1
  <2>1. S!Update(d, b) = S!Tail64(d, z - n) \o b
    BY <1>0, <1>1, <1>5, <1>8
  <2>2. z - n \in Nat /\ z - n <= c - lo + 1
    BY <1>0, <1>6, <1>8
  <2>3. S!Tail64(d, z - n) = S!Run(m, c)
    BY <1>2, <1>3, <2>2, TailRun
  <2>4. m \in Int /\ m <= c + 1 /\ c <= c + n /\ m = (c + n) - z + 1
    BY <1>0, <1>8
  <2>. HIDE DEF m
  <2>5. S!Run(m, c) \o b = S!Run(m, c + n)
    BY <2>4, JoinRuns, SMTT(30) DEF b
  <2>6. (c + n) - f + 1 > z
    BY <1>0, <1>2, <1>6, <1>8
  <2>. QED  BY <1>4, <2>1, <2>3, <2>4, <2>5, <2>6 DEF d, b
<1>9. CASE n < z /\ Len(d) + n <= z
  <2>1. S!Update(d, b) = d \o b
    BY <1>0, <1>1, <1>5, <1>6, <1>9, <1>2
  <2>2. S!Run(lo, c) \o b = S!Run(lo, c + n)
    <3>1. c <= c + n
      OBVIOUS
    <3>. QED  BY <1>2, <3>1, JoinRuns DEF b
  <2>3. S!dupeDict(S!Run(f, c + n)) = S!Run(lo, c + n)
    <3>1. CASE (c + n) - f + 1 <= z
      BY <1>0, <1>2, <1>4, <3>1
    <3>2. CASE ~((c + n) - f + 1 <= z)
      <4>1. lo = (c + n) - z + 1
        BY <1>0, <1>2, <1>6, <1>9, <3>2
      <4>. QED  BY <1>4, <4>1, <3>2, <1>0
    <3>. QED  BY <3>1, <3>2
  <2>. QED  BY <1>3, <2>1, <2>2, <2>3 DEF d, b
<1>. QED  BY <1>0, <1>2, <1>6, <1>7, <1>8, <1>9

-----------------------------------------------------------------------------
(* The serial reader                                                       *)

LEMMA SerialInit ==
  ASSUME S!Init
  PROVE  S!InFrame /\ S!OneOut /\ S!DictFollows
<1>1. S!InFrame
  <2>1. Len(sPackets) = 0 /\ sPackets \in Seq(S!Kinds \cup S!EndsOf)
    BY DEF S!Init
  <2>2. /\ sPc = "idle" /\ sTaken = 0 /\ sHeld = S!NoBlk /\ sHsum = 0 /\ sErr = "none"
        /\ sClosed = FALSE /\ hasher \in BOOLEAN
    BY DEF S!Init
  <2>3. \A i \in 1 .. sTaken : sPackets[i] \in {"raw", "packed"}
    BY <2>2
  <2>4. ~sClosed /\ sClosed \in BOOLEAN /\ sHsum = (IF sHeld = S!NoBlk /\ sErr = "none" THEN sTaken ELSE sTaken - 1)
    BY <2>2
  <2>5. sPc = "idle" /\ sErr = "none" /\ sTaken \in Nat /\ Len(sPackets) = sTaken + 0
    BY <2>1, <2>2
  <2>. QED  BY <2>1, <2>2, <2>3, <2>4, <2>5 DEF S!InFrame
<1>2. S!OneOut
  BY DEF S!Init, S!OneOut
<1>3. S!DictFollows
  <2>1. PICK n \in DictSizes : sFirst = 1 - n
    BY DEF S!Init
  <2>2. n \in Nat /\ sFirst \in Int /\ sFirst <= 1
    BY <2>1, DictAssumption
  <2>. QED  BY <2>2 DEF S!Init, S!DictFollows
<1>. QED  BY <1>1, <1>2, <1>3

LEMMA SerialStep ==
  ASSUME S!InFrame, S!OneOut, S!Next
  PROVE  S!InFrame' /\ S!OneOut'
<1>. USE DEF S!NoBlk, S!Src, S!Dst, S!Kinds, S!EndsOf, S!last, S!frame
<1>1. CASE S!NextBlock
  BY <1>1 DEF S!NextBlock, S!HashPrev, S!InFrame, S!OneOut
<1>2. CASE S!ReadFrame
  <2>. DEFINE n == Len(sPackets')
  <2>1. PICK k \in S!Kinds \cup S!EndsOf :
          /\ sPackets' = Append(sPackets, k)
          /\ IF k \in S!Kinds THEN sLive' = sLive \cup {S!Src(n)} ELSE sLive' = sLive
    <3>1. CASE \E k \in S!Kinds : sPackets' = Append(sPackets, k) /\ sLive' = sLive \cup {S!Src(n)}
      BY <3>1
    <3>2. CASE \E k \in S!EndsOf : sPackets' = Append(sPackets, k) /\ sLive' = sLive
      BY <3>2
    <3>. QED  BY <1>2, <3>1, <3>2 DEF S!ReadFrame
  <2>2. /\ sPc = "read" /\ sPc' = "decide"
        /\ UNCHANGED <<sTaken, sHeld, sHsum, sErr, sClosed, hasher>>
    BY <1>2 DEF S!ReadFrame
  <2>3. /\ sPackets \in Seq(S!Kinds \cup S!EndsOf) /\ sTaken \in Nat /\ Len(sPackets) = sTaken
        /\ sErr = "none" /\ ~sClosed /\ sHeld = S!NoBlk
    BY <2>2 DEF S!InFrame
  <2>4. /\ sPackets' \in Seq(S!Kinds \cup S!EndsOf) /\ n = sTaken + 1 /\ sPackets'[n] = k
        /\ \A i \in 1 .. sTaken : sPackets'[i] = sPackets[i]
    BY <2>1, <2>3
  <2>. HIDE DEF n
  <2>5. S!InFrame'
    BY <2>2, <2>3, <2>4 DEF S!InFrame, n
  <2>6. sLive = {}
    BY <2>2, <2>3 DEF S!OneOut
  <2>7. S!OneOut'
    BY <2>1, <2>2, <2>4, <2>6 DEF S!OneOut, n
  <2>. QED  BY <2>5, <2>7
<1>3. CASE S!ReturnEnd
  BY <1>3 DEF S!ReturnEnd, S!Answer, S!SumMatches, S!InFrame, S!OneOut
<1>4. CASE S!ReturnFailed
  BY <1>4 DEF S!ReturnFailed, S!Answer, S!InFrame, S!OneOut
<1>5. CASE S!ReturnRaw
  BY <1>5 DEF S!ReturnRaw, S!Answer, S!InFrame, S!OneOut
<1>6. CASE S!ReturnDecoded
  BY <1>6 DEF S!ReturnDecoded, S!Answer, S!InFrame, S!OneOut
<1>7. CASE S!Close
  BY <1>7 DEF S!Close, S!InFrame, S!OneOut
<1>. QED  BY <1>1, <1>2, <1>3, <1>4, <1>5, <1>6, <1>7 DEF S!Next, S!CallStep
LEMMA SerialDict ==
  ASSUME S!InFrame, S!DictFollows, S!Next, RawLinked = FALSE
  PROVE  S!DictFollows'
<1>. USE DEF S!last, S!frame
<1>1. CASE S!NextBlock
  BY <1>1 DEF S!NextBlock, S!DictFollows
<1>2. CASE S!ReadFrame
  <2>1. /\ UNCHANGED <<sLinked, sFirst, sDict, sContent>>
        /\ \E k : sPackets' = Append(sPackets, k) /\ (k = "raw" => ~sLinked)
    BY <1>2 DEF S!ReadFrame, S!Kinds, S!EndsOf
  <2>2. sPackets \in Seq(S!Kinds \cup S!EndsOf)
    BY DEF S!InFrame
  <2>3. sPackets'[Len(sPackets')] = "raw" => ~sLinked
    BY <2>1, <2>2
  <2>. QED  BY <2>1, <2>3 DEF S!DictFollows
<1>3. CASE S!ReturnEnd
  BY <1>3 DEF S!ReturnEnd, S!Answer, S!DictFollows
<1>4. CASE S!ReturnFailed
  BY <1>4 DEF S!ReturnFailed, S!Answer, S!DictFollows
<1>5. CASE S!ReturnRaw
  <2>1. PICK n \in Sizes : sContent' = sContent + n
    BY <1>5 DEF S!ReturnRaw
  <2>2. n \in Nat /\ sContent \in Nat /\ sContent' \in Nat
    BY <2>1, DictAssumption DEF S!DictFollows
  <2>3. ~sLinked /\ UNCHANGED <<sLinked, sFirst, sDict>> /\ sPc' = "idle"
    BY <1>5 DEF S!ReturnRaw, S!Answer, S!DictFollows
  <2>. QED  BY <2>2, <2>3 DEF S!DictFollows
<1>6. CASE S!ReturnDecoded
  <2>1. UNCHANGED <<sLinked, sFirst>> /\ sPc' = "idle"
    BY <1>6 DEF S!ReturnDecoded, S!Answer
  <2>2. CASE UNCHANGED <<sDict, sContent>>
    BY <2>1, <2>2 DEF S!DictFollows
  <2>3. ASSUME NEW n \in Sizes, sContent' = sContent + n,
               sDict' = IF sLinked THEN S!Update(sDict, S!Run(sContent + 1, sContent')) ELSE sDict
        PROVE  S!DictFollows'
    <3>1. /\ n \in Nat /\ sContent \in Nat /\ sContent' \in Nat /\ sFirst \in Int /\ sFirst <= 1
          /\ sLinked \in BOOLEAN /\ sDict = S!dupeDict(S!Run(sFirst, IF sLinked THEN sContent ELSE 0))
      BY <2>3, DictAssumption DEF S!DictFollows
    <3>2. CASE sLinked
      <4>1. sDict' = S!Update(S!dupeDict(S!Run(sFirst, sContent)), S!Run(sContent + 1, sContent + n))
        BY <2>3, <3>1, <3>2
      <4>2. sDict' = S!dupeDict(S!Run(sFirst, sContent + n))
        BY <3>1, <4>1, DictMovesOn
      <4>. QED  BY <2>1, <2>3, <3>1, <3>2, <4>2 DEF S!DictFollows
    <3>3. CASE ~sLinked
      BY <2>1, <2>3, <3>1, <3>3 DEF S!DictFollows
    <3>. QED  BY <3>2, <3>3
  <2>. QED  BY <1>6, <2>2, <2>3 DEF S!ReturnDecoded
<1>7. CASE S!Close
  BY <1>7 DEF S!Close, S!DictFollows
<1>. QED  BY <1>1, <1>2, <1>3, <1>4, <1>5, <1>6, <1>7 DEF S!Next, S!CallStep

-----------------------------------------------------------------------------
(* Either reader                                                           *)

BlkInvs == HeldInvs /\ S!InFrame /\ S!OneOut /\ parallel \in BOOLEAN

\* A step of one reader is none of the other.
LEMMA StepOfOne ==
  ASSUME [Step]_<<parallel, vars, serialVars>>
  PROVE  /\ parallel' = parallel
         /\ [Next]_vars /\ [S!Next]_serialVars
         /\ UNCHANGED hasher
         /\ \/ parallel /\ Next /\ UNCHANGED serialVars
            \/ ~parallel /\ S!Next /\ UNCHANGED vars
            \/ UNCHANGED <<vars, serialVars>>
<1>1. Next => UNCHANGED hasher
  BY DEF Next, Call, NextBlock, Close, CallerStep, QueueHash, TakePending, NonePending, TakeReceived, KeepReceived,
         CheckSum, JoinTasks, InClosed, Drained, JoinHash, ReturnHeld, Dispatch, Acquire, AcquireAborts, ReadFrame,
         SendAborts, CloseChans, SendErrAborts, Task, TaskStarts, Decompress, SendOutAborts, TaskExits,
         Hasher, HashTakes, HashUses, HashExits, Meet, SendRaw, SendErr, DrainIn, SendIn, SendOut, hashVars
<1>2. UNCHANGED vars => UNCHANGED hasher
  BY DEF vars, hashVars
<1>. QED  BY <1>1, <1>2 DEF Step

LEMMA BlkInvsInit == MakeBlockReader => BlkInvs /\ S!DictFollows
BY HeldInvsInit, SerialInit DEF MakeBlockReader, BlkInvs

LEMMA SerialKept ==
  ASSUME UNCHANGED serialVars, UNCHANGED hasher
  PROVE  /\ S!InFrame => S!InFrame'
         /\ S!OneOut => S!OneOut'
         /\ S!DictFollows => S!DictFollows'
<1>1. S!InFrame => S!InFrame'
  BY DEF serialVars, S!InFrame
<1>2. S!OneOut => S!OneOut'
  BY DEF serialVars, S!OneOut, S!last
<1>3. S!DictFollows => S!DictFollows'
  BY DEF serialVars, S!DictFollows, S!last
<1>. QED  BY <1>1, <1>2, <1>3

LEMMA BlkInvsStep ==
  ASSUME BlkInvs, [Step]_<<parallel, vars, serialVars>>
  PROVE  /\ BlkInvs'
         /\ RawLinked = FALSE /\ S!DictFollows => S!DictFollows'
<1>1. HeldInvs'
  BY StepOfOne, HeldInvsStep DEF BlkInvs
<1>2. CASE UNCHANGED serialVars
  BY <1>1, <1>2, StepOfOne, SerialKept DEF BlkInvs
<1>3. CASE S!Next
  BY <1>1, <1>3, StepOfOne, SerialStep, SerialDict DEF BlkInvs
<1>. QED  BY <1>2, <1>3, StepOfOne

LEMMA BlkInvsHold == ReaderProcess => []BlkInvs
<1>1. BlkInvs /\ [Step]_<<parallel, vars, serialVars>> => BlkInvs'
  BY BlkInvsStep
<1>. QED  BY BlkInvsInit, <1>1, PTL DEF ReaderProcess

\* Whichever reader the options select, the blocks of the frame reach the
\* caller each once and whole, and no block of the pool is used after it was
\* returned.
THEOREM FrameReadWhole == ReaderProcess => [](NothingLost /\ NoUseAfterReturn)
<1>1. BlkInvs => NothingLost /\ NoUseAfterReturn
  BY NoneLost, NoneUsed DEF BlkInvs
<1>. QED  BY <1>1, BlkInvsHold, PTL

\* Neither reader loses a pool block, with whatever errors the frame ends and
\* whenever Close is called (reader.go:96-145, sync/reader.go:58-112).
THEOREM NoBlockLeaks == ReaderProcess => []BlocksReturned
<1>1. BlkInvs => BlocksReturned
  <2>1. S!InFrame /\ S!OneOut => S!PoolBalanced
    BY DEF S!InFrame, S!OneOut, S!PoolBalanced
  <2>. QED  BY <2>1, Balanced DEF BlkInvs, BlocksReturned
<1>. QED  BY <1>1, BlkInvsHold, PTL

\* If no block of a linked frame is uncompressed, the bytes a match may go
\* back to are those the compressor of the block had there, for every size of
\* the user's dictionary and of the blocks (dict.go, sync/reader.go:96).
THEOREM WindowFollows ==
  ASSUME RawLinked = FALSE
  PROVE  ReaderProcess => []WindowHolds
<1>1. MakeBlockReader => BlkInvs /\ S!DictFollows
  BY BlkInvsInit
<1>2. (BlkInvs /\ S!DictFollows) /\ [Step]_<<parallel, vars, serialVars>> => (BlkInvs /\ S!DictFollows)'
  BY BlkInvsStep
<1>3. BlkInvs /\ S!DictFollows => WindowHolds
  BY DEF S!DictFollows, S!WindowHolds, WindowHolds
<1>. QED  BY <1>1, <1>2, <1>3, PTL DEF ReaderProcess
-----------------------------------------------------------------------------
(* What they promise the stream reader                                     *)

Delivered == IF cpc = "sum" THEN nextIdx - 1 ELSE nextIdx
HeldPlace == IF BlkOf(held) = {} THEN 0 ELSE held.idx + 1

\* The steps of ReaderSpec, as the parallel reader takes them.
LEMMA ParallelView ==
  ASSUME parallel = TRUE, parallel' = TRUE, hasher' = hasher
  PROVE  /\ /\ UNCHANGED <<packets, Delivered, HeldPlace, err>> /\ (Done' <=> Done)
            => UNCHANGED Promise!vars
         /\ /\ ~Done /\ ~Done' /\ UNCHANGED <<Delivered, HeldPlace, err>>
            /\ \A i \in DOMAIN packets : packets[i] \notin EndsOf
            /\ Len(packets) < Delivered + NPending
            /\ \E k \in Kinds \cup EndsOf : packets' = Append(packets, k)
            => Promise!Next
         /\ /\ HeldPlace # 0 /\ HeldPlace' = 0
            /\ UNCHANGED <<packets, Delivered, err>> /\ (Done' <=> Done)
            => Promise!Next
         /\ /\ ~Done /\ ~Done' /\ err = "none" /\ HeldPlace = 0 /\ UNCHANGED packets
            /\ Delivered < Len(packets) /\ Delivered' = Delivered + 1
            /\ err' = Promise!Outcome(packets[Delivered + 1])
            /\ HeldPlace' = (IF err' = "none" THEN Delivered' ELSE 0)
            => Promise!Next
         /\ Done' /\ UNCHANGED <<packets, Delivered, HeldPlace, err>>
            => Promise!Next
<1>0. /\ Either(NPending, 1) = NPending /\ Either(packets, sPackets) = packets
      /\ Either(IF cpc = "sum" THEN nextIdx - 1 ELSE nextIdx, sTaken) = Delivered
      /\ Either(IF BlkOf(held) = {} THEN 0 ELSE held.idx + 1,
                IF sHeld = S!NoBlk THEN 0 ELSE sHeld[2]) = HeldPlace
      /\ Either(err, sErr) = err /\ Either(Done, sClosed) = Done
  BY DEF Either, Delivered, HeldPlace
<1>1. /\ Either(NPending, 1)' = NPending /\ Either(packets, sPackets)' = packets'
      /\ Either(IF cpc = "sum" THEN nextIdx - 1 ELSE nextIdx, sTaken)' = Delivered'
      /\ Either(IF BlkOf(held) = {} THEN 0 ELSE held.idx + 1,
                IF sHeld = S!NoBlk THEN 0 ELSE sHeld[2])' = HeldPlace'
      /\ Either(err, sErr)' = err' /\ Either(Done, sClosed)' = Done'
  BY DEF Either, Delivered, HeldPlace
<1>2. /\ Done \in BOOLEAN /\ Done' \in BOOLEAN
  BY DEF Done, Closed
<1>3. /\ UNCHANGED <<packets, Delivered, HeldPlace, err>> /\ (Done' <=> Done) => UNCHANGED Promise!vars
  BY <1>0, <1>1, <1>2 DEF Promise!vars
<1>4. ASSUME ~Done, ~Done', UNCHANGED <<Delivered, HeldPlace, err>>,
             \A i \in DOMAIN packets : packets[i] \notin EndsOf,
             Len(packets) < Delivered + NPending,
             \E k \in Kinds \cup EndsOf : packets' = Append(packets, k)
      PROVE  Promise!Next
  BY <1>0, <1>1, <1>2, <1>4 DEF Promise!Next, Promise!Fetch, Promise!Data, Promise!EndsOf, Kinds, EndsOf
<1>5. ASSUME HeldPlace # 0, HeldPlace' = 0, UNCHANGED <<packets, Delivered, err>>, Done' <=> Done
      PROVE  Promise!Next
  BY <1>0, <1>1, <1>2, <1>5 DEF Promise!Next, Promise!GiveBack
<1>6. ASSUME ~Done, ~Done', err = "none", HeldPlace = 0, UNCHANGED packets,
             Delivered < Len(packets), Delivered' = Delivered + 1,
             err' = Promise!Outcome(packets[Delivered + 1]),
             HeldPlace' = (IF err' = "none" THEN Delivered' ELSE 0)
      PROVE  Promise!Next
  BY <1>0, <1>1, <1>2, <1>6 DEF Promise!Next, Promise!Deliver
<1>7. ASSUME Done', UNCHANGED <<packets, Delivered, HeldPlace, err>>
      PROVE  Promise!Next
  BY <1>0, <1>1, <1>2, <1>7 DEF Promise!Next, Promise!Close
<1>. QED  BY <1>3, <1>4, <1>5, <1>6, <1>7
\* What is read, dispatch reads for Fetch.
LEMMA ParallelFetch ==
  ASSUME BlkInvs, parallel = TRUE, parallel' = TRUE, hasher' = hasher, ReadFrame
  PROVE  Promise!Next
<1>. USE PassedIs DEF BlkInvs, HeldInvs
<1>1. /\ dpc = "read" /\ UNCHANGED <<cpc, held, nextIdx, cur, err, chClosed>>
      /\ \E k \in Kinds \cup EndsOf : packets' = Append(packets, k)
  BY DEF ReadFrame, callerVars
<1>2. ~Ended /\ \A i \in DOMAIN packets : packets[i] \notin EndsOf
  <2>1. ~Ended
    BY <1>1 DEF FrameRead
  <2>2. packets \in Seq(Kinds \cup EndsOf) /\ \A i \in 1 .. Len(packets) - 1 : packets[i] \in Kinds
    BY DEF TypeOK, DispatchTypeOK, FrameRead
  <2>3. packets # <<>> => packets[Len(packets)] \notin EndsOf
    BY <2>1 DEF Ended
  <2>4. \A i \in DOMAIN packets : i \in 1 .. Len(packets) - 1 \/ (i = Len(packets) /\ packets # <<>>)
    BY <2>2
  <2>. QED  BY <2>1, <2>2, <2>3, <2>4 DEF Kinds, EndsOf
<1>3. cpc # "sum"
  <2>1. SUFFICES ASSUME cpc = "sum"  PROVE FALSE
    OBVIOUS
  <2>2. Genuine(cur) /\ cur.st \in {"end", "badsum"} /\ cur.idx = nextIdx - 1 /\ cur.idx \in Nat
    BY <2>1 DEF CallPhase, TypeOK, CallerTypeOK, Packet
  <2>3. cur.idx + 1 \in DOMAIN packets /\ packets[cur.idx + 1] \in EndsOf
    BY <2>2 DEF Genuine, EndsOf, TypeOK, DispatchTypeOK
  <2>. QED  BY <1>2, <2>3
<1>4. ~Done /\ ~Done'
  BY <1>1 DEF Done, Closed, ChannelPhase
<1>5. Len(packets) < nextIdx + NPending
  <2>1. sem <= NPending /\ NPending \in Nat
    BY NPendingAssumption DEF TypeOK, DispatchTypeOK
  <2>2. sem = Len(packets) - nextIdx + 1
    BY <1>1 DEF CarrierInv, NoneMissing
  <2>. QED  BY <2>1, <2>2
<1>6. Delivered = nextIdx /\ UNCHANGED <<Delivered, HeldPlace, err>>
  BY <1>1, <1>3 DEF Delivered, HeldPlace
<1>7. Len(packets) < Delivered + NPending
  BY <1>5, <1>6
<1>. QED  BY <1>1, <1>2, <1>4, <1>6, <1>7, ParallelView

\* The packet NextBlock takes is the next one: Deliver, or what CheckSum
\* delivers after the hasher is done.
LEMMA ParallelTake ==
  ASSUME BlkInvs, parallel = TRUE, parallel' = TRUE, hasher' = hasher,
         NEW p \in Packet, IsNext(p), Genuine(p), Take(p), cpc \in {"next", "got"}, packets' = packets
  PROVE  Promise!Next \/ UNCHANGED Promise!vars
<1>. USE DEF BlkInvs, HeldInvs
<1>1. /\ nextIdx \in Nat /\ p.idx = nextIdx /\ nextIdx < Len(packets) /\ nextIdx' = nextIdx + 1
      /\ packets[nextIdx + 1] = (IF p.st = "ok" THEN "packed" ELSE p.st)
      /\ p.st \in Kinds \cup EndsOf \cup {"ok"}
  BY DEF TypeOK, CallerTypeOK, IsNext, Genuine, Take, Packet
<1>2. ~Closed("fin") /\ err = "none" /\ BlkOf(held) = {} /\ hasher \in BOOLEAN
  BY DEF ChannelPhase, CallPhase, TypeOK, HashTypeOK
<1>3. ~Done /\ ~Done'
  BY <1>2 DEF Done, Closed, Take
<1>4. Delivered = nextIdx /\ HeldPlace = 0
  BY <1>2 DEF Delivered, HeldPlace
<1>5. CASE hasher /\ p.st \in {"end", "badsum"}
  <2>1. cpc' = "sum" /\ UNCHANGED <<held, err>>
    BY <1>5 DEF Take
  <2>2. UNCHANGED <<Delivered, HeldPlace>>
    BY <1>1, <1>4, <2>1 DEF Delivered, HeldPlace
  <2>. QED  BY <1>3, <2>1, <2>2, ParallelView
<1>6. CASE ~(hasher /\ p.st \in {"end", "badsum"})
  <2>1. cpc' = "idle" /\ IF BlkOf(p) # {} THEN held' = p /\ err' = err
                         ELSE err' = (IF p.st = "badsum" THEN "end" ELSE p.st) /\ held' = held
    BY <1>6 DEF Take
  <2>2. Delivered' = Delivered + 1
    BY <1>1, <1>4, <2>1 DEF Delivered
  <2>3. BlkOf(p) # {} <=> p.st \in {"raw", "packed", "ok"}
    BY BlkIs
  <2>4. err' = Promise!Outcome(packets[nextIdx + 1])
    BY <1>1, <1>2, <1>6, <2>1, <2>3 DEF Promise!Outcome, Either, Kinds, EndsOf
  <2>5. HeldPlace' = (IF err' = "none" THEN Delivered' ELSE 0)
    <3>1. CASE BlkOf(p) # {}
      BY <1>1, <1>2, <1>4, <2>1, <2>2, <3>1 DEF HeldPlace
    <3>2. CASE BlkOf(p) = {}
      <4>1. err' # "none" /\ BlkOf(held') = {}
        BY <1>1, <1>2, <2>1, <2>3, <3>2 DEF Kinds, EndsOf
      <4>. QED  BY <4>1 DEF HeldPlace
    <3>. QED  BY <3>1, <3>2
  <2>. QED  BY <1>1, <1>2, <1>3, <1>4, <2>2, <2>4, <2>5, ParallelView
<1>. QED  BY <1>5, <1>6

LEMMA ParallelSum ==
  ASSUME BlkInvs, parallel = TRUE, parallel' = TRUE, hasher' = hasher, CheckSum
  PROVE  Promise!Next
<1>. USE PassedIs DEF BlkInvs, HeldInvs
<1>1. /\ cpc = "sum" /\ hpc = "exit" /\ cpc' = "idle" /\ UNCHANGED <<held, nextIdx, chClosed, packets>>
      /\ err' = (IF cur.st = "end" /\ hsum = cur.idx THEN "end" ELSE "badsum")
  BY DEF CheckSum, HasherDone, dispVars
<1>2. /\ Genuine(cur) /\ cur.st \in {"end", "badsum"} /\ cur.idx = nextIdx - 1 /\ cur.idx \in Nat
      /\ hasher /\ hasher \in BOOLEAN /\ BlkOf(held) = {} /\ err = "none" /\ ~Closed("fin") /\ nextIdx \in Nat
  BY <1>1 DEF CallPhase, ChannelPhase, TypeOK, CallerTypeOK, HashTypeOK, Packet
<1>3. hsum = cur.idx
  <2>1. hch = <<>> /\ hsum \in Nat
    BY <1>1 DEF ChannelPhase, HashOrder
  <2>2. QueuedTo = hsum
    BY <1>1, <2>1 DEF QueuedTo, TakenTo
  <2>3. QueuedTo = nextIdx - 1
    BY <1>1, <1>2 DEF HashOrder
  <2>. QED  BY <1>2, <2>2, <2>3
<1>4. ~Done /\ ~Done'
  BY <1>1, <1>2 DEF Done, Closed
<1>5. Delivered = nextIdx - 1 /\ Delivered' = Delivered + 1 /\ HeldPlace = 0 /\ HeldPlace' = 0
  BY <1>1, <1>2 DEF Delivered, HeldPlace
<1>6. packets[Delivered + 1] = cur.st /\ Delivered < Len(packets)
  BY <1>2, <1>5 DEF Genuine
<1>7. err' = Promise!Outcome(packets[Delivered + 1]) /\ err' # "none"
  BY <1>1, <1>2, <1>3, <1>6 DEF Promise!Outcome, Either
<1>. QED  BY <1>1, <1>2, <1>4, <1>5, <1>6, <1>7, ParallelView

\* The rest of a call: the block of the call before is given back, and the
\* last step of Close is Close.
LEMMA ParallelCaller ==
  ASSUME BlkInvs, parallel = TRUE, parallel' = TRUE, hasher' = hasher, Call \/ CallerStep
  PROVE  Promise!Next \/ UNCHANGED Promise!vars
<1>. USE PassedIs DEF BlkInvs, HeldInvs
<1>0. held.idx \in Nat /\ BlkOf(NoPacket) = {}
  BY NoBlock DEF TypeOK, CallerTypeOK, Packet
<1>1. CASE NextBlock
  <2>1. /\ cpc = "idle" /\ ~Closed("fin") /\ cpc' \in {"queue", "next"} /\ UNCHANGED <<nextIdx, err, chClosed, packets>>
        /\ held' \in {held, NoPacket}
    BY <1>1 DEF NextBlock, dispVars
  <2>2. ~Done /\ ~Done' /\ UNCHANGED Delivered
    BY <2>1 DEF Done, Closed, Delivered
  <2>3. HeldPlace' = HeldPlace \/ (HeldPlace # 0 /\ HeldPlace' = 0)
    BY <1>0, <2>1 DEF HeldPlace
  <2>. QED  BY <2>1, <2>2, <2>3, ParallelView
<1>2. CASE QueueHash
  <2>1. /\ cpc = "queue" /\ cpc' = "next" /\ held' = NoPacket /\ UNCHANGED <<nextIdx, err, chClosed, packets>>
    BY <1>2 DEF QueueHash, dispVars
  <2>2. ~Done /\ ~Done' /\ UNCHANGED Delivered /\ BlkOf(held) # {}
    BY <2>1 DEF Done, Closed, Delivered, CallPhase
  <2>3. HeldPlace # 0 /\ HeldPlace' = 0
    BY <1>0, <2>1, <2>2 DEF HeldPlace
  <2>. QED  BY <2>1, <2>2, <2>3, ParallelView
<1>3. CASE TakePending
  <2>1. PICK p \in pending : IsNext(p) /\ Take(p)
    BY <1>3 DEF TakePending, Due
  <2>2. p \in Packet /\ Genuine(p) /\ cpc = "next" /\ packets' = packets
    BY <1>3, <2>1 DEF TakePending, dispVars, CarrierInv, InTransit, Awaited
  <2>. QED  BY <2>1, <2>2, ParallelTake
<1>4. CASE TakeReceived
  <2>1. cur \in Packet /\ IsNext(cur) /\ Take(cur) /\ Genuine(cur) /\ cpc = "got" /\ packets' = packets
    BY <1>4 DEF TakeReceived, dispVars, CarrierInv, InTransit, Awaited, TypeOK, CallerTypeOK
  <2>. QED  BY <2>1, ParallelTake
<1>5. CASE CheckSum
  BY <1>5, ParallelSum
<1>6. CASE Close \/ NonePending \/ KeepReceived \/ JoinTasks \/ InClosed
  <2>1. UNCHANGED <<held, nextIdx, err, packets>> /\ cpc # "sum" /\ cpc' # "sum" /\ (Done' <=> Done)
    BY <1>6 DEF Close, NonePending, KeepReceived, JoinTasks, InClosed, dispVars, Done, Closed
  <2>2. UNCHANGED <<Delivered, HeldPlace>>
    BY <2>1 DEF Delivered, HeldPlace
  <2>. QED  BY <2>1, <2>2, ParallelView
<1>7. CASE Drained \/ JoinHash
  <2>1. UNCHANGED <<held, nextIdx, err, packets>> /\ cpc # "sum" /\ cpc' # "sum" /\ ~Done
    BY <1>7 DEF Drained, JoinHash, dispVars, Done
  <2>2. UNCHANGED <<Delivered, HeldPlace>>
    BY <2>1 DEF Delivered, HeldPlace
  <2>3. Done' \/ (Done' <=> Done)
    BY <2>1
  <2>. QED  BY <2>1, <2>2, <2>3, ParallelView
<1>8. CASE ReturnHeld
  <2>1. /\ held' = NoPacket /\ BlkOf(held) # {} /\ UNCHANGED <<cpc, nextIdx, err, chClosed, packets>>
    BY <1>8 DEF ReturnHeld, dispVars
  <2>2. (Done' <=> Done) /\ UNCHANGED Delivered
    BY <2>1 DEF Done, Closed, Delivered
  <2>3. HeldPlace # 0 /\ HeldPlace' = 0
    BY <1>0, <2>1 DEF HeldPlace
  <2>. QED  BY <2>1, <2>2, <2>3, ParallelView
<1>. QED  BY <1>1, <1>2, <1>3, <1>4, <1>5, <1>6, <1>7, <1>8 DEF Call, CallerStep

\* The caller sees nothing of the other steps.
LEMMA ParallelRest ==
  ASSUME parallel = TRUE, parallel' = TRUE, hasher' = hasher,
         \/ (Dispatch /\ ~ReadFrame) \/ Hasher \/ Meet \/ UNCHANGED vars
         \/ \E w \in Workers : Task(w)
  PROVE  UNCHANGED Promise!vars
<1>1. UNCHANGED <<held, nextIdx, err, packets>> /\ (cpc' = cpc \/ (cpc = "recv" /\ cpc' = "got"))
  BY DEF Dispatch, Acquire, AcquireAborts, SendAborts, CloseChans, SendErrAborts,
         Hasher, HashTakes, HashUses, HashExits, Meet, SendRaw, SendErr, DrainIn, SendIn, SendOut,
         Task, TaskStarts, Decompress, SendOutAborts, TaskExits, vars, callerVars, dispVars
<1>2. Closed("fin")' <=> Closed("fin")
  BY DEF Closed, Dispatch, Acquire, AcquireAborts, SendAborts, CloseChans, SendErrAborts,
         Hasher, HashTakes, HashUses, HashExits, Meet, SendRaw, SendErr, DrainIn, SendIn, SendOut,
         Task, TaskStarts, Decompress, SendOutAborts, TaskExits, vars
<1>3. UNCHANGED <<Delivered, HeldPlace>> /\ (Done' <=> Done)
  BY <1>1, <1>2 DEF Delivered, HeldPlace, Done
<1>. QED  BY <1>1, <1>3, ParallelView
SerialPlace == IF sHeld = S!NoBlk THEN 0 ELSE sHeld[2]

\* The steps of ReaderSpec, as the serial reader takes them.
LEMMA SerialView ==
  ASSUME parallel = FALSE, parallel' = FALSE, hasher' = hasher, sClosed \in BOOLEAN, sClosed' \in BOOLEAN
  PROVE  /\ UNCHANGED <<sPackets, sTaken, SerialPlace, sErr, sClosed>> => UNCHANGED Promise!vars
         /\ /\ ~sClosed /\ UNCHANGED <<sTaken, SerialPlace, sErr, sClosed>>
            /\ \A i \in DOMAIN sPackets : sPackets[i] \notin EndsOf
            /\ Len(sPackets) < sTaken + 1
            /\ \E k \in Kinds \cup EndsOf : sPackets' = Append(sPackets, k)
            => Promise!Next
         /\ SerialPlace # 0 /\ SerialPlace' = 0 /\ UNCHANGED <<sPackets, sTaken, sErr, sClosed>>
            => Promise!Next
         /\ /\ ~sClosed /\ sErr = "none" /\ SerialPlace = 0 /\ UNCHANGED <<sPackets, sClosed>>
            /\ sTaken < Len(sPackets) /\ sTaken' = sTaken + 1
            /\ sErr' = Promise!Outcome(sPackets[sTaken + 1])
            /\ SerialPlace' = (IF sErr' = "none" THEN sTaken' ELSE 0)
            => Promise!Next
         /\ sClosed' /\ UNCHANGED <<sPackets, sTaken, sErr>> /\ SerialPlace' = 0
            => Promise!Next
<1>0. /\ Either(NPending, 1) = 1 /\ Either(packets, sPackets) = sPackets
      /\ Either(IF cpc = "sum" THEN nextIdx - 1 ELSE nextIdx, sTaken) = sTaken
      /\ Either(IF BlkOf(held) = {} THEN 0 ELSE held.idx + 1,
                IF sHeld = S!NoBlk THEN 0 ELSE sHeld[2]) = SerialPlace
      /\ Either(err, sErr) = sErr /\ Either(Done, sClosed) = sClosed
  BY DEF Either, SerialPlace
<1>1. /\ Either(NPending, 1)' = 1 /\ Either(packets, sPackets)' = sPackets'
      /\ Either(IF cpc = "sum" THEN nextIdx - 1 ELSE nextIdx, sTaken)' = sTaken'
      /\ Either(IF BlkOf(held) = {} THEN 0 ELSE held.idx + 1,
                IF sHeld = S!NoBlk THEN 0 ELSE sHeld[2])' = SerialPlace'
      /\ Either(err, sErr)' = sErr' /\ Either(Done, sClosed)' = sClosed'
  BY DEF Either, SerialPlace
<1>3. UNCHANGED <<sPackets, sTaken, SerialPlace, sErr, sClosed>> => UNCHANGED Promise!vars
  BY <1>0, <1>1 DEF Promise!vars
<1>4. ASSUME ~sClosed, UNCHANGED <<sTaken, SerialPlace, sErr, sClosed>>,
             \A i \in DOMAIN sPackets : sPackets[i] \notin EndsOf,
             Len(sPackets) < sTaken + 1,
             \E k \in Kinds \cup EndsOf : sPackets' = Append(sPackets, k)
      PROVE  Promise!Next
  BY <1>0, <1>1, <1>4 DEF Promise!Next, Promise!Fetch, Promise!Data, Promise!EndsOf, Kinds, EndsOf
<1>5. ASSUME SerialPlace # 0, SerialPlace' = 0, UNCHANGED <<sPackets, sTaken, sErr, sClosed>>
      PROVE  Promise!Next
  BY <1>0, <1>1, <1>5 DEF Promise!Next, Promise!GiveBack
<1>6. ASSUME ~sClosed, sErr = "none", SerialPlace = 0, UNCHANGED <<sPackets, sClosed>>,
             sTaken < Len(sPackets), sTaken' = sTaken + 1,
             sErr' = Promise!Outcome(sPackets[sTaken + 1]),
             SerialPlace' = (IF sErr' = "none" THEN sTaken' ELSE 0)
      PROVE  Promise!Next
  BY <1>0, <1>1, <1>6 DEF Promise!Next, Promise!Deliver
<1>7. ASSUME sClosed', UNCHANGED <<sPackets, sTaken, sErr>>, SerialPlace' = 0
      PROVE  Promise!Next
  BY <1>0, <1>1, <1>7 DEF Promise!Next, Promise!Close
<1>. QED  BY <1>3, <1>4, <1>5, <1>6, <1>7

LEMMA SerialPromise ==
  ASSUME BlkInvs, S!InFrame', parallel = FALSE, parallel' = FALSE, hasher' = hasher, S!Next
  PROVE  Promise!Next \/ UNCHANGED Promise!vars
<1>. USE DEF S!NoBlk, S!Src, S!Dst, S!Kinds, S!EndsOf, S!last, S!frame, Kinds, EndsOf
<1>0. /\ sClosed \in BOOLEAN /\ sClosed' \in BOOLEAN /\ sTaken \in Nat /\ hasher \in BOOLEAN
      /\ sPackets \in Seq(Kinds \cup EndsOf)
  BY DEF BlkInvs, S!InFrame
<1>1. CASE S!NextBlock
  <2>1. sHeld' = S!NoBlk /\ UNCHANGED <<sPackets, sTaken, sErr, sClosed>>
    BY <1>1 DEF S!NextBlock
  <2>2. SerialPlace' = 0
    BY <2>1 DEF SerialPlace
  <2>. QED  BY <1>0, <2>1, <2>2, SerialView
<1>2. CASE S!ReadFrame
  <2>1. /\ sPc = "read" /\ UNCHANGED <<sHeld, sTaken, sErr, sClosed>>
        /\ \E k \in Kinds \cup EndsOf : sPackets' = Append(sPackets, k)
    BY <1>2 DEF S!ReadFrame
  <2>2. /\ ~sClosed /\ Len(sPackets) = sTaken
        /\ \A i \in 1 .. sTaken : sPackets[i] \in {"raw", "packed"}
    BY <1>0, <2>1 DEF BlkInvs, S!InFrame
  <2>3. Len(sPackets) < sTaken + 1 /\ \A i \in DOMAIN sPackets : sPackets[i] \notin EndsOf
    BY <1>0, <2>2
  <2>4. UNCHANGED SerialPlace
    BY <2>1 DEF SerialPlace
  <2>. QED  BY <1>0, <2>1, <2>2, <2>3, <2>4, SerialView
<1>3. CASE S!ReturnEnd \/ S!ReturnFailed \/ S!ReturnRaw \/ S!ReturnDecoded
  <2>. DEFINE k == sPackets[sTaken + 1]
  <2>1. sPc = "decide" /\ UNCHANGED <<sPackets, sClosed>> /\ sTaken' = sTaken + 1
    BY <1>3 DEF S!ReturnEnd, S!ReturnFailed, S!ReturnRaw, S!ReturnDecoded, S!Answer
  <2>2. /\ ~sClosed /\ sErr = "none" /\ sHeld = S!NoBlk /\ Len(sPackets) = sTaken + 1
        /\ hasher => sHsum = sTaken
    BY <1>0, <2>1 DEF BlkInvs, S!InFrame
  <2>3. k = sPackets[Len(sPackets)] /\ k \in Kinds \cup EndsOf
    BY <1>0, <2>2
  <2>. HIDE DEF k
  <2>4. SerialPlace = 0
    BY <2>2 DEF SerialPlace
  <2>5. /\ sErr' = Promise!Outcome(k)
        /\ SerialPlace' = (IF sErr' = "none" THEN sTaken' ELSE 0)
    <3>1. CASE S!ReturnEnd
      <4>1. /\ k \in {"end", "badsum"} /\ sHeld' = S!NoBlk
            /\ sErr' = (IF ~hasher \/ (k = "end" /\ sHsum = sTaken) THEN "end" ELSE "badsum")
        BY <2>3, <3>1 DEF S!ReturnEnd, S!Answer, S!SumMatches
      <4>2. sErr' = (IF k = "badsum" /\ ~hasher THEN "end" ELSE k)
        BY <2>2, <4>1
      <4>. QED  BY <4>1, <4>2 DEF Promise!Outcome, SerialPlace
    <3>2. CASE S!ReturnFailed
      BY <2>3, <3>2 DEF S!ReturnFailed, S!Answer, Promise!Outcome, SerialPlace
    <3>3. CASE S!ReturnRaw
      <4>1. k = "raw" /\ sErr' = "none" /\ sHeld' = S!Src(sTaken + 1)
        BY <2>2, <2>3, <3>3 DEF S!ReturnRaw, S!Answer
      <4>. QED  BY <1>0, <2>1, <4>1 DEF Promise!Outcome, SerialPlace
    <3>4. CASE S!ReturnDecoded
      <4>1. \/ k = "packed" /\ sErr' = "none" /\ sHeld' = S!Dst(sTaken + 1)
            \/ k = "corrupt" /\ sErr' = "corrupt" /\ sHeld' = S!NoBlk
        BY <2>2, <2>3, <3>4 DEF S!ReturnDecoded, S!Answer
      <4>. QED  BY <1>0, <2>1, <4>1 DEF Promise!Outcome, SerialPlace
    <3>. QED  BY <1>3, <3>1, <3>2, <3>3, <3>4
  <2>6. sTaken < Len(sPackets)
    BY <1>0, <2>2
  <2>. QED  BY <1>0, <2>1, <2>2, <2>4, <2>5, <2>6, SerialView DEF k
<1>4. CASE S!Close
  <2>1. sClosed' = TRUE /\ sHeld' = S!NoBlk /\ UNCHANGED <<sPackets, sTaken, sErr>>
    BY <1>4 DEF S!Close
  <2>2. SerialPlace' = 0
    BY <2>1 DEF SerialPlace
  <2>. QED  BY <1>0, <2>1, <2>2, SerialView
<1>. QED  BY <1>1, <1>2, <1>3, <1>4 DEF S!Next, S!CallStep

LEMMA PromiseStep ==
  ASSUME BlkInvs, BlkInvs', [Step]_<<parallel, vars, serialVars>>
  PROVE  [Promise!Next]_(Promise!vars)
<1>0. parallel \in BOOLEAN /\ parallel' = parallel /\ hasher' = hasher
  BY StepOfOne DEF BlkInvs
<1>1. CASE UNCHANGED <<vars, serialVars>>
  <2>1. CASE parallel
    BY <1>0, <1>1, <2>1, ParallelRest
  <2>2. CASE ~parallel
    <3>1. UNCHANGED <<sPackets, sTaken, SerialPlace, sErr, sClosed>> /\ sClosed \in BOOLEAN /\ sClosed' \in BOOLEAN
      BY <1>1 DEF serialVars, SerialPlace, BlkInvs, S!InFrame
    <3>. QED  BY <1>0, <2>2, <3>1, SerialView
  <2>. QED  BY <2>1, <2>2
<1>2. CASE parallel /\ Next
  BY <1>0, <1>2, ParallelFetch, ParallelCaller, ParallelRest DEF Next, Dispatch
<1>3. CASE ~parallel /\ S!Next
  BY <1>0, <1>3, SerialPromise DEF BlkInvs
<1>. QED  BY <1>1, <1>2, <1>3, StepOfOne

LEMMA PromiseInit == MakeBlockReader => Promise!Init
<1>. SUFFICES ASSUME MakeBlockReader  PROVE Promise!Init
  OBVIOUS
<1>1. /\ NPending \in Nat /\ parallel \in BOOLEAN /\ hasher \in BOOLEAN
      /\ packets = <<>> /\ sPackets = <<>> /\ cpc = "idle" /\ nextIdx = 0 /\ sTaken = 0
      /\ held = NoPacket /\ sHeld = S!NoBlk /\ err = "none" /\ sErr = "none"
      /\ chClosed = {} /\ sClosed = FALSE
  BY NPendingAssumption DEF MakeBlockReader, Init, S!Init
<1>2. BlkOf(held) = {} /\ Done = FALSE
  BY <1>1, NoBlock DEF Done, Closed
<1>. QED  BY <1>1, <1>2 DEF Promise!Init, Either

\* Whichever reader the options select, for any number of tasks, tokens and
\* blocks, it does what ReaderSpec promises the stream reader: blocks in
\* order, errors in place, and the end only if the hash is that of the blocks.
THEOREM KeepsPromise == ReaderProcess => ImplementsPromise
<1>1. MakeBlockReader => Promise!Init
  BY PromiseInit
<1>2. BlkInvs /\ BlkInvs' /\ [Step]_<<parallel, vars, serialVars>> => [Promise!Next]_(Promise!vars)
  BY PromiseStep
<1>. QED  BY <1>1, <1>2, BlkInvsHold, PTL DEF ReaderProcess, ImplementsPromise, Promise!Spec
=============================================================================

-------------------------- MODULE AsyncWriterProofs --------------------------
(***************************************************************************)
(* What TLAPS proves of AsyncWriter for every number of tasks, token and   *)
(* pool bound, block size and set of faults: types, errors, the output,    *)
(* and that the writer gives back what it borrows, uses nothing it has     *)
(* given back, and says it is done only when it is.                        *)
(***************************************************************************)
EXTENDS AsyncWriterProps, FiniteSetTheorems, TLAPS

-----------------------------------------------------------------------------
(* Type correctness: one lemma per goroutine. *)

\* The positions in the source stream are numbers.
LEMMA Positions ==
  ASSUME CallerTypeOK
  PROVE  srcIdx \in Nat /\ Start \in Nat /\ Accepted \in Nat
BY DEF CallerTypeOK, srcIdx, Start, Accepted

\* The names of pool blocks.
LEMMA Names == \A i \in Nat : {Src(i), Dst(i), Dict(i)} \subseteq PoolBlocks
BY DEF Src, Dst, Dict, PoolBlocks

\* The blocks an operation borrows or returns together are finitely many.
LEMMA FewBlocks ==
  ASSUME NEW x, NEW y
  PROVE  /\ IsFiniteSet({}) /\ IsFiniteSet({x}) /\ IsFiniteSet({x} \cup {y})
         /\ IsFiniteSet({} \cup {x}) /\ IsFiniteSet({x} \cup {})
         /\ IsFiniteSet({} \cup {})
BY FS_EmptySet, FS_Singleton, FS_Union

\* Borrowing or returning finitely many blocks keeps the pool's books typed.
LEMMA PoolTyped ==
  ASSUME PoolTypeOK, NEW bs, IsFiniteSet(bs), bs \subseteq PoolBlocks,
         Borrow(bs) \/ Return(bs)
  PROVE  PoolTypeOK'
<1>1. Cardinality(bs) \in Nat
  BY FS_CardinalityType
<1>2. (live \subseteq PoolBlocks)'
  BY DEF PoolTypeOK, Borrow, Return
<1>3. (cntBorrowed \in Int)'
  BY <1>1 DEF PoolTypeOK, Borrow, Return
<1>. QED  BY <1>2, <1>3 DEF PoolTypeOK, PoolBlocks

\* Returning the error state leaves a boolean in report and an error in ret.
LEMMA ReportTyped ==
  ASSUME CallerTypeOK, SharedTypeOK, ReportReturn
  PROVE  report' \in BOOLEAN /\ ret' \in FaultKinds \cup {"none", "closed"} /\ cpc' = "idle"
BY Zenon DEF CallerTypeOK, SharedTypeOK, ReportReturn

\* A group of variables that a step leaves alone keeps its types.
LEMMA Frames ==
  /\ CallerTypeOK /\ UNCHANGED callerVars => CallerTypeOK'
  /\ SharedTypeOK /\ UNCHANGED sharedVars => SharedTypeOK'
  /\ TaskTypeOK /\ UNCHANGED workerVars => TaskTypeOK'
  /\ LoopTypeOK /\ UNCHANGED loopVars => LoopTypeOK'
  /\ HashTypeOK /\ UNCHANGED hashVars => HashTypeOK'
  /\ PoolTypeOK /\ UNCHANGED poolVars => PoolTypeOK'
<1>1. CallerTypeOK /\ UNCHANGED callerVars => CallerTypeOK'
  BY DEF CallerTypeOK, callerVars, callFields
<1>2. SharedTypeOK /\ UNCHANGED sharedVars => SharedTypeOK'
  BY DEF SharedTypeOK, sharedVars
<1>3. TaskTypeOK /\ UNCHANGED workerVars => TaskTypeOK'
  BY DEF TaskTypeOK, workerVars
<1>4. LoopTypeOK /\ UNCHANGED loopVars => LoopTypeOK'
  BY DEF LoopTypeOK, loopVars, loopFields
<1>5. HashTypeOK /\ UNCHANGED hashVars => HashTypeOK'
  BY DEF HashTypeOK, hashVars
<1>6. PoolTypeOK /\ UNCHANGED poolVars => PoolTypeOK'
  BY DEF PoolTypeOK, poolVars
<1>. QED  BY <1>1, <1>2, <1>3, <1>4, <1>5, <1>6

\* Every API call and step of the caller keeps the types.
LEMMA TypeCaller ==
  ASSUME TypeOK, Call \/ CallerStep
  PROVE  TypeOK'
<1>. USE Positions DEF TypeOK
<1>1. CASE Write
  <2>1. CallerTypeOK'
    BY <1>1, MaxBytesAssumption DEF Write, CallerTypeOK, Enter, othersOfCaller
  <2>. QED  BY <1>1, <2>1, Frames DEF Write, othersOfCaller
<1>2. CASE ReadFrom
  <2>1. CallerTypeOK'
    BY <1>2 DEF ReadFrom, CallerTypeOK, Enter, othersOfCaller
  <2>. QED  BY <1>2, <2>1, Frames DEF ReadFrom, othersOfCaller
<1>3. CASE Flush
  <2>1. CallerTypeOK'
    BY <1>3, ReportTyped DEF Flush, CallerTypeOK, Enter, FlushBlk, EnterFlush
  <2>. QED  BY <1>3, <2>1, Frames DEF Flush, othersOfCaller
<1>4. CASE Close
  <2>1. CallerTypeOK'
    BY <1>4, ReportTyped DEF Close, CallerTypeOK, Enter, FlushBlk, EnterFlush
  <2>. QED  BY <1>4, <2>1, Frames DEF Close, othersOfCaller
<1>5. CASE WriteTop
  <2>1. CallerTypeOK'
    BY <1>5, ReportTyped DEF WriteTop, CallerTypeOK
  <2>. QED  BY <1>5, <2>1, Frames DEF WriteTop, othersOfCaller
<1>6. CASE Copy
  <2>1. CallerTypeOK'
    BY <1>6, BlkSzAssumption DEF Copy, CallerTypeOK, EnterFlush
  <2>. QED  BY <1>6, <2>1, Frames DEF Copy, othersOfCaller
<1>7. CASE ReadTop
  <2>1. CallerTypeOK'
    BY <1>7, ReportTyped DEF ReadTop, CallerTypeOK
  <2>. QED  BY <1>7, <2>1, Frames DEF ReadTop, othersOfCaller
<1>8. CASE Fill
  <2>1. CallerTypeOK'
    BY <1>8, ReportTyped, BlkSzAssumption DEF Fill, CallerTypeOK, EnterFlush
  <2>2. SharedTypeOK'
    BY <1>8 DEF Fill, SharedTypeOK, SetError, FaultKinds
  <2>. QED  BY <1>8, <2>1, <2>2, Frames DEF Fill, othersOfCaller
<1>9. CASE FlushNothing
  <2>1. CallerTypeOK'
    BY <1>9 DEF FlushNothing, CallerTypeOK
  <2>. QED  BY <1>9, <2>1, Frames DEF FlushNothing, othersOfCaller
<1>10. CASE FlushReturns
  <2>1. CallerTypeOK'
    BY <1>10, ReportTyped DEF FlushReturns, CallerTypeOK
  <2>. QED  BY <1>10, <2>1, Frames DEF FlushReturns, othersOfCaller
<1>11. CASE CloseChans
  <2>1. CallerTypeOK'
    BY <1>11 DEF CloseChans, CallerTypeOK, callFields
  <2>2. SharedTypeOK'
    BY <1>11 DEF CloseChans, SharedTypeOK
  <2>. QED  BY <1>11, <2>1, <2>2, Frames DEF CloseChans, othersOfCaller
<1>12. CASE JoinTasks
  <2>1. CallerTypeOK'
    BY <1>12 DEF JoinTasks, CallerTypeOK, callFields
  <2>2. SharedTypeOK'
    BY <1>12 DEF JoinTasks, SharedTypeOK
  <2>. QED  BY <1>12, <2>1, <2>2, Frames DEF JoinTasks, othersOfCaller
<1>13. CASE QueueHash
  <2>1. CallerTypeOK'
    BY <1>13 DEF QueueHash, CallerTypeOK, callFields
  <2>2. SharedTypeOK'
    BY <1>13 DEF QueueHash, SharedTypeOK, sharedVars
  <2>3. HashTypeOK'
    BY <1>13 DEF QueueHash, HashTypeOK, HashRef
  <2>. QED  BY <1>13, <2>1, <2>2, <2>3, Frames DEF QueueHash, othersOfCaller
<1>14. CASE CloseReturns
  <2>1. IsFiniteSet({Src(srcIdx)} \cup LastDict)
    BY FewBlocks DEF LastDict
  <2>2. {Src(srcIdx)} \cup LastDict \subseteq PoolBlocks
    BY Names DEF LastDict
  <2>3. PoolTypeOK'
    BY <1>14, <2>1, <2>2, PoolTyped DEF CloseReturns
  <2>4. CallerTypeOK'
    BY <1>14, BlkSzAssumption DEF CloseReturns, CallerTypeOK, SharedTypeOK
  <2>5. SharedTypeOK'
    BY <1>14 DEF CloseReturns, SharedTypeOK
  <2>. QED  BY <1>14, <2>3, <2>4, <2>5, Frames DEF CloseReturns
<1>15. CASE Acquire
  <2>. DEFINE bs == IF Linked THEN {Dict(srcIdx)} ELSE {}
  <2>1. IsFiniteSet(bs) /\ bs \subseteq PoolBlocks
    BY FewBlocks, Names
  <2>2. PoolTypeOK'
    BY <1>15, <2>1, PoolTyped DEF Acquire
  <2>3. CallerTypeOK'
    BY <1>15 DEF Acquire, CallerTypeOK, callFields
  <2>4. SharedTypeOK'
    BY <1>15, NPendingAssumption DEF Acquire, SharedTypeOK, Room
  <2>. QED  BY <1>15, <2>2, <2>3, <2>4, Frames DEF Acquire
<1>16. CASE NextBlk
  <2>1. IsFiniteSet({Src(srcIdx + 1)})
    BY FewBlocks
  <2>2. {Src(srcIdx + 1)} \subseteq PoolBlocks
    BY Names
  <2>3. PoolTypeOK'
    BY <1>16, <2>1, <2>2, PoolTyped DEF NextBlk
  <2>4. CallerTypeOK'
    BY <1>16, BlkSzAssumption DEF NextBlk, CallerTypeOK
  <2>5. TaskTypeOK'
    BY <1>16 DEF NextBlk, TaskTypeOK
  <2>. QED  BY <1>16, <2>3, <2>4, <2>5, Frames DEF NextBlk
<1>. QED  BY <1>1, <1>2, <1>3, <1>4, <1>5, <1>6, <1>7, <1>8, <1>9, <1>10, <1>11, <1>12, <1>13, <1>14, <1>15, <1>16 DEF Call, CallerStep

\* So does every step of a task.
LEMMA TypeTask ==
  ASSUME TypeOK, NEW w \in Workers, Task(w)
  PROVE  TypeOK'
<1>. USE DEF TypeOK
<1>0. wblk[w].idx \in Nat
  BY DEF TaskTypeOK, Block
<1>1. CASE TaskStarts(w)
  <2>1. TaskTypeOK'
    BY <1>1 DEF TaskStarts, TaskTypeOK
  <2>. QED  BY <1>1, <2>1, Frames DEF TaskStarts
<1>2. CASE Compress(w)
  <2>1. IsFiniteSet({Dst(wblk[w].idx)}) /\ {Dst(wblk[w].idx)} \subseteq PoolBlocks
    BY <1>0, FewBlocks, Names
  <2>2. PoolTypeOK'
    BY <1>2, <2>1, PoolTyped, Frames DEF Compress
  <2>3. TaskTypeOK'
    BY <1>2 DEF Compress, TaskTypeOK, Block
  <2>. QED  BY <1>2, <2>2, <2>3, Frames DEF Compress
<1>3. CASE FreeSrc(w)
  <2>. DEFINE dict == IF Linked /\ wblk[w].idx > 0 THEN {Dict(wblk[w].idx - 1)} ELSE {}
              mine == ~HashOn \/ Hashed(wblk[w].idx)
              bs   == dict \cup IF mine THEN {Src(wblk[w].idx)} ELSE {}
  <2>1. IsFiniteSet(bs)
    BY FewBlocks
  <2>2. bs \subseteq PoolBlocks
    BY <1>0, Names
  <2>3. PoolTypeOK'
    BY <1>3, <2>1, <2>2, PoolTyped DEF FreeSrc
  <2>4. TaskTypeOK'
    BY <1>3 DEF FreeSrc, Then, TaskTypeOK
  <2>. QED  BY <1>3, <2>3, <2>4, Frames DEF FreeSrc
<1>4. CASE QueueFree(w)
  <2>1. TaskTypeOK'
    BY <1>4 DEF QueueFree, TaskTypeOK, Then
  <2>2. HashTypeOK'
    BY <1>4, <1>0 DEF QueueFree, HashTypeOK, HashRef
  <2>. QED  BY <1>4, <2>1, <2>2, Frames DEF QueueFree
<1>5. CASE DropToken(w)
  <2>1. TaskTypeOK'
    BY <1>5 DEF DropToken, TaskTypeOK
  <2>2. SharedTypeOK'
    BY <1>5, NPendingAssumption DEF DropToken, SharedTypeOK, Release
  <2>. QED  BY <1>5, <2>1, <2>2, Frames DEF DropToken
<1>6. CASE TaskExits(w)
  <2>1. TaskTypeOK'
    BY <1>6 DEF TaskExits, TaskTypeOK
  <2>. QED  BY <1>6, <2>1, Frames DEF TaskExits
<1>. QED  BY <1>1, <1>2, <1>3, <1>4, <1>5, <1>6 DEF Task

\* kickBlock keeps the types of what it touches.
LEMMA TypeKick ==
  ASSUME SharedTypeOK, PoolTypeOK, NEW b \in Block, Kick(b)
  PROVE  sem' \in 0 .. NPending /\ PoolTypeOK'
<1>1. IsFiniteSet(DstOf(b))
  BY FewBlocks DEF DstOf
<1>2. DstOf(b) \subseteq PoolBlocks
  BY Names DEF DstOf, Block
<1>3. sem' \in 0 .. NPending
  BY NPendingAssumption DEF Kick, Release, SharedTypeOK
<1>. QED  BY <1>1, <1>2, <1>3, PoolTyped DEF Kick

\* What reaches the io.Writer is typed.
LEMMA Items ==
  /\ \A h \in Nat \cup {-1}, kind \in {"hdr", "end", "bad"} : Mark(kind, h) \in Item
  /\ \A b \in Block : [k |-> "blk", idx |-> b.idx, lo |-> b.lo, hi |-> b.hi] \in Item
BY DEF Mark, Item, Block

\* So does every step of writeLoop.
LEMMA TypeLoop ==
  ASSUME TypeOK, Loop
  PROVE  TypeOK'
<1>. USE DEF TypeOK
<1>1. CASE WriteHeader
  <2>1. LoopTypeOK'
    BY <1>1, Items DEF WriteHeader, LoopTypeOK, Emit
  <2>2. SharedTypeOK'
    BY <1>1 DEF WriteHeader, SharedTypeOK, SetError, FaultKinds
  <2>. QED  BY <1>1, <2>1, <2>2, Frames DEF WriteHeader
<1>2. CASE OutClosed
  <2>1. LoopTypeOK'
    BY <1>2 DEF OutClosed, LoopTypeOK, loopFields
  <2>. QED  BY <1>2, <2>1, Frames DEF OutClosed
<1>3. CASE Poll
  <2>1. cur \in Block
    BY DEF LoopTypeOK
  <2>2. sem' \in 0 .. NPending /\ PoolTypeOK'
    BY <1>3, <2>1, TypeKick, Frames DEF Poll, SharedTypeOK
  <2>3. SharedTypeOK'
    BY <1>3, <2>2 DEF Poll, SharedTypeOK
  <2>4. LoopTypeOK'
    BY <1>3 DEF Poll, LoopTypeOK
  <2>. QED  BY <1>3, <2>2, <2>3, <2>4, Frames DEF Poll
<1>4. CASE WriteBlk
  <2>1. cur \in Block
    BY DEF LoopTypeOK
  <2>2. sem' \in 0 .. NPending /\ PoolTypeOK'
    BY <1>4, <2>1, TypeKick, Frames DEF WriteBlk, SharedTypeOK
  <2>3. SharedTypeOK'
    BY <1>4, <2>2 DEF WriteBlk, SharedTypeOK
  <2>4. out' \in Seq(Item)
    BY <1>4, <2>1, Items, SMTT(30) DEF WriteBlk, Emit, LoopTypeOK
  <2>5. LoopTypeOK'
    BY <1>4, <2>4 DEF WriteBlk, LoopTypeOK
  <2>. QED  BY <1>4, <2>2, <2>3, <2>5, Frames DEF WriteBlk
<1>5. CASE LoopFails
  <2>1. LoopTypeOK'
    BY <1>5 DEF LoopFails, LoopTypeOK, loopFields
  <2>2. SharedTypeOK'
    BY <1>5 DEF LoopFails, SharedTypeOK, SetError, FaultKinds
  <2>. QED  BY <1>5, <2>1, <2>2, Frames DEF LoopFails
<1>6. CASE More
  <2>1. LoopTypeOK'
    BY <1>6 DEF More, LoopTypeOK
  <2>. QED  BY <1>6, <2>1, Frames DEF More
<1>7. CASE NoReply
  <2>1. LoopTypeOK'
    BY <1>7 DEF NoReply, LoopTypeOK, loopFields
  <2>. QED  BY <1>7, <2>1, Frames DEF NoReply
<1>8. CASE Drain
  <2>1. PICK b \in pending : pending' = pending \ {b} /\ Kick(b)
    BY <1>8 DEF Drain
  <2>2. sem' \in 0 .. NPending /\ PoolTypeOK'
    BY <2>1, TypeKick DEF LoopTypeOK
  <2>3. SharedTypeOK'
    BY <1>8, <2>2 DEF Drain, SharedTypeOK
  <2>4. LoopTypeOK'
    BY <1>8, <2>1 DEF Drain, LoopTypeOK
  <2>. QED  BY <1>8, <2>2, <2>3, <2>4, Frames DEF Drain
<1>9. CASE Drained
  <2>1. LoopTypeOK'
    BY <1>9 DEF Drained, LoopTypeOK, loopFields
  <2>2. SharedTypeOK'
    BY <1>9 DEF Drained, SharedTypeOK
  <2>. QED  BY <1>9, <2>1, <2>2, Frames DEF Drained
<1>10. CASE HashJoined
  <2>1. LoopTypeOK'
    BY <1>10 DEF HashJoined, LoopTypeOK, loopFields
  <2>2. SharedTypeOK'
    BY <1>10 DEF HashJoined, SharedTypeOK
  <2>. QED  BY <1>10, <2>1, <2>2, Frames DEF HashJoined
<1>11. CASE WriteTrailer
  <2>1. LoopTypeOK'
    BY <1>11, Items, SMTT(30) DEF WriteTrailer, LoopTypeOK, Emit, HashTypeOK
  <2>2. SharedTypeOK'
    BY <1>11 DEF WriteTrailer, SharedTypeOK, SetError, FaultKinds
  <2>. QED  BY <1>11, <2>1, <2>2, Frames DEF WriteTrailer
<1>. QED  BY <1>1, <1>2, <1>3, <1>4, <1>5, <1>6, <1>7, <1>8, <1>9, <1>10, <1>11 DEF Loop

\* So does every step of the hasher.
LEMMA TypeHasher ==
  ASSUME TypeOK, Hasher
  PROVE  TypeOK'
<1>. USE DEF TypeOK
<1>1. CASE HashTakes
  <2>1. HashTypeOK'
    BY <1>1 DEF HashTakes, HashTypeOK
  <2>. QED  BY <1>1, <2>1, Frames DEF HashTakes, othersOfHasher
<1>2. CASE HashUses
  <2>1. IsFiniteSet({Src(href.idx)}) /\ {Src(href.idx)} \subseteq PoolBlocks
    BY FewBlocks, Names DEF HashTypeOK, HashRef
  <2>2. PoolTypeOK'
    BY <1>2, <2>1, PoolTyped, Frames DEF HashUses
  <2>3. HashTypeOK'
    BY <1>2 DEF HashUses, HashTypeOK, HashRef
  <2>. QED  BY <1>2, <2>2, <2>3, Frames DEF HashUses, othersOfHasher
<1>3. CASE HashExits
  <2>1. HashTypeOK'
    BY <1>3 DEF HashExits, HashTypeOK
  <2>. QED  BY <1>3, <2>1, Frames DEF HashExits, othersOfHasher
<1>. QED  BY <1>1, <1>2, <1>3 DEF Hasher

\* So does every step of two goroutines at an unbuffered channel.
LEMMA TypeMeet ==
  ASSUME TypeOK, Meet
  PROVE  TypeOK'
<1>. USE Positions DEF TypeOK
<1>1. CASE RecvFlush
  <2>1. CallerTypeOK'
    BY <1>1 DEF RecvFlush, CallerTypeOK, callFields
  <2>2. LoopTypeOK'
    BY <1>1 DEF RecvFlush, LoopTypeOK
  <2>. QED  BY <1>1, <2>1, <2>2, Frames DEF RecvFlush
<1>2. CASE Reply
  <2>1. CallerTypeOK'
    BY <1>2 DEF Reply, CallerTypeOK, callFields
  <2>2. LoopTypeOK'
    BY <1>2 DEF Reply, LoopTypeOK
  <2>. QED  BY <1>2, <2>1, <2>2, Frames DEF Reply
<1>3. ASSUME NEW w \in Workers, SendBlk(w)  PROVE TypeOK'
  <2>1. CallerTypeOK'
    BY <1>3 DEF SendBlk, CallerTypeOK, callFields
  <2>2. TaskTypeOK'
    BY <1>3 DEF SendBlk, TaskTypeOK, Block
  <2>. QED  BY <1>3, <2>1, <2>2, Frames DEF SendBlk
<1>4. ASSUME NEW w \in Workers, RecvOut(w)  PROVE TypeOK'
  <2>1. LoopTypeOK'
    BY <1>4 DEF RecvOut, LoopTypeOK, TaskTypeOK
  <2>2. TaskTypeOK'
    BY <1>4 DEF RecvOut, TaskTypeOK
  <2>. QED  BY <1>4, <2>1, <2>2, Frames DEF RecvOut
<1>. QED  BY <1>1, <1>2, <1>3, <1>4 DEF Meet

LEMMA TypeStep == TypeOK /\ [Next]_vars => TypeOK'
<1>1. TypeOK /\ UNCHANGED vars => TypeOK'
  BY Frames DEF TypeOK, vars
<1>. QED  BY <1>1, TypeCaller, TypeMeet, TypeTask, TypeLoop, TypeHasher DEF Next

LEMMA TypeInit == Init => TypeOK
<1>. SUFFICES ASSUME Init PROVE TypeOK
  OBVIOUS
<1>1. CallerTypeOK
  <2>1. <<0>> \in Seq(Nat) /\ <<0>> # <<>>
    OBVIOUS
  <2>2. starts \in Seq(Nat) /\ starts # <<>>
    BY <2>1 DEF Init
  <2>3. left \in Nat /\ srcOff \in 0 .. BlkSz
    BY BlkSzAssumption DEF Init
  <2>. QED  BY <2>2, <2>3 DEF Init, CallerTypeOK
<1>2. SharedTypeOK
  BY NPendingAssumption DEF Init, SharedTypeOK
<1>3. TaskTypeOK
  BY DEF Init, TaskTypeOK, NoBlk, Block
<1>4. LoopTypeOK
  BY DEF Init, LoopTypeOK, NoBlk, Block
<1>5. HashTypeOK
  BY DEF Init, HashTypeOK, NoRef, HashRef
<1>6. PoolTypeOK
  BY Names DEF Init, PoolTypeOK
<1>. QED  BY <1>1, <1>2, <1>3, <1>4, <1>5, <1>6 DEF TypeOK

\* Every variable keeps its type, whatever the interleaving of the goroutines.
THEOREM TypeCorrect == Spec => []TypeOK
BY TypeInit, TypeStep, PTL DEF Spec

-----------------------------------------------------------------------------
(* The error state *)

LEMMA ErrorSet ==
  ASSUME NEW e, SetError(e)
  PROVE  state # "none" => state' = state
BY DEF SetError

\* A step changes the error state only where it is still clear.
LEMMA ErrorStep == [Next]_vars => (state # "none" => state' = state)
<1>. SUFFICES ASSUME [Next]_vars PROVE state # "none" => state' = state
  OBVIOUS
<1>. USE DEF sharedVars, othersOfCaller, othersOfHasher
<1>1. CASE Call
  BY <1>1 DEF Call, Write, ReadFrom, Flush, Close
<1>2. CASE CallerStep
  BY <1>2, ErrorSet DEF CallerStep, WriteTop, Copy, ReadTop, Fill, FlushNothing, FlushReturns, CloseChans,
     JoinTasks, CloseReturns, QueueHash, Acquire, NextBlk
<1>3. CASE Meet
  BY <1>3 DEF Meet, RecvFlush, Reply, SendBlk, RecvOut
<1>4. ASSUME NEW w \in Workers, Task(w)  PROVE state' = state
  BY <1>4 DEF Task, TaskStarts, Compress, FreeSrc, QueueFree, DropToken, TaskExits
<1>5. CASE Loop
  BY <1>5, ErrorSet DEF Loop, WriteHeader, OutClosed, Poll, WriteBlk, LoopFails, More, NoReply, Drain,
     Drained, HashJoined, WriteTrailer
<1>6. CASE Hasher
  BY <1>6 DEF Hasher, HashTakes, HashUses, HashExits
<1>7. CASE UNCHANGED vars
  BY <1>7 DEF vars
<1>. QED  BY <1>1, <1>2, <1>3, <1>4, <1>5, <1>6, <1>7 DEF Next

\* setError keeps the first error, whichever goroutines fail and in whatever
\* order (writer.go:475).
THEOREM FirstErrorKept == Spec => FirstErrorStays
<1>1. [Next]_vars => [state # "none" => state' = state]_vars
  BY ErrorStep
<1>. QED  BY <1>1, PTL DEF Spec, FirstErrorStays

-----------------------------------------------------------------------------
(* The stream: what was handed to the tasks is not changed any more *)

StreamStable ==
  /\ Sent \in Nat /\ Sent' \in Nat /\ Sent <= Sent'
  /\ Sent <= Len(starts) /\ Sent' <= Len(starts')
  /\ \A i \in 0 .. Sent - 1 : starts'[i + 1] = starts[i + 1] /\ EndOf(i)' = EndOf(i)

\* Steps that leave the blocks and their boundaries alone.
LEMMA StreamSame ==
  ASSUME TypeOK, UNCHANGED <<starts, srcOff>>, cpc = "next" => cpc' = "next"
  PROVE  StreamStable
BY DEF StreamStable, TypeOK, CallerTypeOK, Sent, srcIdx, EndOf, Accepted, Start

LEMMA StreamStep ==
  ASSUME TypeOK, [Next]_vars
  PROVE  StreamStable
<1>. USE DEF TypeOK, CallerTypeOK
<1>1. CASE Call
  BY <1>1, StreamSame DEF Call, Write, ReadFrom, Flush, Close, Enter
<1>2. CASE Copy \/ Fill
  BY <1>2, BlkSzAssumption DEF Copy, Fill, EnterFlush, ReportReturn, StreamStable, Sent, srcIdx, EndOf
<1>3. CASE NextBlk
  <2>1. Sent = Len(starts) /\ starts' = Append(starts, Accepted) /\ cpc' # "next"
    BY <1>3 DEF NextBlk, Sent, srcIdx
  <2>2. Len(starts') = Len(starts) + 1 /\ Sent' = Len(starts)
    BY <2>1, Positions DEF Sent, srcIdx
  <2>3. \A i \in 1 .. Len(starts) : starts'[i] = starts[i]
    BY <2>1, Positions
  <2>4. starts'[Len(starts) + 1] = Accepted
    BY <2>1, Positions
  <2>. QED  BY <2>1, <2>2, <2>3, <2>4 DEF StreamStable, EndOf
<1>4. CASE CloseReturns
  BY <1>4 DEF CloseReturns, StreamStable, Sent, srcIdx, EndOf
<1>5. CASE WriteTop \/ ReadTop \/ FlushNothing \/ FlushReturns \/ CloseChans \/ JoinTasks
           \/ QueueHash \/ Acquire
  BY <1>5, StreamSame DEF WriteTop, ReadTop, FlushNothing, FlushReturns, CloseChans, JoinTasks,
     QueueHash, Acquire, ReportReturn, callFields
<1>6. CASE Meet
  BY <1>6, StreamSame DEF Meet, RecvFlush, Reply, SendBlk, RecvOut, callFields, callerVars
<1>7. CASE UNCHANGED callerVars
  BY <1>7, StreamSame DEF callerVars, callFields
<1>8. ASSUME NEW w \in Workers, Task(w)  PROVE UNCHANGED callerVars
  BY <1>8 DEF Task, TaskStarts, Compress, FreeSrc, QueueFree, DropToken, TaskExits
<1>9. CASE Loop
  BY <1>7, <1>9 DEF Loop, WriteHeader, OutClosed, Poll, WriteBlk, LoopFails, More, NoReply, Drain,
     Drained, HashJoined, WriteTrailer
<1>10. CASE Hasher
  BY <1>7, <1>10 DEF Hasher, HashTakes, HashUses, HashExits, othersOfHasher
<1>11. CASE UNCHANGED vars
  BY <1>7, <1>11 DEF vars
<1>. QED  BY <1>1, <1>2, <1>3, <1>4, <1>5, <1>6, <1>7, <1>8, <1>9, <1>10, <1>11 DEF Next, CallerStep

\* A block that carries its bytes goes on carrying them.
LEMMA BytesKept ==
  ASSUME StreamStable, NEW b \in Block, BytesOf(b)
  PROVE  BytesOf(b)'
BY DEF StreamStable, BytesOf, Block

-----------------------------------------------------------------------------
(* The blocks in flight *)

LEMMA TaskBytesKept ==
  ASSUME TypeOK, TypeOK', StreamStable, TaskBytes,
         \A w \in Workers : w \in Busy' =>
            /\ w \in Busy
            /\ wblk'[w].idx = wblk[w].idx /\ wblk'[w].lo = wblk[w].lo /\ wblk'[w].hi = wblk[w].hi
  PROVE  TaskBytes'
<1>1. SUFFICES ASSUME NEW w \in Busy'  PROVE BytesOf(wblk[w])'
  BY DEF TaskBytes
<1>2. w \in Workers /\ w \in Busy /\ wblk[w] \in Block
  BY DEF Busy, TypeOK, TaskTypeOK
<1>3. BytesOf(wblk[w])
  BY <1>2 DEF TaskBytes
<1>4. wblk[w].idx \in Nat /\ wblk[w].idx < Sent
  BY <1>2, <1>3 DEF BytesOf, Block
<1>. QED  BY <1>1, <1>2, <1>3, <1>4 DEF BytesOf, StreamStable

LEMMA TaskBytesStep ==
  ASSUME TypeOK, TypeOK', StreamStable, TaskBytes, [Next]_vars
  PROVE  TaskBytes'
<1>1. CASE UNCHANGED workerVars
  BY <1>1, TaskBytesKept DEF workerVars, Busy
<1>2. CASE Call
  BY <1>1, <1>2 DEF Call, Write, ReadFrom, Flush, Close, othersOfCaller
<1>3. CASE CallerStep /\ ~NextBlk
  BY <1>1, <1>3 DEF CallerStep, WriteTop, Copy, ReadTop, Fill, FlushNothing, FlushReturns, CloseChans,
     JoinTasks, CloseReturns, QueueHash, Acquire, othersOfCaller
<1>4. CASE NextBlk
  BY <1>4, TaskBytesKept DEF NextBlk, Busy, TypeOK, TaskTypeOK
<1>5. CASE RecvFlush \/ Reply
  BY <1>1, <1>5 DEF RecvFlush, Reply
<1>6. ASSUME NEW w \in Workers, SendBlk(w)  PROVE TaskBytes'
  <2>1. SUFFICES ASSUME NEW x \in Busy'  PROVE BytesOf(wblk[x])'
    BY DEF TaskBytes
  <2>2. x \in Workers
    BY DEF Busy
  <2>3. CASE x = w
    <3>1. wblk'[x].idx = srcIdx /\ wblk'[x].lo = Start /\ wblk'[x].hi = Accepted
      BY <1>6, <2>3 DEF SendBlk, TypeOK, TaskTypeOK
    <3>2. starts' = starts /\ srcOff' = srcOff /\ Sent' = srcIdx + 1
      BY <1>6 DEF SendBlk, callFields, Sent, srcIdx
    <3>3. EndOf(srcIdx)' = Accepted /\ starts[srcIdx + 1] = Start
      BY <3>2, Positions DEF EndOf, srcIdx, Start, Accepted, TypeOK, CallerTypeOK
    <3>4. EndOf(wblk[x].idx)' = Accepted
      BY <3>1, <3>2, Positions DEF EndOf, srcIdx, Start, Accepted, TypeOK, CallerTypeOK
    <3>. QED  BY <3>1, <3>2, <3>3, <3>4, Positions DEF BytesOf, TypeOK
  <2>4. CASE x # w
    <3>1. x \in Busy /\ wblk'[x] = wblk[x]
      BY <1>6, <2>2, <2>4 DEF SendBlk, Busy, TypeOK, TaskTypeOK
    <3>2. wblk[x] \in Block /\ BytesOf(wblk[x])
      BY <2>2, <3>1 DEF TaskBytes, TypeOK, TaskTypeOK
    <3>. QED  BY <3>1, <3>2 DEF BytesOf, StreamStable, Block
  <2>. QED  BY <2>3, <2>4
<1>7. ASSUME NEW w \in Workers, RecvOut(w)  PROVE TaskBytes'
  BY <1>7, TaskBytesKept DEF RecvOut, Busy, TypeOK, TaskTypeOK
<1>8. ASSUME NEW w \in Workers, Task(w)  PROVE TaskBytes'
  <2>1. CASE Compress(w)
    BY <2>1, TaskBytesKept DEF Compress, Busy, TypeOK, TaskTypeOK, Block
  <2>2. CASE TaskStarts(w) \/ FreeSrc(w) \/ QueueFree(w) \/ DropToken(w) \/ TaskExits(w)
    BY <2>2, TaskBytesKept DEF TaskStarts, FreeSrc, QueueFree, DropToken, TaskExits, Then,
       Busy, TypeOK, TaskTypeOK
  <2>. QED  BY <1>8, <2>1, <2>2 DEF Task
<1>9. CASE Loop
  BY <1>1, <1>9 DEF Loop, WriteHeader, OutClosed, Poll, WriteBlk, LoopFails, More, NoReply, Drain,
     Drained, HashJoined, WriteTrailer
<1>10. CASE Hasher
  BY <1>1, <1>10 DEF Hasher, HashTakes, HashUses, HashExits, othersOfHasher
<1>11. CASE UNCHANGED vars
  BY <1>1, <1>11 DEF vars
<1>. QED  BY <1>2, <1>3, <1>4, <1>5, <1>6, <1>7, <1>8, <1>9, <1>10, <1>11 DEF Next, Meet

\* Steps of other goroutines than writeLoop leave what it holds alone.
LEMMA LoopBytesKept ==
  ASSUME TypeOK, StreamStable, LoopBytes, UNCHANGED loopFields,
         lpc' \in {"poll", "write"} => lpc = lpc'
  PROVE  LoopBytes'
<1>1. ASSUME NEW b \in pending'  PROVE BytesOf(b)'
  BY <1>1, BytesKept DEF LoopBytes, loopFields, TypeOK, LoopTypeOK
<1>2. ASSUME lpc' \in {"poll", "write"}  PROVE BytesOf(cur)'
  <2>1. cur' = cur /\ cur \in Block /\ BytesOf(cur)
    BY <1>2 DEF LoopBytes, loopFields, TypeOK, LoopTypeOK
  <2>. QED  BY <2>1 DEF BytesOf, StreamStable, Block
<1>3. ASSUME NEW i \in DOMAIN out', out'[i].k = "blk"  PROVE out'[i].idx < Sent'
  <2>1. out' = out /\ i \in DOMAIN out /\ out[i].idx < Sent
    BY <1>3 DEF LoopBytes, loopFields
  <2>2. out[i] \in Item
    BY <2>1 DEF TypeOK, LoopTypeOK
  <2>. QED  BY <2>1, <2>2 DEF StreamStable, Item
<1>. QED  BY <1>1, <1>2, <1>3 DEF LoopBytes

\* Steps of writeLoop leave the stream alone.
LEMMA LoopStream ==
  ASSUME UNCHANGED callerVars
  PROVE  /\ Sent' = Sent /\ Accepted' = Accepted /\ starts' = starts
         /\ \A i : EndOf(i)' = EndOf(i)
         /\ \A b : BytesOf(b)' <=> BytesOf(b)
BY DEF callerVars, callFields, Sent, Accepted, Start, srcIdx, EndOf, BytesOf

LEMMA LoopCaller ==
  ASSUME Loop
  PROVE  UNCHANGED callerVars /\ UNCHANGED workerVars
BY DEF Loop, WriteHeader, OutClosed, Poll, WriteBlk, LoopFails, More, NoReply, Drain, Drained,
   HashJoined, WriteTrailer

\* The steps that neither writeLoop takes nor a task with it.
LEMMA OtherSteps ==
  ASSUME [Next]_vars
  PROVE  \/ UNCHANGED loopVars
         \/ Loop \/ RecvFlush \/ Reply
         \/ \E w \in Workers : RecvOut(w)
<1>. USE DEF othersOfCaller, othersOfHasher
<1>1. CASE Call
  BY <1>1 DEF Call, Write, ReadFrom, Flush, Close
<1>2. CASE CallerStep
  BY <1>2 DEF CallerStep, WriteTop, Copy, ReadTop, Fill, FlushNothing, FlushReturns, CloseChans,
     JoinTasks, CloseReturns, QueueHash, Acquire, NextBlk
<1>3. ASSUME NEW w \in Workers, Task(w)  PROVE UNCHANGED loopVars
  BY <1>3 DEF Task, TaskStarts, Compress, FreeSrc, QueueFree, DropToken, TaskExits
<1>4. CASE Hasher
  BY <1>4 DEF Hasher, HashTakes, HashUses, HashExits
<1>5. CASE UNCHANGED vars
  BY <1>5 DEF vars
<1>6. CASE Meet
  BY <1>6 DEF Meet, SendBlk
<1>. QED  BY <1>1, <1>2, <1>3, <1>4, <1>5, <1>6 DEF Next

LEMMA LoopBytesStep ==
  ASSUME TypeOK, StreamStable, TaskBytes, LoopBytes, LoopPlace, [Next]_vars
  PROVE  LoopBytes'
<1>1. CASE UNCHANGED loopVars
  BY <1>1, LoopBytesKept DEF loopVars
<1>2. CASE RecvFlush \/ Reply
  <2>1. UNCHANGED <<cur, pending, out>> /\ lpc' \notin {"poll", "write"}
    BY <1>2 DEF RecvFlush, Reply
  <2>2. ASSUME NEW b \in pending'  PROVE BytesOf(b)'
    BY <2>1, <2>2, BytesKept DEF LoopBytes, TypeOK, LoopTypeOK
  <2>3. ASSUME NEW i \in DOMAIN out', out'[i].k = "blk"  PROVE out'[i].idx < Sent'
    <3>1. out' = out /\ i \in DOMAIN out /\ out[i].idx < Sent
      BY <2>1, <2>3 DEF LoopBytes
    <3>2. out[i] \in Item
      BY <3>1 DEF TypeOK, LoopTypeOK
    <3>. QED  BY <3>1, <3>2 DEF StreamStable, Item
  <2>. QED  BY <2>1, <2>2, <2>3 DEF LoopBytes
<1>3. ASSUME NEW w \in Workers, RecvOut(w)  PROVE LoopBytes'
  <2>1. cur' = wblk[w] /\ BytesOf(wblk[w]) /\ UNCHANGED <<pending, out>> /\ UNCHANGED callerVars
    BY <1>3 DEF RecvOut, TaskBytes, Busy
  <2>2. BytesOf(cur)'
    BY <2>1, LoopStream DEF BytesOf
  <2>. QED  BY <2>1, <2>2, LoopStream DEF LoopBytes
<1>4. CASE Loop
  <2>. USE LoopStream, LoopCaller, <1>4
  <2>1. CASE WriteBlk
    <3>1. ASSUME NEW i \in DOMAIN out', out'[i].k = "blk"  PROVE out'[i].idx < Sent
      <4>1. CASE out' = out
        BY <3>1, <4>1 DEF LoopBytes
      <4>2. CASE out' = Append(out, [k |-> "blk", idx |-> cur.idx, lo |-> cur.lo, hi |-> cur.hi])
        BY <2>1, <3>1, <4>2 DEF LoopBytes, WriteBlk, BytesOf, TypeOK, LoopTypeOK
      <4>3. CASE out' = Append(out, Mark("bad", 0))
        BY <2>1, <3>1, <4>3 DEF LoopBytes, WriteBlk, Mark, TypeOK, LoopTypeOK
      <4>. QED  BY <2>1, <4>1, <4>2, <4>3 DEF WriteBlk, Emit
    <3>2. pending' = pending /\ cur' = cur
      BY <2>1 DEF WriteBlk
    <3>3. lpc' \notin {"poll", "write"}
      BY <2>1 DEF WriteBlk
    <3>. QED  BY <3>1, <3>2, <3>3 DEF LoopBytes
  <2>2. CASE WriteHeader \/ WriteTrailer
    <3>1. \A i \in DOMAIN out' : out'[i].k = "blk" => i \in DOMAIN out /\ out'[i] = out[i]
      <4>1. PICK x : out' = Append(out, x) /\ x.k # "blk"
        BY <2>2 DEF WriteHeader, WriteTrailer, Emit, Mark
      <4>. QED  BY <4>1 DEF TypeOK, LoopTypeOK
    <3>2. pending' = pending /\ lpc' \notin {"poll", "write"}
      BY <2>2 DEF WriteHeader, WriteTrailer
    <3>. QED  BY <3>1, <3>2 DEF LoopBytes
  <2>3. CASE Poll
    <3>1. pending' \subseteq pending \cup {cur} /\ out' = out /\ cur' = cur /\ BytesOf(cur)
      BY <2>3 DEF Poll, LoopBytes
    <3>. QED  BY <3>1 DEF LoopBytes, BytesOf
  <2>4. CASE More
    <3>1. pending' \subseteq pending /\ out' = out
      BY <2>4 DEF More
    <3>2. lpc' \in {"poll", "write"} => cur' \in pending
      BY <2>4 DEF More
    <3>. QED  BY <3>1, <3>2 DEF LoopBytes, BytesOf
  <2>5. CASE Drain
    <3>1. pending' \subseteq pending /\ out' = out /\ lpc' = lpc /\ lpc = "drain"
      BY <2>5 DEF Drain
    <3>. QED  BY <3>1 DEF LoopBytes
  <2>6. CASE OutClosed \/ LoopFails \/ NoReply \/ Drained \/ HashJoined
    <3>1. UNCHANGED <<pending, out>> /\ lpc' \notin {"poll", "write"}
      BY <2>6 DEF OutClosed, LoopFails, NoReply, Drained, HashJoined, loopFields
    <3>. QED  BY <3>1 DEF LoopBytes
  <2>. QED  BY <2>1, <2>2, <2>3, <2>4, <2>5, <2>6 DEF Loop
<1>. QED  BY <1>1, <1>2, <1>3, <1>4, OtherSteps

-----------------------------------------------------------------------------
(* What the io.Writer has received *)

LEMMA LoopPlaceStep ==
  ASSUME TypeOK, LoopPlace, [Next]_vars
  PROVE  LoopPlace'
<1>0. state' = "none" => state = "none"
  BY ErrorStep
<1>. USE DEF LoopPlace, Healthy
<1>1. CASE UNCHANGED loopVars
  BY <1>0, <1>1 DEF loopVars, loopFields
<1>2. CASE RecvFlush \/ Reply
  BY <1>0, <1>2 DEF RecvFlush, Reply
<1>3. ASSUME NEW w \in Workers, RecvOut(w)  PROVE LoopPlace'
  BY <1>0, <1>3 DEF RecvOut
<1>4. CASE WriteHeader
  <2>1. PICK x : out' = Append(out, x) /\ (state' = "none" => x.k = "hdr")
    BY <1>4 DEF WriteHeader, Emit, Mark, SetError
  <2>2. out = <<>> /\ nextIdx = 0 /\ nextIdx' = 0 /\ lpc' = "select"
    BY <1>4 DEF WriteHeader
  <2>3. Len(out') = 1 /\ out'[1] = x
    BY <2>1, <2>2
  <2>. QED  BY <2>1, <2>2, <2>3
<1>5. CASE WriteBlk
  <2>1. Healthy /\ lpc' \notin {"hdr", "write"}
    BY <1>5 DEF WriteBlk
  <2>2. CASE lpc' = "more"
    <3>1. PICK x : out' = Append(out, x) /\ x.k = "blk" /\ nextIdx' = nextIdx + 1
      BY <1>5, <2>2 DEF WriteBlk, Emit
    <3>2. Len(out') = Len(out) + 1 /\ out'[Len(out) + 1] = x
          /\ \A i \in 1 .. Len(out) : out'[i] = out[i]
      BY <3>1 DEF TypeOK, LoopTypeOK
    <3>. QED  BY <2>1, <3>1, <3>2 DEF TypeOK, LoopTypeOK
  <2>3. CASE lpc' = "fail"
    BY <2>3
  <2>4. CASE lpc' = "panic"
    BY <1>5, <2>1, <2>4 DEF WriteBlk
  <2>. QED  BY <1>5, <2>2, <2>3, <2>4 DEF WriteBlk
<1>6. CASE LoopFails
  BY <1>6 DEF LoopFails, SetError, TypeOK, LoopTypeOK, loopFields
<1>7. CASE Poll
  BY <1>7 DEF Poll, IsNext
<1>8. CASE More
  BY <1>8 DEF More, IsNext, sharedVars
<1>9. CASE OutClosed \/ NoReply \/ Drain
  BY <1>9 DEF OutClosed, NoReply, Drain, sharedVars, loopFields
<1>10. CASE Drained \/ HashJoined
  BY <1>10 DEF Drained, HashJoined, Clean, loopFields
<1>11. CASE WriteTrailer
  BY <1>11 DEF WriteTrailer
<1>. QED  BY <1>1, <1>2, <1>3, <1>4, <1>5, <1>6, <1>7, <1>8, <1>9, <1>10, <1>11, OtherSteps DEF Loop

\* What is out stays in order while the stream grows.
LEMMA OutputKept ==
  ASSUME TypeOK, StreamStable, LoopBytes, OutputInOrder, out' = out
  PROVE  OutputInOrder'
<1>1. ASSUME NEW i \in DOMAIN out, out[i].k = "blk"
      PROVE  i - 1 <= Len(starts') /\ out[i].lo = starts'[i - 1] /\ out[i].hi = EndOf(i - 2)'
  <2>1. i \in Nat /\ i > 1 /\ out[i].idx = i - 2 /\ i - 2 < Sent
    BY <1>1 DEF OutputInOrder, LoopBytes, TypeOK, LoopTypeOK
  <2>2. i - 2 \in 0 .. Sent - 1 /\ (i - 2) + 1 = i - 1
    BY <2>1 DEF StreamStable
  <2>3. starts'[i - 1] = starts[i - 1] /\ EndOf(i - 2)' = EndOf(i - 2) /\ i - 1 <= Len(starts')
    BY <2>1, <2>2 DEF StreamStable, TypeOK, CallerTypeOK
  <2>. QED  BY <1>1, <2>3 DEF OutputInOrder
<1>. QED  BY <1>1 DEF OutputInOrder

\* The steps that write to the io.Writer.
LEMMA WriteSteps ==
  ASSUME [Next]_vars
  PROVE  out' = out \/ WriteHeader \/ WriteBlk \/ WriteTrailer
BY OtherSteps DEF Loop, loopVars, loopFields, RecvFlush, Reply, RecvOut, OutClosed, Poll, LoopFails, More,
   NoReply, Drain, Drained, HashJoined

LEMMA OutputStep ==
  ASSUME TypeOK, StreamStable, LoopBytes, LoopPlace, OutputInOrder, [Next]_vars
  PROVE  OutputInOrder'
<1>1. CASE WriteHeader
  <2>1. PICK x : out' = Append(out, x) /\ x.k \in {"hdr", "bad"}
    BY <1>1 DEF WriteHeader, Emit, Mark
  <2>2. out = <<>>
    BY <1>1 DEF WriteHeader, LoopPlace
  <2>3. Len(out') = 1 /\ DOMAIN out' = {1} /\ out'[1] = x
    BY <2>1, <2>2
  <2>. QED  BY <2>1, <2>3 DEF OutputInOrder
<1>2. CASE WriteBlk \/ WriteTrailer
  <2>1. Healthy /\ Len(out) = nextIdx + 1 /\ out[1].k = "hdr" /\ \A i \in 2 .. Len(out) : out[i].k = "blk"
    BY <1>2 DEF WriteBlk, WriteTrailer, LoopPlace, Healthy
  <2>2. UNCHANGED callerVars
    BY <1>2 DEF WriteBlk, WriteTrailer
  <2>3. CASE out' = out
    BY <2>3, OutputKept
  <2>4. ASSUME NEW x, out' = Append(out, x),
               \/ x.k \in {"end", "bad"}
               \/ /\ x.k = "blk" /\ x.idx = nextIdx /\ nextIdx + 1 <= Len(starts)
                  /\ x.lo = starts[nextIdx + 1] /\ x.hi = EndOf(nextIdx)
        PROVE  OutputInOrder'
    <3>1. Len(out') = Len(out) + 1 /\ out'[Len(out) + 1] = x /\ DOMAIN out' = 1 .. Len(out')
          /\ \A i \in 1 .. Len(out) : out'[i] = out[i]
      BY <2>4 DEF TypeOK, LoopTypeOK
    <3>2. nextIdx \in Nat /\ DOMAIN out = 1 .. Len(out)
      BY DEF TypeOK, LoopTypeOK
    <3>3. starts' = starts /\ \A i : EndOf(i)' = EndOf(i)
      BY <2>2, LoopStream
    <3>4. ASSUME NEW i \in 1 .. Len(out)
          PROVE  /\ out'[i].k = "hdr" => i = 1
                 /\ out'[i].k = "blk" => /\ i > 1 /\ out'[1].k = "hdr"
                                         /\ out'[i].idx = i - 2 /\ i - 1 <= Len(starts')
                                         /\ out'[i].lo = starts'[i - 1] /\ out'[i].hi = EndOf(i - 2)'
                 /\ out'[i].k \notin {"end", "bad"}
      <4>1. i \in DOMAIN out /\ out'[i] = out[i] /\ out'[1] = out[1] /\ out[i].k \in {"hdr", "blk"}
        BY <2>1, <3>1, <3>2, <3>4
      <4>2. EndOf(i - 2)' = EndOf(i - 2)
        BY <3>3
      <4>. QED  BY <3>3, <4>1, <4>2 DEF OutputInOrder
    <3>6. out'[1].k = "hdr" /\ Len(out) >= 1
      BY <2>1, <3>1, <3>2, <3>3
    <3>7. ASSUME NEW i \in DOMAIN out', i = Len(out) + 1
          PROVE  /\ out'[i].k # "hdr"
                 /\ out'[i].k = "blk" => /\ i > 1 /\ out'[1].k = "hdr"
                                         /\ out'[i].idx = i - 2 /\ i - 1 <= Len(starts')
                                         /\ out'[i].lo = starts'[i - 1] /\ out'[i].hi = EndOf(i - 2)'
      <4>1. i - 2 = nextIdx /\ i - 1 = nextIdx + 1 /\ i > 1 /\ out'[i] = x
        BY <2>1, <3>1, <3>2, <3>7
      <4>2. EndOf(i - 2)' = EndOf(nextIdx)
        BY <3>3, <4>1
      <4>. QED  BY <2>4, <3>3, <3>6, <4>1, <4>2
    <3>8. \A i \in DOMAIN out' : i \in 1 .. Len(out) \/ i = Len(out')
      BY <3>1, <3>2
    <3>. QED  BY <3>1, <3>4, <3>7, <3>8 DEF OutputInOrder
  <2>5. CASE WriteTrailer
    <3>1. PICK x : out' = Append(out, x) /\ x.k \in {"end", "bad"}
      BY <2>5 DEF WriteTrailer, Emit, Mark
    <3>. QED  BY <2>4, <3>1
  <2>6. CASE WriteBlk /\ out' # out
    <3>1. PICK x : out' = Append(out, x) /\ (x.k = "bad" \/ x = [k |-> "blk", idx |-> cur.idx, lo |-> cur.lo, hi |-> cur.hi])
      BY <2>6 DEF WriteBlk, Emit, Mark
    <3>2. cur.idx = nextIdx /\ BytesOf(cur) /\ cur.idx \in Nat
      BY <2>6 DEF WriteBlk, LoopPlace, LoopBytes, TypeOK, LoopTypeOK, Block
    <3>3. cur.idx + 1 <= Len(starts)
      BY <3>2 DEF BytesOf, StreamStable, TypeOK, CallerTypeOK
    <3>. QED  BY <2>4, <3>1, <3>2, <3>3 DEF BytesOf
  <2>. QED  BY <1>2, <2>3, <2>5, <2>6
<1>. QED  BY <1>1, <1>2, OutputKept, WriteSteps

-----------------------------------------------------------------------------

LEMMA OrderInit == Init => OrderInv /\ OutputInOrder
BY DEF Init, OrderInv, TaskBytes, LoopBytes, LoopPlace, Healthy, Busy, OutputInOrder

LEMMA OrderStep ==
  TypeOK /\ TypeOK' /\ OrderInv /\ OutputInOrder /\ [Next]_vars => OrderInv' /\ OutputInOrder'
BY StreamStep, TaskBytesStep, LoopBytesStep, LoopPlaceStep, OutputStep DEF OrderInv

\* The io.Writer receives the header, then the blocks in stream order with the
\* bytes of the caller, and nothing after the end mark or a failed Write: for
\* any number of tasks finishing in any order, and any errors.
THEOREM OutputOrdered == Spec => [](OrderInv /\ OutputInOrder)
<1>1. TypeOK /\ TypeOK' /\ (OrderInv /\ OutputInOrder) /\ [Next]_vars => (OrderInv /\ OutputInOrder)'
  BY OrderStep
<1>. QED  BY <1>1, OrderInit, TypeCorrect, PTL DEF Spec

-----------------------------------------------------------------------------
(* Which channels are closed, and what the caller knows                    *)

LEMMA PhaseInit == Init => ChannelPhase /\ CallPhase
<1>. SUFFICES ASSUME Init  PROVE ChannelPhase /\ CallPhase
  OBVIOUS
<1>1. starts = <<0>> /\ starts[1] = 0 /\ Len(starts) = 1
  BY DEF Init
<1>2. CallPhase
  BY <1>1 DEF Init, CallPhase
<1>3. ChannelPhase
  BY OptionsAssumption DEF Init, ChannelPhase
<1>. QED  BY <1>2, <1>3

\* Calls and the caller's steps in them.
LEMMA Reported ==
  ASSUME CallPhase, ReportReturn
  PROVE  cpc' = "idle" /\ (report' /\ ~srcNil => state # "none")
BY Zenon DEF CallPhase, ReportReturn

LEMMA PhaseCaller ==
  ASSUME TypeOK, ChannelPhase, CallPhase, Call \/ CallerStep
  PROVE  ChannelPhase' /\ CallPhase'
<1>. USE DEF ChannelPhase, CallPhase, srcIdx, callFields, sharedVars, workerVars, loopVars, loopFields,
         hashVars, othersOfCaller, EnterFlush, FlushBlk, Enter, TasksDone
<1>0. srcOff \in Nat /\ starts \in Seq(Nat) /\ starts # <<>>
  BY DEF TypeOK, CallerTypeOK
<1>1. CASE Write \/ ReadFrom
  BY <1>1 DEF Write, ReadFrom
<1>2. CASE Flush
  BY <1>2, Reported DEF Flush
<1>3. CASE Close
  BY <1>3, Reported DEF Close
<1>4. CASE WriteTop \/ ReadTop
  BY <1>4, Reported DEF WriteTop, ReadTop
<1>5. CASE Copy
  BY <1>5 DEF Copy
<1>6. CASE Fill
  BY <1>6, Reported DEF Fill, SetError
<1>7. CASE FlushNothing \/ FlushReturns
  BY <1>7, Reported DEF FlushNothing, FlushReturns
<1>8. CASE CloseChans
  BY <1>8 DEF CloseChans
<1>9. CASE JoinTasks
  BY <1>9 DEF JoinTasks
<1>10. CASE CloseReturns
  BY <1>10 DEF CloseReturns
<1>11. CASE QueueHash \/ Acquire
  BY <1>11 DEF QueueHash, Acquire
<1>12. CASE NextBlk
  <2>1. cpc' \in {"write", "read", "sync", "close"} /\ srcOff' = 0 /\ ~srcNil /\ "in" \notin chClosed
    BY <1>12 DEF NextBlk, TypeOK, CallerTypeOK
  <2>2. starts'[1] = 0 /\ Len(starts') > 1
    BY <1>0, <1>12, Positions DEF NextBlk, TypeOK
  <2>3. UNCHANGED <<srcNil, report, chClosed, state, lpc, flushIdx, hpc, hch>>
    BY <1>12 DEF NextBlk
  <2>4. CallPhase'
    BY <1>12, <2>1, <2>2, <2>3 DEF NextBlk
  <2>5. ChannelPhase'
    BY <1>12, <2>1, <2>3 DEF NextBlk, TypeOK, TaskTypeOK
  <2>. QED  BY <2>4, <2>5
<1>. QED  BY <1>1, <1>2, <1>3, <1>4, <1>5, <1>6, <1>7, <1>8, <1>9, <1>10, <1>11, <1>12 DEF Call, CallerStep

LEMMA PhaseTask ==
  ASSUME TypeOK, ChannelPhase, CallPhase, NEW w \in Workers, Task(w)
  PROVE  ChannelPhase' /\ CallPhase'
<1>. USE DEF ChannelPhase, CallPhase, srcIdx, callerVars, callFields, sharedVars, loopVars, loopFields,
         hashVars, TasksDone, TypeOK, TaskTypeOK
<1>1. CASE TaskStarts(w) \/ Compress(w) \/ DropToken(w) \/ TaskExits(w)
  BY <1>1 DEF TaskStarts, Compress, DropToken, TaskExits
<1>2. CASE FreeSrc(w)
  BY <1>2, OptionsAssumption DEF FreeSrc, Then
<1>3. CASE QueueFree(w)
  BY <1>3, OptionsAssumption DEF QueueFree, Then
<1>. QED  BY <1>1, <1>2, <1>3 DEF Task

LEMMA PhaseMeet ==
  ASSUME TypeOK, ChannelPhase, CallPhase, Meet
  PROVE  ChannelPhase' /\ CallPhase'
<1>. USE DEF ChannelPhase, CallPhase, srcIdx, callerVars, callFields, sharedVars, workerVars, loopVars, loopFields,
         hashVars, TasksDone
<1>1. CASE RecvFlush \/ Reply
  BY <1>1 DEF RecvFlush, Reply
<1>2. ASSUME NEW w \in Workers, SendBlk(w)  PROVE ChannelPhase' /\ CallPhase'
  BY <1>2 DEF SendBlk, TypeOK, TaskTypeOK
<1>3. ASSUME NEW w \in Workers, RecvOut(w)  PROVE ChannelPhase' /\ CallPhase'
  BY <1>3 DEF RecvOut, TypeOK, TaskTypeOK
<1>. QED  BY <1>1, <1>2, <1>3 DEF Meet

LEMMA PhaseLoop ==
  ASSUME TypeOK, ChannelPhase, CallPhase, Loop
  PROVE  ChannelPhase' /\ CallPhase'
<1>. USE DEF ChannelPhase, CallPhase, srcIdx, callerVars, callFields, sharedVars, workerVars, loopVars, loopFields,
         hashVars, TasksDone
<1>1. CASE WriteHeader \/ LoopFails
  BY <1>1 DEF WriteHeader, LoopFails, SetError
<1>2. CASE OutClosed \/ Poll \/ WriteBlk \/ More \/ NoReply \/ Drain
  BY <1>2 DEF OutClosed, Poll, WriteBlk, More, NoReply, Drain
<1>3. CASE Drained
  BY <1>3, OptionsAssumption DEF Drained, JoinHash
<1>4. CASE HashJoined
  BY <1>4 DEF HashJoined
<1>5. CASE WriteTrailer
  BY <1>5 DEF WriteTrailer, SetError
<1>. QED  BY <1>1, <1>2, <1>3, <1>4, <1>5 DEF Loop

LEMMA PhaseHasher ==
  ASSUME TypeOK, ChannelPhase, CallPhase, Hasher
  PROVE  ChannelPhase' /\ CallPhase'
BY DEF ChannelPhase, CallPhase, srcIdx, callerVars, callFields, sharedVars, workerVars, loopVars, loopFields,
   TasksDone, othersOfHasher, Hasher, HashTakes, HashUses, HashExits, TypeOK, HashTypeOK

LEMMA PhaseStep ==
  ASSUME TypeOK, ChannelPhase, CallPhase, [Next]_vars
  PROVE  ChannelPhase' /\ CallPhase'
<1>1. CASE UNCHANGED vars
  BY <1>1 DEF ChannelPhase, CallPhase, srcIdx, vars, callerVars, callFields, sharedVars, workerVars, loopVars,
     loopFields, hashVars, TasksDone
<1>. QED  BY <1>1, PhaseCaller, PhaseTask, PhaseMeet, PhaseLoop, PhaseHasher DEF Next

-----------------------------------------------------------------------------
(* The blocks in flight: each in one place, each with its token             *)

\* A step that moves no block between the places.
Quiet ==
  /\ UNCHANGED <<cur, pending, nextIdx>> /\ InLoop' = InLoop /\ Busy' = Busy /\ Sent' = Sent
  /\ \A w \in Workers : wblk'[w].idx = wblk[w].idx
  /\ \A w \in Busy : wblk'[w].st = "drop" \/ wpc'[w] = "token" =>
                      wblk[w].st = "drop" \/ wpc[w] = "token" \/ state # "none"
  /\ lpc = "more" => lpc' = "more"
  /\ lpc = "fail" => lpc' = "fail" \/ state' # "none"
  /\ lpc' \in {"hdr", "joinhash", "trl", "done"} => lpc \in {"hdr", "joinhash", "trl", "done"} \/ pending = {}
  /\ \/ sem' = sem /\ (cpc' = "send" <=> cpc = "send")
     \/ sem' = sem + 1 /\ cpc = "sem" /\ cpc' = "send"

LEMMA QuietCaller ==
  ASSUME TypeOK, Call \/ CallerStep
  PROVE  Quiet
<1>. USE DEF Quiet, InLoop, Busy, callFields, sharedVars, workerVars, loopVars, loopFields, othersOfCaller
<1>1. CASE Call
  BY <1>1 DEF Call, Write, ReadFrom, Flush, Close, Enter, Sent, srcIdx, FlushBlk, EnterFlush, ReportReturn
<1>2. CASE WriteTop \/ Copy \/ ReadTop \/ Fill \/ FlushNothing \/ FlushReturns
  BY <1>2 DEF WriteTop, Copy, ReadTop, Fill, FlushNothing, FlushReturns, Sent, srcIdx, EnterFlush,
     ReportReturn, SetError
<1>3. CASE CloseChans \/ JoinTasks \/ CloseReturns \/ QueueHash \/ Acquire
  BY <1>3 DEF CloseChans, JoinTasks, CloseReturns, QueueHash, Acquire, Sent, srcIdx
<1>4. CASE NextBlk
  <2>1. cpc' \in {"write", "read", "sync", "close"} /\ Len(starts') = Len(starts) + 1 /\ cpc = "next"
    BY <1>4, Positions DEF NextBlk, TypeOK, CallerTypeOK
  <2>2. Sent' = Sent
    BY <2>1 DEF Sent, srcIdx, TypeOK, CallerTypeOK
  <2>3. \A w \in Workers : wpc'[w] = wpc[w] \/ {wpc'[w], wpc[w]} \subseteq {"off", "queued"}
    BY <1>4 DEF NextBlk, TypeOK, TaskTypeOK
  <2>4. UNCHANGED <<wblk, state, sem, lpc, cur, pending, nextIdx>>
    BY <1>4 DEF NextBlk
  <2>. QED  BY <2>1, <2>2, <2>3, <2>4
<1>. QED  BY <1>1, <1>2, <1>3, <1>4 DEF CallerStep

LEMMA QuietTask ==
  ASSUME TypeOK, NEW w \in Workers, Task(w), ~DropToken(w)
  PROVE  Quiet
<1>. USE DEF Quiet, InLoop, callerVars, callFields, sharedVars, loopVars, loopFields, Sent, srcIdx
<1>0. wpc \in [Workers -> {"off", "queued", "recv", "work", "free", "hfree", "token", "out", "exit"}]
      /\ wblk \in [Workers -> Block]
  BY DEF TypeOK, TaskTypeOK
<1>1. CASE TaskStarts(w) \/ TaskExits(w)
  BY <1>0, <1>1 DEF TaskStarts, TaskExits, Busy
<1>2. CASE Compress(w)
  <2>1. Busy' = Busy
    BY <1>0, <1>2 DEF Compress, Busy
  <2>2. wpc'[w] = "free" /\ \A x \in Workers : wblk'[x].idx = wblk[x].idx /\ (x # w => wblk'[x] = wblk[x] /\ wpc'[x] = wpc[x])
    BY <1>0, <1>2 DEF Compress, Block
  <2>3. wblk'[w].st = "drop" => wblk[w].st = "drop" \/ state # "none"
    BY <1>0, <1>2 DEF Compress, Block
  <2>4. UNCHANGED <<cur, pending, nextIdx, lpc, cpc, starts, sem, state>>
    BY <1>2 DEF Compress
  <2>5. InLoop' = InLoop /\ Sent' = Sent
    BY <2>4
  <2>6. \A x \in Busy : wblk'[x].st = "drop" \/ wpc'[x] = "token" =>
                        wblk[x].st = "drop" \/ wpc[x] = "token" \/ state # "none"
    BY <2>2, <2>3 DEF Busy
  <2>. HIDE DEF InLoop, Sent
  <2>. QED  BY <2>1, <2>2, <2>4, <2>5, <2>6
<1>3. CASE FreeSrc(w) \/ QueueFree(w)
  BY <1>0, <1>3 DEF FreeSrc, QueueFree, Then, Busy
<1>. QED  BY <1>1, <1>2, <1>3 DEF Task

LEMMA QuietRest ==
  ASSUME TypeOK, \/ RecvFlush \/ Reply \/ WriteHeader \/ OutClosed \/ LoopFails \/ NoReply \/ Drained
                 \/ HashJoined \/ WriteTrailer \/ Hasher \/ UNCHANGED vars
  PROVE  Quiet
<1>. USE DEF Quiet, InLoop, Busy, vars, callerVars, callFields, sharedVars, workerVars, loopVars, loopFields,
         Sent, srcIdx
<1>1. CASE RecvFlush \/ Reply
  BY <1>1 DEF RecvFlush, Reply
<1>2. CASE WriteHeader \/ LoopFails \/ WriteTrailer
  BY <1>2 DEF WriteHeader, LoopFails, WriteTrailer, SetError
<1>3. CASE OutClosed \/ NoReply \/ Drained \/ HashJoined
  BY <1>3 DEF OutClosed, NoReply, Drained, HashJoined
<1>4. CASE Hasher
  BY <1>4 DEF Hasher, HashTakes, HashUses, HashExits, othersOfHasher
<1>5. CASE UNCHANGED vars
  BY <1>5
<1>. QED  BY <1>1, <1>2, <1>3, <1>4, <1>5

\* The steps that move blocks.
LEMMA Moves ==
  ASSUME TypeOK, [Next]_vars
  PROVE  \/ Quiet
         \/ Poll \/ WriteBlk \/ More \/ Drain
         \/ \E w \in Workers : SendBlk(w) \/ RecvOut(w) \/ DropToken(w)
BY QuietCaller, QuietTask, QuietRest DEF Next, Loop, Meet

\* Where a step puts the blocks it moves.
LEMMA Finite ==
  ASSUME TypeOK
  PROVE  IsFiniteSet(Busy) /\ IsFiniteSet(Busy') /\ Cardinality(Busy) \in Nat
<1>1. Busy \subseteq Workers /\ Busy' \subseteq Workers
  BY DEF Busy
<1>. QED  BY <1>1, WorkersAssumption, FS_Subset, FS_CardinalityType

LEMMA OnePlaceStep ==
  ASSUME TypeOK, OrderInv, CarrierInv, [Next]_vars
  PROVE  OnePlace'
<1>. USE DEF CarrierInv, OnePlace, InLoop, TypeOK, LoopTypeOK, TaskTypeOK
<1>1. CASE Quiet
  BY <1>1 DEF Quiet, Busy
<1>2. CASE Poll \/ WriteBlk \/ More \/ Drain
  <2>1. Busy' = Busy /\ wblk' = wblk
    BY <1>2 DEF Poll, WriteBlk, More, Drain, Busy, workerVars
  <2>2. CASE Poll
    BY <2>1, <2>2 DEF Poll
  <2>3. CASE WriteBlk
    BY <2>1, <2>3 DEF WriteBlk
  <2>4. CASE More
    BY <2>1, <2>4 DEF More
  <2>5. CASE Drain
    BY <2>1, <2>5 DEF Drain
  <2>. QED  BY <1>2, <2>2, <2>3, <2>4, <2>5
<1>3. ASSUME NEW w \in Workers, SendBlk(w)  PROVE OnePlace'
  <2>1. Busy' = Busy \cup {w} /\ w \notin Busy
    BY <1>3 DEF SendBlk, Busy
  <2>2. wblk'[w].idx = Sent /\ \A x \in Workers : x # w => wblk'[x] = wblk[x]
    BY <1>3 DEF SendBlk, Sent
  <2>3. UNCHANGED <<pending, cur, lpc>>
    BY <1>3 DEF SendBlk, loopVars, loopFields
  <2>4. /\ \A x \in Busy : wblk[x].idx # Sent
        /\ \A b \in pending : b.idx # Sent
        /\ InLoop => cur.idx # Sent
    BY <1>3, Positions DEF OrderInv, TaskBytes, LoopBytes, BytesOf, Sent, SendBlk, Busy
  <2>. QED  BY <2>1, <2>2, <2>3, <2>4 DEF Busy
<1>4. ASSUME NEW w \in Workers, RecvOut(w)  PROVE OnePlace'
  <2>1. Busy' = Busy \ {w} /\ w \in Busy /\ wblk' = wblk
    BY <1>4 DEF RecvOut, Busy
  <2>. QED  BY <1>4, <2>1 DEF RecvOut
<1>5. ASSUME NEW w \in Workers, DropToken(w)  PROVE OnePlace'
  <2>1. Busy' = Busy \ {w} /\ wblk' = wblk
    BY <1>5 DEF DropToken, Busy
  <2>. QED  BY <1>5, <2>1 DEF DropToken, loopVars, loopFields
<1>. QED  BY <1>1, <1>2, <1>3, <1>4, <1>5, Moves

LEMMA NotWrittenStep ==
  ASSUME TypeOK, OrderInv, CarrierInv, NoPanic', [Next]_vars
  PROVE  NotWritten'
<1>. USE DEF CarrierInv, NotWritten, InLoop, TypeOK, LoopTypeOK, TaskTypeOK, Block
<1>0. Sent \in Nat /\ Sent' \in Nat /\ Sent <= Sent'
  BY StreamStep DEF StreamStable
<1>1. CASE Quiet
  BY <1>0, <1>1 DEF Quiet, Busy
<1>2. CASE Poll \/ WriteBlk \/ More \/ Drain
  <2>1. Busy' = Busy /\ wblk' = wblk /\ Busy \subseteq Workers
    BY <1>2 DEF Poll, WriteBlk, More, Drain, Busy, workerVars
  <2>2. CASE Poll
    BY <1>0, <2>1, <2>2 DEF Poll
  <2>3. CASE WriteBlk
    <3>1. nextIdx' = nextIdx + 1 /\ cur.idx = nextIdx /\ cur.idx < Sent /\ pending' = pending
          /\ lpc' \in {"more", "fail"} /\ lpc = "write"
      BY <2>3 DEF WriteBlk, OrderInv, LoopPlace, LoopBytes, BytesOf, NoPanic
    <3>2. \A w \in Busy : wblk[w].idx # nextIdx
      BY <3>1 DEF OnePlace
    <3>3. \A b \in pending : b.idx # nextIdx
      BY <3>1 DEF OnePlace
    <3>4. \A w \in Busy : nextIdx + 1 <= wblk[w].idx
      BY <2>1, <3>2
    <3>5. \A b \in pending : nextIdx + 1 <= b.idx
      BY <3>3
    <3>. QED  BY <1>0, <2>1, <3>1, <3>4, <3>5
  <2>4. CASE More
    BY <1>0, <2>1, <2>4 DEF More
  <2>5. CASE Drain
    BY <1>0, <2>1, <2>5 DEF Drain
  <2>. QED  BY <1>2, <2>2, <2>3, <2>4, <2>5
<1>3. ASSUME NEW w \in Workers, SendBlk(w)  PROVE NotWritten'
  <2>1. Busy' = Busy \cup {w}
    BY <1>3 DEF SendBlk, Busy
  <2>2. wblk'[w].idx = Sent /\ \A x \in Workers : x # w => wblk'[x] = wblk[x]
    BY <1>3 DEF SendBlk, Sent
  <2>3. UNCHANGED <<pending, cur, lpc, nextIdx>>
    BY <1>3 DEF SendBlk, loopVars, loopFields
  <2>4. \A x \in Busy' : nextIdx <= wblk'[x].idx
    BY <1>0, <2>1, <2>2 DEF Busy
  <2>5. nextIdx <= Sent'
    BY <1>0
  <2>. QED  BY <2>3, <2>4, <2>5
<1>4. ASSUME NEW w \in Workers, RecvOut(w)  PROVE NotWritten'
  <2>1. Busy' = Busy \ {w} /\ w \in Busy /\ wblk' = wblk
    BY <1>4 DEF RecvOut, Busy
  <2>. QED  BY <1>0, <1>4, <2>1 DEF RecvOut
<1>5. ASSUME NEW w \in Workers, DropToken(w)  PROVE NotWritten'
  <2>1. Busy' = Busy \ {w} /\ wblk' = wblk
    BY <1>5 DEF DropToken, Busy
  <2>. QED  BY <1>0, <1>5, <2>1 DEF DropToken, loopVars, loopFields
<1>. QED  BY <1>1, <1>2, <1>3, <1>4, <1>5, Moves

LEMMA TokensStep ==
  ASSUME TypeOK, CarrierInv, NoPanic', [Next]_vars
  PROVE  TokensExact'
<1>. USE DEF CarrierInv, TokensExact, InLoop, NoneMissing
<1>0. /\ IsFiniteSet(Busy) /\ Cardinality(Busy) \in Nat
      /\ IsFiniteSet(pending) /\ Cardinality(pending) \in Nat /\ sem \in Nat
  BY Finite, FS_CardinalityType DEF TypeOK, SharedTypeOK
<1>1. CASE Quiet
  BY <1>0, <1>1 DEF Quiet
<1>2. CASE Poll \/ WriteBlk \/ More \/ Drain
  <2>1. Busy' = Busy /\ cpc' = cpc
    BY <1>2 DEF Poll, WriteBlk, More, Drain, Busy, workerVars, callerVars
  <2>2. CASE Poll
    <3>1. CASE state = "none" /\ ~IsNext(cur)
      <4>1. pending' = pending \cup {cur} /\ cur \notin pending
        BY <2>2, <3>1 DEF Poll, OnePlace
      <4>2. Cardinality(pending') = Cardinality(pending) + 1
        BY <1>0, <4>1, FS_AddElement
      <4>. QED  BY <1>0, <2>1, <2>2, <3>1, <4>2 DEF Poll
    <3>2. CASE ~(state = "none" /\ ~IsNext(cur))
      BY <1>0, <2>1, <2>2, <3>2 DEF Poll, Kick, Release
    <3>. QED  BY <3>1, <3>2
  <2>3. CASE WriteBlk
    BY <1>0, <2>1, <2>3 DEF WriteBlk, Kick, Release, NoPanic
  <2>4. CASE More
    <3>1. CASE \E b \in pending : pending' = pending \ {b} /\ lpc' = "write"
      <4>1. PICK b \in pending : pending' = pending \ {b}
        BY <3>1
      <4>2. Cardinality(pending') = Cardinality(pending) - 1
        BY <1>0, <4>1, FS_RemoveElement
      <4>. QED  BY <1>0, <2>1, <2>4, <3>1, <4>2 DEF More, sharedVars
    <3>2. CASE pending' = pending /\ lpc' = "reply"
      BY <1>0, <2>1, <2>4, <3>2 DEF More, sharedVars
    <3>. QED  BY <2>4, <3>1, <3>2 DEF More
  <2>5. CASE Drain
    <3>1. PICK b \in pending : pending' = pending \ {b} /\ Kick(b)
      BY <2>5 DEF Drain
    <3>2. Cardinality(pending') = Cardinality(pending) - 1 /\ Cardinality(pending) > 0
      BY <1>0, <3>1, FS_RemoveElement, FS_EmptySet
    <3>. QED  BY <1>0, <2>1, <2>5, <3>1, <3>2 DEF Drain, Kick, Release
  <2>. QED  BY <1>2, <2>2, <2>3, <2>4, <2>5
<1>3. ASSUME NEW w \in Workers, SendBlk(w)  PROVE TokensExact'
  <2>1. Busy' = Busy \cup {w} /\ w \notin Busy
    BY <1>3 DEF SendBlk, Busy, TypeOK, TaskTypeOK
  <2>2. Cardinality(Busy') = Cardinality(Busy) + 1
    BY <1>0, <2>1, FS_AddElement
  <2>. QED  BY <1>0, <1>3, <2>2 DEF SendBlk, sharedVars, loopVars, loopFields
<1>4. ASSUME NEW w \in Workers, RecvOut(w)  PROVE TokensExact'
  <2>1. Busy' = Busy \ {w} /\ w \in Busy
    BY <1>4 DEF RecvOut, Busy, TypeOK, TaskTypeOK
  <2>2. Cardinality(Busy') = Cardinality(Busy) - 1
    BY <1>0, <2>1, FS_RemoveElement
  <2>. QED  BY <1>0, <1>4, <2>2 DEF RecvOut, sharedVars, callerVars
<1>5. ASSUME NEW w \in Workers, DropToken(w)  PROVE TokensExact'
  <2>1. Busy' = Busy \ {w} /\ w \in Busy
    BY <1>5 DEF DropToken, Busy, TypeOK, TaskTypeOK
  <2>2. Cardinality(Busy') = Cardinality(Busy) - 1 /\ Cardinality(Busy) > 0
    <3>1. Cardinality(Busy \ {w}) = Cardinality(Busy) - 1 /\ IsFiniteSet(Busy \ {w})
      BY <1>0, <2>1, FS_RemoveElement
    <3>2. Cardinality(Busy \ {w}) \in Nat
      BY <3>1, FS_CardinalityType
    <3>. QED  BY <1>0, <2>1, <3>1, <3>2
  <2>. QED  BY <1>0, <1>5, <2>2 DEF DropToken, Release, callerVars, loopVars, loopFields
<1>. QED  BY <1>1, <1>2, <1>3, <1>4, <1>5, Moves

\* A block carried goes on being carried unless it is written or an error is set.
LEMMA NoneMissingStep ==
  ASSUME TypeOK, TypeOK', ChannelPhase, OrderInv, CarrierInv, NoPanic', [Next]_vars
  PROVE  NoneMissing'
<1>. USE DEF CarrierInv, NoneMissing, InLoop, IsNext
<1>0. Sent \in Nat /\ Sent' \in Nat /\ nextIdx \in Nat
  BY StreamStep DEF StreamStable, TypeOK, LoopTypeOK
<1>00. state' = "none" => state = "none"
  BY ErrorStep
<1>000. Busy \subseteq Workers /\ Busy' \subseteq Workers
  BY DEF Busy
<1>1. CASE Quiet
  <2>1. \A i \in Nat : Carried(i)' <=> Carried(i)
    BY <1>1, <1>000 DEF Quiet, Carried
  <2>2. state' = "none" /\ lpc' # "fail" => lpc # "fail"
    BY <1>1, <1>00 DEF Quiet
  <2>3. (state = "none" /\ lpc # "fail" => \A i \in nextIdx .. Sent - 1 : Carried(i))'
    BY <1>0, <1>00, <1>1, <2>1, <2>2 DEF Quiet
  <2>4. (state = "none" /\ lpc \notin {"more", "fail"} => \A b \in pending : ~IsNext(b))'
    BY <1>00, <1>1, <2>2 DEF Quiet
  <2>5. (\A w \in Busy : wblk[w].st = "drop" \/ wpc[w] = "token" => state # "none")'
    BY <1>00, <1>1 DEF Quiet
  <2>6. (lpc \in {"hdr", "joinhash", "trl", "done"} => pending = {})' /\ IsFiniteSet(pending')
    BY <1>1 DEF Quiet
  <2>. QED  BY <2>3, <2>4, <2>5, <2>6
<1>2. CASE Poll \/ WriteBlk \/ More \/ Drain
  <2>1. Busy' = Busy /\ wblk' = wblk /\ wpc' = wpc /\ state' = state /\ Sent' = Sent
    BY <1>2 DEF Poll, WriteBlk, More, Drain, Busy, workerVars, callerVars, callFields, sharedVars, Sent, srcIdx
  <2>2. CASE Poll
    <3>1. lpc' \in {"reply", "fail", "write"} /\ cur' = cur /\ nextIdx' = nextIdx
      BY <2>2 DEF Poll
    <3>2. IsFiniteSet(pending')
      BY <2>2, FS_AddElement DEF Poll
    <3>3. ASSUME state = "none", lpc' # "fail", NEW i \in nextIdx .. Sent - 1  PROVE Carried(i)'
      <4>1. Carried(i)
        BY <2>2, <3>3 DEF Poll
      <4>. QED  BY <2>1, <2>2, <3>1, <3>3, <4>1 DEF Poll, Carried
    <3>4. state = "none" /\ lpc' # "fail" => \A b \in pending' : b.idx # nextIdx
      BY <2>2 DEF Poll
    <3>. QED  BY <2>1, <3>1, <3>2, <3>3, <3>4
  <2>3. CASE WriteBlk
    <3>1. nextIdx' = nextIdx + 1 /\ cur.idx = nextIdx /\ pending' = pending /\ lpc = "write"
          /\ lpc' \in {"more", "fail"}
      BY <2>3 DEF WriteBlk, OrderInv, LoopPlace, NoPanic
    <3>2. ASSUME state = "none", lpc' # "fail", NEW i \in nextIdx + 1 .. Sent - 1  PROVE Carried(i)'
      <4>1. i \in nextIdx .. Sent - 1 /\ i # nextIdx
        BY <1>0, <3>2
      <4>2. Carried(i)
        BY <3>1, <3>2, <4>1
      <4>. QED  BY <2>1, <3>1, <4>1, <4>2 DEF Carried
    <3>. QED  BY <2>1, <3>1, <3>2
  <2>4. CASE More
    <3>1. nextIdx' = nextIdx /\ lpc = "more" /\ lpc' \in {"write", "reply"}
      BY <2>4 DEF More
    <3>2. IsFiniteSet(pending')
      BY <2>4, FS_RemoveElement DEF More
    <3>3. ASSUME state = "none", NEW i \in nextIdx .. Sent - 1  PROVE Carried(i)'
      <4>1. Carried(i)
        BY <3>1, <3>3
      <4>. QED  BY <2>1, <2>4, <3>1, <4>1 DEF More, Carried
    <3>4. \A b \in pending' : b.idx # nextIdx
      BY <2>4 DEF More, OnePlace
    <3>. QED  BY <2>1, <3>1, <3>2, <3>3, <3>4
  <2>5. CASE Drain
    <3>1. PICK b \in pending : pending' = pending \ {b}
      BY <2>5 DEF Drain
    <3>2. lpc = "drain" /\ lpc' = "drain" /\ nextIdx' = nextIdx /\ cur' = cur
      BY <2>5 DEF Drain
    <3>3. state # "none"
      <4>1. b.idx < Sent /\ nextIdx <= b.idx /\ b.idx \in Nat
        BY DEF OrderInv, LoopBytes, BytesOf, NotWritten, TypeOK, LoopTypeOK, Block
      <4>2. Busy = {} /\ ~InLoop
        BY <3>2 DEF ChannelPhase, TasksDone, Busy
      <4>3. ASSUME state = "none"  PROVE FALSE
        <5>1. Carried(nextIdx)
          BY <1>0, <3>2, <4>1, <4>3
        <5>. QED  BY <3>2, <4>2, <4>3, <5>1 DEF Carried
      <4>. QED  BY <4>3
    <3>4. IsFiniteSet(pending')
      BY <3>1, FS_RemoveElement
    <3>. QED  BY <2>1, <3>1, <3>2, <3>3, <3>4
  <2>. QED  BY <1>2, <2>2, <2>3, <2>4, <2>5
<1>3. ASSUME NEW w \in Workers, SendBlk(w)  PROVE NoneMissing'
  <2>1. Busy' = Busy \cup {w} /\ w \notin Busy
    BY <1>3 DEF SendBlk, Busy, TypeOK, TaskTypeOK
  <2>2. /\ wblk'[w].idx = Sent /\ wblk'[w].st = "ok" /\ wpc'[w] = "work" /\ Sent' = Sent + 1
        /\ \A x \in Workers : x # w => wblk'[x] = wblk[x] /\ wpc'[x] = wpc[x]
    BY <1>3 DEF SendBlk, Sent, srcIdx, callFields, TypeOK, TaskTypeOK
  <2>3. UNCHANGED <<pending, cur, lpc, nextIdx, state>>
    BY <1>3 DEF SendBlk, loopVars, loopFields, sharedVars
  <2>4. ASSUME NEW i, Carried(i)  PROVE Carried(i)'
    BY <1>000, <2>1, <2>2, <2>3, <2>4 DEF Carried
  <2>5. ASSUME NEW i, i = Sent  PROVE Carried(i)'
    BY <2>1, <2>2, <2>5 DEF Carried
  <2>6. \A i \in nextIdx .. Sent' - 1 : i \in nextIdx .. Sent - 1 \/ i = Sent
    BY <1>0, <2>2
  <2>7. \A x \in Busy' : wblk'[x].st = "drop" \/ wpc'[x] = "token" => state # "none"
    BY <1>000, <2>1, <2>2
  <2>. QED  BY <2>3, <2>4, <2>5, <2>6, <2>7
<1>4. ASSUME NEW w \in Workers, RecvOut(w)  PROVE NoneMissing'
  <2>1. Busy' = Busy \ {w} /\ w \in Busy /\ wblk' = wblk /\ cur' = wblk[w] /\ lpc' = "poll" /\ lpc = "select"
        /\ \A x \in Workers : x # w => wpc'[x] = wpc[x]
    BY <1>4 DEF RecvOut, Busy, TypeOK, TaskTypeOK
  <2>2. UNCHANGED <<pending, nextIdx, state>> /\ Sent' = Sent
    BY <1>4 DEF RecvOut, callerVars, callFields, sharedVars, Sent, srcIdx
  <2>3. ASSUME NEW i, Carried(i)  PROVE Carried(i)'
    BY <2>1, <2>2, <2>3 DEF Carried
  <2>. QED  BY <1>000, <2>1, <2>2, <2>3
<1>5. ASSUME NEW w \in Workers, DropToken(w)  PROVE NoneMissing'
  <2>1. Busy' = Busy \ {w} /\ w \in Busy /\ wblk' = wblk /\ state # "none"
        /\ \A x \in Workers : x # w => wpc'[x] = wpc[x]
    BY <1>5 DEF DropToken, Busy, TypeOK, TaskTypeOK
  <2>2. UNCHANGED <<pending, nextIdx, state, lpc, cur>>
    BY <1>5 DEF DropToken, loopVars, loopFields
  <2>. QED  BY <1>000, <2>1, <2>2
<1>. QED  BY <1>1, <1>2, <1>3, <1>4, <1>5, Moves

LEMMA CarrierInit == Init => CarrierInv
<1>. SUFFICES ASSUME Init  PROVE CarrierInv
  OBVIOUS
<1>1. Busy = {} /\ pending = {} /\ nextIdx = 0 /\ Sent = 0 /\ lpc = "hdr" /\ sem = 0 /\ cpc = "idle"
  BY DEF Init, Busy, Sent, srcIdx
<1>. QED  BY <1>1, FS_EmptySet DEF CarrierInv, OnePlace, NotWritten, NoneMissing, TokensExact, InLoop

LEMMA CarrierStep ==
  ASSUME TypeOK, TypeOK', ChannelPhase, OrderInv, CarrierInv, NoPanic', [Next]_vars
  PROVE  CarrierInv'
BY OnePlaceStep, NotWrittenStep, NoneMissingStep, TokensStep DEF CarrierInv

-----------------------------------------------------------------------------
(* The hasher's channel: blocks in stream order, each freed behind its hash *)

\* A queued block keeps its bytes, and so does what comes before it.
QueueStable ==
  /\ QueuedTo \in Nat /\ QueuedTo' \in Nat /\ QueuedTo <= Len(starts) /\ QueuedTo' <= Len(starts')
  /\ \A i \in 0 .. QueuedTo - 1 : starts'[i + 1] = starts[i + 1]
  /\ \A i \in -1 .. QueuedTo - 1 : EndOf(i)' = EndOf(i)

LEMMA QueueStep ==
  ASSUME TypeOK, TypeOK', CallPhase, CallPhase', [Next]_vars
  PROVE  QueueStable
<1>1. StreamStable
  BY StreamStep
<1>2. starts \in Seq(Nat) /\ starts' \in Seq(Nat) /\ Len(starts) \in Nat \ {0} /\ Len(starts') \in Nat \ {0}
      /\ starts[1] = 0 /\ starts'[1] = 0
  BY DEF TypeOK, CallerTypeOK, CallPhase
<1>3. /\ QueuedTo \in Nat /\ QueuedTo' \in Nat /\ QueuedTo <= Len(starts) /\ QueuedTo' <= Len(starts')
  BY <1>2 DEF QueuedTo, srcIdx
<1>4. EndOf(-1) = 0 /\ EndOf(-1)' = 0
  BY <1>2 DEF EndOf
<1>5. CASE cpc \in {"sem", "send"}
  <2>1. UNCHANGED <<starts, srcOff>>
    BY <1>5 DEF Next, Call, CallerStep, Meet, Task, Loop, Hasher, Write, ReadFrom, Flush, Close, Enter,
       WriteTop, Copy, ReadTop, Fill, FlushNothing, FlushReturns, CloseChans, JoinTasks, CloseReturns,
       QueueHash, Acquire, NextBlk, RecvFlush, Reply, SendBlk, RecvOut,
       TaskStarts, Compress, FreeSrc, QueueFree, DropToken, TaskExits, WriteHeader, OutClosed, Poll,
       WriteBlk, LoopFails, More, NoReply, Drain, Drained, HashJoined, WriteTrailer,
       HashTakes, HashUses, HashExits, vars, callerVars, callFields, othersOfHasher
  <2>. QED  BY <1>3, <2>1 DEF QueueStable, EndOf, Accepted, Start
<1>6. CASE cpc \notin {"sem", "send"}
  <2>1. QueuedTo = Sent
    BY <1>6 DEF QueuedTo, Sent, srcIdx
  <2>2. \A i \in -1 .. QueuedTo - 1 : i = -1 \/ i \in 0 .. Sent - 1
    BY <1>1, <2>1 DEF StreamStable
  <2>. QED  BY <1>1, <1>3, <1>4, <2>1, <2>2 DEF QueueStable, StreamStable
<1>. QED  BY <1>5, <1>6

\* The steps that touch the hasher's channel.
LEMMA QueueSteps ==
  ASSUME TypeOK, HashOn, [Next]_vars
  PROVE  \/ QueueHash \/ Hasher \/ \E w \in Workers : QueueFree(w)
         \/ UNCHANGED hashVars /\ QueuedTo' = QueuedTo
<1>. USE DEF QueuedTo, srcIdx, callFields, othersOfCaller, callerVars
<1>1. CASE Call
  BY <1>1 DEF Call, Write, ReadFrom, Flush, Close, Enter, FlushBlk, EnterFlush, ReportReturn
<1>2. CASE WriteTop \/ Copy \/ ReadTop \/ Fill \/ FlushNothing \/ FlushReturns
  BY <1>2 DEF WriteTop, Copy, ReadTop, Fill, FlushNothing, FlushReturns, EnterFlush, ReportReturn
<1>3. CASE CloseChans \/ JoinTasks \/ CloseReturns \/ Acquire
  BY <1>3 DEF CloseChans, JoinTasks, CloseReturns, Acquire
<1>4. CASE NextBlk
  <2>1. cpc' \in {"write", "read", "sync", "close"} /\ Len(starts') = Len(starts) + 1 /\ cpc = "next"
    BY <1>4, Positions DEF NextBlk, TypeOK, CallerTypeOK
  <2>. QED  BY <1>4, <2>1 DEF NextBlk, TypeOK, CallerTypeOK
<1>5. CASE Meet
  BY <1>5 DEF Meet, RecvFlush, Reply, SendBlk, RecvOut
<1>6. ASSUME NEW w \in Workers, Task(w), ~QueueFree(w)  PROVE UNCHANGED hashVars /\ QueuedTo' = QueuedTo
  BY <1>6 DEF Task, TaskStarts, Compress, FreeSrc, DropToken, TaskExits
<1>7. CASE Loop
  BY <1>7 DEF Loop, WriteHeader, OutClosed, Poll, WriteBlk, LoopFails, More, NoReply, Drain, Drained,
     HashJoined, WriteTrailer
<1>8. CASE UNCHANGED vars
  BY <1>8 DEF vars
<1>. QED  BY <1>1, <1>2, <1>3, <1>4, <1>5, <1>6, <1>7, <1>8 DEF Next, CallerStep

\* References have their types.
LEMMA RefTypes ==
  ASSUME TypeOK
  PROVE  /\ \A j \in DOMAIN hch : hch[j] \in HashRef /\ hch[j].idx \in Nat /\ hch[j].free \in BOOLEAN
         /\ href \in HashRef /\ href.idx \in Nat /\ href.free \in BOOLEAN
         /\ DOMAIN hch = 1 .. Len(hch) /\ Len(hch) \in Nat /\ hnext \in Nat
<1>1. hch \in Seq(HashRef) /\ href \in HashRef /\ hnext \in Nat
  BY DEF TypeOK, HashTypeOK
<1>2. \A j \in DOMAIN hch : hch[j] \in HashRef
  BY <1>1
<1>3. \A r \in HashRef : r.idx \in Nat /\ r.free \in BOOLEAN
  BY DEF HashRef
<1>. QED  BY <1>1, <1>2, <1>3

\* A block's reference stays right while the stream grows.
LEMMA RefKept ==
  ASSUME QueueStable, NEW r \in HashRef, r.idx < QueuedTo, RefBytes(r)
  PROVE  r.lo = starts'[r.idx + 1] /\ r.hi = EndOf(r.idx)'
<1>1. r.idx \in 0 .. QueuedTo - 1 /\ r.idx \in -1 .. QueuedTo - 1
  BY DEF QueueStable, HashRef
<1>. QED  BY <1>1 DEF QueueStable, RefBytes

LEMMA SumKept ==
  ASSUME TypeOK, HashOn, HashOrder, QueueStable
  PROVE  \A h : h = hnext => hsum = EndOf(h - 1)'
<1>1. hnext \in Nat /\ hnext <= QueuedTo
  BY DEF HashOrder, TakenTo, TypeOK, HashTypeOK, QueueStable
<1>2. hnext - 1 \in -1 .. QueuedTo - 1
  BY <1>1 DEF QueueStable
<1>. QED  BY <1>2 DEF HashOrder, QueueStable

LEMMA HashOrderStep ==
  ASSUME TypeOK, TypeOK', QueueStable, ChannelPhase, HashOrder, [Next]_vars
  PROVE  HashOrder'
<1>. USE DEF TypeOK, HashTypeOK
<1>1. CASE ~HashOn
  <2>1. ASSUME NEW w \in Workers  PROVE ~QueueFree(w)
    BY <1>1 DEF ChannelPhase, QueueFree
  <2>2. ~Hasher /\ ~QueueHash
    BY <1>1 DEF ChannelPhase, Hasher, HashTakes, HashUses, HashExits, QueueHash
  <2>3. UNCHANGED hashVars
    BY <2>1, <2>2 DEF Next, Call, CallerStep, Meet, Task, Loop, Write, ReadFrom, Flush, Close, WriteTop, Copy,
       ReadTop, Fill, FlushNothing, FlushReturns, CloseChans, JoinTasks, CloseReturns, Acquire, NextBlk,
       RecvFlush, Reply, SendBlk, RecvOut, TaskStarts, Compress, FreeSrc, DropToken, TaskExits, WriteHeader,
       OutClosed, Poll, WriteBlk, LoopFails, More, NoReply, Drain, Drained, HashJoined, WriteTrailer,
       vars, othersOfCaller
  <2>. QED  BY <1>1, <2>3 DEF HashOrder, hashVars
<1>2. CASE HashOn /\ UNCHANGED hashVars /\ QueuedTo' = QueuedTo
  <2>1. TakenTo' = TakenTo
    BY <1>2 DEF hashVars, TakenTo
  <2>2. hpc = "use" /\ ~href.free => RefBytes(href)'
    BY <1>2, RefKept DEF HashOrder, hashVars, RefBytes, TakenTo, QueueStable
  <2>3. ASSUME NEW j \in DOMAIN hch, ~hch[j].free  PROVE RefBytes(hch[j])'
    <3>1. hch[j] \in HashRef
      OBVIOUS
    <3>. QED  BY <1>2, <2>3, <3>1, RefKept DEF HashOrder, hashVars, RefBytes
  <2>. QED  BY <1>2, <2>1, <2>2, <2>3, SumKept DEF HashOrder, hashVars
<1>3. CASE HashOn /\ QueueHash
  <2>. DEFINE r == [free |-> FALSE, idx |-> srcIdx, lo |-> Start, hi |-> Accepted]
  <2>1. hch' = Append(hch, r) /\ UNCHANGED <<hpc, href, hnext, hsum, starts, srcOff>>
    BY <1>3 DEF QueueHash, callFields
  <2>2. QueuedTo = srcIdx /\ QueuedTo' = srcIdx + 1 /\ srcIdx \in Nat
    BY <1>3, Positions DEF QueueHash, QueuedTo, srcIdx, callFields
  <2>3. /\ DOMAIN hch' = 1 .. Len(hch) + 1 /\ DOMAIN hch = 1 .. Len(hch) /\ hch'[Len(hch) + 1] = r
        /\ \A j \in DOMAIN hch : hch'[j] = hch[j]
    BY <2>1
  <2>4. TakenTo' = TakenTo /\ TakenTo \in Nat
    BY <2>1 DEF TakenTo
  <2>5. r.lo = starts'[srcIdx + 1] /\ \A i : i = srcIdx => r.hi = EndOf(i)'
    BY <2>1, Positions DEF Start, srcIdx, EndOf, Accepted, CallerTypeOK
  <2>6. ASSUME NEW j, j = Len(hch) + 1  PROVE RefBytes(hch[j])'
    BY <2>3, <2>5, <2>6 DEF RefBytes
  <2>7. ASSUME NEW j \in DOMAIN hch, ~hch[j].free  PROVE RefBytes(hch[j])'
    <3>1. hch[j] \in HashRef
      OBVIOUS
    <3>. QED  BY <1>3, <2>3, <2>7, <3>1, RefKept DEF HashOrder, RefBytes
  <2>8. hpc = "use" /\ ~href.free => RefBytes(href)'
    BY <1>3, <2>1, <2>4, RefKept DEF HashOrder, RefBytes, TakenTo, QueueStable
  <2>9. ASSUME NEW j \in DOMAIN hch', ~hch'[j].free
        PROVE  TakenTo <= hch'[j].idx /\ hch'[j].idx < srcIdx + 1 /\ RefBytes(hch[j])'
    <3>1. CASE j \in DOMAIN hch
      <4>1. hch[j].idx \in Nat
        BY <3>1, RefTypes
      <4>. QED  BY <1>3, <2>2, <2>3, <2>7, <2>9, <3>1, <4>1 DEF HashOrder
    <3>2. CASE j = Len(hch) + 1
      <4>1. hch'[j].idx = srcIdx /\ TakenTo <= srcIdx
        BY <1>3, <2>2, <2>3, <3>2 DEF HashOrder
      <4>. QED  BY <2>2, <2>4, <2>6, <3>2, <4>1
    <3>. QED  BY <2>3, <3>1, <3>2
  <2>10. \A j, k \in DOMAIN hch' : j < k /\ ~hch'[j].free /\ ~hch'[k].free => hch'[j].idx < hch'[k].idx
    BY <1>3, <2>2, <2>3, SMTT(30) DEF HashOrder
  <2>11. ASSUME NEW i \in TakenTo .. srcIdx  PROVE \E k \in DOMAIN hch' : ~hch'[k].free /\ hch'[k].idx = i
    <3>1. CASE i = srcIdx
      BY <2>3, <3>1
    <3>2. CASE i # srcIdx
      <4>1. i \in TakenTo .. QueuedTo - 1
        BY <2>2, <2>4, <3>2
      <4>2. PICK k \in DOMAIN hch : ~hch[k].free /\ hch[k].idx = i
        BY <1>3, <4>1 DEF HashOrder
      <4>. QED  BY <2>3, <4>2
    <3>. QED  BY <3>1, <3>2
  <2>12. TakenTo <= srcIdx + 1
    BY <1>3, <2>2, <2>4 DEF HashOrder
  <2>13. \A h : h = hnext => hsum = EndOf(h - 1)'
    BY <1>3, SumKept
  <2>14. hsum' = EndOf(hnext - 1)' /\ TakenTo' <= QueuedTo'
    BY <2>1, <2>2, <2>4, <2>12, <2>13
  <2>15. hpc' = "use" /\ ~href'.free => href'.idx = hnext' /\ RefBytes(href)'
    BY <1>3, <2>1, <2>8 DEF HashOrder
  <2>16. \A j \in DOMAIN hch' : ~hch'[j].free =>
            TakenTo' <= hch'[j].idx /\ hch'[j].idx < QueuedTo' /\ RefBytes(hch[j])'
    BY <2>2, <2>4, <2>9
  <2>17. \A i \in TakenTo' .. QueuedTo' - 1 : \E k \in DOMAIN hch' : ~hch'[k].free /\ hch'[k].idx = i
    BY <2>2, <2>4, <2>11
  <2>. QED  BY <1>3, <2>10, <2>14, <2>15, <2>16, <2>17 DEF HashOrder
<1>4. CASE HashOn /\ \E w \in Workers : QueueFree(w)
  <2>1. PICK r : hch' = Append(hch, r) /\ r.free /\ UNCHANGED <<hpc, href, hnext, hsum, starts, srcOff, cpc>>
    BY <1>4 DEF QueueFree, callerVars, callFields
  <2>2. /\ DOMAIN hch' = 1 .. Len(hch) + 1 /\ DOMAIN hch = 1 .. Len(hch) /\ hch'[Len(hch) + 1] = r
        /\ \A j \in DOMAIN hch : hch'[j] = hch[j]
    BY <2>1
  <2>3. TakenTo' = TakenTo /\ QueuedTo' = QueuedTo
    BY <2>1 DEF TakenTo, QueuedTo, srcIdx
  <2>4. \A j \in DOMAIN hch' : ~hch'[j].free => j \in DOMAIN hch /\ hch'[j] = hch[j]
    BY <2>1, <2>2
  <2>5. \A b : RefBytes(b)' <=> RefBytes(b)
    BY <2>1 DEF RefBytes, EndOf, Accepted, Start
  <2>6. \A h : EndOf(h)' = EndOf(h)
    BY <2>1 DEF EndOf, Accepted, Start
  <2>. QED  BY <1>4, <2>1, <2>2, <2>3, <2>4, <2>5, <2>6 DEF HashOrder, RefBytes
<1>5. CASE HashOn /\ Hasher
  <2>1. UNCHANGED callerVars
    BY <1>5 DEF Hasher, HashTakes, HashUses, HashExits, othersOfHasher
  <2>2. QueuedTo' = QueuedTo /\ \A h : EndOf(h)' = EndOf(h)
    BY <2>1, LoopStream DEF QueuedTo, srcIdx, callerVars, callFields
  <2>3. \A b : RefBytes(b)' <=> RefBytes(b)
    BY <2>1, <2>2 DEF RefBytes, callerVars, callFields
  <2>4. CASE HashTakes
    <3>1. /\ hch # <<>> /\ href' = hch[1] /\ hch' = Tail(hch) /\ hpc = "take" /\ hpc' = "use"
          /\ UNCHANGED <<hnext, hsum>>
      BY <2>4 DEF HashTakes
    <3>2. /\ 1 \in DOMAIN hch /\ Len(hch) \in Nat /\ DOMAIN hch = 1 .. Len(hch) /\ DOMAIN hch' = 1 .. Len(hch) - 1
          /\ \A j \in DOMAIN hch' : j + 1 \in DOMAIN hch /\ hch'[j] = hch[j + 1]
          /\ \A j \in DOMAIN hch : j = 1 \/ (j - 1 \in DOMAIN hch' /\ hch'[j - 1] = hch[j])
      BY <3>1
    <3>3. TakenTo = hnext /\ \A j \in DOMAIN hch : hch[j].idx \in Nat
      BY <3>1, RefTypes DEF TakenTo
    <3>4. CASE hch[1].free
      <4>1. TakenTo' = TakenTo
        BY <3>1, <3>4 DEF TakenTo
      <4>2. ASSUME NEW i \in TakenTo .. QueuedTo - 1
            PROVE  \E k \in DOMAIN hch' : ~hch'[k].free /\ hch'[k].idx = i
        <5>1. PICK k \in DOMAIN hch : ~hch[k].free /\ hch[k].idx = i
          BY <1>5 DEF HashOrder
        <5>. QED  BY <3>2, <3>4, <5>1
      <4>3. \A j \in DOMAIN hch' : ~hch'[j].free => /\ TakenTo <= hch'[j].idx /\ hch'[j].idx < QueuedTo
                                                   /\ \A b : b = hch'[j] => RefBytes(b)
        BY <1>5, <3>2 DEF HashOrder
      <4>4. \A j, k \in DOMAIN hch' : j < k /\ ~hch'[j].free /\ ~hch'[k].free => hch'[j].idx < hch'[k].idx
        <5>1. ASSUME NEW j \in DOMAIN hch', NEW k \in DOMAIN hch', j < k
              PROVE  /\ j + 1 \in DOMAIN hch /\ k + 1 \in DOMAIN hch /\ j + 1 < k + 1
                     /\ hch'[j] = hch[j + 1] /\ hch'[k] = hch[k + 1]
          BY <3>2, <5>1
        <5>. QED  BY <1>5, <5>1 DEF HashOrder
      <4>5. hsum' = EndOf(hnext - 1)' /\ TakenTo' <= QueuedTo'
        BY <1>5, <2>2, <3>1, <4>1 DEF HashOrder
      <4>6. href'.free
        BY <3>1, <3>4
      <4>7. \A j \in DOMAIN hch' : ~hch'[j].free => /\ TakenTo' <= hch'[j].idx /\ hch'[j].idx < QueuedTo'
                                                    /\ RefBytes(hch[j])'
        BY <2>2, <2>3, <4>1, <4>3
      <4>8. \A i \in TakenTo' .. QueuedTo' - 1 : \E k \in DOMAIN hch' : ~hch'[k].free /\ hch'[k].idx = i
        BY <2>2, <4>1, <4>2
      <4>. QED  BY <1>5, <4>4, <4>5, <4>6, <4>7, <4>8 DEF HashOrder
    <3>5. CASE ~hch[1].free
      <4>1. TakenTo' = hnext + 1
        BY <3>1, <3>5 DEF TakenTo
      <4>2. \A j \in DOMAIN hch : ~hch[j].free => hnext <= hch[j].idx /\ hch[j].idx < QueuedTo
        BY <1>5, <3>3 DEF HashOrder
      <4>3. hch[1].idx = hnext
        <5>1. hnext \in TakenTo .. QueuedTo - 1
          BY <3>2, <3>3, <3>5, <4>2, SMTT(30) DEF QueueStable
        <5>2. PICK k \in DOMAIN hch : ~hch[k].free /\ hch[k].idx = hnext
          BY <1>5, <5>1 DEF HashOrder
        <5>3. CASE k # 1
          <6>1. 1 < k
            BY <3>2, <5>2, <5>3
          <6>2. hch[1].idx < hch[k].idx
            BY <1>5, <3>2, <3>5, <5>2, <6>1 DEF HashOrder
          <6>. QED  BY <3>2, <3>3, <3>5, <4>2, <5>2, <6>2
        <5>. QED  BY <5>2, <5>3
      <4>4. \A j \in DOMAIN hch' : ~hch'[j].free => hnext < hch'[j].idx
        BY <1>5, <3>2, <3>5, <4>3, SMTT(30) DEF HashOrder
      <4>5. \A j \in DOMAIN hch' : ~hch'[j].free => /\ hnext + 1 <= hch'[j].idx /\ hch'[j].idx < QueuedTo
                                                   /\ \A b : b = hch'[j] => RefBytes(b)
        BY <1>5, <3>2, <3>3, <4>4 DEF HashOrder
      <4>6. \A j, k \in DOMAIN hch' : j < k /\ ~hch'[j].free /\ ~hch'[k].free => hch'[j].idx < hch'[k].idx
        <5>1. ASSUME NEW j \in DOMAIN hch', NEW k \in DOMAIN hch', j < k
              PROVE  /\ j + 1 \in DOMAIN hch /\ k + 1 \in DOMAIN hch /\ j + 1 < k + 1
                     /\ hch'[j] = hch[j + 1] /\ hch'[k] = hch[k + 1]
          BY <3>2, <5>1
        <5>. QED  BY <1>5, <5>1 DEF HashOrder
      <4>7. ASSUME NEW i \in hnext + 1 .. QueuedTo - 1
            PROVE  \E k \in DOMAIN hch' : ~hch'[k].free /\ hch'[k].idx = i
        <5>1. i \in TakenTo .. QueuedTo - 1 /\ i # hnext
          BY <3>3
        <5>2. PICK k \in DOMAIN hch : ~hch[k].free /\ hch[k].idx = i
          BY <1>5, <5>1 DEF HashOrder
        <5>. QED  BY <3>2, <4>3, <5>1, <5>2
      <4>8. hnext + 1 <= QueuedTo
        BY <3>2, <3>3, <3>5, <4>2, <4>3, SMTT(30) DEF QueueStable
      <4>9. \A b : b = href' => RefBytes(b)
        BY <1>5, <3>1, <3>2, <3>5 DEF HashOrder
      <4>. QED  BY <1>5, <2>2, <2>3, <3>1, <3>5, <4>1, <4>3, <4>5, <4>6, <4>7, <4>8, <4>9 DEF HashOrder, RefBytes
    <3>. QED  BY <3>4, <3>5
  <2>5. CASE HashUses
    <3>1. hch' = hch /\ hpc = "use" /\ hpc' = "take"
      BY <2>5 DEF HashUses
    <3>2. CASE href.free
      <4>1. UNCHANGED <<hsum, hnext>> /\ TakenTo' = TakenTo
        BY <2>5, <3>1, <3>2 DEF HashUses, TakenTo
      <4>. QED  BY <1>5, <2>2, <2>3, <3>1, <4>1 DEF HashOrder, RefBytes
    <3>3. CASE ~href.free
      <4>0. hnext' = hnext + 1 /\ hnext \in Nat /\ href' = href
        BY <2>5, <3>3 DEF HashUses
      <4>1. hnext' = hnext + 1 /\ TakenTo' = TakenTo
        BY <3>1, <3>3, <4>0 DEF TakenTo
      <4>2. hsum = href.lo /\ hsum' = href.hi
        <5>1. href.idx = hnext /\ hnext < QueuedTo /\ href.lo = starts[hnext + 1] /\ hsum = EndOf(hnext - 1)
          BY <1>5, <3>1, <3>3 DEF HashOrder, RefBytes, TakenTo, QueueStable
        <5>2. EndOf(hnext - 1) = starts[hnext + 1]
          BY <5>1 DEF EndOf, QueueStable, CallerTypeOK
        <5>. QED  BY <2>5, <3>3, <5>1, <5>2 DEF HashUses
      <4>3. \A h : h = hnext' => hsum' = EndOf(h - 1)
        BY <1>5, <3>1, <3>3, <4>1, <4>2 DEF HashOrder, RefBytes
      <4>. QED  BY <1>5, <2>2, <2>3, <3>1, <4>1, <4>3 DEF HashOrder, RefBytes
    <3>. QED  BY <3>2, <3>3
  <2>6. CASE HashExits
    <3>1. UNCHANGED <<hch, hnext, hsum>> /\ hpc = "take" /\ hpc' = "exit"
      BY <2>6 DEF HashExits
    <3>2. TakenTo' = TakenTo
      BY <3>1 DEF TakenTo
    <3>. QED  BY <1>5, <2>2, <2>3, <3>1, <3>2 DEF HashOrder, RefBytes
  <2>. QED  BY <1>5, <2>4, <2>5, <2>6 DEF Hasher
<1>. QED  BY <1>1, <1>2, <1>3, <1>4, <1>5, QueueSteps

LEMMA HashOrderInit == Init => HashOrder /\ FreeOrder
<1>. SUFFICES ASSUME Init  PROVE HashOrder /\ FreeOrder
  OBVIOUS
<1>1. starts = <<0>> /\ srcOff = 0 /\ cpc = "idle" /\ hnext = 0 /\ hsum = 0 /\ hch = <<>> /\ hpc # "use"
      /\ Len(starts) = 1 /\ starts[1] = 0 /\ \A w \in Workers : wpc[w] \in {"off", "queued"}
  BY DEF Init
<1>2. EndOf(-1) = 0 /\ QueuedTo = 0 /\ TakenTo = 0 /\ Sent = 0
  BY <1>1 DEF EndOf, QueuedTo, TakenTo, Sent, srcIdx
<1>3. HashOrder
  BY <1>1, <1>2 DEF HashOrder
<1>4. FreeOrder
  BY <1>1, <1>2 DEF FreeOrder, WithTask, ToFree
<1>. QED  BY <1>3, <1>4

\* The steps that touch a source block on its way from its task to the pool.
LEMMA SourceSteps ==
  ASSUME TypeOK, [Next]_vars
  PROVE  \/ QueueHash \/ Hasher \/ \E w \in Workers : SendBlk(w) \/ FreeSrc(w) \/ QueueFree(w)
         \/ /\ UNCHANGED hashVars /\ Sent' = Sent
            /\ \A i \in Nat : WithTask(i)' <=> WithTask(i)
<1>. USE DEF Sent, srcIdx, callFields, othersOfCaller, callerVars, WithTask, workerVars
<1>1. CASE Call
  BY <1>1 DEF Call, Write, ReadFrom, Flush, Close, Enter, FlushBlk, EnterFlush, ReportReturn
<1>2. CASE WriteTop \/ Copy \/ ReadTop \/ Fill \/ FlushNothing \/ FlushReturns
  BY <1>2 DEF WriteTop, Copy, ReadTop, Fill, FlushNothing, FlushReturns, EnterFlush, ReportReturn
<1>3. CASE CloseChans \/ JoinTasks \/ CloseReturns \/ Acquire
  BY <1>3 DEF CloseChans, JoinTasks, CloseReturns, Acquire
<1>4. CASE NextBlk
  <2>1. cpc' \in {"write", "read", "sync", "close"} /\ Len(starts') = Len(starts) + 1 /\ cpc = "next"
    BY <1>4, Positions DEF NextBlk, TypeOK, CallerTypeOK
  <2>2. \A w \in Workers : wpc'[w] = wpc[w] \/ {wpc'[w], wpc[w]} \subseteq {"off", "queued"}
    BY <1>4 DEF NextBlk, TypeOK, TaskTypeOK
  <2>. QED  BY <1>4, <2>1, <2>2 DEF NextBlk, TypeOK, CallerTypeOK
<1>5. CASE RecvFlush \/ Reply
  BY <1>5 DEF RecvFlush, Reply
<1>6. ASSUME NEW w \in Workers, RecvOut(w) \/ TaskStarts(w) \/ DropToken(w) \/ TaskExits(w)
      PROVE  UNCHANGED hashVars /\ Sent' = Sent /\ \A i \in Nat : WithTask(i)' <=> WithTask(i)
  BY <1>6 DEF RecvOut, TaskStarts, DropToken, TaskExits, TypeOK, TaskTypeOK
<1>7. ASSUME NEW w \in Workers, Compress(w)
      PROVE  UNCHANGED hashVars /\ Sent' = Sent /\ \A i \in Nat : WithTask(i)' <=> WithTask(i)
  <2>1. wpc[w] = "work" /\ wpc'[w] = "free" /\ (\A x \in Workers : wblk'[x].idx = wblk[x].idx)
        /\ (\A x \in Workers : x # w => wpc'[x] = wpc[x])
    BY <1>7 DEF Compress, TypeOK, TaskTypeOK, Block
  <2>. QED  BY <1>7, <2>1 DEF Compress
<1>8. CASE Loop
  BY <1>8 DEF Loop, WriteHeader, OutClosed, Poll, WriteBlk, LoopFails, More, NoReply, Drain, Drained,
     HashJoined, WriteTrailer
<1>9. CASE UNCHANGED vars
  BY <1>9 DEF vars
<1>. QED  BY <1>1, <1>2, <1>3, <1>4, <1>5, <1>6, <1>7, <1>8, <1>9 DEF Next, CallerStep, Meet, Task

\* What is queued to be freed.
LEMMA ToFreeAppend ==
  ASSUME TypeOK, NEW r, hch' = Append(hch, r), UNCHANGED <<hpc, href>>
  PROVE  \A i : ToFree(i)' <=> ToFree(i) \/ (r.free /\ r.idx = i)
<1>1. /\ DOMAIN hch' = 1 .. Len(hch) + 1 /\ DOMAIN hch = 1 .. Len(hch) /\ hch'[Len(hch) + 1] = r
      /\ Len(hch) \in Nat /\ \A j \in DOMAIN hch : hch'[j] = hch[j]
  BY DEF TypeOK, HashTypeOK
<1>2. \A i : (\E k \in DOMAIN hch' : hch'[k].free /\ hch'[k].idx = i)
              <=> (\E k \in DOMAIN hch : hch[k].free /\ hch[k].idx = i) \/ (r.free /\ r.idx = i)
  <2>1. SUFFICES ASSUME NEW i
                 PROVE  (\E k \in DOMAIN hch' : hch'[k].free /\ hch'[k].idx = i)
                        <=> (\E k \in DOMAIN hch : hch[k].free /\ hch[k].idx = i) \/ (r.free /\ r.idx = i)
    OBVIOUS
  <2>2. \A k \in DOMAIN hch' : k \in DOMAIN hch \/ k = Len(hch) + 1
    BY <1>1
  <2>3. Len(hch) + 1 \in DOMAIN hch' /\ DOMAIN hch \subseteq DOMAIN hch'
    BY <1>1
  <2>. QED  BY <1>1, <2>2, <2>3
<1>. QED  BY <1>2 DEF ToFree

\* A source block is with one task only.
LEMMA OneTask ==
  ASSUME OnePlace, NEW w \in Workers, NEW x \in Workers,
         wpc[w] \in {"work", "free", "hfree"}, wpc[x] \in {"work", "free", "hfree"}, wblk[w].idx = wblk[x].idx
  PROVE  w = x
BY DEF OnePlace, Busy

\* The block of a task that is done with it is queued to be freed, or was hashed.
LEMMA FreeOrderTask ==
  ASSUME TypeOK, HashOn, HashOrder, FreeOrder, OrderInv, OnePlace, NEW w \in Workers,
         SendBlk(w) \/ FreeSrc(w) \/ QueueFree(w)
  PROVE  FreeOrder'
<1>. USE DEF FreeOrder
<1>0. /\ wpc \in [Workers -> {"off", "queued", "recv", "work", "free", "hfree", "token", "out", "exit"}]
      /\ wblk \in [Workers -> Block] /\ Sent \in Nat /\ hnext \in Nat
      /\ \A x \in Workers : wblk[x].idx \in Nat
      /\ wpc[w] \in {"work", "free", "hfree"} => wblk[w].idx < Sent
  BY StreamStep, RefTypes, Positions
     DEF StreamStable, TypeOK, TaskTypeOK, OrderInv, TaskBytes, BytesOf, Busy, Block, Sent
<1>1. CASE SendBlk(w)
  <2>1. UNCHANGED <<hpc, hch, href, hnext>> /\ Sent' = Sent + 1 /\ wpc[w] = "recv" /\ wpc'[w] = "work"
        /\ wblk'[w].idx = Sent /\ (\A x \in Workers : x # w => wpc'[x] = wpc[x] /\ wblk'[x] = wblk[x])
    BY <1>0, <1>1 DEF SendBlk, Sent, srcIdx, callFields, hashVars
  <2>2. \A i : WithTask(i)' <=> WithTask(i) \/ i = Sent
    BY <2>1 DEF WithTask
  <2>3. TakenTo' = TakenTo /\ \A i : ToFree(i)' <=> ToFree(i)
    BY <2>1 DEF TakenTo, ToFree
  <2>4. ~ToFree(Sent)
    BY <1>0 DEF ToFree
  <2>5. \A j \in DOMAIN hch : hch[j].idx < Sent => hch[j].idx < Sent + 1
    BY <1>0, RefTypes
  <2>6. href.idx < Sent => href.idx < Sent + 1
    BY <1>0, RefTypes
  <2>7. \A i \in hnext .. Sent' - 1 : i \in hnext .. Sent - 1 \/ i = Sent
    BY <1>0, <2>1
  <2>. QED  BY <2>1, <2>2, <2>3, <2>4, <2>5, <2>6, <2>7
<1>2. CASE FreeSrc(w)
  <2>1. UNCHANGED <<hpc, hch, href, hnext, wblk>> /\ Sent' = Sent /\ wpc[w] = "free"
        /\ (wpc'[w] = "hfree" \/ (wpc'[w] \in {"token", "out"} /\ wblk[w].idx < hnext))
        /\ (\A x \in Workers : x # w => wpc'[x] = wpc[x])
    <3>1. /\ UNCHANGED <<hpc, hch, href, hnext, wblk>> /\ Sent' = Sent /\ wpc[w] = "free"
          /\ wpc' = [wpc EXCEPT ![w] = IF wblk[w].idx < hnext THEN Then(w) ELSE "hfree"]
      BY <1>2, HashOn DEF FreeSrc, Sent, srcIdx, callerVars, callFields, hashVars, Hashed
    <3>2. wpc'[w] = (IF wblk[w].idx < hnext THEN Then(w) ELSE "hfree")
          /\ (\A x \in Workers : x # w => wpc'[x] = wpc[x])
      BY <1>0, <3>1
    <3>3. Then(w) \in {"token", "out"}
      BY DEF Then
    <3>. QED  BY <3>1, <3>2, <3>3
  <2>2. TakenTo' = TakenTo /\ \A i : ToFree(i)' <=> ToFree(i)
    BY <2>1 DEF TakenTo, ToFree
  <2>3. \A i : WithTask(i)' => WithTask(i)
    BY <2>1 DEF WithTask
  <2>4. \A i \in Nat : WithTask(i) /\ hnext <= i => WithTask(i)'
    BY <1>0, <2>1 DEF WithTask
  <2>. QED  BY <1>0, <2>1, <2>2, <2>3, <2>4
<1>3. CASE QueueFree(w)
  <2>. DEFINE r == [free |-> TRUE, idx |-> wblk[w].idx, lo |-> 0, hi |-> 0]
  <2>1. hch' = Append(hch, r) /\ UNCHANGED <<hpc, href, hnext, wblk>> /\ Sent' = Sent /\ wpc[w] = "hfree"
        /\ wpc'[w] \in {"token", "out"} /\ (\A x \in Workers : x # w => wpc'[x] = wpc[x])
    BY <1>0, <1>3 DEF QueueFree, Sent, srcIdx, callerVars, callFields, Then
  <2>2. TakenTo' = TakenTo /\ \A i : ToFree(i)' <=> ToFree(i) \/ wblk[w].idx = i
    BY <2>1, ToFreeAppend DEF TakenTo
  <2>3. \A i : WithTask(i)' <=> WithTask(i) /\ i # wblk[w].idx
    BY <2>1, OneTask DEF WithTask
  <2>4. /\ DOMAIN hch' = 1 .. Len(hch) + 1 /\ DOMAIN hch = 1 .. Len(hch) /\ hch'[Len(hch) + 1] = r
        /\ Len(hch) \in Nat /\ \A j \in DOMAIN hch : hch'[j] = hch[j]
    BY <2>1, RefTypes DEF TypeOK, HashTypeOK
  <2>5. WithTask(wblk[w].idx) /\ ~ToFree(wblk[w].idx)
    BY <1>0, <2>1 DEF WithTask
  <2>6. wblk[w].idx < TakenTo \/ \E k \in DOMAIN hch : ~hch[k].free /\ hch[k].idx = wblk[w].idx
    <3>1. wblk[w].idx < QueuedTo /\ TakenTo \in Nat /\ QueuedTo \in Nat
      BY <1>0, <2>1, Positions, RefTypes DEF QueuedTo, TakenTo, Sent, TypeOK
    <3>2. wblk[w].idx < TakenTo \/ wblk[w].idx \in TakenTo .. QueuedTo - 1
      BY <1>0, <3>1
    <3>. QED  BY <3>2 DEF HashOrder
  <2>7. (hpc = "use" /\ href.free => /\ href.idx < hnext /\ href.idx < Sent
                                    /\ \A j \in DOMAIN hch : hch[j].free => hch[j].idx # href.idx)'
    BY <2>1, <2>4, <2>5 DEF ToFree
  <2>8. ASSUME NEW j \in DOMAIN hch', hch'[j].free
        PROVE  /\ hch'[j].idx < Sent
               /\ hch'[j].idx < TakenTo \/ \E k \in 1 .. j - 1 : ~hch'[k].free /\ hch'[k].idx = hch'[j].idx
    <3>1. CASE j \in DOMAIN hch
      <4>1. \A k \in 1 .. j - 1 : k \in DOMAIN hch
        BY <2>4, <3>1
      <4>. QED  BY <2>4, <2>8, <3>1, <4>1, SMTT(30)
    <3>2. CASE j = Len(hch) + 1
      <4>1. \A k \in DOMAIN hch : k \in 1 .. j - 1
        BY <2>4, <3>2
      <4>. QED  BY <1>0, <2>1, <2>4, <2>6, <3>2, <4>1
    <3>. QED  BY <2>4, <3>1, <3>2
  <2>9. \A j, k \in DOMAIN hch' : j # k /\ hch'[j].free /\ hch'[k].free => hch'[j].idx # hch'[k].idx
    <3>1. \A j \in DOMAIN hch : hch[j].free => hch[j].idx # wblk[w].idx
      BY <2>5 DEF ToFree
    <3>2. \A j \in DOMAIN hch' : j \in DOMAIN hch \/ j = Len(hch) + 1
      BY <2>4
    <3>. QED  BY <2>4, <3>1, <3>2
  <2>10. \A i \in Nat : ~(WithTask(i)' /\ ToFree(i)')
    BY <2>2, <2>3
  <2>11. \A i \in hnext .. Sent - 1 : WithTask(i)' \/ ToFree(i)'
    BY <2>2, <2>3
  <2>. QED  BY <2>1, <2>2, <2>7, <2>8, <2>9, <2>10, <2>11
<1>. QED  BY <1>1, <1>2, <1>3

LEMMA FreeOrderHash ==
  ASSUME TypeOK, HashOn, HashOrder, HashOrder', FreeOrder, QueueHash \/ Hasher
  PROVE  FreeOrder'
<1>. USE DEF FreeOrder
<1>0. Sent' = Sent /\ \A i : WithTask(i)' <=> WithTask(i)
  BY DEF QueueHash, Hasher, HashTakes, HashUses, HashExits, othersOfHasher, callerVars, callFields, workerVars,
     WithTask, Sent, srcIdx
<1>00. /\ \A j \in DOMAIN hch : hch[j].idx \in Nat
       /\ DOMAIN hch = 1 .. Len(hch) /\ Len(hch) \in Nat /\ hnext \in Nat /\ href.idx \in Nat
  BY RefTypes
<1>1. CASE QueueHash
  <2>1. PICK r : ~r.free /\ hch' = Append(hch, r) /\ UNCHANGED <<hpc, href, hnext>>
    BY <1>1 DEF QueueHash
  <2>2. TakenTo' = TakenTo /\ \A i : ToFree(i)' <=> ToFree(i)
    BY <2>1, ToFreeAppend DEF TakenTo
  <2>3. /\ DOMAIN hch' = 1 .. Len(hch) + 1 /\ hch'[Len(hch) + 1] = r /\ \A j \in DOMAIN hch : hch'[j] = hch[j]
    BY <2>1 DEF TypeOK, HashTypeOK
  <2>4. \A j \in DOMAIN hch' : hch'[j].free => j \in DOMAIN hch /\ hch'[j] = hch[j]
    BY <1>00, <2>1, <2>3
  <2>5. \A j \in DOMAIN hch : \A k \in 1 .. j - 1 : hch'[k] = hch[k]
    BY <1>00, <2>3
  <2>6. \A j \in DOMAIN hch' : hch'[j].free =>
          /\ hch'[j].idx < Sent
          /\ hch'[j].idx < TakenTo \/ \E k \in 1 .. j - 1 : ~hch'[k].free /\ hch'[k].idx = hch'[j].idx
    BY <2>4, <2>5
  <2>. QED  BY <1>0, <2>1, <2>2, <2>4, <2>6
<1>2. CASE HashTakes
  <2>1. /\ hch # <<>> /\ href' = hch[1] /\ hch' = Tail(hch) /\ hpc = "take" /\ hpc' = "use" /\ hnext' = hnext
    BY <1>2 DEF HashTakes
  <2>2. /\ 1 \in DOMAIN hch /\ DOMAIN hch' = 1 .. Len(hch) - 1
        /\ \A j \in DOMAIN hch' : j + 1 \in DOMAIN hch /\ hch'[j] = hch[j + 1]
        /\ \A j \in DOMAIN hch : j = 1 \/ (j - 1 \in DOMAIN hch' /\ hch'[j - 1] = hch[j])
    BY <1>00, <2>1 DEF TypeOK, HashTypeOK
  <2>3. TakenTo = hnext /\ TakenTo' = IF hch[1].free THEN hnext ELSE hnext + 1
    BY <1>00, <2>1 DEF TakenTo
  <2>4. ~hch[1].free => hch[1].idx = hnext
    BY <2>1 DEF HashOrder
  <2>5. \A i : ToFree(i)' <=> ToFree(i)
    BY <2>1, <2>2 DEF ToFree
  <2>6. hch[1].free => /\ hch[1].idx < hnext /\ hch[1].idx < Sent
                       /\ \A j \in DOMAIN hch' : hch'[j].free => hch'[j].idx # hch[1].idx
    <3>1. hch[1].free => hch[1].idx < hnext /\ hch[1].idx < Sent
      BY <2>2, <2>3
    <3>2. \A j \in DOMAIN hch' : j + 1 # 1
      BY <2>2
    <3>. QED  BY <2>2, <3>1, <3>2
  <2>7. ASSUME NEW j \in DOMAIN hch', hch'[j].free
        PROVE  /\ hch'[j].idx < Sent
               /\ hch'[j].idx < TakenTo' \/ \E k \in 1 .. j - 1 : ~hch'[k].free /\ hch'[k].idx = hch'[j].idx
    <3>1. j + 1 \in DOMAIN hch /\ hch'[j] = hch[j + 1] /\ j \in Nat
      BY <1>00, <2>2
    <3>2. hch[j + 1].idx < Sent
      BY <2>7, <3>1
    <3>3. CASE hch[j + 1].idx < hnext
      BY <1>00, <2>3, <3>1, <3>2, <3>3
    <3>4. CASE \E k \in 1 .. (j + 1) - 1 : ~hch[k].free /\ hch[k].idx = hch[j + 1].idx
      <4>1. PICK k \in 1 .. (j + 1) - 1 : ~hch[k].free /\ hch[k].idx = hch[j + 1].idx
        BY <3>4
      <4>2. CASE k = 1
        BY <1>00, <2>3, <2>4, <3>1, <3>2, <4>1, <4>2
      <4>3. CASE k # 1
        <5>1. k \in DOMAIN hch /\ k - 1 \in 1 .. j - 1
          BY <1>00, <3>1, <4>1, <4>3
        <5>2. hch'[k - 1] = hch[k]
          BY <2>2, <4>3, <5>1
        <5>. QED  BY <3>1, <3>2, <4>1, <5>1, <5>2
      <4>. QED  BY <4>2, <4>3
    <3>. QED  BY <2>3, <2>7, <3>1, <3>3, <3>4
  <2>8. \A j, k \in DOMAIN hch' : j # k /\ hch'[j].free /\ hch'[k].free => hch'[j].idx # hch'[k].idx
    <3>1. \A j, k \in DOMAIN hch' : j # k => j + 1 # k + 1
      BY <2>2
    <3>. QED  BY <2>2, <3>1
  <2>. QED  BY <1>0, <2>1, <2>5, <2>6, <2>7, <2>8
<1>3. CASE HashUses
  <2>1. hpc = "use" /\ hpc' = "take" /\ UNCHANGED <<hch, href>>
    BY <1>3 DEF HashUses
  <2>2. CASE href.free
    <3>1. hnext' = hnext /\ TakenTo' = TakenTo
      BY <1>3, <2>1, <2>2 DEF HashUses, TakenTo
    <3>2. \A i : ToFree(i)' <=> ToFree(i) /\ i # href.idx
      BY <2>1, <2>2 DEF ToFree
    <3>3. \A i \in hnext .. Sent - 1 : i # href.idx
      BY <1>00, <2>1, <2>2
    <3>. QED  BY <1>0, <2>1, <3>1, <3>2, <3>3
  <2>3. CASE ~href.free
    <3>1. hnext' = hnext + 1
      BY <1>3, <2>3 DEF HashUses
    <3>2. TakenTo' = TakenTo
      BY <1>00, <2>1, <2>3, <3>1 DEF TakenTo
    <3>3. \A i : ToFree(i)' <=> ToFree(i)
      BY <2>1, <2>3 DEF ToFree
    <3>4. \A i \in hnext + 1 .. Sent - 1 : i \in hnext .. Sent - 1
      BY <1>00
    <3>. QED  BY <1>0, <2>1, <3>1, <3>2, <3>3, <3>4
  <2>. QED  BY <2>2, <2>3
<1>4. CASE HashExits
  <2>1. hpc = "take" /\ hpc' = "exit" /\ UNCHANGED <<hch, href, hnext>>
    BY <1>4 DEF HashExits
  <2>2. TakenTo' = TakenTo /\ \A i : ToFree(i)' <=> ToFree(i)
    BY <2>1 DEF TakenTo, ToFree
  <2>. QED  BY <1>0, <2>1, <2>2
<1>. QED  BY <1>1, <1>2, <1>3, <1>4 DEF Hasher

LEMMA FreeOrderStep ==
  ASSUME TypeOK, ChannelPhase', HashOrder, HashOrder', FreeOrder, OrderInv, OnePlace, [Next]_vars
  PROVE  FreeOrder'
<1>1. CASE ~HashOn
  BY <1>1 DEF ChannelPhase, FreeOrder, ToFree
<1>2. CASE HashOn /\ UNCHANGED hashVars /\ Sent' = Sent /\ \A i \in Nat : WithTask(i)' <=> WithTask(i)
  <2>1. TakenTo' = TakenTo /\ \A i : ToFree(i)' <=> ToFree(i)
    BY <1>2 DEF TakenTo, ToFree, hashVars
  <2>2. \A i \in hnext .. Sent - 1 : i \in Nat
    BY RefTypes
  <2>. QED  BY <1>2, <2>1, <2>2 DEF FreeOrder, hashVars
<1>. QED  BY <1>1, <1>2, SourceSteps, FreeOrderTask, FreeOrderHash

-----------------------------------------------------------------------------
(* The pool: who has a block that was borrowed and not returned             *)

LEMMA NamesDiffer ==
  /\ \A i, j : Src(i) # Dst(j) /\ Src(i) # Dict(j) /\ Dst(i) # Dict(j)
  /\ \A i, j : (Src(i) = Src(j) => i = j) /\ (Dst(i) = Dst(j) => i = j) /\ (Dict(i) = Dict(j) => i = j)
BY DEF Src, Dst, Dict

\* The books stay right if what is borrowed was not out.
LEMMA HeldBorrow ==
  ASSUME Held, Counted, NEW bs, IsFiniteSet(bs), bs \cap live = {}, Borrow(bs),
         \A i \in Nat : (SrcHeld(i)' <=> SrcHeld(i) \/ Src(i) \in bs),
         \A i \in Nat : (DstHeld(i)' <=> DstHeld(i) \/ Dst(i) \in bs),
         \A i \in Nat : (DictHeld(i)' <=> DictHeld(i) \/ Dict(i) \in bs)
  PROVE  Held' /\ Counted'
<1>1. live' = live \cup bs /\ cntBorrowed' = cntBorrowed + Cardinality(bs)
  BY DEF Borrow
<1>2. IsFiniteSet(live') /\ Cardinality(live') = Cardinality(live) + Cardinality(bs)
  <2>1. live \cap bs = {} /\ IsFiniteSet(live)
    BY DEF Counted
  <2>2. Cardinality(live \cup bs) = Cardinality(live) + Cardinality(bs) - Cardinality(live \cap bs)
        /\ IsFiniteSet(live \cup bs)
    BY <2>1, FS_Union
  <2>3. Cardinality(live \cap bs) = 0 /\ Cardinality(live) \in Nat /\ Cardinality(bs) \in Nat
    BY <2>1, FS_EmptySet, FS_CardinalityType
  <2>. QED  BY <1>1, <2>2, <2>3
<1>3. Counted'
  BY <1>1, <1>2 DEF Counted
<1>4. Held'
  BY <1>1 DEF Held
<1>. QED  BY <1>3, <1>4

\* And if what is returned was out.
LEMMA HeldReturn ==
  ASSUME Held, Counted, NEW bs, IsFiniteSet(bs), bs \subseteq live, Return(bs),
         \A i \in Nat : (SrcHeld(i)' <=> SrcHeld(i) /\ Src(i) \notin bs),
         \A i \in Nat : (DstHeld(i)' <=> DstHeld(i) /\ Dst(i) \notin bs),
         \A i \in Nat : (DictHeld(i)' <=> DictHeld(i) /\ Dict(i) \notin bs)
  PROVE  Held' /\ Counted'
<1>1. live' = live \ bs /\ cntBorrowed' = cntBorrowed - Cardinality(bs)
  BY DEF Return
<1>2. IsFiniteSet(live') /\ Cardinality(live') = Cardinality(live) - Cardinality(bs)
  <2>1. live \cap bs = bs /\ IsFiniteSet(live)
    BY DEF Counted
  <2>. QED  BY <1>1, <2>1, FS_Difference
<1>3. Counted'
  BY <1>1, <1>2 DEF Counted
<1>4. Held'
  BY <1>1 DEF Held
<1>. QED  BY <1>3, <1>4

\* A step after which everyone has the same blocks, whoever it is.
SameHeld ==
  /\ \A i \in Nat : SrcHeld(i)' <=> SrcHeld(i)
  /\ \A i \in Nat : DstHeld(i)' <=> DstHeld(i)
  /\ \A i \in Nat : DictHeld(i)' <=> DictHeld(i)

LEMMA HeldSame ==
  ASSUME Held, Counted, UNCHANGED poolVars, SameHeld
  PROVE  Held' /\ Counted'
BY DEF Held, Counted, poolVars, SameHeld

\* Where the three kinds of blocks are not moved.
LEMMA SrcSame ==
  ASSUME UNCHANGED <<starts, srcNil>>, (cpc' = "next" <=> cpc = "next"),
         \A i \in Nat : WithTask(i)' <=> WithTask(i), \A i \in Nat : ToFree(i)' <=> ToFree(i)
  PROVE  \A i \in Nat : SrcHeld(i)' <=> SrcHeld(i)
BY DEF SrcHeld, srcIdx

LEMMA DstSame ==
  ASSUME UNCHANGED <<pending, cur>>, InLoop' = InLoop, \A i \in Nat : DstTask(i)' <=> DstTask(i)
  PROVE  \A i \in Nat : DstHeld(i)' <=> DstHeld(i)
BY DEF DstHeld

LEMMA DictSame ==
  ASSUME UNCHANGED <<starts, srcNil>>, (cpc' = "next" <=> cpc = "next"), (cpc' = "send" <=> cpc = "send"),
         \A i \in Nat : DictTask(i)' <=> DictTask(i)
  PROVE  \A i \in Nat : DictHeld(i)' <=> DictHeld(i)
BY DEF DictHeld, Sent, srcIdx

LEMMA TasksSame ==
  /\ UNCHANGED workerVars => \A i \in Nat : WithTask(i)' <=> WithTask(i)
  /\ UNCHANGED workerVars => \A i \in Nat : DstTask(i)' <=> DstTask(i)
  /\ UNCHANGED workerVars => \A i \in Nat : DictTask(i)' <=> DictTask(i)
  /\ UNCHANGED hashVars => \A i \in Nat : ToFree(i)' <=> ToFree(i)
  /\ UNCHANGED loopVars => UNCHANGED <<pending, cur>> /\ InLoop' = InLoop
BY DEF WithTask, DstTask, DictTask, ToFree, workerVars, hashVars, loopVars, loopFields, InLoop

\* The steps that move no block of the pool.
LEMMA PoolQuiet ==
  ASSUME TypeOK,
         \/ Call \/ WriteTop \/ Copy \/ ReadTop \/ Fill \/ FlushNothing \/ FlushReturns \/ CloseChans
         \/ JoinTasks \/ QueueHash \/ RecvFlush \/ Reply \/ WriteHeader \/ OutClosed \/ LoopFails
         \/ NoReply \/ Drained \/ HashJoined \/ WriteTrailer \/ HashExits \/ UNCHANGED vars
         \/ \E w \in Workers : TaskStarts(w) \/ DropToken(w) \/ TaskExits(w)
  PROVE  UNCHANGED poolVars /\ SameHeld
<1>1. ASSUME UNCHANGED <<starts, srcNil, workerVars, loopVars, poolVars>>,
             (cpc' = "next" <=> cpc = "next"), (cpc' = "send" <=> cpc = "send"),
             \A i \in Nat : ToFree(i)' <=> ToFree(i)
      PROVE  UNCHANGED poolVars /\ SameHeld
  BY <1>1, SrcSame, DstSame, DictSame, TasksSame DEF SameHeld
<1>2. ASSUME UNCHANGED <<starts, srcNil, workerVars, pending, cur, poolVars, hashVars>>, InLoop' = InLoop,
             (cpc' = "next" <=> cpc = "next"), (cpc' = "send" <=> cpc = "send")
      PROVE  UNCHANGED poolVars /\ SameHeld
  BY <1>2, SrcSame, DstSame, DictSame, TasksSame DEF SameHeld
<1>3. CASE Call
  BY <1>1, <1>3, TasksSame DEF Call, Write, ReadFrom, Flush, Close, Enter, FlushBlk, EnterFlush, ReportReturn,
     othersOfCaller
<1>4. CASE WriteTop \/ Copy \/ ReadTop \/ Fill \/ FlushNothing \/ FlushReturns
  BY <1>1, <1>4, TasksSame DEF WriteTop, Copy, ReadTop, Fill, FlushNothing, FlushReturns, EnterFlush, ReportReturn,
     othersOfCaller
<1>5. CASE CloseChans \/ JoinTasks
  BY <1>1, <1>5, TasksSame DEF CloseChans, JoinTasks, callFields
<1>6. CASE QueueHash
  <2>1. \A i : ToFree(i)' <=> ToFree(i)
    BY <1>6, ToFreeAppend DEF QueueHash
  <2>. QED  BY <1>1, <1>6, <2>1 DEF QueueHash, callFields
<1>7. CASE RecvFlush \/ Reply
  BY <1>2, <1>7 DEF RecvFlush, Reply, callFields, InLoop
<1>8. CASE WriteHeader \/ LoopFails \/ WriteTrailer \/ OutClosed \/ NoReply \/ Drained \/ HashJoined
  BY <1>2, <1>8 DEF WriteHeader, LoopFails, WriteTrailer, OutClosed, NoReply, Drained, HashJoined,
     callerVars, callFields, loopFields, InLoop
<1>9. CASE HashExits
  <2>1. \A i : ToFree(i)' <=> ToFree(i)
    BY <1>9 DEF HashExits, ToFree
  <2>. QED  BY <1>1, <1>9, <2>1 DEF HashExits, othersOfHasher, callerVars, callFields
<1>10. CASE UNCHANGED vars
  BY <1>2, <1>10 DEF vars, callerVars, callFields, loopVars, loopFields, InLoop
<1>11. ASSUME NEW w \in Workers, TaskStarts(w) \/ DropToken(w) \/ TaskExits(w)
       PROVE  UNCHANGED poolVars /\ SameHeld
  <2>1. /\ \A i \in Nat : WithTask(i)' <=> WithTask(i)
        /\ \A i \in Nat : DstTask(i)' <=> DstTask(i)
        /\ \A i \in Nat : DictTask(i)' <=> DictTask(i)
    BY <1>11 DEF TaskStarts, DropToken, TaskExits, WithTask, DstTask, DictTask, TypeOK, TaskTypeOK
  <2>2. UNCHANGED <<starts, srcNil, cpc, loopVars, hashVars, poolVars>>
    BY <1>11 DEF TaskStarts, DropToken, TaskExits, callerVars, callFields
  <2>. QED  BY <2>1, <2>2, SrcSame, DstSame, DictSame, TasksSame DEF SameHeld
<1>. QED  BY <1>3, <1>4, <1>5, <1>6, <1>7, <1>8, <1>9, <1>10, <1>11

\* Where the blocks in flight can be.
LEMMA InFlight ==
  ASSUME TypeOK, OrderInv
  PROVE  /\ wpc \in [Workers -> {"off", "queued", "recv", "work", "free", "hfree", "token", "out", "exit"}]
         /\ wblk \in [Workers -> Block]
         /\ \A w \in Workers : wblk[w].idx \in Nat
         /\ \A w \in Workers : wpc[w] \in {"work", "free", "hfree", "token", "out"} => wblk[w].idx < Sent
         /\ srcIdx \in Nat /\ Sent \in Nat /\ (Sent = IF cpc = "next" THEN srcIdx + 1 ELSE srcIdx)
         /\ cur.idx \in Nat /\ \A b \in pending : b.idx \in Nat
<1>1. srcIdx \in Nat
  BY Positions DEF TypeOK, srcIdx
<1>2. cur.idx \in Nat /\ \A b \in pending : b.idx \in Nat
  BY DEF TypeOK, LoopTypeOK, Block
<1>3. /\ wpc \in [Workers -> {"off", "queued", "recv", "work", "free", "hfree", "token", "out", "exit"}]
      /\ wblk \in [Workers -> Block] /\ \A w \in Workers : wblk[w].idx \in Nat
  BY DEF TypeOK, TaskTypeOK, Block
<1>4. \A w \in Workers : wpc[w] \in {"work", "free", "hfree", "token", "out"} => wblk[w].idx < Sent
  BY DEF OrderInv, TaskBytes, BytesOf, Busy
<1>. QED  BY <1>1, <1>2, <1>3, <1>4 DEF Sent

LEMMA CompressedStep ==
  ASSUME TypeOK, Uncompressed, [Next]_vars
  PROVE  Uncompressed'
<1>. USE DEF Uncompressed, workerVars
<1>0. /\ wpc \in [Workers -> {"off", "queued", "recv", "work", "free", "hfree", "token", "out", "exit"}]
      /\ wblk \in [Workers -> Block]
  BY DEF TypeOK, TaskTypeOK
<1>1. ASSUME NEW w \in Workers, Task(w)  PROVE Uncompressed'
  BY <1>0, <1>1 DEF Task, TaskStarts, Compress, FreeSrc, QueueFree, DropToken, TaskExits, Then
<1>2. CASE Meet
  BY <1>0, <1>2 DEF Meet, RecvFlush, Reply, SendBlk, RecvOut
<1>3. CASE NextBlk
  BY <1>0, <1>3 DEF NextBlk
<1>4. CASE Call \/ (CallerStep /\ ~NextBlk)
  BY <1>4 DEF Call, CallerStep, Write, ReadFrom, Flush, Close, WriteTop, Copy, ReadTop, Fill, FlushNothing,
     FlushReturns, CloseChans, JoinTasks, CloseReturns, QueueHash, Acquire, othersOfCaller
<1>5. CASE Loop
  BY <1>5 DEF Loop, WriteHeader, OutClosed, Poll, WriteBlk, LoopFails, More, NoReply, Drain, Drained,
     HashJoined, WriteTrailer
<1>6. CASE Hasher \/ UNCHANGED vars
  BY <1>6 DEF Hasher, HashTakes, HashUses, HashExits, othersOfHasher, vars
<1>. QED  BY <1>1, <1>2, <1>3, <1>4, <1>5, <1>6 DEF Next

\* The caller borrows the next dictionary and source block, and gives the
\* last of them back.
LEMMA HeldCaller ==
  ASSUME TypeOK, ChannelPhase, CallPhase, OrderInv, FreeOrder, Held, Counted,
         Acquire \/ NextBlk \/ CloseReturns
  PROVE  Held' /\ Counted'
<1>. USE InFlight
<1>1. CASE Acquire
  <2>. DEFINE bs == IF Linked THEN {Dict(srcIdx)} ELSE {}
  <2>1. cpc = "sem" /\ cpc' = "send" /\ UNCHANGED <<starts, srcNil, workerVars, loopVars, hashVars>> /\ ~srcNil
    BY <1>1 DEF Acquire, callFields, CallPhase
  <2>2. Borrow(bs) /\ IsFiniteSet(bs)
    BY <1>1, FS_EmptySet, FS_Singleton DEF Acquire
  <2>3. ~DictHeld(srcIdx)
    BY <2>1 DEF DictHeld, DictTask
  <2>4. bs \cap live = {}
    BY <2>3 DEF Held
  <2>5. \A i \in Nat : (SrcHeld(i)' <=> SrcHeld(i) \/ Src(i) \in bs)
    BY <2>1, SrcSame, TasksSame, NamesDiffer
  <2>6. \A i \in Nat : (DstHeld(i)' <=> DstHeld(i) \/ Dst(i) \in bs)
    BY <2>1, DstSame, TasksSame, NamesDiffer
  <2>7. \A i \in Nat : Dict(i) \in bs <=> Linked /\ i = srcIdx
    BY NamesDiffer
  <2>8. \A i \in Nat : (DictHeld(i)' <=> DictHeld(i) \/ (Linked /\ i = srcIdx))
    BY <2>1, TasksSame DEF DictHeld, Sent, srcIdx
  <2>. HIDE DEF bs
  <2>. QED  BY <2>2, <2>4, <2>5, <2>6, <2>7, <2>8, HeldBorrow
<1>2. CASE NextBlk
  <2>. DEFINE bs == {Src(srcIdx + 1)}
  <2>1. /\ cpc = "next" /\ cpc' \in {"write", "read", "sync", "close"} /\ ~srcNil
        /\ UNCHANGED <<srcNil, wblk, loopVars, hashVars>> /\ Len(starts') = Len(starts) + 1
    BY <1>2, Positions DEF NextBlk, CallPhase, TypeOK, CallerTypeOK
  <2>2. Borrow(bs) /\ IsFiniteSet(bs)
    BY <1>2, FS_Singleton DEF NextBlk
  <2>3. srcIdx' = srcIdx + 1 /\ Sent' = srcIdx + 1 /\ Sent = srcIdx + 1
    BY <2>1, Positions DEF srcIdx, Sent, TypeOK
  <2>4. \A x \in Workers : wpc'[x] = wpc[x] \/ {wpc'[x], wpc[x]} \subseteq {"off", "queued"}
    BY <1>2 DEF NextBlk
  <2>5. /\ \A i \in Nat : WithTask(i)' <=> WithTask(i)
        /\ \A i \in Nat : DstTask(i)' <=> DstTask(i)
        /\ \A i \in Nat : DictTask(i)' <=> DictTask(i)
    BY <2>1, <2>4 DEF WithTask, DstTask, DictTask
  <2>6. \A i \in Nat : ToFree(i)' <=> ToFree(i)
    BY <2>1, TasksSame
  <2>7. ~WithTask(srcIdx + 1) /\ ~ToFree(srcIdx + 1)
    <3>1. ~WithTask(srcIdx + 1)
      BY <2>3 DEF WithTask
    <3>2. ~ToFree(srcIdx + 1)
      BY <2>3 DEF ToFree, FreeOrder
    <3>. QED  BY <3>1, <3>2
  <2>8. bs \cap live = {}
    BY <2>1, <2>7 DEF Held, SrcHeld
  <2>9. \A i \in Nat : (SrcHeld(i)' <=> SrcHeld(i) \/ i = srcIdx + 1)
    BY <2>1, <2>3, <2>5, <2>6 DEF SrcHeld
  <2>10. \A i \in Nat : (DstHeld(i)' <=> DstHeld(i))
    BY <2>1, <2>5, DstSame, TasksSame
  <2>11. \A i \in Nat : (DictHeld(i)' <=> DictHeld(i))
    BY <2>1, <2>3, <2>5 DEF DictHeld
  <2>12. \A i \in Nat : (Src(i) \in bs <=> i = srcIdx + 1) /\ Dst(i) \notin bs /\ Dict(i) \notin bs
    BY NamesDiffer
  <2>. HIDE DEF bs
  <2>. QED  BY <2>2, <2>8, <2>9, <2>10, <2>11, <2>12, HeldBorrow
<1>3. CASE CloseReturns
  <2>. DEFINE bs == {Src(srcIdx)} \cup LastDict
  <2>1. /\ cpc = "joinloop" /\ srcNil' /\ ~srcNil /\ TasksDone /\ hpc = "exit" /\ hch = <<>>
        /\ UNCHANGED <<starts, workerVars, loopVars, hashVars>>
    BY <1>3 DEF CloseReturns, CallPhase, ChannelPhase
  <2>2. Return(bs) /\ IsFiniteSet(bs)
    BY <1>3, FS_EmptySet, FS_Singleton, FS_Union DEF CloseReturns, LastDict
  <2>3. \A i \in Nat : ~WithTask(i) /\ ~ToFree(i) /\ ~DictTask(i)
    BY <2>1 DEF WithTask, ToFree, DictTask, TasksDone
  <2>4. \A i \in Nat : ~WithTask(i)' /\ ~ToFree(i)' /\ ~DictTask(i)'
    BY <2>1, <2>3, TasksSame
  <2>5. \A i \in Nat : SrcHeld(i) <=> i = srcIdx
    BY <2>1, <2>3 DEF SrcHeld
  <2>6. \A i \in Nat : ~SrcHeld(i)'
    BY <2>1, <2>4 DEF SrcHeld
  <2>7. \A i \in Nat : DictHeld(i) <=> Linked /\ i + 1 = srcIdx
    BY <2>1, <2>3 DEF DictHeld
  <2>8. \A i \in Nat : ~DictHeld(i)'
    BY <2>1, <2>4 DEF DictHeld
  <2>9. \A i \in Nat : DstHeld(i)' <=> DstHeld(i)
    BY <2>1, DstSame, TasksSame
  <2>10. \A i \in Nat : Dict(i) \in bs <=> Linked /\ i + 1 = srcIdx
    <3>1. ASSUME NEW i \in Nat  PROVE Dict(i) \in LastDict <=> Linked /\ i + 1 = srcIdx
      <4>1. CASE Linked /\ srcIdx > 0
        <5>1. LastDict = {Dict(srcIdx - 1)} /\ srcIdx - 1 \in Nat
          BY <4>1 DEF LastDict
        <5>. QED  BY <4>1, <5>1, NamesDiffer
      <4>2. CASE ~(Linked /\ srcIdx > 0)
        BY <4>2 DEF LastDict
      <4>. QED  BY <4>1, <4>2
    <3>. QED  BY <3>1, NamesDiffer
  <2>11. \A i \in Nat : (Src(i) \in bs <=> i = srcIdx) /\ Dst(i) \notin bs
    BY NamesDiffer DEF LastDict
  <2>12. bs \subseteq live
    <3>1. Src(srcIdx) \in live
      BY <2>5 DEF Held
    <3>2. Linked /\ srcIdx > 0 => Dict(srcIdx - 1) \in live
      <4>1. srcIdx > 0 => srcIdx - 1 \in Nat /\ (srcIdx - 1) + 1 = srcIdx
        OBVIOUS
      <4>. QED  BY <2>7, <4>1 DEF Held
    <3>. QED  BY <3>1, <3>2 DEF LastDict
  <2>. HIDE DEF bs
  <2>. QED  BY <2>2, <2>5, <2>6, <2>7, <2>8, <2>9, <2>10, <2>11, <2>12, HeldReturn
<1>. QED  BY <1>1, <1>2, <1>3

\* A task hands the source block on, and borrows the block it compresses into.
LEMMA HeldTask ==
  ASSUME TypeOK, ChannelPhase, CallPhase, OrderInv, OnePlace, FreeOrder, Uncompressed, Held, Counted,
         NEW w \in Workers, SendBlk(w) \/ Compress(w) \/ FreeSrc(w) \/ QueueFree(w)
  PROVE  Held' /\ Counted'
<1>. USE InFlight
<1>1. CASE SendBlk(w)
  <2>1. /\ cpc = "send" /\ cpc' = "next" /\ ~srcNil /\ UNCHANGED <<starts, srcNil, loopVars, hashVars, poolVars>>
        /\ wpc[w] = "recv" /\ wpc'[w] = "work" /\ wblk'[w].idx = srcIdx
        /\ \A x \in Workers : x # w => wpc'[x] = wpc[x] /\ wblk'[x] = wblk[x]
    BY <1>1 DEF SendBlk, callFields, CallPhase
  <2>2. srcIdx' = srcIdx /\ Sent' = srcIdx + 1 /\ Sent = srcIdx
    BY <2>1 DEF Sent, srcIdx
  <2>3. \A i \in Nat : WithTask(i)' <=> WithTask(i) \/ i = srcIdx
    BY <2>1 DEF WithTask
  <2>4. \A i \in Nat : DictTask(i)' <=> DictTask(i) \/ i + 1 = srcIdx
    BY <2>1 DEF DictTask
  <2>5. \A i \in Nat : DstTask(i)' <=> DstTask(i)
    BY <2>1 DEF DstTask
  <2>6. \A i \in Nat : SrcHeld(i)' <=> SrcHeld(i)
    BY <2>1, <2>2, <2>3, TasksSame DEF SrcHeld
  <2>7. \A i \in Nat : DictHeld(i)' <=> DictHeld(i)
    BY <2>1, <2>2, <2>4 DEF DictHeld
  <2>8. \A i \in Nat : DstHeld(i)' <=> DstHeld(i)
    BY <2>1, <2>5, DstSame, TasksSame
  <2>. QED  BY <2>1, <2>6, <2>7, <2>8, HeldSame DEF SameHeld
<1>2. CASE Compress(w)
  <2>1. /\ UNCHANGED <<cpc, starts, srcNil, loopVars, hashVars>>
        /\ wpc[w] = "work" /\ wpc'[w] = "free" /\ wblk[w].st = "ok" /\ wblk'[w].idx = wblk[w].idx
        /\ \A x \in Workers : x # w => wpc'[x] = wpc[x] /\ wblk'[x] = wblk[x]
    BY <1>2 DEF Compress, callerVars, callFields, Uncompressed, Block
  <2>2. \A i \in Nat : WithTask(i)' <=> WithTask(i)
    BY <2>1 DEF WithTask
  <2>3. \A i \in Nat : DictTask(i)' <=> DictTask(i)
    BY <2>1 DEF DictTask
  <2>4. \A i \in Nat : SrcHeld(i)' <=> SrcHeld(i)
    BY <2>1, <2>2, SrcSame, TasksSame
  <2>5. \A i \in Nat : DictHeld(i)' <=> DictHeld(i)
    BY <2>1, <2>3, DictSame
  <2>6. CASE wblk' # wblk
    <3>1. wblk'[w].st \in {"drop", "err"} /\ UNCHANGED poolVars
      BY <1>2, <2>6 DEF Compress, Block
    <3>2. \A i \in Nat : DstTask(i)' <=> DstTask(i)
      BY <2>1, <3>1 DEF DstTask
    <3>3. \A i \in Nat : DstHeld(i)' <=> DstHeld(i)
      BY <2>1, <3>2, DstSame, TasksSame
    <3>. QED  BY <2>4, <2>5, <3>1, <3>3, HeldSame DEF SameHeld
  <2>7. CASE wblk' = wblk
    <3>. DEFINE bs == {Dst(wblk[w].idx)}
    <3>1. Borrow(bs) /\ IsFiniteSet(bs)
      <4>1. [wblk EXCEPT ![w].st = "drop"] # wblk /\ [wblk EXCEPT ![w].st = "err"] # wblk
        <5>1. [wblk EXCEPT ![w].st = "drop"][w].st = "drop" /\ [wblk EXCEPT ![w].st = "err"][w].st = "err"
          BY DEF Block
        <5>. QED  BY <2>1, <5>1
      <4>. QED  BY <1>2, <2>7, <4>1, FS_Singleton DEF Compress
    <3>2. \A i \in Nat : DstTask(i)' <=> DstTask(i) \/ i = wblk[w].idx
      BY <2>1, <2>7 DEF DstTask
    <3>3. \A i \in Nat : DstHeld(i)' <=> DstHeld(i) \/ i = wblk[w].idx
      BY <2>1, <3>2, TasksSame DEF DstHeld
    <3>4. ~DstHeld(wblk[w].idx)
      <4>1. w \in Busy /\ \A x \in Workers : wpc[x] \in {"free", "hfree", "out"} => x \in Busy /\ x # w
        BY <2>1 DEF Busy
      <4>2. ~DstTask(wblk[w].idx)
        BY <4>1 DEF DstTask, OnePlace
      <4>3. \A b \in pending : b.idx # wblk[w].idx
        BY <4>1 DEF OnePlace
      <4>4. InLoop => cur.idx # wblk[w].idx
        BY <4>1 DEF OnePlace
      <4>. QED  BY <4>2, <4>3, <4>4 DEF DstHeld
    <3>5. bs \cap live = {}
      BY <3>4 DEF Held
    <3>6. \A i \in Nat : (Dst(i) \in bs <=> i = wblk[w].idx) /\ Src(i) \notin bs /\ Dict(i) \notin bs
      BY NamesDiffer
    <3>. HIDE DEF bs
    <3>. QED  BY <2>4, <2>5, <3>1, <3>3, <3>5, <3>6, HeldBorrow
  <2>. QED  BY <2>6, <2>7
<1>3. CASE FreeSrc(w)
  <2>. DEFINE j    == wblk[w].idx
              mine == ~HashOn \/ Hashed(j)
              dict == IF Linked /\ j > 0 THEN {Dict(j - 1)} ELSE {}
              src  == IF mine THEN {Src(j)} ELSE {}
              bs   == dict \cup src
  <2>1. /\ UNCHANGED <<cpc, starts, srcNil, wblk, loopVars, hashVars>> /\ wpc[w] = "free"
        /\ wpc' = [wpc EXCEPT ![w] = IF mine THEN Then(w) ELSE "hfree"] /\ Return(bs)
    BY <1>3 DEF FreeSrc, callerVars, callFields
  <2>2. /\ wpc'[w] = (IF mine THEN Then(w) ELSE "hfree") /\ \A x \in Workers : x # w => wpc'[x] = wpc[x]
        /\ Then(w) \in {"token", "out"} /\ (Then(w) = "out" <=> wblk[w].st # "drop")
    BY <2>1 DEF Then
  <2>3. j \in Nat /\ j < Sent
    BY <2>1
  <2>4. IsFiniteSet(bs)
    BY FS_EmptySet, FS_Singleton, FS_Union
  <2>5. \A i \in Nat : WithTask(i)' <=> WithTask(i) /\ ~(mine /\ i = j)
    BY <2>1, <2>2, OneTask DEF WithTask
  <2>6. \A i \in Nat : DictTask(i)' <=> DictTask(i) /\ i + 1 # j
    <3>1. \A x \in Workers : wpc[x] \in {"work", "free"} /\ x # w => wblk[x].idx # j
      BY <2>1, OneTask
    <3>2. wpc'[w] \notin {"work", "free"}
      BY <2>2
    <3>. QED  BY <2>1, <2>2, <3>1, <3>2 DEF DictTask
  <2>7. \A i \in Nat : DstTask(i)' <=> DstTask(i)
    <3>1. wpc'[w] \in {"free", "hfree", "out"} /\ wblk[w].st = "ok" <=> wblk[w].st = "ok"
      BY <2>2
    <3>. QED  BY <2>1, <2>2, <3>1 DEF DstTask
  <2>8. \A i \in Nat : SrcHeld(i)' <=> SrcHeld(i) /\ ~(mine /\ i = j)
    <3>1. WithTask(j) /\ ~ToFree(j) /\ ~(j = srcIdx /\ cpc # "next")
      BY <2>1, <2>3 DEF WithTask, FreeOrder
    <3>2. \A i \in Nat : ToFree(i)' <=> ToFree(i)
      BY <2>1, TasksSame
    <3>3. UNCHANGED <<cpc, srcNil>> /\ srcIdx' = srcIdx
      BY <2>1 DEF srcIdx
    <3>. HIDE DEF j, mine
    <3>. QED  BY <2>5, <3>1, <3>2, <3>3 DEF SrcHeld
  <2>9. \A i \in Nat : DictHeld(i)' <=> DictHeld(i) /\ i + 1 # j
    <3>1. UNCHANGED <<cpc, srcNil>> /\ srcIdx' = srcIdx /\ Sent' = Sent
      BY <2>1 DEF srcIdx, Sent
    <3>2. \A i \in Nat : i + 1 = j => i # Sent - 1 /\ ~(cpc = "send" /\ i = srcIdx)
      BY <2>3
    <3>. HIDE DEF j
    <3>. QED  BY <2>6, <3>1, <3>2 DEF DictHeld
  <2>10. \A i \in Nat : DstHeld(i)' <=> DstHeld(i)
    BY <2>1, <2>7, DstSame, TasksSame
  <2>11. \A i \in Nat : (Src(i) \in bs <=> mine /\ i = j) /\ Dst(i) \notin bs
    BY NamesDiffer
  <2>12. \A i \in Nat : Dict(i) \in bs <=> Linked /\ i + 1 = j
    <3>1. CASE Linked /\ j > 0
      <4>1. dict = {Dict(j - 1)} /\ j - 1 \in Nat
        BY <2>3, <3>1
      <4>. QED  BY <2>3, <3>1, <4>1, NamesDiffer
    <3>2. CASE ~(Linked /\ j > 0)
      BY <2>3, <3>2, NamesDiffer
    <3>. QED  BY <3>1, <3>2
  <2>13. SrcHeld(j)
    BY <2>1 DEF SrcHeld, WithTask
  <2>14. \A i \in Nat : Linked /\ i + 1 = j => DictHeld(i)
    BY <2>1 DEF DictHeld, DictTask
  <2>15. bs \subseteq live
    <3>1. mine => Src(j) \in live
      BY <2>3, <2>13 DEF Held
    <3>2. Linked /\ j > 0 => Dict(j - 1) \in live
      <4>1. j > 0 => j - 1 \in Nat /\ (j - 1) + 1 = j
        BY <2>3
      <4>. QED  BY <2>14, <4>1 DEF Held
    <3>. QED  BY <3>1, <3>2
  <2>16. \A i \in Nat : DictHeld(i) => Linked
    BY DEF DictHeld
  <2>. HIDE DEF bs, mine, j
  <2>. QED  BY <2>1, <2>4, <2>8, <2>9, <2>10, <2>11, <2>12, <2>15, <2>16, HeldReturn
<1>4. CASE QueueFree(w)
  <2>1. /\ UNCHANGED <<cpc, starts, srcNil, wblk, loopVars, hpc, href, hnext, poolVars>> /\ wpc[w] = "hfree"
        /\ hch' = Append(hch, [free |-> TRUE, idx |-> wblk[w].idx, lo |-> 0, hi |-> 0])
        /\ wpc'[w] = Then(w) /\ \A x \in Workers : x # w => wpc'[x] = wpc[x]
    BY <1>4 DEF QueueFree, callerVars, callFields
  <2>2. Then(w) \in {"token", "out"} /\ (Then(w) = "out" <=> wblk[w].st # "drop")
    BY DEF Then
  <2>3. \A i \in Nat : ToFree(i)' <=> ToFree(i) \/ wblk[w].idx = i
    BY <2>1, ToFreeAppend
  <2>4. \A i \in Nat : WithTask(i)' <=> WithTask(i) /\ i # wblk[w].idx
    BY <2>1, <2>2, OneTask DEF WithTask
  <2>5. WithTask(wblk[w].idx)
    BY <2>1 DEF WithTask
  <2>6. \A i \in Nat : SrcHeld(i)' <=> SrcHeld(i)
    <3>1. UNCHANGED <<cpc, srcNil>> /\ srcIdx' = srcIdx
      BY <2>1 DEF srcIdx
    <3>. QED  BY <2>3, <2>4, <2>5, <3>1 DEF SrcHeld
  <2>7. \A i \in Nat : DictTask(i)' <=> DictTask(i)
    BY <2>1, <2>2 DEF DictTask
  <2>8. \A i \in Nat : DstTask(i)' <=> DstTask(i)
    BY <2>1, <2>2 DEF DstTask
  <2>9. \A i \in Nat : DstHeld(i)' <=> DstHeld(i)
    BY <2>1, <2>8, DstSame, TasksSame
  <2>10. \A i \in Nat : DictHeld(i)' <=> DictHeld(i)
    BY <2>1, <2>7, DictSame
  <2>. QED  BY <2>1, <2>6, <2>9, <2>10, HeldSame DEF SameHeld
<1>. QED  BY <1>1, <1>2, <1>3, <1>4

\* writeLoop takes compressed blocks and returns them when they are written,
\* or when it will never write them.
LEMMA HeldLoop ==
  ASSUME TypeOK, OrderInv, CarrierInv, Held, Counted, NoPanic',
         Poll \/ WriteBlk \/ More \/ Drain
  PROVE  Held' /\ Counted'
<1>. USE InFlight DEF InLoop
<1>0. UNCHANGED <<cpc, starts, srcNil, workerVars, hashVars>>
  BY DEF Poll, WriteBlk, More, Drain, callerVars, callFields
<1>1. /\ \A i \in Nat : SrcHeld(i)' <=> SrcHeld(i)
      /\ \A i \in Nat : DictHeld(i)' <=> DictHeld(i)
      /\ \A i \in Nat : DstTask(i)' <=> DstTask(i)
  BY <1>0, SrcSame, DictSame, TasksSame
<1>2. ASSUME NEW b, b.idx \in Nat, b.st \in {"ok", "err", "drop"},
             \A i \in Nat : (DstHeld(i)' <=> DstHeld(i) /\ ~(b.st = "ok" /\ i = b.idx)),
             b.st = "ok" => DstHeld(b.idx), Return(DstOf(b))
      PROVE  Held' /\ Counted'
  <2>. DEFINE bs == DstOf(b)
  <2>1. IsFiniteSet(bs) /\ Return(bs)
    BY <1>2, FS_EmptySet, FS_Singleton DEF DstOf
  <2>2. \A i \in Nat : (Dst(i) \in bs <=> b.st = "ok" /\ i = b.idx) /\ Src(i) \notin bs /\ Dict(i) \notin bs
    BY <1>2, NamesDiffer DEF DstOf
  <2>3. bs \subseteq live
    BY <1>2 DEF DstOf, Held
  <2>. HIDE DEF bs
  <2>. QED  BY <1>1, <1>2, <2>1, <2>2, <2>3, HeldReturn
<1>3. InLoop => \A i \in Nat : (i = cur.idx => ~DstTask(i) /\ \A b \in pending : b.idx # i)
  BY DEF CarrierInv, OnePlace, DstTask, Busy
<1>4. cur.st \in {"ok", "err", "drop"} /\ \A b \in pending : b.st \in {"ok", "err", "drop"}
  BY DEF TypeOK, LoopTypeOK, Block
<1>5. CASE Poll
  <2>1. CASE Kick(cur) /\ lpc' \in {"reply", "fail"} /\ pending' = pending
    <3>1. \A i \in Nat : (DstHeld(i)' <=> DstHeld(i) /\ ~(cur.st = "ok" /\ i = cur.idx))
      BY <1>1, <1>3, <1>5, <2>1 DEF Poll, DstHeld
    <3>2. cur.st = "ok" => DstHeld(cur.idx)
      BY <1>5 DEF Poll, DstHeld
    <3>. QED  BY <1>2, <1>4, <2>1, <3>1, <3>2 DEF Kick
  <2>2. CASE pending' = pending \cup {cur} /\ lpc' = "reply" /\ UNCHANGED poolVars
    <3>1. \A i \in Nat : DstHeld(i)' <=> DstHeld(i)
      BY <1>1, <1>5, <2>2 DEF Poll, DstHeld
    <3>. QED  BY <1>1, <2>2, <3>1, HeldSame DEF SameHeld
  <2>3. CASE pending' = pending /\ lpc' = "write" /\ UNCHANGED poolVars
    <3>1. \A i \in Nat : DstHeld(i)' <=> DstHeld(i)
      BY <1>1, <1>5, <2>3 DEF Poll, DstHeld
    <3>. QED  BY <1>1, <2>3, <3>1, HeldSame DEF SameHeld
  <2>. QED  BY <1>5, <2>1, <2>2, <2>3 DEF Poll
<1>6. CASE WriteBlk
  <2>1. lpc = "write" /\ lpc' \in {"more", "fail"} /\ UNCHANGED <<pending, cur>> /\ Kick(cur)
    BY <1>6 DEF WriteBlk, NoPanic
  <2>2. \A i \in Nat : (DstHeld(i)' <=> DstHeld(i) /\ ~(cur.st = "ok" /\ i = cur.idx))
    BY <1>1, <1>3, <2>1 DEF DstHeld
  <2>3. cur.st = "ok" => DstHeld(cur.idx)
    BY <2>1 DEF DstHeld
  <2>. QED  BY <1>2, <1>4, <2>1, <2>2, <2>3 DEF Kick
<1>7. CASE More
  <2>1. lpc = "more" /\ UNCHANGED poolVars
    BY <1>7 DEF More
  <2>2. CASE \E b \in pending : cur' = b /\ pending' = pending \ {b} /\ lpc' = "write"
    <3>1. \A i \in Nat : DstHeld(i)' <=> DstHeld(i)
      BY <1>1, <2>1, <2>2 DEF DstHeld
    <3>. QED  BY <1>1, <2>1, <3>1, HeldSame DEF SameHeld
  <2>3. CASE lpc' = "reply" /\ UNCHANGED <<cur, pending>>
    <3>1. \A i \in Nat : DstHeld(i)' <=> DstHeld(i)
      BY <1>1, <2>1, <2>3 DEF DstHeld
    <3>. QED  BY <1>1, <2>1, <3>1, HeldSame DEF SameHeld
  <2>. QED  BY <1>7, <2>2, <2>3 DEF More
<1>8. CASE Drain
  <2>1. PICK b \in pending : pending' = pending \ {b} /\ Kick(b)
    BY <1>8 DEF Drain
  <2>2. lpc = "drain" /\ lpc' = "drain"
    BY <1>8 DEF Drain
  <2>3. b.idx \in Nat /\ ~DstTask(b.idx) /\ \A c \in pending : c # b => c.idx # b.idx
    BY DEF CarrierInv, OnePlace, DstTask, Busy
  <2>4. \A i \in Nat : (DstHeld(i)' <=> DstHeld(i) /\ ~(b.st = "ok" /\ i = b.idx))
    BY <1>1, <2>1, <2>2, <2>3 DEF DstHeld
  <2>5. b.st = "ok" => DstHeld(b.idx)
    BY DEF DstHeld
  <2>. QED  BY <1>2, <1>4, <2>1, <2>3, <2>4, <2>5 DEF Kick
<1>. QED  BY <1>5, <1>6, <1>7, <1>8

\* A compressed block passes to writeLoop; the hasher takes and frees.
LEMMA HeldRest ==
  ASSUME TypeOK, OrderInv, FreeOrder, Held, Counted,
         HashTakes \/ HashUses \/ \E w \in Workers : RecvOut(w)
  PROVE  Held' /\ Counted'
<1>. USE InFlight
<1>1. ASSUME NEW w \in Workers, RecvOut(w)  PROVE Held' /\ Counted'
  <2>1. /\ UNCHANGED <<cpc, starts, srcNil, wblk, pending, hashVars, poolVars>>
        /\ wpc[w] = "out" /\ wpc'[w] = "recv" /\ ~InLoop /\ InLoop' /\ cur' = wblk[w]
        /\ \A x \in Workers : x # w => wpc'[x] = wpc[x]
    BY <1>1 DEF RecvOut, callerVars, callFields, InLoop
  <2>2. \A i \in Nat : WithTask(i)' <=> WithTask(i)
    BY <2>1 DEF WithTask
  <2>3. \A i \in Nat : DictTask(i)' <=> DictTask(i)
    BY <2>1 DEF DictTask
  <2>4. \A i \in Nat : DstTask(i) <=> DstTask(i)' \/ (wblk[w].st = "ok" /\ wblk[w].idx = i)
    BY <2>1 DEF DstTask
  <2>5. \A i \in Nat : DstHeld(i)' <=> DstHeld(i)
    BY <2>1, <2>4 DEF DstHeld
  <2>6. \A i \in Nat : SrcHeld(i)' <=> SrcHeld(i)
    BY <2>1, <2>2, SrcSame, TasksSame
  <2>7. \A i \in Nat : DictHeld(i)' <=> DictHeld(i)
    BY <2>1, <2>3, DictSame
  <2>. QED  BY <2>1, <2>5, <2>6, <2>7, HeldSame DEF SameHeld
<1>2. CASE HashTakes \/ HashUses
  <2>1. UNCHANGED <<cpc, starts, srcNil, workerVars, loopVars>>
    BY <1>2 DEF HashTakes, HashUses, othersOfHasher, callerVars, callFields
  <2>2. /\ \A i \in Nat : WithTask(i)' <=> WithTask(i)
        /\ \A i \in Nat : DstHeld(i)' <=> DstHeld(i)
        /\ \A i \in Nat : DictHeld(i)' <=> DictHeld(i)
    BY <2>1, DstSame, DictSame, TasksSame
  <2>3. CASE HashTakes
    <3>1. /\ hch # <<>> /\ href' = hch[1] /\ hch' = Tail(hch) /\ hpc = "take" /\ hpc' = "use" /\ UNCHANGED poolVars
      BY <2>3 DEF HashTakes
    <3>2. /\ 1 \in DOMAIN hch
          /\ \A j \in DOMAIN hch' : j + 1 \in DOMAIN hch /\ hch'[j] = hch[j + 1]
          /\ \A j \in DOMAIN hch : j = 1 \/ (j - 1 \in DOMAIN hch' /\ hch'[j - 1] = hch[j])
      BY <3>1 DEF TypeOK, HashTypeOK
    <3>3. ASSUME NEW i \in Nat  PROVE ToFree(i)' <=> ToFree(i)
      <4>1. ASSUME ToFree(i)  PROVE ToFree(i)'
        <5>1. PICK k \in DOMAIN hch : hch[k].free /\ hch[k].idx = i
          BY <3>1, <4>1 DEF ToFree
        <5>2. CASE k = 1
          BY <3>1, <5>1, <5>2 DEF ToFree
        <5>3. CASE k # 1
          BY <3>2, <5>1, <5>3 DEF ToFree
        <5>. QED  BY <5>2, <5>3
      <4>2. ToFree(i)' => ToFree(i)
        BY <3>1, <3>2 DEF ToFree
      <4>. QED  BY <4>1, <4>2
    <3>4. \A i \in Nat : SrcHeld(i)' <=> SrcHeld(i)
      BY <2>1, <2>2, <3>3, SrcSame
    <3>. QED  BY <2>2, <3>1, <3>4, HeldSame DEF SameHeld
  <2>4. CASE HashUses /\ ~href.free
    <3>1. hpc = "use" /\ hpc' = "take" /\ UNCHANGED <<hch, href, poolVars>>
      BY <2>4 DEF HashUses
    <3>2. \A i \in Nat : ToFree(i)' <=> ToFree(i)
      BY <2>4, <3>1 DEF ToFree
    <3>3. \A i \in Nat : SrcHeld(i)' <=> SrcHeld(i)
      BY <2>1, <2>2, <3>2, SrcSame
    <3>. QED  BY <2>2, <3>1, <3>3, HeldSame DEF SameHeld
  <2>5. CASE HashUses /\ href.free
    <3>. DEFINE j == href.idx  bs == {Src(j)}
    <3>1. hpc = "use" /\ hpc' = "take" /\ UNCHANGED <<hch, href>> /\ Return(bs) /\ j \in Nat
      BY <2>5, RefTypes DEF HashUses
    <3>2. \A i \in Nat : ToFree(i)' <=> ToFree(i) /\ i # j
      BY <2>5, <3>1 DEF ToFree, FreeOrder
    <3>3. ToFree(j) /\ ~WithTask(j) /\ ~(j = srcIdx /\ cpc # "next")
      BY <2>5, <3>1 DEF ToFree, FreeOrder
    <3>4. \A i \in Nat : SrcHeld(i)' <=> SrcHeld(i) /\ i # j
      BY <2>1, <2>2, <3>2, <3>3 DEF SrcHeld, srcIdx
    <3>5. IsFiniteSet(bs) /\ bs \subseteq live
      BY <3>1, <3>3, FS_Singleton DEF Held, SrcHeld
    <3>6. \A i \in Nat : (Src(i) \in bs <=> i = j) /\ Dst(i) \notin bs /\ Dict(i) \notin bs
      BY NamesDiffer
    <3>. HIDE DEF bs, j
    <3>. QED  BY <2>2, <3>1, <3>4, <3>5, <3>6, HeldReturn
  <2>. QED  BY <1>2, <2>3, <2>4, <2>5
<1>. QED  BY <1>1, <1>2

LEMMA HeldInit == Init => Held /\ Counted /\ Uncompressed
<1>. SUFFICES ASSUME Init  PROVE Held /\ Counted /\ Uncompressed
  OBVIOUS
<1>1. /\ starts = <<0>> /\ cpc = "idle" /\ ~srcNil /\ hch = <<>> /\ hpc # "use" /\ lpc = "hdr" /\ pending = {}
      /\ live = {Src(0)} /\ cntBorrowed = 1 /\ Len(starts) = 1
      /\ \A w \in Workers : wpc[w] \in {"off", "queued"}
  BY DEF Init
<1>2. \A i \in Nat : ~WithTask(i) /\ ~ToFree(i) /\ ~DictTask(i) /\ ~DstTask(i)
  BY <1>1 DEF WithTask, ToFree, DictTask, DstTask
<1>3. srcIdx = 0 /\ Sent = 0
  BY <1>1 DEF srcIdx, Sent
<1>4. \A i \in Nat : (SrcHeld(i) <=> i = 0) /\ ~DictHeld(i) /\ ~DstHeld(i)
  BY <1>1, <1>2, <1>3 DEF SrcHeld, DictHeld, DstHeld, InLoop
<1>5. Held
  BY <1>1, <1>4, NamesDiffer DEF Held
<1>6. Counted
  BY <1>1, FS_Singleton DEF Counted
<1>7. Uncompressed
  BY <1>1 DEF Uncompressed
<1>. QED  BY <1>5, <1>6, <1>7

LEMMA HeldStep ==
  ASSUME TypeOK, ChannelPhase, CallPhase, OrderInv, CarrierInv, FreeOrder, Uncompressed, Held, Counted,
         NoPanic', [Next]_vars
  PROVE  Held' /\ Counted'
<1>1. OnePlace
  BY DEF CarrierInv
<1>2. ASSUME UNCHANGED poolVars /\ SameHeld  PROVE Held' /\ Counted'
  BY <1>2, HeldSame
<1>. QED  BY <1>1, <1>2, PoolQuiet, HeldCaller, HeldTask, HeldLoop, HeldRest
          DEF Next, CallerStep, Meet, Task, Loop, Hasher

-----------------------------------------------------------------------------
(* What Flush and Close promise                                             *)

LEMMA CallOfStep ==
  ASSUME TypeOK, CallOf, [Next]_vars
  PROVE  CallOf'
<1>. USE DEF CallOf, Enter, EnterFlush, FlushBlk, ReportReturn, callFields
<1>0. retTo \in {"write", "read", "sync", "close"}
  BY DEF TypeOK, CallerTypeOK
<1>1. CASE Call
  BY <1>0, <1>1 DEF Call, Write, ReadFrom, Flush, Close
<1>2. CASE CallerStep
  BY <1>0, <1>2 DEF CallerStep, WriteTop, Copy, ReadTop, Fill, FlushNothing, FlushReturns, CloseChans,
     JoinTasks, CloseReturns, QueueHash, Acquire, NextBlk
<1>3. CASE Meet
  BY <1>0, <1>3 DEF Meet, RecvFlush, Reply, SendBlk, RecvOut, callerVars
<1>4. ASSUME NEW w \in Workers, Task(w)  PROVE CallOf'
  BY <1>4 DEF Task, TaskStarts, Compress, FreeSrc, QueueFree, DropToken, TaskExits, callerVars
<1>5. CASE Loop \/ Hasher \/ UNCHANGED vars
  BY <1>5, LoopCaller DEF Hasher, HashTakes, HashUses, HashExits, othersOfHasher, callerVars, vars
<1>. QED  BY <1>1, <1>2, <1>3, <1>4, <1>5 DEF Next

\* With every block out, writeLoop stays in its select.
LEMMA LoopRests ==
  ASSUME TypeOK, ChannelPhase, OrderInv, NotWritten, lpc = "select", nextIdx = srcIdx, ~srcNil,
         cpc \in {"synced", "idle"}, [Next]_vars
  PROVE  UNCHANGED <<loopVars, starts, srcOff, srcNil>> /\ (cpc' = "idle" => cpc = "idle" \/ FlushReturns)
<1>1. ASSUME NEW w \in Workers  PROVE ~RecvOut(w) /\ ~SendBlk(w)
  BY InFlight DEF RecvOut, SendBlk, NotWritten, Busy
<1>2. ~RecvFlush /\ ~Reply /\ ~Loop
  BY DEF RecvFlush, Reply, Loop, WriteHeader, OutClosed, Poll, WriteBlk, LoopFails, More, NoReply, Drain,
     Drained, HashJoined, WriteTrailer, ChannelPhase
<1>3. ~Meet
  BY <1>1, <1>2 DEF Meet
<1>4. CASE Call
  BY <1>4 DEF Call, Write, ReadFrom, Flush, Close, Enter, othersOfCaller
<1>5. CASE CallerStep
  BY <1>5 DEF CallerStep, WriteTop, Copy, ReadTop, Fill, FlushNothing, FlushReturns, CloseChans,
     JoinTasks, CloseReturns, QueueHash, Acquire, NextBlk, othersOfCaller
<1>6. ASSUME NEW w \in Workers, Task(w)  PROVE UNCHANGED <<loopVars, callerVars>>
  BY <1>6 DEF Task, TaskStarts, Compress, FreeSrc, QueueFree, DropToken, TaskExits
<1>7. CASE Hasher \/ UNCHANGED vars
  BY <1>7 DEF Hasher, HashTakes, HashUses, HashExits, othersOfHasher, vars, callerVars, callFields
<1>. QED  BY <1>2, <1>3, <1>4, <1>5, <1>6, <1>7 DEF Next, callerVars, callFields

\* What is out stays out.
LEMMA OutKept ==
  ASSUME UNCHANGED <<loopVars, starts, srcOff>>
  PROVE  AllOut' <=> AllOut
BY DEF AllOut, srcIdx, loopVars, loopFields

\* The ways a call of Flush begins and ends.
LEMMA FlushSteps ==
  ASSUME TypeOK, CallOf, [Next]_vars
  PROVE  /\ cpc' = "synced" => (cpc = "synced" /\ UNCHANGED <<call, ret>>) \/ Reply
         /\ cpc' = "idle" /\ call' = "flush" /\ ret' = "none" =>
              \/ cpc = "idle" /\ UNCHANGED <<call, ret>>
              \/ FlushNothing \/ (FlushReturns /\ state = "none")
<1>. USE DEF Enter, EnterFlush, FlushBlk, ReportReturn, callFields
<1>0. retTo \in {"write", "read", "sync", "close"}
  BY DEF TypeOK, CallerTypeOK
<1>1. CASE Call
  BY <1>1 DEF Call, Write, ReadFrom, Flush, Close
<1>2. CASE WriteTop \/ Copy \/ ReadTop \/ Fill
  BY <1>2 DEF WriteTop, Copy, ReadTop, Fill, CallOf
<1>3. CASE FlushNothing \/ FlushReturns
  BY <1>3 DEF FlushNothing, FlushReturns
<1>4. CASE CloseChans \/ JoinTasks \/ CloseReturns
  BY <1>4 DEF CloseChans, JoinTasks, CloseReturns, CallOf
<1>5. CASE QueueHash \/ Acquire \/ NextBlk
  BY <1>0, <1>5 DEF QueueHash, Acquire, NextBlk
<1>6. CASE Meet
  BY <1>6 DEF Meet, RecvFlush, Reply, SendBlk, RecvOut, callerVars
<1>7. ASSUME NEW w \in Workers, Task(w)  PROVE UNCHANGED callerVars
  BY <1>7 DEF Task, TaskStarts, Compress, FreeSrc, QueueFree, DropToken, TaskExits
<1>8. CASE Loop \/ Hasher \/ UNCHANGED vars
  BY <1>8, LoopCaller DEF Hasher, HashTakes, HashUses, HashExits, othersOfHasher, callerVars, vars
<1>. QED  BY <1>1, <1>2, <1>3, <1>4, <1>5, <1>6, <1>7, <1>8 DEF Next, CallerStep, callerVars

\* The caller hands nothing over between its calls.
LEMMA IdleKept ==
  ASSUME cpc = "idle", [Next]_vars
  PROVE  UNCHANGED <<starts, srcOff>>
<1>1. CASE Call
  BY <1>1 DEF Call, Write, ReadFrom, Flush, Close
<1>2. CASE CallerStep
  BY <1>2 DEF CallerStep, WriteTop, Copy, ReadTop, Fill, FlushNothing, FlushReturns, CloseChans,
     JoinTasks, CloseReturns, QueueHash, Acquire, NextBlk
<1>3. CASE Meet
  BY <1>3 DEF Meet, RecvFlush, Reply, SendBlk, RecvOut, callerVars, callFields
<1>4. ASSUME NEW w \in Workers, Task(w)  PROVE UNCHANGED callerVars
  BY <1>4 DEF Task, TaskStarts, Compress, FreeSrc, QueueFree, DropToken, TaskExits
<1>5. CASE Loop \/ Hasher \/ UNCHANGED vars
  BY <1>5, LoopCaller DEF Hasher, HashTakes, HashUses, HashExits, othersOfHasher, vars, callerVars, callFields
<1>. QED  BY <1>1, <1>2, <1>3, <1>4, <1>5 DEF Next, callerVars, callFields

LEMMA FlushedStep ==
  ASSUME TypeOK, ChannelPhase, CallPhase, CallOf, OrderInv, NotWritten, FlushedTo, [Next]_vars
  PROVE  FlushedTo'
<1>. USE InFlight
<1>0. state' = "none" => state = "none"
  BY ErrorStep
<1>1. ASSUME cpc' = "synced", state' = "none"  PROVE AllOut' /\ lpc' = "select"
  <2>1. CASE Reply
    <3>1. /\ lpc = "reply" /\ cpc = "wait" /\ FlushReached /\ state = "none" /\ lpc' = "select"
          /\ UNCHANGED <<starts, srcOff, nextIdx, out>>
      BY <1>0, <1>1, <2>1 DEF Reply, callFields
    <3>2. nextIdx = srcIdx
      BY <3>1 DEF FlushReached, CallPhase, NotWritten, TypeOK, LoopTypeOK
    <3>3. Len(out) = nextIdx + 1 /\ \A i \in 2 .. Len(out) : out[i].k = "blk"
      BY <3>1 DEF OrderInv, LoopPlace, Healthy
    <3>4. srcOff = 0
      BY <3>1 DEF CallPhase
    <3>. QED  BY <3>1, <3>2, <3>3, <3>4 DEF AllOut, srcIdx
  <2>2. CASE cpc = "synced"
    <3>1. AllOut /\ lpc = "select" /\ ~srcNil
      BY <1>0, <1>1, <2>2 DEF FlushedTo, CallPhase
    <3>2. UNCHANGED <<loopVars, starts, srcOff>>
      BY <2>2, <3>1, LoopRests DEF AllOut
    <3>. QED  BY <3>1, <3>2, OutKept DEF loopVars
  <2>. QED  BY <1>1, <2>1, <2>2, FlushSteps
<1>2. ASSUME cpc' = "idle", call' = "flush", ret' = "none"
      PROVE  IF srcIdx' = 0 THEN srcOff' = 0
             ELSE AllOut' /\ (Len(out) = nextIdx + 1)' /\ lpc' = "select" /\ ~srcNil'
  <2>1. CASE FlushNothing
    <3>1. srcIdx = 0 /\ srcOff = 0 /\ UNCHANGED <<starts, srcOff>>
      BY <2>1 DEF FlushNothing, CallPhase
    <3>. QED  BY <3>1 DEF srcIdx
  <2>2. CASE FlushReturns /\ state = "none"
    <3>1. AllOut /\ lpc = "select" /\ ~srcNil /\ cpc = "synced" /\ srcIdx # 0
      BY <2>2 DEF FlushReturns, FlushedTo, CallPhase
    <3>2. Len(out) = nextIdx + 1
      BY <2>2, <3>1 DEF OrderInv, LoopPlace, Healthy
    <3>3. UNCHANGED <<loopVars, starts, srcOff, srcNil>>
      BY <3>1, LoopRests DEF AllOut
    <3>. QED  BY <3>1, <3>2, <3>3, OutKept DEF loopVars, loopFields, srcIdx
  <2>3. CASE cpc = "idle" /\ UNCHANGED <<call, ret>>
    <3>1. CASE srcIdx = 0
      <4>1. srcOff = 0
        BY <1>2, <2>3, <3>1 DEF FlushedTo
      <4>2. UNCHANGED <<starts, srcOff>>
        BY <1>2, <2>3, IdleKept
      <4>. QED  BY <3>1, <4>1, <4>2 DEF srcIdx
    <3>2. CASE srcIdx # 0
      <4>1. AllOut /\ Len(out) = nextIdx + 1 /\ lpc = "select" /\ ~srcNil
        BY <1>2, <2>3, <3>2 DEF FlushedTo
      <4>2. UNCHANGED <<loopVars, starts, srcOff, srcNil>>
        BY <2>3, <4>1, LoopRests DEF AllOut
      <4>. QED  BY <3>2, <4>1, <4>2, OutKept DEF loopVars, loopFields, srcIdx
    <3>. QED  BY <3>1, <3>2
  <2>. QED  BY <1>2, <2>1, <2>2, <2>3, FlushSteps
<1>. QED  BY <1>1, <1>2 DEF FlushedTo

\* Once writeLoop is past its last block, the stream stands still.
LEMMA StreamEnds ==
  ASSUME TypeOK, ChannelPhase, CallPhase, "out" \in chClosed, [Next]_vars
  PROVE  /\ UNCHANGED <<starts, srcOff>>
         /\ \/ state' = state \/ Loop
            \/ CloseReturns /\ (state' = IF ~report /\ state = "none" THEN "closed" ELSE state)
<1>0. cpc \in {"joinloop", "idle", "write", "read"} /\ srcOff = 0 /\ (cpc # "joinloop" => srcNil /\ state # "none")
  BY DEF ChannelPhase, CallPhase
<1>1. CASE Call
  BY <1>1 DEF Call, Write, ReadFrom, Flush, Close, othersOfCaller, sharedVars
<1>2. CASE CallerStep
  BY <1>0, <1>2 DEF CallerStep, WriteTop, Copy, ReadTop, Fill, FlushNothing, FlushReturns, CloseChans,
     JoinTasks, CloseReturns, QueueHash, Acquire, NextBlk, othersOfCaller, sharedVars
<1>3. CASE Meet
  BY <1>0, <1>3 DEF Meet, RecvFlush, Reply, SendBlk, RecvOut, callerVars, callFields, sharedVars
<1>4. ASSUME NEW w \in Workers, Task(w)  PROVE UNCHANGED callerVars /\ state' = state
  BY <1>4 DEF Task, TaskStarts, Compress, FreeSrc, QueueFree, DropToken, TaskExits, sharedVars
<1>5. CASE Hasher \/ UNCHANGED vars
  BY <1>5 DEF Hasher, HashTakes, HashUses, HashExits, othersOfHasher, vars, callerVars, callFields, sharedVars
<1>6. CASE Loop
  BY <1>6, LoopCaller DEF callerVars, callFields
<1>. QED  BY <1>1, <1>2, <1>3, <1>4, <1>5, <1>6 DEF Next, callerVars, callFields

\* Only writeLoop at its end writes an end mark, and then it is done.
LEMMA EndSteps ==
  ASSUME TypeOK, [Next]_vars
  PROVE  /\ lpc = "done" => UNCHANGED loopVars /\ ~Loop
         /\ Complete' => Complete \/ WriteTrailer
         /\ lpc' = "trl" => \/ lpc = "trl" /\ UNCHANGED loopVars /\ ~Loop
                            \/ (Drained \/ HashJoined) /\ state = "none" /\ state' = state
         /\ lpc' = "done" => \/ lpc = "done" \/ WriteTrailer
                             \/ (Drained \/ HashJoined) /\ state # "none" /\ UNCHANGED <<state, out>>
<1>1. lpc = "done" => ~Loop /\ ~RecvFlush /\ ~Reply /\ \A w \in Workers : ~RecvOut(w)
  BY DEF Loop, WriteHeader, OutClosed, Poll, WriteBlk, LoopFails, More, NoReply, Drain, Drained, HashJoined,
     WriteTrailer, RecvFlush, Reply, RecvOut
<1>2. lpc = "done" => UNCHANGED loopVars
  BY <1>1, OtherSteps
<1>3. ASSUME NEW x \in {"hdr", "bad", "blk"}, NEW it, it.k = x, out' = Append(out, it)
      PROVE  Complete' => Complete
  <2>1. Len(out) \in Nat /\ DOMAIN out = 1 .. Len(out) /\ DOMAIN out' = 1 .. Len(out) + 1
        /\ (\A i \in DOMAIN out : out'[i] = out[i]) /\ out'[Len(out) + 1] = it
    BY <1>3 DEF TypeOK, LoopTypeOK
  <2>. QED  BY <1>3, <2>1 DEF Complete
<1>4. Complete' => Complete \/ WriteTrailer
  <2>1. CASE out' = out
    BY <2>1 DEF Complete
  <2>2. CASE WriteHeader
    BY <1>3, <2>2 DEF WriteHeader, Emit, Mark
  <2>3. CASE WriteBlk /\ out' # out
    <3>. DEFINE b == [k |-> "blk", idx |-> cur.idx, lo |-> cur.lo, hi |-> cur.hi]
    <3>1. out' = Append(out, b) \/ out' = Append(out, Mark("bad", 0))
      BY <2>3 DEF WriteBlk, Emit
    <3>2. b.k = "blk" /\ Mark("bad", 0).k = "bad"
      BY DEF Mark
    <3>. HIDE DEF b
    <3>. QED  BY <1>3, <3>1, <3>2
  <2>. QED  BY <2>1, <2>2, <2>3, WriteSteps
<1>5. lpc' \in {"trl", "done"} /\ lpc' # lpc => WriteTrailer \/ Drained \/ HashJoined
  BY OtherSteps DEF Loop, WriteHeader, OutClosed, Poll, WriteBlk, LoopFails, More, NoReply, Drain, RecvFlush,
     Reply, RecvOut, loopVars
<1>6. lpc' = "trl" /\ lpc = "trl" => UNCHANGED loopVars /\ ~Loop
  <2>1. lpc' = "trl" /\ lpc = "trl" => ~Loop /\ ~RecvFlush /\ ~Reply /\ \A w \in Workers : ~RecvOut(w)
    BY DEF Loop, WriteHeader, OutClosed, Poll, WriteBlk, LoopFails, More, NoReply, Drain, Drained, HashJoined,
       WriteTrailer, RecvFlush, Reply, RecvOut
  <2>. QED  BY <2>1, OtherSteps
<1>7. ASSUME Drained \/ HashJoined
      PROVE  UNCHANGED <<state, out>> /\ (lpc' = "trl" => state = "none") /\ (lpc' = "done" => state # "none")
  BY <1>7 DEF Drained, HashJoined, Clean, loopFields
<1>8. WriteTrailer => lpc' = "done"
  BY DEF WriteTrailer
<1>9. lpc' = "trl" => \/ lpc = "trl" /\ UNCHANGED loopVars /\ ~Loop
                      \/ (Drained \/ HashJoined) /\ state = "none" /\ state' = state
  BY <1>5, <1>6, <1>7, <1>8
<1>10. lpc' = "done" => \/ lpc = "done" \/ WriteTrailer
                        \/ (Drained \/ HashJoined) /\ state # "none" /\ UNCHANGED <<state, out>>
  BY <1>5, <1>7
<1>. QED  BY <1>1, <1>2, <1>4, <1>9, <1>10

\* At the trailer every block is out, and hashed if there is a hasher.
LEMMA AtTrailer ==
  ASSUME TypeOK, ChannelPhase, CallPhase, OrderInv, CarrierInv, HashOrder, lpc = "trl", state = "none"
  PROVE  /\ AllOut /\ Len(out) = nextIdx + 1
         /\ HashOn => hsum = Accepted
<1>. USE InFlight
<1>1. cpc = "joinloop" /\ srcOff = 0 /\ TasksDone /\ hpc = "exit" /\ hch = <<>>
  BY DEF ChannelPhase, CallPhase
<1>2. Busy = {} /\ pending = {} /\ ~InLoop /\ Sent = srcIdx
  BY <1>1 DEF TasksDone, Busy, CarrierInv, NoneMissing, InLoop
<1>3. nextIdx = srcIdx
  <2>1. nextIdx \in Nat /\ nextIdx <= srcIdx
    BY <1>2 DEF CarrierInv, NotWritten, TypeOK, LoopTypeOK
  <2>2. \A i \in nextIdx .. srcIdx - 1 : Carried(i)
    BY <1>2 DEF CarrierInv, NoneMissing
  <2>3. \A i : ~Carried(i)
    BY <1>2 DEF Carried
  <2>4. nextIdx \in nextIdx .. srcIdx - 1 \/ nextIdx = srcIdx
    BY <2>1
  <2>. QED  BY <2>2, <2>3, <2>4
<1>4. Len(out) = nextIdx + 1 /\ \A i \in 2 .. Len(out) : out[i].k = "blk"
  BY DEF OrderInv, LoopPlace, Healthy
<1>5. AllOut
  BY <1>1, <1>3, <1>4 DEF AllOut
<1>6. ASSUME HashOn  PROVE hsum = Accepted
  <2>1. TakenTo = hnext /\ QueuedTo = srcIdx /\ hnext \in Nat
    BY <1>1, RefTypes DEF TakenTo, QueuedTo
  <2>2. hnext <= srcIdx /\ hsum = EndOf(hnext - 1) /\ \A i \in hnext .. srcIdx - 1 : \E k \in DOMAIN hch : hch[k].idx = i
    BY <1>6, <2>1 DEF HashOrder
  <2>3. DOMAIN hch = {}
    BY <1>1
  <2>4. hnext = srcIdx
    <3>1. hnext \in hnext .. srcIdx - 1 \/ hnext = srcIdx
      BY <2>1, <2>2
    <3>. QED  BY <2>2, <2>3, <3>1
  <2>. QED  BY <1>1, <2>2, <2>4 DEF EndOf, srcIdx, Accepted, Start, TypeOK, CallerTypeOK
<1>. QED  BY <1>4, <1>5, <1>6

LEMMA ClosedStep ==
  ASSUME TypeOK, ChannelPhase, CallPhase, OrderInv, CarrierInv, HashOrder, ClosedWith, [Next]_vars
  PROVE  ClosedWith'
<1>. USE EndSteps
<1>0. state' = "none" => state = "none"
  BY ErrorStep
<1>1. CASE WriteTrailer
  <2>1. lpc = "trl" /\ lpc' = "done" /\ state = "none" /\ UNCHANGED <<starts, srcOff, nextIdx>> /\ ~Complete
    BY <1>1 DEF WriteTrailer, callerVars, callFields, ClosedWith
  <2>2. AllOut /\ Len(out) = nextIdx + 1 /\ (HashOn => hsum = Accepted)
    BY <2>1, AtTrailer
  <2>3. Accepted' = Accepted
    BY <2>1 DEF Accepted, Start
  <2>4. CASE out' = Append(out, Mark("end", hsum)) /\ state' = state
    <3>1. /\ Len(out') = Len(out) + 1 /\ out'[Len(out) + 1] = Mark("end", hsum)
          /\ DOMAIN out' = 1 .. Len(out) + 1 /\ nextIdx \in Nat
          /\ \A i \in 2 .. nextIdx + 1 : out'[i] = out[i]
      BY <2>2, <2>4 DEF TypeOK, LoopTypeOK
    <3>2. Complete' /\ Len(out)' = nextIdx + 2 /\ out'[Len(out')].hi = hsum
      BY <2>2, <3>1 DEF Complete, Mark
    <3>3. AllOut'
      BY <2>1, <2>2, <3>1 DEF AllOut, srcIdx
    <3>. QED  BY <2>1, <2>2, <2>3, <2>4, <3>2, <3>3 DEF ClosedWith
  <2>5. CASE out' = Append(out, Mark("bad", 0)) /\ state' = "trl"
    <3>1. ~Complete'
      <4>1. /\ DOMAIN out' = 1 .. Len(out) + 1 /\ DOMAIN out = 1 .. Len(out) /\ Len(out) \in Nat
            /\ out'[Len(out) + 1].k = "bad" /\ \A i \in DOMAIN out : out'[i] = out[i]
        BY <2>5 DEF Mark, TypeOK, LoopTypeOK
      <4>. QED  BY <2>1, <4>1 DEF Complete
    <3>. QED  BY <2>1, <2>5, <3>1 DEF ClosedWith
  <2>. QED  BY <1>1, <2>1, <2>4, <2>5 DEF WriteTrailer, Emit, SetError
<1>2. CASE ~WriteTrailer
  <2>1. ASSUME Complete'
        PROVE  /\ lpc' = "done" /\ state' \in {"none", "closed"} /\ AllOut' /\ (Len(out) = nextIdx + 2)'
               /\ HashOn => (out[Len(out)].hi = Accepted)'
    <3>1. Complete /\ lpc = "done" /\ state \in {"none", "closed"}
      BY <1>2, <2>1 DEF ClosedWith
    <3>2. UNCHANGED loopVars /\ ~Loop /\ "out" \in chClosed
      BY <3>1 DEF ChannelPhase
    <3>3. UNCHANGED <<starts, srcOff>> /\ state' \in {"none", "closed"}
      BY <3>1, <3>2, StreamEnds
    <3>4. AllOut' /\ Accepted' = Accepted /\ out' = out /\ nextIdx' = nextIdx /\ lpc' = "done"
      BY <3>1, <3>2, <3>3, OutKept DEF ClosedWith, Accepted, Start, loopVars, loopFields
    <3>. QED  BY <3>1, <3>3, <3>4 DEF ClosedWith
  <2>2. ASSUME lpc' = "trl"  PROVE state' = "none"
    <3>1. CASE lpc = "trl" /\ ~Loop
      <4>1. "out" \in chClosed /\ state = "none" /\ ~CloseReturns
        BY <3>1 DEF ChannelPhase, ClosedWith, CloseReturns
      <4>. QED  BY <3>1, <4>1, StreamEnds
    <3>. QED  BY <2>2, <3>1
  <2>3. ASSUME lpc' = "done", state' \in {"none", "closed"}  PROVE Complete'
    <3>1. CASE lpc = "done"
      <4>1. "out" \in chClosed /\ UNCHANGED loopVars /\ ~Loop
        BY <3>1 DEF ChannelPhase
      <4>2. state \in {"none", "closed"}
        BY <2>3, <4>1, StreamEnds
      <4>. QED  BY <3>1, <4>1, <4>2 DEF ClosedWith, Complete, loopVars, loopFields
    <3>2. CASE lpc # "done"
      <4>1. state # "none" /\ state' = state
        BY <1>2, <2>3, <3>2
      <4>2. state # "closed"
        BY <3>2 DEF CallPhase
      <4>. QED  BY <2>3, <4>1, <4>2
    <3>. QED  BY <3>1, <3>2
  <2>. QED  BY <2>1, <2>2, <2>3 DEF ClosedWith
<1>. QED  BY <1>1, <1>2

\* A reported error stays reported, and only Close closes.
LEMMA ReportKept ==
  ASSUME [Next]_vars
  PROVE  (report => report') /\ (CloseReturns \/ srcNil' = srcNil)
<1>. USE DEF callFields
<1>0. ReportReturn => (report => report')
  BY Zenon DEF ReportReturn
<1>1. CASE Call
  BY <1>0, <1>1 DEF Call, Write, ReadFrom, Flush, Close
<1>2. CASE CallerStep
  BY <1>0, <1>2 DEF CallerStep, WriteTop, Copy, ReadTop, Fill, FlushNothing, FlushReturns, CloseChans,
     JoinTasks, CloseReturns, QueueHash, Acquire, NextBlk
<1>3. CASE Meet
  BY <1>3 DEF Meet, RecvFlush, Reply, SendBlk, RecvOut, callerVars
<1>4. ASSUME NEW w \in Workers, Task(w)  PROVE UNCHANGED callerVars
  BY <1>4 DEF Task, TaskStarts, Compress, FreeSrc, QueueFree, DropToken, TaskExits
<1>5. CASE Loop \/ Hasher \/ UNCHANGED vars
  BY <1>5, LoopCaller DEF Hasher, HashTakes, HashUses, HashExits, othersOfHasher, vars, callerVars
<1>. QED  BY <1>1, <1>2, <1>3, <1>4, <1>5 DEF Next, callerVars

\* The error a closed writer ends with has been reported.
LEMMA SilentStep ==
  ASSUME TypeOK, ChannelPhase, CallPhase, ClosedWith, NoSilentLoss, [Next]_vars
  PROVE  NoSilentLoss'
<1>1. CASE CloseReturns
  <2>1. lpc = "done" /\ ~srcNil /\ report' /\ out' = out
        /\ (state' = IF ~report /\ state = "none" THEN "closed" ELSE state)
    BY <1>1 DEF CloseReturns, ChannelPhase, CallPhase, loopVars, loopFields
  <2>2. CASE state = "none"
    BY <2>1, <2>2 DEF CallPhase, ClosedWith, NoSilentLoss, Complete
  <2>3. CASE state # "none"
    <3>1. state # "closed" /\ state' = state
      BY <2>1, <2>3 DEF CallPhase
    <3>. QED  BY <2>1, <2>3, <3>1 DEF NoSilentLoss
  <2>. QED  BY <2>2, <2>3
<1>2. CASE ~CloseReturns /\ srcNil'
  <2>1. (srcNil => "out" \in chClosed /\ lpc = "done" /\ state # "none")
    BY DEF CallPhase, ChannelPhase
  <2>2. srcNil
    BY <1>2, ReportKept
  <2>3. UNCHANGED loopVars /\ state' = state
    BY <2>1, <2>2, ErrorStep, EndSteps
  <2>4. report => report'
    BY <1>2, ReportKept
  <2>. QED  BY <2>2, <2>3, <2>4 DEF NoSilentLoss, Complete, loopVars, loopFields
<1>. QED  BY <1>1, <1>2 DEF NoSilentLoss

-----------------------------------------------------------------------------
(* Together                                                                 *)

PipeInv ==
  /\ ChannelPhase /\ CallPhase /\ CallOf
  /\ CarrierInv /\ HashOrder /\ FreeOrder /\ Uncompressed /\ Held /\ Counted
  /\ FlushedTo /\ ClosedWith /\ NoSilentLoss

LEMMA PipeInit == Init => PipeInv
<1>. SUFFICES ASSUME Init  PROVE PipeInv
  OBVIOUS
<1>1. cpc = "idle" /\ call = "new" /\ out = <<>> /\ lpc = "hdr" /\ ~srcNil
  BY DEF Init
<1>2. CallOf /\ FlushedTo /\ NoSilentLoss
  BY <1>1 DEF CallOf, FlushedTo, NoSilentLoss
<1>3. ClosedWith
  BY <1>1 DEF ClosedWith, Complete
<1>. QED  BY <1>2, <1>3, PhaseInit, CarrierInit, HashOrderInit, HeldInit DEF PipeInv

\* A panic ends the program, so that whoever has not panicked never has.
LEMMA Alive ==
  ASSUME [Next]_vars, NoPanic'
  PROVE  NoPanic
BY DEF NoPanic, Next, vars, loopVars

LEMMA PipeStep ==
  ASSUME TypeOK, TypeOK', OrderInv, PipeInv, NoPanic', [Next]_vars
  PROVE  PipeInv'
<1>1. ChannelPhase' /\ CallPhase' /\ CallOf'
  BY PhaseStep, CallOfStep DEF PipeInv
<1>2. CarrierInv'
  BY CarrierStep DEF PipeInv
<1>3. HashOrder'
  BY <1>1, QueueStep, HashOrderStep DEF PipeInv
<1>4. FreeOrder'
  BY <1>1, <1>3, FreeOrderStep DEF PipeInv, CarrierInv
<1>5. Uncompressed' /\ Held' /\ Counted'
  BY CompressedStep, HeldStep DEF PipeInv
<1>6. FlushedTo'
  BY FlushedStep DEF PipeInv, CarrierInv
<1>7. ClosedWith' /\ NoSilentLoss'
  BY ClosedStep, SilentStep DEF PipeInv
<1>. QED  BY <1>1, <1>2, <1>3, <1>4, <1>5, <1>6, <1>7 DEF PipeInv

LEMMA PipeHolds == Spec => [](NoPanic => PipeInv)
<1>. DEFINE Inv == NoPanic => PipeInv
<1>1. Init => Inv
  BY PipeInit
<1>2. TypeOK /\ TypeOK' /\ (OrderInv /\ OutputInOrder) /\ Inv /\ [Next]_vars => Inv'
  BY PipeStep, Alive
<1>. HIDE DEF Inv
<1>3. Spec => []Inv
  BY <1>1, <1>2, TypeCorrect, OutputOrdered, PTL DEF Spec
<1>. QED  BY <1>3, PTL DEF Inv

\* The panic changes nothing else.
LEMMA Panics ==
  ASSUME [Next]_vars, ~NoPanic'
  PROVE  /\ UNCHANGED <<callerVars, sharedVars, workerVars, loopFields, hashVars, poolVars>>
         /\ lpc' = "panic"
<1>1. CASE UNCHANGED vars
  BY <1>1 DEF vars, loopVars, NoPanic
<1>2. CASE Next
  <2>1. lpc # "panic" /\ lpc' = "panic"
    BY <1>2 DEF Next, NoPanic
  <2>2. WriteBlk
    BY <1>2, <2>1, OtherSteps DEF Loop, WriteHeader, OutClosed, Poll, LoopFails, More, NoReply, Drain, Drained,
       HashJoined, WriteTrailer, RecvFlush, Reply, RecvOut, loopVars
  <2>. QED  BY <2>1, <2>2 DEF WriteBlk, sharedVars, loopFields
<1>. QED  BY <1>1, <1>2

-----------------------------------------------------------------------------
(* What follows                                                             *)

LEMMA NotSentOnClosed ==
  ASSUME TypeOK, PipeInv
  PROVE  NoSendOnClosed
<1>1. "in" \in chClosed => cpc \notin {"hash", "sem", "send", "next", "sync", "wait"}
  BY DEF PipeInv, ChannelPhase, CallPhase
<1>2. "out" \in chClosed => TasksDone /\ "in" \in chClosed
  BY DEF PipeInv, ChannelPhase
<1>3. "hash" \in chClosed \/ "syn" \in chClosed => "out" \in chClosed
  BY DEF PipeInv, ChannelPhase
<1>4. "syn" \in chClosed => lpc = "done"
  BY DEF PipeInv, ChannelPhase
<1>. QED  BY <1>1, <1>2, <1>3, <1>4 DEF NoSendOnClosed, TasksDone

\* A block still to be hashed is the caller's, its task's, or queued to be freed.
LEMMA ToHashLive ==
  ASSUME TypeOK, OrderInv, PipeInv, HashOn, NEW i \in Nat, hnext <= i, i < QueuedTo
  PROVE  Src(i) \in live
<1>. USE InFlight
<1>1. CASE i < Sent
  <2>1. i \in hnext .. Sent - 1
    BY <1>1, RefTypes
  <2>. QED  BY <2>1 DEF PipeInv, FreeOrder, Held, SrcHeld
<1>2. CASE ~(i < Sent)
  <2>1. i = srcIdx /\ cpc \in {"sem", "send"}
    BY <1>2 DEF QueuedTo
  <2>2. ~srcNil
    BY <2>1 DEF PipeInv, CallPhase
  <2>. QED  BY <2>1, <2>2 DEF PipeInv, Held, SrcHeld
<1>. QED  BY <1>1, <1>2

LEMMA UsedLive ==
  ASSUME TypeOK, OrderInv, PipeInv
  PROVE  NoUseAfterReturn
<1>. USE InFlight, RefTypes
<1>1. ASSUME NEW j \in DOMAIN hch  PROVE Src(hch[j].idx) \in live
  <2>1. HashOn
    BY <1>1 DEF PipeInv, ChannelPhase
  <2>2. CASE hch[j].free
    <3>1. ToFree(hch[j].idx) /\ hch[j].idx \in Nat
      BY <2>2 DEF ToFree
    <3>. QED  BY <3>1 DEF PipeInv, Held, SrcHeld
  <2>3. CASE ~hch[j].free
    <3>1. TakenTo <= hch[j].idx /\ hch[j].idx < QueuedTo /\ hch[j].idx \in Nat
      BY <2>1, <2>3 DEF PipeInv, HashOrder
    <3>2. hnext <= hch[j].idx
      BY <3>1 DEF TakenTo
    <3>. QED  BY <2>1, <3>1, <3>2, ToHashLive
  <2>. QED  BY <2>2, <2>3
<1>2. ASSUME hpc = "use"  PROVE Src(href.idx) \in live
  <2>1. HashOn
    BY <1>2 DEF PipeInv, ChannelPhase
  <2>2. CASE href.free
    BY <1>2, <2>2 DEF PipeInv, Held, SrcHeld, ToFree
  <2>3. CASE ~href.free
    <3>1. href.idx = hnext /\ hnext + 1 <= QueuedTo /\ QueuedTo \in Nat
      BY <1>2, <2>1, <2>3 DEF PipeInv, HashOrder, TakenTo, QueuedTo
    <3>2. href.idx < QueuedTo /\ hnext <= href.idx
      BY <3>1
    <3>. QED  BY <2>1, <3>2, ToHashLive
  <2>. QED  BY <2>2, <2>3
<1>3. ASSUME NEW w \in Workers  PROVE wpc[w] \in {"work", "free", "hfree"} => Src(wblk[w].idx) \in live
  BY DEF PipeInv, Held, SrcHeld, WithTask
<1>4. ASSUME NEW w \in Workers, wpc[w] \in {"work", "free"}, Linked, wblk[w].idx > 0
      PROVE  Dict(wblk[w].idx - 1) \in live
  <2>1. wblk[w].idx - 1 \in Nat /\ (wblk[w].idx - 1) + 1 = wblk[w].idx
    BY <1>4
  <2>2. DictHeld(wblk[w].idx - 1)
    BY <1>4, <2>1 DEF DictHeld, DictTask
  <2>. QED  BY <2>1, <2>2 DEF PipeInv, Held
<1>5. ASSUME NEW w \in Workers, wpc[w] = "out"  PROVE DstOf(wblk[w]) \subseteq live
  BY <1>5 DEF PipeInv, Held, DstHeld, DstTask, DstOf
<1>6. /\ \A b \in pending : DstOf(b) \subseteq live
      /\ lpc \in {"poll", "write"} => DstOf(cur) \subseteq live
  BY DEF PipeInv, Held, DstHeld, InLoop, DstOf
<1>7. cpc # "next" /\ ~srcNil => Src(srcIdx) \in live
  BY DEF PipeInv, Held, SrcHeld
<1>. QED  BY <1>1, <1>2, <1>3, <1>4, <1>5, <1>6, <1>7, NotSentOnClosed DEF NoUseAfterReturn

LEMMA Balanced ==
  ASSUME TypeOK, PipeInv
  PROVE  PoolBalanced
<1>1. ASSUME srcNil  PROVE live = {} /\ NobodyLeft
  <2>1. lpc = "done" /\ TasksDone /\ hpc = "exit" /\ hch = <<>> /\ pending = {}
    BY <1>1 DEF PipeInv, ChannelPhase, CallPhase, CarrierInv, NoneMissing
  <2>2. \A i \in Nat : ~SrcHeld(i) /\ ~DstHeld(i) /\ ~DictHeld(i)
    BY <1>1, <2>1 DEF SrcHeld, DstHeld, DictHeld, WithTask, ToFree, DstTask, DictTask, InLoop, TasksDone
  <2>3. \A i \in Nat : Src(i) \notin live /\ Dst(i) \notin live /\ Dict(i) \notin live
    BY <2>2 DEF PipeInv, Held
  <2>4. \A x \in PoolBlocks : \E i \in Nat : x = Src(i) \/ x = Dst(i) \/ x = Dict(i)
    BY DEF PoolBlocks, Src, Dst, Dict
  <2>5. live = {}
    BY <2>3, <2>4 DEF TypeOK, PoolTypeOK
  <2>. QED  BY <2>1, <2>5 DEF NobodyLeft, TasksDone
<1>. QED  BY <1>1 DEF PoolBalanced, PipeInv, CarrierInv, Counted

\* The last block written ends where the stream does.
LEMMA AllWritten ==
  ASSUME TypeOK, OutputInOrder, starts[1] = 0, AllOut,
         Len(out) = (IF Complete THEN nextIdx + 2 ELSE nextIdx + 1)
  PROVE  Written = Accepted
<1>0. /\ nextIdx \in Nat /\ Len(out) \in Nat /\ DOMAIN out = 1 .. Len(out) /\ srcOff = 0
      /\ starts \in Seq(Nat) /\ Len(starts) \in Nat /\ Len(starts) = nextIdx + 1
  <2>1. nextIdx \in Nat /\ Len(out) \in Nat /\ DOMAIN out = 1 .. Len(out)
    BY DEF TypeOK, LoopTypeOK
  <2>2. starts \in Seq(Nat) /\ Len(starts) \in Nat
    BY DEF TypeOK, CallerTypeOK
  <2>3. nextIdx = Len(starts) - 1 /\ srcOff = 0
    BY DEF AllOut, srcIdx
  <2>. QED  BY <2>1, <2>2, <2>3
<1>1. BlkAt = 2 .. nextIdx + 1
  <2>1. \A i \in 2 .. nextIdx + 1 : i \in BlkAt
    BY <1>0 DEF BlkAt, AllOut
  <2>2. \A i \in BlkAt : i > 1 /\ i <= Len(out) /\ i \in Nat
    BY <1>0 DEF BlkAt, OutputInOrder
  <2>3. Len(out) = nextIdx + 2 => Len(out) \notin BlkAt
    BY <1>0 DEF BlkAt, Complete, OutputInOrder
  <2>4. \A i \in BlkAt : i \in 2 .. nextIdx + 1
    BY <1>0, <2>2, <2>3
  <2>. QED  BY <2>1, <2>4
<1>2. CASE nextIdx = 0
  BY <1>0, <1>1, <1>2 DEF Written, Accepted, Start
<1>3. CASE nextIdx # 0
  <2>0. nextIdx - 1 \in Nat /\ (nextIdx - 1) + 2 = nextIdx + 1 /\ nextIdx + 1 \in 2 .. nextIdx + 1
        /\ (nextIdx + 1) - 2 = nextIdx - 1
    BY <1>0, <1>3
  <2>1. nextIdx + 1 \in BlkAt /\ \A j \in BlkAt : j <= nextIdx + 1
    BY <1>0, <1>1, <2>0
  <2>2. (CHOOSE i \in BlkAt : \A j \in BlkAt : j <= i) = nextIdx + 1
    <3>1. \A i \in BlkAt : (\A j \in BlkAt : j <= i) => i = nextIdx + 1
      BY <1>0, <1>1, <2>1
    <3>. QED  BY <2>1, <3>1
  <2>3. out[nextIdx + 1].hi = EndOf(nextIdx - 1)
    <3>1. nextIdx + 1 \in DOMAIN out /\ out[nextIdx + 1].k = "blk"
      BY <2>1 DEF BlkAt
    <3>2. \A i : i = nextIdx + 1 => out[i].hi = EndOf(i - 2)
      BY <3>1 DEF OutputInOrder
    <3>. QED  BY <2>0, <3>2
  <2>4. EndOf(nextIdx - 1) = starts[nextIdx + 1]
    BY <1>0, <2>0 DEF EndOf
  <2>5. Written = out[nextIdx + 1].hi
    BY <2>1, <2>2 DEF Written
  <2>6. Accepted = starts[nextIdx + 1]
    BY <1>0 DEF Accepted, Start
  <2>. QED  BY <2>3, <2>4, <2>5, <2>6
<1>. QED  BY <1>2, <1>3

LEMMA Durable ==
  ASSUME TypeOK, OutputInOrder, PipeInv
  PROVE  FlushDurable /\ TrailerMeansComplete
<1>0. starts[1] = 0 /\ FlushedTo /\ ClosedWith
  BY DEF PipeInv, CallPhase
<1>1. ASSUME cpc = "idle", call = "flush", ret = "none"  PROVE Accepted = 0 \/ (Written = Accepted /\ ~Broken)
  <2>1. CASE srcIdx = 0
    <3>1. srcOff = 0 /\ Len(starts) = 1
      BY <1>0, <1>1, <2>1 DEF FlushedTo, srcIdx, TypeOK, CallerTypeOK
    <3>. QED  BY <1>0, <3>1 DEF Accepted, Start
  <2>2. CASE srcIdx # 0
    <3>1. AllOut /\ Len(out) = nextIdx + 1
      BY <1>0, <1>1, <2>2 DEF FlushedTo
    <3>2. 2 \in DOMAIN out /\ DOMAIN out = 1 .. nextIdx + 1 /\ nextIdx \in Nat /\ 2 \in 2 .. nextIdx + 1
      BY <2>2, <3>1 DEF AllOut, TypeOK, LoopTypeOK
    <3>3. out[1].k = "hdr"
      BY <3>1, <3>2 DEF AllOut, OutputInOrder
    <3>4. \A i \in DOMAIN out : i = 1 \/ i \in 2 .. nextIdx + 1
      BY <3>2
    <3>5. ~Broken
      BY <3>1, <3>3, <3>4 DEF Broken, AllOut
    <3>6. ~Complete
      BY <3>1, <3>3, <3>4 DEF Complete, AllOut
    <3>. QED  BY <1>0, <3>1, <3>5, <3>6, AllWritten
  <2>. QED  BY <2>1, <2>2
<1>2. ASSUME Complete
      PROVE  state \in {"none", "closed"} /\ Written = Accepted /\ (HashOn => out[Len(out)].hi = Accepted)
  <2>1. /\ state \in {"none", "closed"} /\ AllOut /\ Len(out) = nextIdx + 2
        /\ HashOn => out[Len(out)].hi = Accepted
    BY <1>0, <1>2 DEF ClosedWith
  <2>2. Written = Accepted
    BY <1>0, <1>2, <2>1, AllWritten
  <2>. QED  BY <2>1, <2>2
<1>. QED  BY <1>1, <1>2 DEF FlushDurable, TrailerMeansComplete

\* Neither the hasher, nor a task, nor writeLoop, nor the caller uses a block
\* of the pool that was returned, or sends on a channel that was closed: for
\* any number of tasks and tokens, in any order, after any error.
THEOREM NothingUsedAfterReturn == Spec => []NoUseAfterReturn
<1>1. TypeOK /\ OrderInv /\ (NoPanic => PipeInv) => (NoPanic => NoUseAfterReturn)
  BY UsedLive
<1>2. ASSUME NoUseAfterReturn, [Next]_vars, ~NoPanic'  PROVE NoUseAfterReturn'
  <2>1. UNCHANGED <<callerVars, sharedVars, workerVars, loopFields, hashVars, poolVars>> /\ lpc' = "panic"
    BY <1>2, Panics
  <2>2. NoSendOnClosed'
    BY <1>2, <2>1 DEF NoUseAfterReturn, NoSendOnClosed, callerVars, sharedVars, workerVars
  <2>. QED  BY <1>2, <2>1, <2>2 DEF NoUseAfterReturn, callerVars, callFields, workerVars, loopFields, hashVars,
            poolVars, srcIdx, DstOf
<1>3. NoUseAfterReturn /\ [Next]_vars /\ (NoPanic' => NoUseAfterReturn') => NoUseAfterReturn'
  BY <1>2
<1>4. Init => NoPanic
  BY DEF Init, NoPanic
<1>. QED  BY <1>1, <1>3, <1>4, PipeHolds, TypeCorrect, OutputOrdered, PTL DEF Spec

\* Every block borrowed is returned once and every token released once, and a
\* closed writer has returned all of them and left nobody behind.  A panic,
\* which ends the program, is the one way to keep a token.
THEOREM PoolKept == Spec => [](NoPanic => PoolBalanced)
<1>1. TypeOK /\ (NoPanic => PipeInv) => (NoPanic => PoolBalanced)
  BY Balanced
<1>. QED  BY <1>1, PipeHolds, TypeCorrect, PTL

LEMMA PanicKeeps ==
  ASSUME [Next]_vars, ~NoPanic', FlushDurable, TrailerMeansComplete, NoSilentLoss
  PROVE  FlushDurable' /\ TrailerMeansComplete' /\ NoSilentLoss'
<1>1. UNCHANGED <<cpc, call, ret, starts, srcOff, report, srcNil, state, out>>
  BY Panics DEF callerVars, callFields, sharedVars, loopFields
<1>. QED  BY <1>1 DEF FlushDurable, TrailerMeansComplete, NoSilentLoss, Accepted, Start, Written, BlkAt, Broken,
          Complete

LEMMA PromisesKept == Spec => [](FlushDurable /\ TrailerMeansComplete /\ NoSilentLoss)
<1>. DEFINE P == FlushDurable /\ TrailerMeansComplete /\ NoSilentLoss
<1>1. TypeOK /\ (OrderInv /\ OutputInOrder) /\ (NoPanic => PipeInv) => (NoPanic => P)
  BY Durable DEF PipeInv
<1>2. P /\ [Next]_vars /\ (NoPanic' => P') => P'
  BY PanicKeeps
<1>3. Init => NoPanic
  BY DEF Init, NoPanic
<1>. HIDE DEF P
<1>4. Spec => []P
  BY <1>1, <1>2, <1>3, PipeHolds, TypeCorrect, OutputOrdered, PTL DEF Spec
<1>. QED  BY <1>4, PTL DEF P

\* When Flush returns nil, all the bytes accepted before it are in the io.Writer.
THEOREM FlushedIsWritten == Spec => []FlushDurable
BY PromisesKept, PTL

\* An end mark is behind every byte accepted and the hash of all of them, and
\* no goroutine has met an error.
THEOREM TrailerIsTrue == Spec => []TrailerMeansComplete
BY PromisesKept, PTL

\* A closed writer left a complete frame, or reported an error.
THEOREM LossIsReported == Spec => []NoSilentLoss
BY PromisesKept, PTL

\* No block is marked as one that failed to compress.
NoneFailed ==
  /\ \A w \in Workers : wblk[w].st # "err"
  /\ \A b \in pending : b.st # "err"
  /\ cur.st # "err"

LEMMA NoneFailedStep ==
  ASSUME TypeOK, "cmp" \notin Faults, NoneFailed, [Next]_vars
  PROVE  NoneFailed' /\ (NoPanic => NoPanic')
<1>. USE DEF NoneFailed, workerVars, loopVars, loopFields
<1>0. wblk \in [Workers -> Block]
  BY DEF TypeOK, TaskTypeOK
<1>1. CASE UNCHANGED workerVars /\ UNCHANGED loopVars
  BY <1>1 DEF NoPanic
<1>2. ASSUME NEW w \in Workers, Task(w)  PROVE NoneFailed' /\ (NoPanic => NoPanic')
  <2>1. UNCHANGED loopVars
    BY <1>2 DEF Task, TaskStarts, Compress, FreeSrc, QueueFree, DropToken, TaskExits
  <2>2. \A x \in Workers : wblk'[x].st # "err"
    BY <1>0, <1>2 DEF Task, TaskStarts, Compress, FreeSrc, QueueFree, DropToken, TaskExits, Block
  <2>. QED  BY <2>1, <2>2 DEF NoPanic
<1>3. CASE Meet
  <2>1. \A x \in Workers : wblk'[x].st # "err"
    BY <1>0, <1>3 DEF Meet, RecvFlush, Reply, SendBlk, RecvOut
  <2>2. pending' = pending /\ cur'.st # "err" /\ (NoPanic => NoPanic')
    BY <1>0, <1>3 DEF Meet, RecvFlush, Reply, SendBlk, RecvOut, NoPanic
  <2>. QED  BY <2>1, <2>2
<1>4. CASE Loop
  <2>1. wblk' = wblk
    BY <1>4, LoopCaller
  <2>2. (\A b \in pending' : b.st # "err") /\ cur'.st # "err"
    BY <1>4 DEF Loop, WriteHeader, OutClosed, Poll, WriteBlk, LoopFails, More, NoReply, Drain, Drained,
       HashJoined, WriteTrailer
  <2>3. NoPanic => NoPanic'
    BY <1>4 DEF NoPanic, Loop, WriteHeader, OutClosed, Poll, WriteBlk, LoopFails, More, NoReply, Drain, Drained,
       HashJoined, WriteTrailer
  <2>. QED  BY <2>1, <2>2, <2>3
<1>5. CASE Call \/ Hasher
  BY <1>1, <1>5 DEF Call, Write, ReadFrom, Flush, Close, othersOfCaller, Hasher, HashTakes, HashUses, HashExits,
     othersOfHasher
<1>6. CASE CallerStep
  <2>1. UNCHANGED <<wblk, loopVars>>
    BY <1>6 DEF CallerStep, WriteTop, Copy, ReadTop, Fill, FlushNothing, FlushReturns, CloseChans, JoinTasks,
       CloseReturns, QueueHash, Acquire, NextBlk, othersOfCaller
  <2>. QED  BY <2>1 DEF NoPanic
<1>7. CASE UNCHANGED vars
  BY <1>1, <1>7 DEF vars
<1>. QED  BY <1>2, <1>3, <1>4, <1>5, <1>6, <1>7 DEF Next

\* Only a compressor that fails makes the program panic; without one, tokens
\* are exact and the pool is balanced whatever else fails.
THEOREM PanicNeedsFailure ==
  ASSUME "cmp" \notin Faults
  PROVE  Spec => [](NoPanic /\ PoolBalanced)
<1>1. Init => NoneFailed /\ NoPanic
  BY DEF Init, NoneFailed, NoPanic, NoBlk
<1>2. TypeOK /\ (NoneFailed /\ NoPanic) /\ [Next]_vars => (NoneFailed /\ NoPanic)'
  BY NoneFailedStep
<1>. QED  BY <1>1, <1>2, TypeCorrect, PoolKept, PTL DEF Spec
=============================================================================

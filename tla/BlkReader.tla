------------------------------ MODULE BlkReader ------------------------------
(***************************************************************************)
(* makeBlockReader of internal/pkg/rdr/rdr.go: the reader of the blocks of *)
(* one frame is the parallel one, or the serial one if opts.NParallel is 0.*)
(* The dictionary of a linked frame is modelled in the serial one.         *)
(***************************************************************************)
EXTENDS AsyncReaderProps

CONSTANTS
  lz4DictSz, DictSizes, Sizes, RawLinked  \* those of SyncReader

ASSUME DictAssumption ==
  lz4DictSz \in Nat /\ DictSizes \subseteq Nat /\ Sizes \subseteq Nat /\ RawLinked \in BOOLEAN

VARIABLES
  parallel,   \* which of the two makeBlockReader made
  \* the serial one's
  sPc, sPackets, sTaken, sHeld, sHsum, sErr, sClosed, sLive, sLinked, sFirst,
  sDict, sContent

serialVars == <<sPc, sPackets, sTaken, sHeld, sHsum, sErr, sClosed, sLive,
                sLinked, sFirst, sDict, sContent>>

S == INSTANCE SyncReader WITH
       pc <- sPc, packets <- sPackets, taken <- sTaken, held <- sHeld,
       hsum <- sHsum, err <- sErr, closed <- sClosed, live <- sLive,
       linked <- sLinked, first <- sFirst, dict <- sDict, content <- sContent

\* The one that is not made stays as it is, without a dictionary.
MakeBlockReader ==
  /\ Init /\ S!Init
  /\ parallel \in BOOLEAN
  /\ parallel => ~sLinked /\ \A n \in DictSizes : sFirst >= 1 - n

Step ==
  /\ UNCHANGED parallel
  /\ \/ parallel /\ Next /\ UNCHANGED serialVars
     \/ ~parallel /\ S!Next /\ UNCHANGED vars

\* That of AsyncReader, if that is the one; a call of the serial reader runs to
\* its end.
ReaderFairness ==
  /\ WF_vars(parallel /\ CallerStep)
  /\ WF_vars(parallel /\ Dispatch)
  /\ WF_vars(parallel /\ Hasher)
  /\ WF_vars(parallel /\ Meet)
  /\ \A w \in Workers : WF_vars(parallel /\ Task(w))
  /\ WF_serialVars(~parallel /\ S!CallStep)

ReaderProcess ==
  MakeBlockReader /\ [][Step]_<<parallel, vars, serialVars>> /\ ReaderFairness

-----------------------------------------------------------------------------

\* Neither reader loses a pool block, whichever the options select and
\* whenever Close is called.
BlocksReturned == PoolBalanced /\ S!PoolBalanced

\* The bytes a match of the next block may go back to are those the writer of
\* the frame had there.
WindowHolds == S!WindowHolds

\* NextBlock and Close return, Close in any state of the frame, and dispatch
\* ends after Close, with an error nobody wants, too.
CallsReturn ==
  /\ cpc # "idle" ~> cpc = "idle"
  /\ sPc # "idle" ~> sPc = "idle"
  /\ Done ~> dpc = "exit"

-----------------------------------------------------------------------------

\* Whichever reader the options select, the stream reader gets what ReaderSpec
\* says: blocks in order, errors in place, the hash over exactly the blocks of
\* the frame.  The serial one does not read ahead.
Either(p, s) == IF parallel THEN p ELSE s

Promise == INSTANCE ReaderSpec WITH
       ahead     <- Either(NPending, 1),
       checked   <- hasher,
       fetched   <- Either(packets, sPackets),
       delivered <- Either(IF cpc = "sum" THEN nextIdx - 1 ELSE nextIdx, sTaken),
       held      <- Either(IF BlkOf(held) = {} THEN 0 ELSE held.idx + 1,
                           IF sHeld = S!NoBlk THEN 0 ELSE sHeld[2]),
       result    <- Either(err, sErr),
       closed    <- Either(Done, sClosed)

ImplementsPromise == Promise!Spec
=============================================================================

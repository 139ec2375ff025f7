-------------------------------- MODULE Writer --------------------------------
(***************************************************************************)
(* NewWriter of plz4_writer.go: the parallel writer, or the serial one if  *)
(* opts.NParallel is 0.  A frame of linked blocks (Linked) is only written  *)
(* by the parallel one.                                                    *)
(***************************************************************************)
EXTENDS AsyncWriterProps

VARIABLES
  parallel,   \* which of the two NewWriter made
  \* the serial one's
  sPc, sRetTo, sCall, sRet, sLeft, sLen, sTaken, sSrcOff, sSrcMark, sSrcNil,
  sState, sErr, sHsum, sOut

serialVars == <<sPc, sRetTo, sCall, sRet, sLeft, sLen, sTaken, sSrcOff, sSrcMark,
                sSrcNil, sState, sErr, sHsum, sOut>>

\* A block that fails to compress is a fault of its own in the parallel writer
\* (NoPanic); the serial one may meet it together with any other.
S == INSTANCE SyncWriter WITH
       Faults <- Faults \cup {"cmp"},
       pc <- sPc, retTo <- sRetTo, call <- sCall, ret <- sRet, left <- sLeft, len <- sLen,
       taken <- sTaken, srcOff <- sSrcOff, srcMark <- sSrcMark, srcNil <- sSrcNil,
       state <- sState, err <- sErr, hsum <- sHsum, out <- sOut

NewWriter ==
  /\ Init /\ S!Init
  /\ parallel \in BOOLEAN

Step ==
  /\ UNCHANGED parallel
  /\ \/ parallel /\ Next /\ UNCHANGED serialVars
     \/ ~parallel /\ S!Next /\ UNCHANGED vars

WriterProcess == NewWriter /\ [][Step]_<<parallel, vars, serialVars>>

-----------------------------------------------------------------------------

\* Of the serial writer's frame: blocks follow each other without a gap or a
\* repetition, and an end mark comes behind every byte consumed, last of all.
FrameExact == S!FrameExact

\* Whichever writer the options select, the caller gets what WriterSpec says.
Either(p, s) == IF parallel THEN p ELSE s

Promise == INSTANCE WriterSpec WITH
       accepted <- Either(Accepted, sTaken),
       header   <- Either(out # <<>> /\ out[1].k = "hdr", sOut # <<>> /\ sOut[1].k = "hdr"),
       written  <- Either(Written, S!Written),
       frame    <- Either(IF Broken THEN "broken" ELSE IF Complete THEN "complete" ELSE "open",
                          IF S!Bad # {} THEN "broken" ELSE IF S!Complete THEN "complete" ELSE "open"),
       error    <- Either(state, IF sState = "none" THEN sErr ELSE sState),
       closed   <- Either(srcNil, sSrcNil /\ sPc = "idle"),
       call     <- Either(call, sCall),
       ret      <- Either(ret, sRet)

ImplementsPromise == Promise!Spec
=============================================================================

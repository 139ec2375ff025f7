------------------------------ MODULE SyncWriter ------------------------------
(***************************************************************************)
(* The serial frame writer, internal/pkg/sync/writer.go: the second        *)
(* implementation of WriterSpec.  Bytes are offsets of the stream the      *)
(* caller handed over; srcBlk caches the srcOff bytes from srcMark on.     *)
(***************************************************************************)
EXTENDS Integers, Sequences

CONSTANTS
  BlkSz,     \* bytes in a full block
  MaxBytes,  \* bound: bytes the caller hands over in a behaviour
  HashOn,    \* opts.ContentChecksum
  Faults     \* the operations that may fail, a subset of FaultKinds

FaultKinds == {"hdr", "blk", "trl", "cmp", "read"}

VARIABLES
  pc, retTo,   \* where the call is; where a header or block goes back to
  call, ret,   \* the API call in progress or last made, and its error
  left,        \* bytes of the current Write not copied yet
  len,         \* bytes of the block _writeFrame is given
  taken,       \* bytes consumed from the caller
  srcOff,      \* bytes cached, -1 before the header
  srcMark,     \* bytes in the blocks written
  srcNil,      \* srcBlk = nil, the mark of a closed writer
  state,       \* "none", or the error every later call returns
  err,         \* the error of the call in progress
  hsum,        \* bytes hashed in stream order, -1 if out of order
  out          \* what the io.Writer has received

vars == <<pc, retTo, call, ret, left, len, taken, srcOff, srcMark, srcNil,
          state, err, hsum, out>>

Item == [k : {"hdr", "blk", "end", "bad"}, lo : Nat, hi : Int]
Mark(kind, h) == [k |-> kind, lo |-> 0, hi |-> h]

Emit(item) == out' = Append(out, item)

Init ==
  /\ pc = "idle" /\ retTo = "write" /\ call = "new" /\ ret = "none"
  /\ left = 0 /\ len = 0 /\ taken = 0
  /\ srcOff = -1 /\ srcMark = 0 /\ srcNil = FALSE
  /\ state = "none" /\ err = "none" /\ hsum = 0 /\ out = <<>>

-----------------------------------------------------------------------------
(* Entry of the calls.  An error state is returned at once, but Close goes  *)
(* through the block it still has.                                          *)

InError == state # "none"

Enter(op) == pc = "idle" /\ call' = op

Refuse == pc' = "idle" /\ ret' = state

\* The header comes first, from whichever call needs it.
HeaderThen(r) == pc' = (IF srcOff < 0 THEN "hdr" ELSE r) /\ retTo' = r

Write ==
  /\ Enter("write")
  /\ \/ InError /\ Refuse /\ UNCHANGED <<retTo, left>>
     \/ /\ ~InError
        /\ \E n \in 0 .. (MaxBytes - taken) : left' = n
        /\ HeaderThen("write")
        /\ UNCHANGED ret
  /\ UNCHANGED <<len, taken, srcOff, srcMark, srcNil, state, err, hsum, out>>

ReadFrom ==
  /\ Enter("readfrom")
  /\ \/ InError /\ Refuse /\ UNCHANGED retTo
     \/ ~InError /\ HeaderThen("read") /\ UNCHANGED ret
  /\ UNCHANGED <<left, len, taken, srcOff, srcMark, srcNil, state, err, hsum, out>>

\* _flush: the bytes cached, if any, as a short block.
FlushBlkNever(r) == pc' = r /\ UNCHANGED <<retTo, len>>  \* mutant
FlushBlk(r) ==
  IF srcOff <= 0 THEN pc' = r /\ UNCHANGED <<retTo, len>>
  ELSE pc' = "frame" /\ retTo' = r /\ len' = srcOff

Flush ==
  /\ Enter("flush")
  /\ \/ InError /\ Refuse /\ UNCHANGED <<retTo, len>>
     \/ ~InError /\ FlushBlk("return") /\ UNCHANGED ret
  /\ UNCHANGED <<left, taken, srcOff, srcMark, srcNil, state, err, hsum, out>>

Close ==
  /\ Enter("close")
  /\ \/ srcNil /\ Refuse /\ UNCHANGED <<retTo, len>>
     \/ ~srcNil /\ srcOff < 0 /\ HeaderThen("release") /\ UNCHANGED <<len, ret>>
     \/ ~srcNil /\ srcOff >= 0 /\ FlushBlk("release") /\ UNCHANGED ret
  /\ UNCHANGED <<left, taken, srcOff, srcMark, srcNil, state, err, hsum, out>>

-----------------------------------------------------------------------------
(* _writeHeader and _writeFrame: a failure leaves the offsets as they are   *)
(* and returns to the end of the call.                                      *)

Fails(e) == err' = e /\ pc' = IF call = "close" THEN "release" ELSE "return"

WriteHeader ==
  /\ pc = "hdr"
  /\ srcOff' = 0
  /\ \/ Emit(Mark("hdr", 0)) /\ pc' = retTo /\ UNCHANGED err
     \/ "hdr" \in Faults /\ Emit(Mark("bad", 0)) /\ Fails("hdr")
  /\ UNCHANGED <<retTo, call, ret, left, len, taken, srcMark, srcNil, state, hsum>>

HashNext == IF hsum = srcMark THEN srcMark + len ELSE -1
HashBlkCached == hsum' = IF HashOn /\ srcOff > 0 THEN HashNext ELSE hsum  \* mutant
HashBlk == hsum' = IF HashOn THEN HashNext ELSE hsum

\* Hash, compress, write.
WriteFrame ==
  /\ pc = "frame"
  /\ HashBlk
  /\ \/ /\ Emit([k |-> "blk", lo |-> srcMark, hi |-> srcMark + len])
        /\ srcMark' = srcMark + len /\ srcOff' = 0
        /\ pc' = retTo /\ UNCHANGED err
     \/ /\ "cmp" \in Faults
        /\ Fails("cmp") /\ UNCHANGED <<out, srcMark, srcOff>>
     \/ /\ "blk" \in Faults
        /\ Emit(Mark("bad", 0)) /\ Fails("blk") /\ UNCHANGED <<srcMark, srcOff>>
  /\ UNCHANGED <<retTo, call, ret, left, len, taken, srcNil, state>>

-----------------------------------------------------------------------------
(* The bodies of the calls *)

ToFrame(n, r) == pc' = "frame" /\ len' = n /\ retTo' = r

\* Fill the block that caches bytes, write whole blocks straight from the
\* caller's slice, cache what is left.
WriteTop ==
  /\ pc = "write"
  /\ LET room == BlkSz - srcOff
         n    == IF left < room THEN left ELSE room
     IN  /\ left' = left - n /\ taken' = taken + n
         /\ \/ left = 0 /\ pc' = "return" /\ UNCHANGED <<srcOff, len, retTo>>
            \/ left > 0 /\ n < room /\ srcOff' = srcOff + n /\ UNCHANGED <<pc, len, retTo>>
            \/ /\ left > 0 /\ n = room
               /\ srcOff' = (IF srcOff > 0 THEN BlkSz ELSE 0)
               /\ ToFrame(BlkSz, "write")
  /\ UNCHANGED <<call, ret, srcMark, srcNil, state, err, hsum, out>>

\* io.ReadFull into the rest of srcBlk.  What a failed read delivered counts
\* as consumed and is not kept.
ReadTop ==
  /\ pc = "read"
  /\ \E n \in 0 .. (BlkSz - srcOff) :
       /\ taken + n <= MaxBytes
       /\ taken' = taken + n
       /\ \/ n = BlkSz - srcOff /\ ToFrame(BlkSz, "read") /\ UNCHANGED <<srcOff, err>>
          \/ /\ n < BlkSz - srcOff
             /\ srcOff' = srcOff + n
             /\ pc' = "return" /\ UNCHANGED <<err, len, retTo>>
          \/ /\ n < BlkSz - srcOff /\ "read" \in Faults
             /\ Fails("read") /\ UNCHANGED <<srcOff, len, retTo>>
  /\ UNCHANGED <<call, ret, left, srcMark, srcNil, state, hsum, out>>

\* n, w.state = w._write(src), and the same for Flush and ReadFrom
ReturnCall ==
  /\ pc = "return"
  /\ state' = err /\ ret' = err
  /\ pc' = "idle" /\ left' = 0
  /\ UNCHANGED <<retTo, call, len, taken, srcOff, srcMark, srcNil, err, hsum, out>>

\* Close gives its block back, then: an error state is not reported again and
\* a failed flush is the error of the call; only then the end mark is written.
SkipTrailer == InError

Release ==
  /\ pc = "release"
  /\ srcNil' = TRUE /\ srcOff' = 0
  /\ \/ SkipTrailer /\ ret' = "none" /\ pc' = "idle" /\ UNCHANGED state
     \/ /\ ~SkipTrailer /\ err # "none"
        /\ state' = err /\ ret' = err /\ pc' = "idle"
     \/ /\ ~SkipTrailer /\ err = "none"
        /\ pc' = "trl" /\ UNCHANGED <<ret, state>>
  /\ UNCHANGED <<retTo, call, left, len, taken, srcMark, err, hsum, out>>

WriteTrailer ==
  /\ pc = "trl"
  /\ \/ Emit(Mark("end", hsum)) /\ UNCHANGED err
     \/ "trl" \in Faults /\ Emit(Mark("bad", 0)) /\ err' = "trl"
  /\ pc' = "closed"
  /\ UNCHANGED <<retTo, call, ret, left, len, taken, srcOff, srcMark, srcNil, state, hsum>>

CloseReturns ==
  /\ pc = "closed"
  /\ state' = IF err = "none" THEN "closed" ELSE err
  /\ ret' = err
  /\ pc' = "idle"
  /\ UNCHANGED <<retTo, call, left, len, taken, srcOff, srcMark, srcNil, err, hsum, out>>

Next ==
  \/ Write \/ ReadFrom \/ Flush \/ Close
  \/ WriteHeader \/ WriteFrame \/ WriteTop \/ ReadTop \/ ReturnCall
  \/ Release \/ WriteTrailer \/ CloseReturns

Spec == Init /\ [][Next]_vars

-----------------------------------------------------------------------------

\* What was written before the first Write that failed.
Bad      == {i \in DOMAIN out : out[i].k = "bad"}
Sound    == {i \in DOMAIN out : \A j \in Bad : i < j}
Sent     == {0} \cup {out[i].hi : i \in {j \in Sound : out[j].k = "blk"}}
Written  == CHOOSE n \in Sent : \A m \in Sent : m <= n
Complete == \E i \in DOMAIN out : out[i].k = "end"

\* The blocks of a frame follow each other without a gap or a repetition, and
\* an end mark comes behind every byte consumed, with their hash, last of all.
FrameExact ==
  /\ \A i \in Sound :
       /\ (out[i].k = "hdr") = (i = 1)
       /\ out[i].k = "blk" => out[i].lo = (IF i = 2 THEN 0 ELSE out[i - 1].hi)
  /\ \A i \in DOMAIN out :
       out[i].k = "end" => /\ i = Len(out) /\ Bad = {} /\ Written = taken
                           /\ HashOn => out[i].hi = taken

-----------------------------------------------------------------------------
(* Why they hold *)

Errors == FaultKinds \cup {"none", "closed"}

Types ==
  /\ pc \in {"idle", "hdr", "frame", "write", "read", "return", "release", "trl", "closed"}
  /\ retTo \in {"write", "read", "return", "release"}
  /\ call \in {"new", "write", "readfrom", "flush", "close"}
  /\ ret \in Errors /\ state \in Errors /\ err \in Errors
  /\ left \in Nat /\ len \in Nat /\ taken \in Nat
  /\ srcOff \in -1 .. BlkSz /\ srcMark \in Nat /\ srcNil \in BOOLEAN
  /\ hsum \in Int /\ out \in Seq(Item)

\* No error so far, in this call or before.
Good == state = "none" /\ err = "none"

\* Where the call is, or goes back to from _writeHeader and _writeFrame.
Place == IF pc \in {"hdr", "frame"} THEN retTo ELSE pc

\* What is so at each place of a call.  Nothing happens before the header, an
\* error ends the call and lets only Close through, and a closed writer keeps
\* an error state.
InCall ==
  /\ srcOff < 0 <=> out = <<>>
  /\ srcOff < 0 => pc \in {"idle", "hdr", "return"} /\ Good /\ taken = 0 /\ srcMark = 0 /\ hsum = 0
  /\ pc = "hdr" => srcOff < 0 /\ retTo # "return"
  /\ pc = "frame" => 0 < len /\ srcOff <= len
  /\ Place = "write" => call = "write"
  /\ Place = "read" => call = "readfrom"
  /\ Place = "return" => call \in {"write", "readfrom", "flush"}
  /\ Place \in {"release", "trl", "closed"} => call = "close"
  /\ state # "none" => Place \in {"idle", "release"}
  /\ state = "none" /\ err # "none" => pc \in {"return", "release", "closed"}
  /\ pc \in {"trl", "closed"} => srcNil
  /\ pc = "trl" => Good
  /\ srcNil => srcOff = 0 /\ pc \in {"idle", "trl", "closed"} /\ (pc = "idle" => state # "none")
  /\ Good /\ (pc = "release" \/ (pc = "return" /\ call = "flush")) => srcOff <= 0

\* Bytes on their way into a block.
Cached == IF pc = "frame" THEN len ELSE IF srcOff > 0 THEN srcOff ELSE 0

\* No byte is in the frame or cached twice, and without an error each one is
\* in one of the two; the hash is that of the frame.
Books ==
  /\ srcMark + Cached <= taken
  /\ Good => taken = srcMark + Cached /\ (HashOn => hsum = srcMark)

\* The last item before an end mark.
Tip == IF Complete THEN Len(out) - 1 ELSE Len(out)

\* The frame ends at srcMark, unless it is broken.
FrameGrows ==
  /\ Good => Bad = {}
  /\ \A i \in Sound :
       /\ (out[i].k = "hdr") = (i = 1)
       /\ out[i].k = "blk" => out[i].lo = (IF i = 2 THEN 0 ELSE out[i - 1].hi)
  /\ Bad = {} /\ out # <<>> => Tip > 0 /\ srcMark = IF Tip = 1 THEN 0 ELSE out[Tip].hi
  /\ Bad = {} => \A i \in DOMAIN out : out[i].k = "blk" => out[i].hi <= srcMark
  /\ \A i \in DOMAIN out :
       out[i].k = "end" => /\ i = Len(out) /\ Bad = {} /\ srcMark = taken
                           /\ HashOn => out[i].hi = taken
                           /\ srcNil /\ pc \in {"closed", "idle"}
  /\ pc = "closed" /\ err = "none" => Complete

FrameInv == Types /\ InCall /\ Books /\ FrameGrows
=============================================================================

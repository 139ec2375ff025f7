----------------------------- MODULE StreamReader -----------------------------
(***************************************************************************)
(* The public Reader, internal/pkg/rdr/rdr.go: a stream of concatenated    *)
(* frames and skippable frames as one io.Reader, with the options that     *)
(* headers change while it runs.  The block reader of a frame is what      *)
(* ReaderSpec promises: blocks in order, then the end mark or an error.    *)
(*                                                                         *)
(* The stream is chosen while it is read.  Sizes are those of the format   *)
(* where positions are compared; a data block has four bytes of data.      *)
(***************************************************************************)
EXTENDS Integers, FiniteSets

CONSTANTS
  Frames,      \* frame headers that may occur: [size, sum, linked]
  ReadOffsets, \* what opts.ReadOffset may be, 0 if not given
  MaxFrames,   \* bound: frames and skippable frames in the stream
  MaxBlks,     \* bound: blocks in a frame
  MaxLen,      \* bound: bytes a block decompresses to
  MaxDst       \* bound: length of the slice given to Read

NoSize  == -1
Headers == [size : Nat \cup {NoSize}, sum : BOOLEAN, linked : BOOLEAN]

ASSUME FramesAssumption == Frames \subseteq Headers /\ Frames # {}
ASSUME OptionsAssumption == ReadOffsets \subseteq Nat
ASSUME BoundsAssumption ==
  {MaxFrames, MaxBlks, MaxLen, MaxDst} \subseteq Nat

VARIABLES
  pc, op,          \* where the call is, "read" or "writeto"
  want, n,         \* room left in dst, bytes copied so far
  ret, retN,       \* what the last call returned
  state,           \* "none", or the error that short-circuits every call
  body,            \* blkReader # nil
  srcCheck, hashed,  \* the frame reader takes the content hash; it is compared
  dstLen, dstOff,  \* the block held and how much of it is copied
  off, size, skipSz, \* opts.ReadOffset, ContentSz and SkipContentSz
  contentSz, srcPos, dstPos,
  closed,          \* r.opts = nil
  err,             \* the error nextBlock has just returned
  \* what is really so
  fr,              \* the header of the frame being read
  fblks, fdec,     \* its blocks so far, and the bytes in them
  pos,             \* bytes taken from the io.Reader
  marks,           \* those of them in end marks and content hashes
  led,             \* the frame was opened with a read offset
  unread,          \* the content hash of a frame was left in the stream
  cut,             \* the stream ended in the bytes an offset skips
  frames, opened,  \* frames met, and frames whose blocks were read
  given,           \* bytes the caller was told it got
  damage,          \* what is wrong with the stream so far, and whether in a
                   \* frame that was opened with a read offset
  told             \* the last progress callback: its offset, the real one,
                   \* and the end marks and hashes before it

callVars == <<pc, op, want, n, ret, retN, given>>
dstVars  == <<dstLen, dstOff>>
optVars  == <<off, size, skipSz>>
posVars  == <<contentSz, srcPos, dstPos>>
frameVars == <<fr, fblks, fdec, frames, opened, led>>
streamVars == <<unread, cut, damage>>
vars == <<callVars, state, body, srcCheck, hashed, dstVars, optVars, posVars, closed,
          err, frameVars, pos, marks, streamVars, told>>

NoFrame == [size |-> NoSize, sum |-> FALSE, linked |-> FALSE]

HdrSz(h) == IF h.size = NoSize THEN 7 ELSE 15
SkipSz   == 9   \* a skippable frame of one byte
EndSz    == 4
SumSz    == 4
BlkBytes == 8   \* a data block, with its size

Init ==
  /\ pc = "idle" /\ op = "read" /\ want = 0 /\ n = 0 /\ ret = "none" /\ retN = 0
  /\ given = 0 /\ state = "none" /\ body = FALSE /\ srcCheck = FALSE /\ hashed = FALSE
  /\ dstLen = 0 /\ dstOff = 0
  /\ off \in ReadOffsets /\ size = NoSize /\ skipSz = FALSE
  /\ contentSz = 0 /\ srcPos = 0 /\ dstPos = 0 /\ closed = FALSE /\ err = "none"
  /\ fr = NoFrame /\ fblks = 0 /\ fdec = 0 /\ led = FALSE /\ frames = 0 /\ opened = 0
  /\ pos = 0 /\ marks = 0 /\ unread = FALSE /\ cut = FALSE /\ damage = {}
  /\ told = [src |-> 0, at |-> 0, marks |-> 0]

-----------------------------------------------------------------------------
(* The calls *)

Returns(e, k) == pc' = "idle" /\ ret' = e /\ retN' = k /\ given' = given + k

Begin(kind) ==
  /\ pc = "idle" /\ op' = kind
  /\ \/ state # "none" /\ Returns(state, 0) /\ UNCHANGED <<n, want>>
     \/ /\ state = "none" /\ n' = 0
        /\ pc' = (IF body THEN "copy" ELSE "header")
        /\ IF kind = "read" THEN want' \in 0 .. MaxDst ELSE UNCHANGED want
        /\ UNCHANGED <<ret, retN, given>>
  /\ UNCHANGED <<state, body, srcCheck, hashed, dstVars, optVars, posVars, closed, err,
                 frameVars, pos, marks, streamVars, told>>

Read    == Begin("read")
WriteTo == Begin("writeto")

\* An error state outlives Close.
StateAfterCloseAlways == "closed"  \* mutant
StateAfterClose == IF state = "none" THEN "closed" ELSE state

Close ==
  /\ pc = "idle" /\ op' = "close" /\ closed' = TRUE
  /\ IF closed THEN Returns(state, 0) /\ UNCHANGED <<body, dstVars, state>>
     ELSE /\ body' = FALSE /\ dstLen' = 0 /\ dstOff' = 0
          /\ state' = StateAfterClose
          /\ Returns("none", 0)
  /\ UNCHANGED <<want, n, srcCheck, hashed, optVars, posVars, err, frameVars, pos, marks, streamVars, told>>

-----------------------------------------------------------------------------
(* _readHeader *)

\* k bytes were read; they count in both positions.
Advance(k) == pos' = pos + k /\ srcPos' = srcPos + k

\* Read returns the error; WriteTo does not take the end of the stream for one.
HeaderFails(e) ==
  /\ state' = IF op = "writeto" /\ e = "eof" THEN "none" ELSE e
  /\ Returns(state', n)
  /\ UNCHANGED <<op, want, n, body, srcCheck, hashed, dstVars, optVars, contentSz, dstPos,
                 closed, err, fr, fblks, fdec, opened, led, marks, unread, told>>

\* Something is wrong with the stream.
Wrong(what) == [what |-> what, led |-> led]

\* The reader is where a frame may begin.
AtFrame == pc = "header" /\ ~unread /\ ~cut

\* The stream ends, is cut in a header, or has the four bytes of a content
\* hash where a header should be, alone or with what follows them.
NoHeader ==
  /\ pc = "header"
  /\ \/ ~unread /\ Advance(0) /\ HeaderFails("eof") /\ UNCHANGED damage
     \/ AtFrame /\ Advance(3) /\ HeaderFails("hdr") /\ damage' = damage \cup {Wrong("header")}
     \/ unread /\ (\E k \in {SumSz, 7} : Advance(k)) /\ HeaderFails("hdr") /\ UNCHANGED damage
  /\ UNCHANGED <<frames, cut>>

SkipFrame ==
  /\ AtFrame /\ frames < MaxFrames
  /\ Advance(SkipSz)
  /\ frames' = frames + 1
  /\ UNCHANGED <<callVars, state, body, srcCheck, hashed, dstVars, optVars, contentSz, dstPos,
                 closed, err, fr, fblks, fdec, opened, led, marks, streamVars, told>>

\* An offset that is neither zero nor the header's size.
OffsetGiven(h) == off \notin {0, HdrSz(h)}

OffsetRefused(h) == OffsetGiven(h) /\ (off < HdrSz(h) \/ h.linked)

BadOffset ==
  /\ AtFrame /\ frames < MaxFrames
  /\ \E h \in Frames : OffsetRefused(h) /\ Advance(HdrSz(h))
  /\ frames' = frames + 1
  /\ HeaderFails("offset")
  /\ UNCHANGED <<damage, cut>>

\* skipOffset fails.  The stream may be cut before the offset, which CopyN
\* calls io.EOF as if it had ended between two frames; or the io.Reader fails,
\* a Seek before the first byte.  The offset stays.  (A Seek behind the end
\* succeeds: OpenFrame, and the next block cannot be read.)
SkipFails ==
  /\ AtFrame /\ frames < MaxFrames
  /\ \E h \in Frames :
       /\ OffsetGiven(h) /\ ~OffsetRefused(h)
       /\ \E j \in HdrSz(h) .. (off - 1) : Advance(j)
  /\ frames' = frames + 1
  /\ \/ HeaderFails("eof") /\ cut' = TRUE /\ damage' = damage \cup {Wrong("skip")}
     \/ HeaderFails("skip") /\ UNCHANGED <<cut, damage>>

\* skipOffset past the first blocks of the frame; the offset is forgotten and
\* neither the content hash nor the size can be checked.
OffsetAfter(h) == IF OffsetGiven(h) THEN 0 ELSE off

\* opts.ContentSz of an earlier frame stays if this one has none.
SizeAfter(h) == IF h.size = NoSize THEN size ELSE h.size

\* The offset is that of a block, after the k first ones of the frame.
OpenFrame ==
  /\ AtFrame /\ frames < MaxFrames
  /\ \E h \in Frames, k \in 0 .. MaxBlks :
       /\ ~OffsetRefused(h)
       /\ k * BlkBytes = IF OffsetGiven(h) THEN off - HdrSz(h) ELSE 0
       /\ Advance(HdrSz(h) + k * BlkBytes)
       /\ fr' = h /\ fblks' = k
       /\ fdec' \in k .. k * MaxLen
       /\ led' = (off # 0)
       /\ off' = OffsetAfter(h)
       /\ skipSz' = (skipSz \/ OffsetGiven(h))
       /\ size' = SizeAfter(h)
       /\ srcCheck' = (h.sum /\ ~OffsetGiven(h))
       /\ hashed' = (srcCheck' /\ off' = 0)
  /\ frames' = frames + 1 /\ opened' = opened + 1
  /\ body' = TRUE /\ pc' = "copy"
  /\ UNCHANGED <<op, want, n, ret, retN, given, state, dstVars, contentSz, dstPos, closed, err,
                 marks, streamVars, told>>

-----------------------------------------------------------------------------
(* modeBody and _writeTo *)

left == dstLen - dstOff

TookUncounted(m) == dstOff' = dstOff + m /\ UNCHANGED n  \* mutant
Took(m) == dstOff' = dstOff + m /\ n' = n + m

\* Copy to dst: a full dst ends the call, else the next block is needed.
CopyOut ==
  /\ pc = "copy" /\ op = "read"
  /\ \/ /\ left > 0 /\ want <= left
        /\ Took(want) /\ Returns("none", n')
        /\ UNCHANGED want
     \/ /\ left > 0 /\ want > left
        /\ Took(left) /\ want' = want - left
        /\ pc' = "next" /\ UNCHANGED <<ret, retN, given>>
     \/ /\ left = 0
        /\ pc' = "next" /\ UNCHANGED <<ret, retN, given, want, n, dstOff>>
  /\ UNCHANGED <<op, state, dstLen, body, srcCheck, hashed, optVars, posVars, closed, err,
                 frameVars, pos, marks, streamVars, told>>

\* Write to the caller's io.Writer, which may fail having taken a part.
WriteOut ==
  /\ pc = "copy" /\ op = "writeto"
  /\ \/ /\ Took(left) /\ pc' = "next"
        /\ UNCHANGED <<state, ret, retN, given>>
     \/ /\ left > 0
        /\ \E m \in 0 .. left : Took(m)
        /\ state' = "wr" /\ Returns("wr", n')
  /\ UNCHANGED <<op, want, dstLen, body, srcCheck, hashed, optVars, posVars, closed, err,
                 frameVars, pos, marks, streamVars, told>>

OffKept == UNCHANGED dstOff  \* mutant
OffReset == dstOff' = 0

\* What the progress callback is given, and where the reader really is.
ProgressLate == told' = [src |-> srcPos + BlkBytes, at |-> pos, marks |-> marks]  \* mutant
Progress == told' = [src |-> srcPos, at |-> pos, marks |-> marks]

\* nextBlock gets a block.
NextBlock ==
  /\ pc = "next" /\ fblks < MaxBlks
  /\ OffReset /\ Progress
  /\ \E k \in 1 .. MaxLen :
       /\ dstLen' = k
       /\ dstPos' = dstPos + k /\ contentSz' = contentSz + k
       /\ fdec' = fdec + k
  /\ Advance(BlkBytes)
  /\ fblks' = fblks + 1
  /\ pc' = "copy"
  /\ UNCHANGED <<op, want, n, ret, retN, given, state, body, srcCheck, hashed, optVars, closed,
                 err, fr, frames, opened, led, marks, streamVars>>

\* nextBlock gets an error.
BlockFails(e) ==
  /\ pc = "next" /\ pc' = "failed" /\ err' = e
  /\ OffReset /\ Progress
  /\ dstLen' = 0
  /\ UNCHANGED <<op, want, n, ret, retN, given, state, body, srcCheck, hashed, optVars, contentSz,
                 dstPos, closed, frameVars, cut>>

\* A block is damaged or cannot be read.  Its bytes count only if they were
\* read and do not decompress.
BadBlock ==
  /\ BlockFails("corrupt")
  /\ damage' = damage \cup {Wrong("block")}
  /\ pos' = pos + BlkBytes /\ srcPos' \in {srcPos, srcPos + BlkBytes}
  /\ UNCHANGED <<marks, unread>>

\* The end mark, and the content hash behind it, unless an offset skipped the
\* blocks it starts with.  They are not counted as read.
EndMark ==
  /\ \E wrong \in SUBSET {"hash", "size"} :
       /\ "hash" \in wrong => fr.sum
       /\ "size" \in wrong <=> fr.size \notin {NoSize, fdec}
       /\ BlockFails(IF "hash" \in wrong /\ hashed THEN "hash" ELSE "end")
       /\ damage' = damage \cup {Wrong(w) : w \in wrong}
  /\ LET sz == EndSz + (IF srcCheck THEN SumSz ELSE 0)
     IN  pos' = pos + sz /\ marks' = marks + sz
  /\ unread' = (fr.sum /\ ~srcCheck)
  /\ UNCHANGED srcPos

\* handleEndMark
SizeWrongIfLess == size # NoSize /\ ~skipSz /\ contentSz < size  \* mutant
SizeWrong == size # NoSize /\ ~skipSz /\ size # contentSz

SizeKept == UNCHANGED contentSz  \* mutant
SizeReset == contentSz' = 0

EndFrame ==
  /\ pc = "failed" /\ err = "end"
  /\ body' = FALSE /\ SizeReset
  /\ state' = IF SizeWrong THEN "size" ELSE "none"
  /\ IF op = "writeto" /\ ~SizeWrong
     THEN pc' = "header" /\ UNCHANGED <<ret, retN, given>>
     ELSE Returns(state', n)
  /\ UNCHANGED <<op, want, n, srcCheck, hashed, dstVars, optVars, srcPos, dstPos, closed, err,
                 frameVars, pos, marks, streamVars, told>>

\* Read gives what it has without the error, which the next call returns.
Defer == op = "read" /\ n > 0

BlockError ==
  /\ pc = "failed" /\ err # "end"
  /\ state' = err
  /\ Returns(IF Defer THEN "none" ELSE err, n)
  /\ UNCHANGED <<op, want, n, body, srcCheck, hashed, dstVars, optVars, posVars, closed, err,
                 frameVars, pos, marks, streamVars, told>>

Next ==
  \/ Read \/ WriteTo \/ Close
  \/ NoHeader \/ SkipFrame \/ BadOffset \/ SkipFails \/ OpenFrame
  \/ CopyOut \/ WriteOut \/ NextBlock \/ BadBlock \/ EndMark \/ EndFrame \/ BlockError

Spec == Init /\ [][Next]_vars
=============================================================================

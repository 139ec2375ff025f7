-------------------------- MODULE StreamReaderProps --------------------------
(***************************************************************************)
(* What must hold of the Reader over a stream of frames                    *)
(***************************************************************************)
EXTENDS StreamReader

DamageErrors == {"hdr", "corrupt", "hash", "size"}
Errors == DamageErrors \cup {"offset", "skip", "wr"}

\* What may be wrong with a stream.
Wrongs == {"header", "block", "hash", "size", "skip"}

\* Every variable has its type, and no more of the block held is copied than
\* there is.
TypeOK ==
  /\ pc \in {"idle", "header", "copy", "next", "failed"}
  /\ op \in {"read", "writeto", "close"}
  /\ want \in Nat /\ n \in Nat /\ retN \in Nat /\ given \in Nat
  /\ contentSz \in Nat /\ srcPos \in Nat /\ dstPos \in Nat /\ pos \in Nat /\ marks \in Nat
  /\ ret \in Errors \cup {"none", "eof", "closed"}
  /\ state \in Errors \cup {"none", "eof", "closed"}
  /\ body \in BOOLEAN /\ srcCheck \in BOOLEAN /\ hashed \in BOOLEAN /\ skipSz \in BOOLEAN
  /\ closed \in BOOLEAN /\ unread \in BOOLEAN /\ cut \in BOOLEAN /\ led \in BOOLEAN
  /\ damage \subseteq [what : Wrongs, led : BOOLEAN]
  /\ dstLen \in 0 .. MaxLen /\ dstOff \in 0 .. dstLen
  /\ off \in Nat /\ size \in Nat \cup {NoSize}
  /\ fr \in Headers /\ err \in Errors \cup {"none", "end"}
  /\ told \in [src : Nat, at : Nat, marks : Nat]

\* Between calls, the bytes the caller was told it got and those of the block
\* held that are still to come are all the bytes decoded: none is lost,
\* doubled or miscounted, over any mixture of Read and WriteTo (dstOff, nRead).
\* Read returns bytes or an error, never both: the comment at rdr.go:65 says
\* the error of a body read that got some data is kept for the next call.  Only
\* a wrong content size, found at the end mark, comes with the last bytes.
\* Every variable has its type.
NoByteLost ==
  /\ TypeOK
  /\ pc = "idle" => /\ ~closed => given + left = dstPos
                    /\ op = "read" /\ ret \notin {"none", "size"} => retN = 0

\* io.EOF from Read, or nil from WriteTo, means that every byte decoded was
\* handed over, no error is waiting, and every frame begun was read to its end
\* mark; but for a frame that the stream is cut in before the read offset: the
\* comment at rdr.go:148, "io.EOF on readHeader simply means read stream is
\* done", does not hold of skipOffset.
EndMeansAll ==
  pc = "idle" /\ (ret = "eof" \/ (op = "writeto" /\ ret = "none")) =>
    /\ given = dstPos /\ ~body
    /\ state \in {"none", "eof", "closed"}
    /\ cut => off # 0

\* A stream that is not damaged is read without an error: each frame is
\* independent of the ones before it (docs/lz4_Frame_Format.md, "Frame
\* Concatenation"), its footer is part of it, and the read offset is that of
\* the first frame only (comment at rdr.go:270).  The code does not keep it:
\* see stream_size_kept and AlarmsExplained.
NoFalseAlarm ==
  /\ state \in DamageErrors => damage # {}
  /\ opened > 0 => state # "offset"

\* Each error says what is wrong with the stream, in that frame or the header
\* behind it, but for three false alarms, which nothing else can cause:
\*  - a frame without a size is held to the size of an earlier one (rdr.go:284);
\*  - the content hash of a frame that the offset led into is taken for the
\*    header of the next (rdr.go:274);
\*  - the offset is the size of the headers so far, and refused or used later
\*    (rdr.go:257).
AlarmsExplained ==
  /\ state = "corrupt" => Wrong("block") \in damage
  /\ state = "hash" => Wrong("hash") \in damage /\ ~led
  /\ state = "size" => Wrong("size") \in damage \/ fr.size = NoSize
  /\ state = "hdr" => Wrong("header") \in damage \/ (unread /\ led /\ fr.sum)
  /\ state = "offset" /\ opened > 0 => \E h \in Frames : off = HdrSz(h)

\* What a read offset may hide: a cut before it, the content hash of the frame
\* it leads into, and the sizes from then on, since SkipContentSz stays set.
Hidden(d) ==
  \/ d.what = "skip"
  \/ d.what = "hash" /\ d.led
  \/ d.what = "size" /\ skipSz

\* A stream that is cut, a block that is corrupt, a wrong content hash or size
\* puts the reader in an error state by the time the next call can be made,
\* unless a read offset hides it; a cut header and a bad block never pass.
DamageReported ==
  pc = "idle" /\ state \notin DamageErrors => \A d \in damage : Hidden(d)

\* The first error is the one every later call returns.
ErrorStays == [][state # "none" => state' = state]_vars

\* The offset given to the progress callback falls short of the block's offset
\* in the stream (opts.go:18) by the end marks and content hashes of the frames
\* before, and by nothing else: no byte of a header, a skippable frame, a block
\* or those skipped is left out of srcPos or counted twice.  It is the offset in
\* the frame that plz4_opts.go:116 promises only in a frame the stream begins
\* with.
ProgressDrifts == told.at = told.src + told.marks
-----------------------------------------------------------------------------
(* Why they hold: what is true in the middle of the calls, too.             *)

\* A call is only inside its body without an error; a frame is open where its
\* blocks are read and no other place.
InCall ==
  /\ pc # "idle" => state = "none" /\ op # "close"
  /\ closed => state # "none"
  /\ pc = "header" => ~body
  /\ pc \in {"copy", "next", "failed"} => body
  /\ pc = "failed" => err \in {"end", "hash", "corrupt"}
  /\ body => opened > 0
  /\ cut => off # 0 /\ ~body

\* Every byte decoded was handed over, is counted in n, or is still held.
Handed ==
  /\ ~closed => given + (IF pc = "idle" THEN 0 ELSE n) + left = dstPos
  /\ ~body \/ pc \in {"next", "failed"} => left = 0
  /\ pc = "header" /\ op = "read" => n = 0
  /\ state = "eof" => given = dstPos /\ ~body

\* The two positions differ by the end marks until a block fails.
Counted == state = "none" /\ (pc = "failed" => err # "corrupt") => pos = srcPos + marks

\* What the reader knows of a frame opened at its begin is what is so.
FrameKnown ==
  /\ body /\ fr.size # NoSize => size = fr.size
  /\ body /\ ~skipSz => contentSz = fdec
  /\ ~body /\ ~closed => contentSz = 0
  /\ body => hashed = (fr.sum /\ ~led)
  /\ body /\ ~led => srcCheck = fr.sum

\* An offset that outlives a frame is the size of its header.
OffsetUsed ==
  /\ opened > 0 /\ off # 0 => \E h \in Frames : off = HdrSz(h)
  /\ unread => led /\ fr.sum

\* Damage that is not reported yet is about to be.
Reporting ==
  state \notin DamageErrors =>
    \A d \in damage : Hidden(d) \/ (pc = "failed" /\ (err # "end" \/ SizeWrong))

\* An error that is about to be reported has its reason.
Deserved ==
  pc = "failed" =>
    /\ err = "corrupt" => Wrong("block") \in damage
    /\ err = "hash" => Wrong("hash") \in damage /\ ~led
    /\ err = "end" /\ SizeWrong => Wrong("size") \in damage \/ fr.size = NoSize
=============================================================================

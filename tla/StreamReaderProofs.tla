-------------------------- MODULE StreamReaderProofs --------------------------
(***************************************************************************)
(* What TLAPS proves of the Reader for every set of frame headers, read    *)
(* offsets, and bounds on frames, blocks and calls.                        *)
(***************************************************************************)
EXTENDS StreamReaderProps, TLAPS

-----------------------------------------------------------------------------
(* Types, and what a call knows while it runs                              *)

LEMMA Bounds ==
  /\ MaxFrames \in Nat /\ MaxBlks \in Nat /\ MaxLen \in Nat /\ MaxDst \in Nat
  /\ Frames \subseteq Headers /\ ReadOffsets \subseteq Nat
BY BoundsAssumption, FramesAssumption, OptionsAssumption

LEMMA HeaderSizes == \A h \in Headers : HdrSz(h) \in {7, 15}
BY DEF HdrSz

\* The real state of a frame has a type, too.
FrameTypeOK == fdec \in Nat /\ fblks \in Nat /\ opened \in Nat /\ frames \in Nat

\* What the bytes skipped by an offset decode to.
LEMMA SkippedBytes ==
  ASSUME NEW k \in Nat, NEW x \in k .. k * MaxLen
  PROVE  x \in Nat /\ (k = 0 => x = 0)
BY Bounds

LEMMA WrongIs ==
  ASSUME TypeOK, NEW w \in Wrongs
  PROVE  Wrong(w) \in [what : Wrongs, led : BOOLEAN]
BY DEF TypeOK, Wrong

LEMMA TypeInit == Init => TypeOK /\ FrameTypeOK
<1>. SUFFICES ASSUME Init PROVE TypeOK /\ FrameTypeOK
  OBVIOUS
<1>1. off \in Nat /\ size \in Nat \cup {NoSize} /\ fr \in Headers
  BY Bounds DEF Init, Headers, NoFrame
<1>2. dstLen \in 0 .. MaxLen /\ dstOff \in 0 .. dstLen
  BY Bounds DEF Init
<1>3. told \in [src : Nat, at : Nat, marks : Nat] /\ damage \subseteq [what : Wrongs, led : BOOLEAN]
  BY DEF Init
<1>. QED  BY <1>1, <1>2, <1>3 DEF Init, TypeOK, FrameTypeOK

LEMMA TypeStep ==
  ASSUME TypeOK, FrameTypeOK, [Next]_vars
  PROVE  TypeOK' /\ FrameTypeOK'
<1>. USE Bounds, HeaderSizes
     DEF TypeOK, FrameTypeOK, callVars, dstVars, optVars, posVars, frameVars, streamVars, Returns, left
<1>1. CASE Read \/ WriteTo
  BY <1>1 DEF Read, WriteTo, Begin
<1>2. CASE Close
  <2>1. state' \in Errors \cup {"none", "eof", "closed"} /\ ret' \in Errors \cup {"none", "eof", "closed"}
    BY <1>2 DEF Close, StateAfterClose
  <2>2. given' \in Nat /\ retN' \in Nat /\ pc' = "idle"
    BY <1>2 DEF Close
  <2>4. body' \in BOOLEAN
    BY <1>2 DEF Close
  <2>3. dstLen' \in 0 .. MaxLen /\ dstOff' \in 0 .. dstLen'
    <3>1. CASE closed
      BY <1>2, <3>1 DEF Close
    <3>2. CASE ~closed
      <4>1. dstLen' = 0 /\ dstOff' = 0
        BY <1>2, <3>2 DEF Close
      <4>. QED  BY <4>1
    <3>. QED  BY <3>1, <3>2
  <2>. QED  BY <1>2, <2>1, <2>2, <2>3, <2>4 DEF Close
<1>3. CASE NoHeader
  <2>1. state' \in Errors \cup {"none", "eof", "closed"} /\ ret' = state'
    BY <1>3 DEF NoHeader, HeaderFails, Errors, DamageErrors
  <2>2. given' \in Nat /\ retN' \in Nat /\ pc' = "idle"
    BY <1>3 DEF NoHeader, HeaderFails
  <2>3. pos' \in Nat /\ srcPos' \in Nat
    BY <1>3 DEF NoHeader, Advance, SumSz
  <2>4. damage' = damage \/ damage' = damage \cup {Wrong("header")}
    BY <1>3 DEF NoHeader
  <2>5. damage' \subseteq [what : Wrongs, led : BOOLEAN]
    BY <2>4, WrongIs DEF Wrongs
  <2>. QED  BY <1>3, <2>1, <2>2, <2>3, <2>5 DEF NoHeader, HeaderFails
<1>4. CASE SkipFrame
  BY <1>4 DEF SkipFrame, Advance, SkipSz
<1>5. CASE BadOffset
  BY <1>5 DEF BadOffset, HeaderFails, Advance, Errors
<1>14. CASE SkipFails
  <2>1. state' \in Errors \cup {"none", "eof", "closed"} /\ ret' = state'
    BY <1>14 DEF SkipFails, HeaderFails, Errors
  <2>2. given' \in Nat /\ retN' \in Nat /\ pc' = "idle"
    BY <1>14 DEF SkipFails, HeaderFails
  <2>3. pos' \in Nat /\ srcPos' \in Nat
    BY <1>14 DEF SkipFails, Advance
  <2>4. damage' = damage \/ damage' = damage \cup {Wrong("skip")}
    BY <1>14 DEF SkipFails
  <2>5. damage' \subseteq [what : Wrongs, led : BOOLEAN] /\ cut' \in BOOLEAN
    BY <1>14, <2>4, WrongIs DEF SkipFails, Wrongs
  <2>. QED  BY <1>14, <2>1, <2>2, <2>3, <2>5 DEF SkipFails, HeaderFails
<1>6. CASE OpenFrame
  <2>1. PICK h \in Frames, k \in 0 .. MaxBlks :
          /\ Advance(HdrSz(h) + k * BlkBytes)
          /\ fr' = h /\ fblks' = k
          /\ fdec' \in k .. k * MaxLen
          /\ led' = (off # 0)
          /\ off' = OffsetAfter(h)
          /\ skipSz' = (skipSz \/ OffsetGiven(h))
          /\ size' = SizeAfter(h)
          /\ srcCheck' = (h.sum /\ ~OffsetGiven(h))
          /\ hashed' = (srcCheck' /\ off' = 0)
    BY <1>6 DEF OpenFrame
  <2>2. HdrSz(h) \in Nat /\ h \in Headers /\ k \in Nat
    OBVIOUS
  <2>4. fdec' \in Nat /\ fblks' \in Nat
    BY <2>1, <2>2, SkippedBytes
  <2>5. pos' \in Nat /\ srcPos' \in Nat
    BY <2>1, <2>2 DEF Advance, BlkBytes
  <2>6. off' \in Nat /\ size' \in Nat \cup {NoSize}
    BY <2>1, <2>2 DEF OffsetAfter, SizeAfter, Headers
  <2>7. skipSz' \in BOOLEAN /\ srcCheck' \in BOOLEAN /\ hashed' \in BOOLEAN /\ led' \in BOOLEAN
    BY <2>1, <2>2 DEF Headers
  <2>. QED  BY <1>6, <2>1, <2>2, <2>4, <2>5, <2>6, <2>7 DEF OpenFrame
<1>7. CASE CopyOut
  BY <1>7 DEF CopyOut, Took
<1>8. CASE WriteOut
  BY <1>8 DEF WriteOut, Took, Errors
<1>9. CASE NextBlock
  BY <1>9 DEF NextBlock, OffReset, Progress, Advance, BlkBytes
<1>10. CASE BadBlock
  <2>1. pos' \in Nat /\ srcPos' \in Nat
    BY <1>10 DEF BadBlock, BlkBytes
  <2>2. err' = "corrupt" /\ damage' \subseteq [what : Wrongs, led : BOOLEAN]
    BY <1>10, WrongIs DEF BadBlock, BlockFails, Wrongs
  <2>3. dstLen' \in 0 .. MaxLen /\ dstOff' \in 0 .. dstLen' /\ told' \in [src : Nat, at : Nat, marks : Nat]
    BY <1>10 DEF BadBlock, BlockFails, OffReset, Progress
  <2>. QED  BY <1>10, <2>1, <2>2, <2>3 DEF BadBlock, BlockFails, Errors, DamageErrors
<1>15. CASE EndMark
  <2>1. PICK wrong \in SUBSET {"hash", "size"} :
          /\ BlockFails(IF "hash" \in wrong /\ hashed THEN "hash" ELSE "end")
          /\ damage' = damage \cup {Wrong(w) : w \in wrong}
    BY <1>15 DEF EndMark
  <2>2. pos' \in Nat /\ marks' \in Nat
    BY <1>15 DEF EndMark, EndSz, SumSz
  <2>3. err' \in Errors \cup {"none", "end"}
    BY <2>1 DEF BlockFails, Errors, DamageErrors
  <2>8. \A w \in wrong : Wrong(w) \in [what : Wrongs, led : BOOLEAN]
    BY WrongIs DEF Wrongs
  <2>9. damage \subseteq [what : Wrongs, led : BOOLEAN]
    OBVIOUS
  <2>4. damage' \subseteq [what : Wrongs, led : BOOLEAN]
    BY ONLY <2>1, <2>8, <2>9, Zenon
  <2>5. unread' \in BOOLEAN
    BY <1>15 DEF EndMark, Headers
  <2>6. dstLen' \in 0 .. MaxLen /\ dstOff' \in 0 .. dstLen' /\ told' \in [src : Nat, at : Nat, marks : Nat]
    BY <2>1 DEF BlockFails, OffReset, Progress
  <2>7. pc' = "failed" /\ UNCHANGED srcPos
        /\ UNCHANGED <<op, want, n, ret, retN, given, state, body, srcCheck, hashed, optVars,
                        contentSz, dstPos, closed, frameVars, cut>>
    BY <1>15, <2>1 DEF EndMark, BlockFails
  <2>. QED  BY <2>2, <2>3, <2>4, <2>5, <2>6, <2>7
<1>11. CASE EndFrame
  <2>1. state' \in Errors \cup {"none", "eof", "closed"} /\ ret' \in Errors \cup {"none", "eof", "closed"}
    BY <1>11 DEF EndFrame, Errors, DamageErrors
  <2>2. given' \in Nat /\ retN' \in Nat /\ pc' \in {"idle", "header"} /\ contentSz' = 0
    BY <1>11 DEF EndFrame, SizeReset
  <2>3. body' \in BOOLEAN
    BY <1>11 DEF EndFrame
  <2>4. /\ UNCHANGED <<op, want, n, srcCheck, hashed, srcPos, dstPos, closed, err, pos, marks, told>>
        /\ UNCHANGED <<dstVars, optVars, frameVars, streamVars>>
    BY <1>11 DEF EndFrame
  <2>. QED  BY <2>1, <2>2, <2>3, <2>4 DEF dstVars, optVars, frameVars, streamVars
<1>12. CASE BlockError
  BY <1>12 DEF BlockError
<1>13. CASE UNCHANGED vars
  BY <1>13 DEF vars
<1>. QED  BY <1>1, <1>2, <1>3, <1>4, <1>5, <1>6, <1>7, <1>8, <1>9, <1>10, <1>11, <1>12, <1>13, <1>14, <1>15 DEF Next

-----------------------------------------------------------------------------
(* The bytes                                                               *)

LEMMA InCallStep ==
  ASSUME TypeOK, FrameTypeOK, InCall, [Next]_vars
  PROVE  InCall'
<1>. USE DEF InCall, TypeOK, FrameTypeOK, callVars, dstVars, optVars, posVars, frameVars, streamVars, Returns
<1>1. CASE Read \/ WriteTo
  BY <1>1 DEF Read, WriteTo, Begin
<1>2. CASE Close
  BY <1>2 DEF Close, StateAfterClose
<1>3. CASE NoHeader
  BY <1>3 DEF NoHeader, HeaderFails, AtFrame
<1>4. CASE SkipFrame
  BY <1>4 DEF SkipFrame, AtFrame
<1>5. CASE BadOffset
  BY <1>5 DEF BadOffset, HeaderFails, AtFrame
<1>14. CASE SkipFails
  BY <1>14 DEF SkipFails, HeaderFails, AtFrame, OffsetGiven
<1>6. CASE OpenFrame
  BY <1>6 DEF OpenFrame, AtFrame
<1>7. CASE CopyOut
  BY <1>7 DEF CopyOut
<1>8. CASE WriteOut
  BY <1>8 DEF WriteOut
<1>9. CASE NextBlock
  BY <1>9 DEF NextBlock
<1>10. CASE BadBlock
  BY <1>10 DEF BadBlock, BlockFails
<1>15. CASE EndMark
  BY <1>15 DEF EndMark, BlockFails
<1>11. CASE EndFrame
  BY <1>11 DEF EndFrame
<1>12. CASE BlockError
  BY <1>12 DEF BlockError
<1>13. CASE UNCHANGED vars
  BY <1>13 DEF vars
<1>. QED  BY <1>1, <1>2, <1>3, <1>4, <1>5, <1>6, <1>7, <1>8, <1>9, <1>10, <1>11, <1>12, <1>13, <1>14, <1>15 DEF Next

LEMMA HandedStep ==
  ASSUME TypeOK, FrameTypeOK, InCall, Handed, [Next]_vars
  PROVE  Handed'
<1>. USE DEF InCall, Handed, left, TypeOK, callVars, dstVars, optVars, posVars, frameVars, streamVars, Returns
<1>1. CASE Read \/ WriteTo
  BY <1>1 DEF Read, WriteTo, Begin
<1>2. CASE Close
  BY <1>2 DEF Close, StateAfterClose
<1>3. CASE NoHeader
  BY <1>3 DEF NoHeader, HeaderFails, AtFrame
<1>4. CASE SkipFrame
  BY <1>4 DEF SkipFrame, AtFrame
<1>5. CASE BadOffset
  BY <1>5 DEF BadOffset, HeaderFails, AtFrame
<1>14. CASE SkipFails
  BY <1>14 DEF SkipFails, HeaderFails, AtFrame, OffsetGiven
<1>6. CASE OpenFrame
  BY <1>6 DEF OpenFrame, AtFrame
<1>7. CASE CopyOut
  BY <1>7 DEF CopyOut, Took
<1>8. CASE WriteOut
  BY <1>8 DEF WriteOut, Took
<1>9. CASE NextBlock
  BY <1>9, Bounds DEF NextBlock, OffReset
<1>10. CASE BadBlock
  BY <1>10 DEF BadBlock, BlockFails, OffReset
<1>15. CASE EndMark
  BY <1>15 DEF EndMark, BlockFails, OffReset
<1>11. CASE EndFrame
  BY <1>11 DEF EndFrame
<1>12. CASE BlockError
  BY <1>12 DEF BlockError
<1>13. CASE UNCHANGED vars
  BY <1>13 DEF vars
<1>. QED  BY <1>1, <1>2, <1>3, <1>4, <1>5, <1>6, <1>7, <1>8, <1>9, <1>10, <1>11, <1>12, <1>13, <1>14, <1>15 DEF Next

\* What is true between calls follows from what is true inside them.
LEMMA NoByteLostStep ==
  ASSUME TypeOK, FrameTypeOK, InCall, Handed, NoByteLost, [Next]_vars
  PROVE  NoByteLost'
<1>. USE DEF InCall, Handed, left, callVars, dstVars, optVars, posVars, frameVars, streamVars, Returns
<1>0. TypeOK' /\ InCall' /\ Handed'
  BY TypeStep, InCallStep, HandedStep
<1>. DEFINE NotBoth == pc = "idle" /\ op = "read" /\ ret \notin {"none", "size"} => retN = 0
<1>00. ASSUME pc' = "idle", ~closed'  PROVE given' + left' = dstPos'
  <2>1. given' + (IF pc' = "idle" THEN 0 ELSE n') + left' = dstPos'
    BY <1>0, <1>00
  <2>2. given' \in Nat /\ left' \in Int
    BY <1>0 DEF TypeOK
  <2>. QED  BY <1>00, <2>1, <2>2
<1>. SUFFICES NotBoth'
  BY <1>0, <1>00 DEF NoByteLost
<1>. USE DEF NoByteLost, TypeOK
<1>1. CASE Read \/ WriteTo
  BY <1>1 DEF Read, WriteTo, Begin
<1>2. CASE Close
  BY <1>2 DEF Close
<1>3. CASE NoHeader
  BY <1>3 DEF NoHeader, HeaderFails, AtFrame
<1>4. CASE SkipFrame
  BY <1>4 DEF SkipFrame, AtFrame
<1>5. CASE BadOffset
  BY <1>5 DEF BadOffset, HeaderFails, AtFrame
<1>14. CASE SkipFails
  BY <1>14 DEF SkipFails, HeaderFails, AtFrame, OffsetGiven
<1>6. CASE OpenFrame
  BY <1>6 DEF OpenFrame, AtFrame
<1>7. CASE CopyOut
  BY <1>7 DEF CopyOut
<1>8. CASE WriteOut
  BY <1>8 DEF WriteOut
<1>9. CASE NextBlock
  BY <1>9 DEF NextBlock
<1>10. CASE BadBlock
  BY <1>10 DEF BadBlock, BlockFails
<1>15. CASE EndMark
  BY <1>15 DEF EndMark, BlockFails
<1>11. CASE EndFrame
  BY <1>11 DEF EndFrame
<1>12. CASE BlockError
  BY <1>12 DEF BlockError, Defer
<1>13. CASE UNCHANGED vars
  BY <1>13 DEF vars
<1>. QED  BY <1>1, <1>2, <1>3, <1>4, <1>5, <1>6, <1>7, <1>8, <1>9, <1>10, <1>11, <1>12, <1>13, <1>14, <1>15 DEF Next

LEMMA EndMeansAllStep ==
  ASSUME TypeOK, FrameTypeOK, InCall, Handed, EndMeansAll, [Next]_vars
  PROVE  EndMeansAll'
<1>. USE DEF InCall, Handed, left, EndMeansAll, callVars, dstVars, optVars, posVars, frameVars, streamVars, Returns,
         TypeOK
<1>1. CASE Read \/ WriteTo
  BY <1>1 DEF Read, WriteTo, Begin
<1>2. CASE Close
  BY <1>2 DEF Close, StateAfterClose
<1>3. CASE NoHeader
  BY <1>3 DEF NoHeader, HeaderFails, AtFrame
<1>4. CASE SkipFrame
  BY <1>4 DEF SkipFrame, AtFrame
<1>5. CASE BadOffset
  BY <1>5 DEF BadOffset, HeaderFails, AtFrame
<1>14. CASE SkipFails
  BY <1>14 DEF SkipFails, HeaderFails, AtFrame, OffsetGiven
<1>6. CASE OpenFrame
  BY <1>6 DEF OpenFrame, AtFrame
<1>7. CASE CopyOut
  BY <1>7 DEF CopyOut
<1>8. CASE WriteOut
  BY <1>8 DEF WriteOut
<1>9. CASE NextBlock
  BY <1>9 DEF NextBlock
<1>10. CASE BadBlock
  BY <1>10 DEF BadBlock, BlockFails
<1>15. CASE EndMark
  BY <1>15 DEF EndMark, BlockFails
<1>11. CASE EndFrame
  BY <1>11 DEF EndFrame
<1>12. CASE BlockError
  BY <1>12 DEF BlockError, Defer
<1>13. CASE UNCHANGED vars
  BY <1>13 DEF vars
<1>. QED  BY <1>1, <1>2, <1>3, <1>4, <1>5, <1>6, <1>7, <1>8, <1>9, <1>10, <1>11, <1>12, <1>13, <1>14, <1>15 DEF Next

LEMMA BytesInit ==
  Init => TypeOK /\ FrameTypeOK /\ InCall /\ Handed /\ NoByteLost /\ EndMeansAll
BY TypeInit DEF Init, InCall, Handed, left, NoByteLost, EndMeansAll

\* What the calls need to know holds in every state.
CallInv == TypeOK /\ FrameTypeOK /\ InCall /\ Handed /\ NoByteLost /\ EndMeansAll

LEMMA CallInvHolds == Spec => []CallInv
<1>1. Init => CallInv
  BY BytesInit DEF CallInv
<1>2. CallInv /\ [Next]_vars => CallInv'
  BY TypeStep, InCallStep, HandedStep, NoByteLostStep, EndMeansAllStep DEF CallInv
<1>. QED  BY <1>1, <1>2, PTL DEF Spec

\* Over any mixture of Read, WriteTo and Close, any blocks and any slices, the
\* caller is told of exactly the bytes decoded, each once, and is told of the
\* end only when it has them all.
THEOREM AllBytesHanded == Spec => [](NoByteLost /\ EndMeansAll)
<1>1. CallInv => NoByteLost /\ EndMeansAll
  BY DEF CallInv
<1>. QED  BY <1>1, CallInvHolds, PTL

\* The error state of the Reader is entered once: by no call and no frame
\* after the first error is it left or changed.
THEOREM ErrorKept == Spec => ErrorStays
<1>1. ASSUME CallInv, [Next]_vars  PROVE [state # "none" => state' = state]_vars
  <2>. USE DEF CallInv, InCall, callVars, Returns
  <2>1. CASE Read \/ WriteTo \/ Close
    BY <1>1, <2>1 DEF Read, WriteTo, Close, Begin, StateAfterClose
  <2>2. CASE pc # "idle"
    BY <1>1, <2>2
  <2>3. CASE UNCHANGED vars
    BY <2>3
  <2>. QED  BY <1>1, <2>1, <2>2, <2>3 DEF Next, NoHeader, SkipFrame, BadOffset, SkipFails,
         OpenFrame, AtFrame, CopyOut, WriteOut, NextBlock, BadBlock, EndMark, BlockFails, EndFrame, BlockError
<1>. QED  BY <1>1, CallInvHolds, PTL DEF Spec, ErrorStays

-----------------------------------------------------------------------------
(* Positions and frames                                                    *)

\* What a frame that is opened leaves: the header's facts, and no byte
\* decoded yet unless an offset skipped some.
LEMMA Opening ==
  ASSUME TypeOK, FrameTypeOK, OpenFrame
  PROVE  \E h \in Frames, k \in Nat :
           /\ Advance(HdrSz(h) + k * BlkBytes) /\ HdrSz(h) \in Nat /\ h \in Headers
           /\ fr' = h /\ size' = SizeAfter(h) /\ led' = (off # 0)
           /\ ~OffsetGiven(h) => fdec' = 0
           /\ off' = OffsetAfter(h)
           /\ skipSz' = (skipSz \/ OffsetGiven(h))
           /\ srcCheck' = (h.sum /\ ~OffsetGiven(h))
           /\ hashed' = (srcCheck' /\ off' = 0)
<1>. USE Bounds, HeaderSizes
<1>1. PICK h \in Frames, k \in 0 .. MaxBlks :
        /\ k * BlkBytes = IF OffsetGiven(h) THEN off - HdrSz(h) ELSE 0
        /\ Advance(HdrSz(h) + k * BlkBytes)
        /\ fr' = h /\ fblks' = k
        /\ fdec' \in k .. k * MaxLen
        /\ led' = (off # 0)
        /\ off' = OffsetAfter(h)
        /\ skipSz' = (skipSz \/ OffsetGiven(h))
        /\ size' = SizeAfter(h)
        /\ srcCheck' = (h.sum /\ ~OffsetGiven(h))
        /\ hashed' = (srcCheck' /\ off' = 0)
  BY DEF OpenFrame
<1>2. HdrSz(h) \in Nat /\ h \in Headers /\ k \in Nat
  OBVIOUS
<1>3. ~OffsetGiven(h) => k = 0
  BY <1>1, <1>2 DEF BlkBytes
<1>4. ~OffsetGiven(h) => fdec' = 0
  BY <1>1, <1>2, <1>3, SkippedBytes
<1>. QED  BY <1>1, <1>2, <1>4

LEMMA CountedStep ==
  ASSUME TypeOK, FrameTypeOK, InCall, Counted, ProgressDrifts, [Next]_vars
  PROVE  Counted' /\ ProgressDrifts'
<1>. USE DEF InCall, Counted, ProgressDrifts, Advance, TypeOK, FrameTypeOK, callVars, dstVars, optVars, posVars, frameVars, streamVars,
         Returns
<1>1. CASE Read \/ WriteTo
  BY <1>1 DEF Read, WriteTo, Begin
<1>2. CASE Close
  BY <1>2 DEF Close, StateAfterClose
<1>3. CASE NoHeader
  BY <1>3 DEF NoHeader, HeaderFails, AtFrame
<1>4. CASE SkipFrame
  BY <1>4 DEF SkipFrame, AtFrame, SkipSz
<1>5. CASE BadOffset
  BY <1>5 DEF BadOffset, HeaderFails, AtFrame
<1>14. CASE SkipFails
  BY <1>14 DEF SkipFails, HeaderFails, AtFrame, OffsetGiven
<1>6. CASE OpenFrame
  <2>1. PICK h \in Frames, k \in Nat : Advance(HdrSz(h) + k * BlkBytes) /\ HdrSz(h) \in Nat
    BY <1>6, Opening
  <2>2. /\ pc = "header" /\ state' = state /\ pc' = "copy"
        /\ UNCHANGED <<marks, told>>
    BY <1>6 DEF OpenFrame, AtFrame, streamVars
  <2>. QED  BY <2>1, <2>2 DEF BlkBytes
<1>7. CASE CopyOut
  BY <1>7 DEF CopyOut
<1>8. CASE WriteOut
  BY <1>8 DEF WriteOut
<1>9. CASE NextBlock
  BY <1>9 DEF NextBlock, Progress, BlkBytes
<1>10. CASE BadBlock
  BY <1>10 DEF BadBlock, BlockFails, Progress
<1>15. CASE EndMark
  BY <1>15 DEF EndMark, BlockFails, Progress, EndSz, SumSz
<1>11. CASE EndFrame
  BY <1>11 DEF EndFrame
<1>12. CASE BlockError
  BY <1>12 DEF BlockError
<1>13. CASE UNCHANGED vars
  BY <1>13 DEF vars
<1>. QED  BY <1>1, <1>2, <1>3, <1>4, <1>5, <1>6, <1>7, <1>8, <1>9, <1>10, <1>11, <1>12, <1>13,
     <1>14, <1>15 DEF Next

\* The reader's account of a frame.
LEMMA FrameKnownStep ==
  ASSUME TypeOK, FrameTypeOK, InCall, FrameKnown, [Next]_vars
  PROVE  FrameKnown'
<1>. USE DEF InCall, FrameKnown, TypeOK, FrameTypeOK, callVars, dstVars, optVars, posVars, frameVars, streamVars,
         Returns
<1>1. CASE Read \/ WriteTo
  BY <1>1 DEF Read, WriteTo, Begin
<1>2. CASE Close
  BY <1>2 DEF Close, StateAfterClose
<1>3. CASE NoHeader
  BY <1>3 DEF NoHeader, HeaderFails, AtFrame
<1>4. CASE SkipFrame
  BY <1>4 DEF SkipFrame, AtFrame
<1>5. CASE BadOffset
  BY <1>5 DEF BadOffset, HeaderFails, AtFrame
<1>14. CASE SkipFails
  BY <1>14 DEF SkipFails, HeaderFails, AtFrame, OffsetGiven
<1>6. CASE OpenFrame
  <2>1. PICK h \in Frames :
          /\ fr' = h /\ size' = SizeAfter(h) /\ led' = (off # 0) /\ h \in Headers
          /\ ~OffsetGiven(h) => fdec' = 0
          /\ off' = OffsetAfter(h)
          /\ skipSz' = (skipSz \/ OffsetGiven(h))
          /\ srcCheck' = (h.sum /\ ~OffsetGiven(h))
          /\ hashed' = (srcCheck' /\ off' = 0)
    BY <1>6, Opening
  <2>2. pc = "header" /\ body' = TRUE /\ contentSz' = contentSz
    BY <1>6 DEF OpenFrame, AtFrame
  <2>3. hashed' = (fr'.sum /\ ~led') /\ (~led' => srcCheck' = fr'.sum)
    BY <2>1 DEF OffsetGiven, OffsetAfter, Headers
  <2>4. fr'.size # NoSize => size' = fr'.size
    BY <2>1 DEF SizeAfter
  <2>5. ~skipSz' => contentSz' = fdec'
    BY <2>1, <2>2
  <2>. QED  BY <2>2, <2>3, <2>4, <2>5
<1>7. CASE CopyOut
  BY <1>7 DEF CopyOut
<1>8. CASE WriteOut
  BY <1>8 DEF WriteOut
<1>9. CASE NextBlock
  BY <1>9 DEF NextBlock
<1>10. CASE BadBlock
  BY <1>10 DEF BadBlock, BlockFails
<1>15. CASE EndMark
  BY <1>15 DEF EndMark, BlockFails
<1>11. CASE EndFrame
  BY <1>11 DEF EndFrame, SizeReset
<1>12. CASE BlockError
  BY <1>12 DEF BlockError
<1>13. CASE UNCHANGED vars
  BY <1>13 DEF vars
<1>. QED  BY <1>1, <1>2, <1>3, <1>4, <1>5, <1>6, <1>7, <1>8, <1>9, <1>10, <1>11, <1>12, <1>13,
     <1>14, <1>15 DEF Next

LEMMA OffsetUsedStep ==
  ASSUME TypeOK, FrameTypeOK, InCall, FrameKnown, OffsetUsed, [Next]_vars
  PROVE  OffsetUsed'
<1>. USE DEF InCall, OffsetUsed, TypeOK, FrameTypeOK, callVars, dstVars, optVars, posVars, frameVars, streamVars,
         Returns
<1>1. CASE Read \/ WriteTo
  BY <1>1 DEF Read, WriteTo, Begin
<1>2. CASE Close
  BY <1>2 DEF Close, StateAfterClose
<1>3. CASE NoHeader
  BY <1>3 DEF NoHeader, HeaderFails, AtFrame
<1>4. CASE SkipFrame
  BY <1>4 DEF SkipFrame, AtFrame
<1>5. CASE BadOffset
  BY <1>5 DEF BadOffset, HeaderFails, AtFrame
<1>14. CASE SkipFails
  BY <1>14 DEF SkipFails, HeaderFails, AtFrame, OffsetGiven
<1>6. CASE OpenFrame
  <2>1. PICK h \in Frames : off' = OffsetAfter(h)
    BY <1>6, Opening
  <2>2. off' # 0 => off' = HdrSz(h)
    BY <2>1 DEF OffsetAfter, OffsetGiven
  <2>3. ~unread'
    BY <1>6 DEF OpenFrame, AtFrame
  <2>. QED  BY <2>2, <2>3
<1>7. CASE CopyOut
  BY <1>7 DEF CopyOut
<1>8. CASE WriteOut
  BY <1>8 DEF WriteOut
<1>9. CASE NextBlock
  BY <1>9 DEF NextBlock
<1>10. CASE BadBlock
  BY <1>10 DEF BadBlock, BlockFails
<1>15. CASE EndMark
  <2>1. UNCHANGED <<off, opened, led, fr>> /\ body
    BY <1>15 DEF EndMark, BlockFails
  <2>2. unread' => fr.sum /\ ~srcCheck
    BY <1>15 DEF EndMark
  <2>3. fr.sum \in BOOLEAN
    BY DEF Headers
  <2>. QED  BY <2>1, <2>2, <2>3 DEF FrameKnown
<1>11. CASE EndFrame
  BY <1>11 DEF EndFrame
<1>12. CASE BlockError
  BY <1>12 DEF BlockError
<1>13. CASE UNCHANGED vars
  BY <1>13 DEF vars
<1>. QED  BY <1>1, <1>2, <1>3, <1>4, <1>5, <1>6, <1>7, <1>8, <1>9, <1>10, <1>11, <1>12, <1>13,
     <1>14, <1>15 DEF Next

\* Between its discovery and the error state damage is not forgotten.
LEMMA ReportingStep ==
  ASSUME TypeOK, FrameTypeOK, InCall, FrameKnown, Reporting, [Next]_vars
  PROVE  Reporting'
<1>. USE DEF InCall, Reporting, Hidden, DamageErrors, TypeOK, FrameTypeOK, callVars, dstVars, optVars, posVars, frameVars, streamVars,
         Returns
<1>1. CASE Read \/ WriteTo
  BY <1>1 DEF Read, WriteTo, Begin
<1>2. CASE Close
  BY <1>2 DEF Close, StateAfterClose
<1>3. CASE NoHeader
  <2>. SUFFICES ASSUME state' \notin DamageErrors, NEW d \in damage'  PROVE Hidden(d)
    BY <1>3 DEF NoHeader, HeaderFails
  <2>1. damage' = damage /\ skipSz' = skipSz /\ state \notin DamageErrors
    BY <1>3 DEF NoHeader, AtFrame, HeaderFails
  <2>. QED  BY <1>3, <2>1 DEF NoHeader
<1>4. CASE SkipFrame
  BY <1>4 DEF SkipFrame, AtFrame
<1>5. CASE BadOffset
  BY <1>5 DEF BadOffset, HeaderFails, AtFrame
<1>14. CASE SkipFails
  <2>1. pc = "header" /\ state \notin DamageErrors /\ skipSz' = skipSz
    BY <1>14 DEF SkipFails, AtFrame, HeaderFails
  <2>2. damage' = damage \/ damage' = damage \cup {Wrong("skip")}
    BY <1>14 DEF SkipFails
  <2>3. Wrong("skip").what = "skip"
    BY DEF Wrong
  <2>. QED  BY <2>1, <2>2, <2>3
<1>6. CASE OpenFrame
  <2>1. skipSz => skipSz'
    BY <1>6, Opening
  <2>2. state' = state /\ damage' = damage /\ pc # "failed"
    BY <1>6 DEF OpenFrame, AtFrame
  <2>. QED  BY <2>1, <2>2
<1>7. CASE CopyOut
  BY <1>7 DEF CopyOut
<1>8. CASE WriteOut
  BY <1>8 DEF WriteOut
<1>9. CASE NextBlock
  BY <1>9 DEF NextBlock
<1>10. CASE BadBlock
  BY <1>10 DEF BadBlock, BlockFails
<1>15. CASE EndMark
  <2>. SUFFICES ASSUME NEW d \in damage', err' = "end", ~SizeWrong'  PROVE Hidden(d)
    BY <1>15 DEF EndMark, BlockFails
  <2>1. PICK wrong \in SUBSET {"hash", "size"} :
          /\ "hash" \in wrong => fr.sum
          /\ "size" \in wrong <=> fr.size \notin {NoSize, fdec}
          /\ BlockFails(IF "hash" \in wrong /\ hashed THEN "hash" ELSE "end")
          /\ damage' = damage \cup {Wrong(w) : w \in wrong}
    BY <1>15 DEF EndMark
  <2>2. pc = "next" /\ body /\ state = "none" /\ UNCHANGED <<size, skipSz, contentSz>>
    BY <2>1 DEF BlockFails
  <2>3. CASE d \in damage
    BY <2>2, <2>3
  <2>4. CASE d = Wrong("hash") /\ "hash" \in wrong
    <3>1. ~hashed /\ fr.sum
      BY <2>1, <2>4 DEF BlockFails
    <3>. QED  BY <2>2, <2>4, <3>1 DEF FrameKnown, Wrong
  <2>5. CASE d = Wrong("size") /\ "size" \in wrong
    <3>1. skipSz
      BY <2>1, <2>2, <2>5 DEF SizeWrong, FrameKnown
    <3>. QED  BY <2>5, <3>1 DEF Wrong
  <2>. QED  BY <2>1, <2>3, <2>4, <2>5
<1>11. CASE EndFrame
  BY <1>11 DEF EndFrame
<1>12. CASE BlockError
  BY <1>12 DEF BlockError
<1>13. CASE UNCHANGED vars
  BY <1>13 DEF vars, SizeWrong
<1>. QED  BY <1>1, <1>2, <1>3, <1>4, <1>5, <1>6, <1>7, <1>8, <1>9, <1>10, <1>11, <1>12, <1>13,
     <1>14, <1>15 DEF Next

LEMMA DeservedStep ==
  ASSUME TypeOK, FrameTypeOK, InCall, FrameKnown, Deserved, [Next]_vars
  PROVE  Deserved'
<1>. USE DEF InCall, Deserved, TypeOK, FrameTypeOK, callVars, dstVars, optVars, posVars, frameVars, streamVars,
         Returns
<1>1. CASE Read \/ WriteTo
  BY <1>1 DEF Read, WriteTo, Begin
<1>2. CASE Close
  BY <1>2 DEF Close, StateAfterClose
<1>3. CASE NoHeader
  BY <1>3 DEF NoHeader, HeaderFails, AtFrame
<1>4. CASE SkipFrame
  BY <1>4 DEF SkipFrame, AtFrame
<1>5. CASE BadOffset
  BY <1>5 DEF BadOffset, HeaderFails, AtFrame
<1>14. CASE SkipFails
  BY <1>14 DEF SkipFails, HeaderFails, AtFrame, OffsetGiven
<1>6. CASE OpenFrame
  BY <1>6 DEF OpenFrame, AtFrame
<1>7. CASE CopyOut
  BY <1>7 DEF CopyOut
<1>8. CASE WriteOut
  BY <1>8 DEF WriteOut
<1>9. CASE NextBlock
  BY <1>9 DEF NextBlock
<1>10. CASE BadBlock
  BY <1>10 DEF BadBlock, BlockFails, Wrong
<1>15. CASE EndMark
  <2>1. PICK wrong \in SUBSET {"hash", "size"} :
          /\ "hash" \in wrong => fr.sum
          /\ "size" \in wrong <=> fr.size \notin {NoSize, fdec}
          /\ BlockFails(IF "hash" \in wrong /\ hashed THEN "hash" ELSE "end")
          /\ damage' = damage \cup {Wrong(w) : w \in wrong}
    BY <1>15 DEF EndMark
  <2>2. body /\ UNCHANGED <<size, skipSz, contentSz, fr, led>> /\ err' \in {"hash", "end"}
    BY <2>1 DEF BlockFails
  <2>3. \A w : Wrong(w)' = Wrong(w)
    BY <2>2 DEF Wrong
  <2>4. ASSUME err' = "hash"  PROVE Wrong("hash") \in damage' /\ ~led
    <3>1. "hash" \in wrong /\ hashed
      BY <2>1, <2>4 DEF BlockFails
    <3>. QED  BY <2>1, <2>2, <3>1 DEF FrameKnown
  <2>5. ASSUME SizeWrong'  PROVE Wrong("size") \in damage' \/ fr.size = NoSize
    <3>1. fr.size # NoSize => fr.size # fdec
      BY <2>2, <2>5 DEF SizeWrong, FrameKnown
    <3>. QED  BY <2>1, <3>1
  <2>. QED  BY <2>2, <2>3, <2>4, <2>5
<1>11. CASE EndFrame
  BY <1>11 DEF EndFrame
<1>12. CASE BlockError
  BY <1>12 DEF BlockError
<1>13. CASE UNCHANGED vars
  BY <1>13 DEF vars, SizeWrong, Wrong
<1>. QED  BY <1>1, <1>2, <1>3, <1>4, <1>5, <1>6, <1>7, <1>8, <1>9, <1>10, <1>11, <1>12, <1>13,
     <1>14, <1>15 DEF Next

LEMMA AlarmsExplainedStep ==
  ASSUME TypeOK, FrameTypeOK, InCall, OffsetUsed, Deserved, AlarmsExplained, [Next]_vars
  PROVE  AlarmsExplained'
<1>. USE DEF InCall, Deserved, AlarmsExplained, Wrong, TypeOK, FrameTypeOK, callVars, dstVars, optVars, posVars, frameVars, streamVars,
         Returns
<1>1. CASE Read \/ WriteTo
  BY <1>1 DEF Read, WriteTo, Begin
<1>2. CASE Close
  BY <1>2 DEF Close, StateAfterClose
<1>3. CASE NoHeader
  BY <1>3 DEF NoHeader, HeaderFails, AtFrame, OffsetUsed
<1>4. CASE SkipFrame
  BY <1>4 DEF SkipFrame, AtFrame
<1>5. CASE BadOffset
  BY <1>5 DEF BadOffset, HeaderFails, AtFrame, OffsetRefused, OffsetGiven, OffsetUsed
<1>14. CASE SkipFails
  BY <1>14 DEF SkipFails, HeaderFails, AtFrame, OffsetGiven
<1>6. CASE OpenFrame
  BY <1>6 DEF OpenFrame, AtFrame
<1>7. CASE CopyOut
  BY <1>7 DEF CopyOut
<1>8. CASE WriteOut
  BY <1>8 DEF WriteOut
<1>9. CASE NextBlock
  BY <1>9 DEF NextBlock
<1>10. CASE BadBlock
  BY <1>10 DEF BadBlock, BlockFails
<1>15. CASE EndMark
  BY <1>15 DEF EndMark, BlockFails
<1>11. CASE EndFrame
  BY <1>11 DEF EndFrame
<1>12. CASE BlockError
  BY <1>12 DEF BlockError
<1>13. CASE UNCHANGED vars
  BY <1>13 DEF vars
<1>. QED  BY <1>1, <1>2, <1>3, <1>4, <1>5, <1>6, <1>7, <1>8, <1>9, <1>10, <1>11, <1>12, <1>13,
     <1>14, <1>15 DEF Next

-----------------------------------------------------------------------------
(* Theorems                                                                *)

FramesInv == CallInv /\ Counted /\ ProgressDrifts /\ FrameKnown /\ OffsetUsed

LEMMA FramesInvHolds == Spec => []FramesInv
<1>1. Init => FramesInv
  BY BytesInit DEF Init, FramesInv, CallInv, Counted, ProgressDrifts, FrameKnown, OffsetUsed
<1>2. FramesInv /\ [Next]_vars => FramesInv'
  BY TypeStep, InCallStep, HandedStep, NoByteLostStep, EndMeansAllStep, CountedStep, FrameKnownStep,
     OffsetUsedStep DEF FramesInv, CallInv
<1>. QED  BY <1>1, <1>2, PTL DEF Spec

\* In any frame of any stream, after skippable frames and blocks skipped by an
\* offset, the offset of the progress callback is the reader's own less the end
\* marks and content hashes it has passed.
THEOREM ProgressCounted == Spec => []ProgressDrifts
<1>1. FramesInv => ProgressDrifts
  BY DEF FramesInv
<1>. QED  BY <1>1, FramesInvHolds, PTL

\* Whatever the stream and the read offset, damage does not pass for a good
\* frame, but for what the offset hides: the error is there when the call
\* returns.
THEOREM DamageAlwaysReported == Spec => []DamageReported
<1>1. Init => Reporting
  BY DEF Init, Reporting
<1>2. FramesInv /\ Reporting /\ [Next]_vars => Reporting'
  BY ReportingStep DEF FramesInv, CallInv
<1>3. Reporting => DamageReported
  BY DEF Reporting, DamageReported
<1>. QED  BY <1>1, <1>2, <1>3, FramesInvHolds, PTL DEF Spec

\* Whatever the stream and the read offset, an error means that damage, or is
\* one of the three false alarms, in the circumstances of each.
THEOREM FalseAlarmsExplained == Spec => []AlarmsExplained
<1>1. Init => Deserved /\ AlarmsExplained
  BY DEF Init, Deserved, AlarmsExplained
<1>2. FramesInv /\ Deserved /\ AlarmsExplained /\ [Next]_vars => Deserved' /\ AlarmsExplained'
  BY DeservedStep, AlarmsExplainedStep DEF FramesInv, CallInv
<1>. QED  BY <1>1, <1>2, FramesInvHolds, PTL DEF Spec
=============================================================================

------------------------------ MODULE WriterProofs ------------------------------
(***************************************************************************)
(* What TLAPS proves of the two writers that NewWriter chooses from: the   *)
(* frame of the serial one is exact, and both keep what WriterSpec         *)
(* promises, for every instance.                                           *)
(***************************************************************************)
EXTENDS Writer, AsyncWriterProofs

-----------------------------------------------------------------------------
(* The serial writer: types and places *)

LEMMA SerialItems ==
  /\ \A kind \in {"hdr", "end", "bad"}, h \in Int : S!Mark(kind, h) \in S!Item
  /\ \A a \in Nat, b \in Int : [k |-> "blk", lo |-> a, hi |-> b] \in S!Item
BY DEF S!Mark, S!Item

LEMMA SerialTypes ==
  ASSUME S!Types, S!Next
  PROVE  S!Types'
<1>. USE BlkSzAssumption, SerialItems DEF S!Types, S!Errors, S!FaultKinds
<1>1. CASE S!Write \/ S!ReadFrom
  BY <1>1, MaxBytesAssumption DEF S!Write, S!ReadFrom, S!Enter, S!Refuse, S!InError, S!HeaderThen
<1>2. CASE S!Flush \/ S!Close
  BY <1>2 DEF S!Flush, S!Close, S!Enter, S!Refuse, S!InError, S!HeaderThen, S!FlushBlk
<1>3. CASE S!WriteHeader
  BY <1>3 DEF S!WriteHeader, S!Emit, S!Fails
<1>4. CASE S!WriteFrame
  <2>1. sHsum' \in Int
    BY <1>4 DEF S!WriteFrame, S!HashBlk, S!HashNext
  <2>2. UNCHANGED <<sRetTo, sCall, sRet, sLeft, sLen, sTaken, sSrcNil, sState>>
    BY <1>4 DEF S!WriteFrame
  <2>3. CASE /\ S!Emit([k |-> "blk", lo |-> sSrcMark, hi |-> sSrcMark + sLen])
             /\ sSrcMark' = sSrcMark + sLen /\ sSrcOff' = 0
             /\ sPc' = sRetTo /\ UNCHANGED sErr
    BY <2>1, <2>2, <2>3 DEF S!Emit
  <2>4. CASE S!Fails("cmp") /\ UNCHANGED <<sOut, sSrcMark, sSrcOff>>
    BY <2>1, <2>2, <2>4 DEF S!Fails
  <2>5. CASE S!Emit(S!Mark("bad", 0)) /\ S!Fails("blk") /\ UNCHANGED <<sSrcMark, sSrcOff>>
    BY <2>1, <2>2, <2>5 DEF S!Emit, S!Fails
  <2>. QED  BY <1>4, <2>3, <2>4, <2>5 DEF S!WriteFrame
<1>5. CASE S!WriteTop
  BY <1>5 DEF S!WriteTop, S!ToFrame
<1>6. CASE S!ReadTop
  BY <1>6 DEF S!ReadTop, S!ToFrame, S!Fails
<1>7. CASE S!ReturnCall
  BY <1>7 DEF S!ReturnCall
<1>8. CASE S!Release
  BY <1>8 DEF S!Release, S!SkipTrailer, S!InError
<1>9. CASE S!WriteTrailer
  BY <1>9 DEF S!WriteTrailer, S!Emit
<1>10. CASE S!CloseReturns
  BY <1>10 DEF S!CloseReturns
<1>. QED  BY <1>1, <1>2, <1>3, <1>4, <1>5, <1>6, <1>7, <1>8, <1>9, <1>10 DEF S!Next

LEMMA SerialInCall ==
  ASSUME S!Types, S!InCall, S!Next
  PROVE  S!InCall'
<1>. USE BlkSzAssumption DEF S!Types, S!Errors, S!FaultKinds, S!InCall, S!Place, S!Good
<1>1. CASE S!Write \/ S!ReadFrom
  BY <1>1 DEF S!Write, S!ReadFrom, S!Enter, S!Refuse, S!InError, S!HeaderThen
<1>2. CASE S!Flush \/ S!Close
  BY <1>2 DEF S!Flush, S!Close, S!Enter, S!Refuse, S!InError, S!HeaderThen, S!FlushBlk
<1>3. CASE S!WriteHeader
  BY <1>3 DEF S!WriteHeader, S!Emit, S!Fails
<1>4. CASE S!WriteFrame
  <2>1. sOut # <<>> /\ sSrcOff >= 0
    BY <1>4 DEF S!WriteFrame
  <2>2. sOut' # <<>> /\ sSrcOff' >= 0
    BY <1>4, <2>1 DEF S!WriteFrame, S!Emit
  <2>3. CASE sPc' = sRetTo /\ sErr' = sErr /\ sSrcOff' = 0
    BY <1>4, <2>1, <2>2, <2>3 DEF S!WriteFrame
  <2>4. CASE S!Fails("cmp") \/ S!Fails("blk")
    BY <1>4, <2>1, <2>2, <2>4 DEF S!WriteFrame, S!Fails
  <2>. QED  BY <1>4, <2>3, <2>4 DEF S!WriteFrame
<1>5. CASE S!WriteTop
  BY <1>5 DEF S!WriteTop, S!ToFrame
<1>6. CASE S!ReadTop
  BY <1>6 DEF S!ReadTop, S!ToFrame, S!Fails
<1>7. CASE S!ReturnCall
  BY <1>7 DEF S!ReturnCall
<1>8. CASE S!Release
  BY <1>8 DEF S!Release, S!SkipTrailer, S!InError
<1>9. CASE S!WriteTrailer \/ S!CloseReturns
  BY <1>9 DEF S!WriteTrailer, S!CloseReturns, S!Emit
<1>. QED  BY <1>1, <1>2, <1>3, <1>4, <1>5, <1>6, <1>7, <1>8, <1>9 DEF S!Next

LEMMA SerialBooks ==
  ASSUME S!Types, S!InCall, S!Books, S!Next
  PROVE  S!Books'
<1>. USE BlkSzAssumption DEF S!Types, S!Errors, S!FaultKinds, S!InCall, S!Place, S!Good, S!Books, S!Cached
<1>1. CASE S!Write \/ S!ReadFrom
  BY <1>1 DEF S!Write, S!ReadFrom, S!Enter, S!Refuse, S!InError, S!HeaderThen
<1>2. CASE S!Flush \/ S!Close
  BY <1>2 DEF S!Flush, S!Close, S!Enter, S!Refuse, S!InError, S!HeaderThen, S!FlushBlk
<1>3. CASE S!WriteHeader
  BY <1>3 DEF S!WriteHeader, S!Emit, S!Fails
<1>4. CASE S!WriteFrame
  <2>1. /\ sPc = "frame" /\ UNCHANGED <<sTaken, sState, sLen>> /\ sSrcMark + sLen <= sTaken
        /\ S!Good => sTaken = sSrcMark + sLen
        /\ S!Good /\ HashOn => sHsum' = sSrcMark + sLen
    BY <1>4 DEF S!WriteFrame, S!HashBlk, S!HashNext
  <2>2. CASE sSrcMark' = sSrcMark + sLen /\ sSrcOff' = 0 /\ sPc' = sRetTo /\ UNCHANGED sErr
    BY <2>1, <2>2
  <2>3. CASE UNCHANGED <<sSrcMark, sSrcOff>> /\ sPc' \in {"release", "return"} /\ sErr' # "none"
    BY <2>1, <2>3
  <2>. QED  BY <1>4, <2>2, <2>3 DEF S!WriteFrame, S!Fails
<1>5. CASE S!WriteTop
  BY <1>5 DEF S!WriteTop, S!ToFrame
<1>6. CASE S!ReadTop
  BY <1>6 DEF S!ReadTop, S!ToFrame, S!Fails
<1>7. CASE S!ReturnCall
  BY <1>7 DEF S!ReturnCall
<1>8. CASE S!Release
  BY <1>8 DEF S!Release, S!SkipTrailer, S!InError
<1>9. CASE S!WriteTrailer \/ S!CloseReturns
  BY <1>9 DEF S!WriteTrailer, S!CloseReturns, S!Emit
<1>. QED  BY <1>1, <1>2, <1>3, <1>4, <1>5, <1>6, <1>7, <1>8, <1>9 DEF S!Next

-----------------------------------------------------------------------------
(* The serial writer: its frame *)

\* What one more item does to the part of the output that counts.
LEMMA SerialAppend ==
  ASSUME S!Types, NEW x \in S!Item, sOut' = Append(sOut, x)
  PROVE  /\ Len(sOut) \in Nat /\ DOMAIN sOut = 1 .. Len(sOut)
         /\ Len(sOut') = Len(sOut) + 1 /\ DOMAIN sOut' = 1 .. Len(sOut) + 1
         /\ sOut'[Len(sOut) + 1] = x /\ \A i \in 1 .. Len(sOut) : sOut'[i] = sOut[i]
         /\ S!Bad # {} => S!Bad' # {} /\ S!Sound' = S!Sound /\ \A i \in S!Sound : sOut'[i] = sOut[i]
         /\ S!Bad = {} => S!Sound = 1 .. Len(sOut)
         /\ S!Bad = {} /\ x.k # "bad" => S!Bad' = {} /\ S!Sound' = 1 .. Len(sOut) + 1
         /\ S!Bad = {} /\ x.k = "bad" => S!Bad' # {} /\ S!Sound' = 1 .. Len(sOut)
         /\ S!Complete' <=> S!Complete \/ x.k = "end"
<1>1. /\ Len(sOut) \in Nat /\ DOMAIN sOut = 1 .. Len(sOut)
      /\ Len(sOut') = Len(sOut) + 1 /\ DOMAIN sOut' = 1 .. Len(sOut) + 1
      /\ sOut'[Len(sOut) + 1] = x /\ \A i \in 1 .. Len(sOut) : sOut'[i] = sOut[i]
  BY DEF S!Types
<1>2. S!Bad' = S!Bad \cup IF x.k = "bad" THEN {Len(sOut) + 1} ELSE {}
  <2>1. \A i : i \in S!Bad' <=> i \in S!Bad \/ (x.k = "bad" /\ i = Len(sOut) + 1)
    BY <1>1 DEF S!Bad
  <2>. QED  BY <2>1
<1>3. S!Bad \subseteq 1 .. Len(sOut) /\ S!Sound \subseteq 1 .. Len(sOut)
  BY <1>1 DEF S!Bad, S!Sound
<1>4. ASSUME S!Bad # {}  PROVE S!Bad' # {} /\ S!Sound' = S!Sound
  <2>1. PICK j \in S!Bad : TRUE
    BY <1>4
  <2>2. j \in 1 .. Len(sOut) /\ j \in S!Bad'
    BY <1>2, <1>3, <2>1
  <2>3. \A i \in 1 .. Len(sOut) + 1 : (\A b \in S!Bad' : i < b) <=> (\A b \in S!Bad : i < b)
    BY <1>1, <1>2, <1>3, <2>2
  <2>4. \A i : i \in S!Sound' <=> i \in S!Sound
    <3>1. ~(Len(sOut) + 1 < j)
      BY <1>1, <2>2
    <3>. QED  BY <1>1, <2>1, <2>2, <2>3, <3>1 DEF S!Sound
  <2>. QED  BY <2>2, <2>4
<1>5. ASSUME S!Bad = {}  PROVE S!Sound = 1 .. Len(sOut)
  BY <1>1, <1>5 DEF S!Sound
<1>6. ASSUME S!Bad = {}, x.k # "bad"  PROVE S!Bad' = {} /\ S!Sound' = 1 .. Len(sOut) + 1
  BY <1>1, <1>2, <1>6 DEF S!Sound
<1>7. ASSUME S!Bad = {}, x.k = "bad"  PROVE S!Bad' # {} /\ S!Sound' = 1 .. Len(sOut)
  <2>1. S!Bad' = {Len(sOut) + 1}
    BY <1>2, <1>7
  <2>2. \A i : i \in S!Sound' <=> i \in 1 .. Len(sOut)
    BY <1>1, <2>1 DEF S!Sound
  <2>. QED  BY <2>1, <2>2
<1>8. S!Complete' <=> S!Complete \/ x.k = "end"
  BY <1>1 DEF S!Complete
<1>. QED  BY <1>1, <1>3, <1>4, <1>5, <1>6, <1>7, <1>8

\* The frame of a writer without an error is not broken yet, and an error
\* does not go away.
LEMMA SerialGood ==
  ASSUME S!Types, S!InCall, S!Next
  PROVE  S!Good' => S!Good
<1>. USE DEF S!Good
<1>1. CASE S!Write \/ S!ReadFrom \/ S!Flush \/ S!Close
  BY <1>1 DEF S!Write, S!ReadFrom, S!Flush, S!Close
<1>2. CASE S!WriteHeader \/ S!WriteFrame \/ S!WriteTop \/ S!ReadTop
  BY <1>2 DEF S!WriteHeader, S!WriteFrame, S!WriteTop, S!ReadTop, S!Fails
<1>3. CASE S!ReturnCall
  BY <1>3 DEF S!ReturnCall, S!InCall, S!Place
<1>4. CASE S!Release \/ S!WriteTrailer \/ S!CloseReturns
  BY <1>4 DEF S!Release, S!WriteTrailer, S!CloseReturns
<1>. QED  BY <1>1, <1>2, <1>3, <1>4 DEF S!Next

LEMMA SerialFrame ==
  ASSUME S!Types, S!InCall, S!Books, S!FrameGrows, S!Next
  PROVE  S!FrameGrows'
<1>0. S!Good' => S!Good
  BY SerialGood
<1>1. S!Complete => sSrcNil /\ sPc \in {"closed", "idle"}
  BY DEF S!Complete, S!FrameGrows
<1>2. CASE sOut' = sOut
  <2>1. /\ S!Bad' = S!Bad /\ S!Sound' = S!Sound /\ (S!Complete' <=> S!Complete) /\ S!Tip' = S!Tip
    BY <1>2 DEF S!Bad, S!Sound, S!Complete, S!Tip
  <2>2. sSrcMark' = sSrcMark
    BY <1>2 DEF S!Next, S!Write, S!ReadFrom, S!Flush, S!Close, S!WriteHeader, S!WriteFrame, S!WriteTop,
       S!ReadTop, S!ReturnCall, S!Release, S!WriteTrailer, S!CloseReturns, S!Emit, S!Types
  <2>3. ASSUME S!Complete  PROVE sTaken' = sTaken /\ sSrcNil' /\ sPc' \in {"closed", "idle"}
    BY <1>1, <2>3 DEF S!Next, S!Write, S!ReadFrom, S!Flush, S!Close, S!WriteHeader, S!WriteFrame, S!WriteTop,
       S!ReadTop, S!ReturnCall, S!Release, S!WriteTrailer, S!CloseReturns, S!Enter, S!Refuse, S!InError,
       S!InCall
  <2>4. sPc' # "closed"
    BY <1>2 DEF S!Next, S!Write, S!ReadFrom, S!Flush, S!Close, S!WriteHeader, S!WriteFrame, S!WriteTop,
       S!ReadTop, S!ReturnCall, S!Release, S!WriteTrailer, S!CloseReturns, S!Enter, S!Refuse, S!HeaderThen,
       S!FlushBlk, S!ToFrame, S!Fails, S!Emit, S!Types, S!InCall
  <2>5. \A i \in DOMAIN sOut : sOut[i].k = "end" => S!Complete
    BY DEF S!Complete
  <2>. QED  BY <1>0, <1>2, <2>1, <2>2, <2>3, <2>4, <2>5 DEF S!FrameGrows
<1>3. CASE S!WriteHeader
  <2>1. PICK x \in S!Item : sOut' = Append(sOut, x) /\ x.k \in {"hdr", "bad"} /\ (S!Good' => x.k = "hdr")
    BY <1>3, SerialItems DEF S!WriteHeader, S!Emit, S!Mark, S!Fails, S!Good
  <2>2. sOut = <<>> /\ sSrcMark = 0 /\ sSrcMark' = 0 /\ sPc' # "closed"
    BY <1>3 DEF S!WriteHeader, S!InCall, S!Fails, S!Types
  <2>3. Len(sOut) = 0 /\ S!Bad = {} /\ ~S!Complete
    BY <2>2 DEF S!Bad, S!Complete
  <2>4. /\ Len(sOut') = 1 /\ DOMAIN sOut' = {1} /\ sOut'[1] = x /\ ~S!Complete'
        /\ x.k = "bad" => S!Bad' # {} /\ S!Sound' = {}
        /\ x.k = "hdr" => S!Sound' = {1} /\ S!Bad' = {}
    <3>1. 1 .. 0 = {} /\ 1 .. 0 + 1 = {1} /\ 0 + 1 = 1
      OBVIOUS
    <3>. QED  BY <2>1, <2>3, <3>1, SerialAppend
  <2>5. S!Tip' = 1
    BY <2>4 DEF S!Tip
  <2>. QED  BY <2>1, <2>2, <2>4, <2>5 DEF S!FrameGrows
<1>4. CASE S!WriteFrame /\ sOut' # sOut
  <2>1. PICK x \in S!Item :
          /\ sOut' = Append(sOut, x)
          /\ \/ /\ x.k = "blk" /\ x.lo = sSrcMark /\ x.hi = sSrcMark + sLen
                /\ sSrcMark' = sSrcMark + sLen
             \/ x.k = "bad" /\ sSrcMark' = sSrcMark /\ ~S!Good'
    BY <1>4, SerialItems DEF S!WriteFrame, S!Emit, S!Mark, S!Fails, S!Good, S!Types
  <2>2. sOut # <<>> /\ ~S!Complete /\ sPc' # "closed" /\ 0 < sLen
    BY <1>1, <1>4 DEF S!WriteFrame, S!InCall, S!Fails, S!Types
  <2>3. Len(sOut) >= 1
    BY <2>2 DEF S!Types
  <2>. USE <2>1, <2>3, SerialAppend
  <2>4. ~S!Complete'
    BY <2>2
  <2>5. \A i \in DOMAIN sOut' : sOut'[i].k # "end"
    BY <2>4 DEF S!Complete
  <2>6. CASE S!Bad # {}
    <3>1. S!Bad' # {} /\ S!Sound' = S!Sound /\ \A i \in S!Sound : sOut'[i] = sOut[i]
      BY <2>6
    <3>2. \A i \in S!Sound : i \in 1 .. Len(sOut) /\ (i # 1 => sOut'[i - 1] = sOut[i - 1])
      BY DEF S!Sound
    <3>3. \A i \in S!Sound' :
            /\ (sOut'[i].k = "hdr") = (i = 1)
            /\ sOut'[i].k = "blk" => sOut'[i].lo = (IF i = 2 THEN 0 ELSE sOut'[i - 1].hi)
      BY <3>1, <3>2 DEF S!FrameGrows
    <3>. QED  BY <1>0, <2>2, <2>5, <2>6, <3>1, <3>3 DEF S!FrameGrows
  <2>7. CASE S!Bad = {} /\ x.k = "bad"
    <3>1. S!Bad' # {} /\ S!Sound' = S!Sound /\ S!Sound = 1 .. Len(sOut)
      BY <2>7
    <3>2. \A i \in S!Sound : i \in 1 .. Len(sOut) /\ sOut'[i] = sOut[i] /\ (i # 1 => sOut'[i - 1] = sOut[i - 1])
      BY <3>1
    <3>3. \A i \in S!Sound' :
            /\ (sOut'[i].k = "hdr") = (i = 1)
            /\ sOut'[i].k = "blk" => sOut'[i].lo = (IF i = 2 THEN 0 ELSE sOut'[i - 1].hi)
      BY <3>1, <3>2 DEF S!FrameGrows
    <3>. QED  BY <2>2, <2>5, <2>7, <3>1, <3>3 DEF S!FrameGrows
  <2>8. CASE S!Bad = {} /\ x.k = "blk"
    <3>1. /\ S!Bad' = {} /\ S!Sound' = 1 .. Len(sOut) + 1 /\ S!Sound = 1 .. Len(sOut)
          /\ x.lo = sSrcMark /\ x.hi = sSrcMark + sLen /\ sSrcMark' = sSrcMark + sLen
      BY <2>8
    <3>2. S!Tip = Len(sOut) /\ S!Tip' = Len(sOut) + 1
      BY <2>2, <2>4 DEF S!Tip
    <3>3. sSrcMark = IF Len(sOut) = 1 THEN 0 ELSE sOut[Len(sOut)].hi
      BY <2>2, <2>8, <3>2 DEF S!FrameGrows
    <3>4. ASSUME NEW i \in 1 .. Len(sOut)
          PROVE  /\ (sOut'[i].k = "hdr") = (i = 1)
                 /\ sOut'[i].k = "blk" => /\ sOut'[i].lo = (IF i = 2 THEN 0 ELSE sOut'[i - 1].hi)
                                          /\ sOut'[i].hi <= sSrcMark'
      <4>1. sOut'[i] = sOut[i] /\ (i # 1 => sOut'[i - 1] = sOut[i - 1]) /\ i \in DOMAIN sOut /\ i \in S!Sound
        BY <3>1
      <4>2. sOut[i] \in S!Item
        BY <4>1 DEF S!Types
      <4>5. sOut[i].hi \in Int
        BY <4>2 DEF S!Item
      <4>3. sOut[i].k = "blk" => sOut[i].hi <= sSrcMark
        BY <2>8, <4>1 DEF S!FrameGrows
      <4>4. sOut[i].k = "blk" => sOut[i].hi <= sSrcMark + sLen
        BY <4>5, <4>3 DEF S!Types
      <4>. QED  BY <3>1, <4>1, <4>4 DEF S!FrameGrows
    <3>5. ASSUME NEW i, i = Len(sOut) + 1
          PROVE  /\ (sOut'[i].k = "hdr") = (i = 1)
                 /\ sOut'[i].lo = (IF i = 2 THEN 0 ELSE sOut'[i - 1].hi)
                 /\ sOut'[i].hi <= sSrcMark'
      <4>1. i # 1 /\ sOut'[i] = x /\ i - 1 = Len(sOut) /\ sOut'[i - 1] = sOut[Len(sOut)]
        BY <3>5
      <4>2. Len(sOut) \in Nat /\ (i = 2 <=> Len(sOut) = 1)
        <5>1. Len(sOut) \in Nat
          BY DEF S!Types
        <5>2. \A n \in Nat : n + 1 = 2 <=> n = 1
          OBVIOUS
        <5>. QED  BY <3>5, <5>1, <5>2
      <4>. QED  BY <2>8, <3>1, <3>3, <4>1, <4>2 DEF S!Types
    <3>6. \A i \in DOMAIN sOut' : i \in 1 .. Len(sOut) \/ i = Len(sOut) + 1
      OBVIOUS
    <3>7. S!Tip' > 0 /\ sSrcMark' = IF S!Tip' = 1 THEN 0 ELSE sOut'[S!Tip'].hi
      BY <3>1, <3>2
    <3>8. /\ \A i \in S!Sound' :
                /\ (sOut'[i].k = "hdr") = (i = 1)
                /\ sOut'[i].k = "blk" => sOut'[i].lo = (IF i = 2 THEN 0 ELSE sOut'[i - 1].hi)
          /\ \A i \in DOMAIN sOut' : sOut'[i].k = "blk" => sOut'[i].hi <= sSrcMark'
      BY <3>1, <3>4, <3>5, <3>6
    <3>. QED  BY <2>2, <2>5, <3>1, <3>7, <3>8 DEF S!FrameGrows
  <2>. QED  BY <2>6, <2>7, <2>8
<1>5. CASE S!WriteTrailer
  <2>1. PICK x \in S!Item :
          /\ sOut' = Append(sOut, x)
          /\ \/ x.k = "end" /\ x.hi = sHsum
             \/ x.k = "bad" /\ sErr' # "none"
    BY <1>5, SerialItems DEF S!WriteTrailer, S!Emit, S!Mark, S!Types
  <2>2. /\ S!Good /\ S!Bad = {} /\ sSrcOff = 0 /\ sSrcNil /\ sSrcNil' /\ sPc' = "closed"
        /\ UNCHANGED <<sSrcMark, sTaken>> /\ sOut # <<>> /\ ~S!Complete
    BY <1>1, <1>5 DEF S!WriteTrailer, S!InCall, S!FrameGrows, S!Types
  <2>3. sSrcMark = sTaken /\ (HashOn => sHsum = sTaken)
    BY <1>5, <2>2 DEF S!Books, S!Cached, S!WriteTrailer, S!Types
  <2>4. Len(sOut) >= 1
    BY <2>2 DEF S!Types
  <2>. USE <2>1, <2>4, SerialAppend
  <2>5. S!Tip = Len(sOut)
    BY <2>2 DEF S!Tip
  <2>6. sSrcMark = IF Len(sOut) = 1 THEN 0 ELSE sOut[Len(sOut)].hi
    BY <2>2, <2>5 DEF S!FrameGrows
  <2>7. \A i \in 1 .. Len(sOut) :
          /\ sOut'[i] = sOut[i] /\ (i # 1 => sOut'[i - 1] = sOut[i - 1])
          /\ i \in DOMAIN sOut /\ i \in S!Sound /\ sOut[i].k # "end"
    BY <2>2 DEF S!Complete
  <2>8. \A i \in 1 .. Len(sOut) :
          /\ (sOut'[i].k = "hdr") = (i = 1)
          /\ sOut'[i].k = "blk" => /\ sOut'[i].lo = (IF i = 2 THEN 0 ELSE sOut'[i - 1].hi)
                                   /\ sOut'[i].hi <= sSrcMark'
    BY <2>2, <2>7, SMTT(30) DEF S!FrameGrows
  <2>9. CASE x.k = "bad"
    <3>1. S!Bad' # {} /\ S!Sound' = 1 .. Len(sOut) /\ ~S!Complete'
      BY <2>2, <2>9
    <3>2. \A i \in DOMAIN sOut' : sOut'[i].k # "end"
      BY <3>1 DEF S!Complete
    <3>3. sErr' # "none"
      BY <2>9
    <3>. QED  BY <2>8, <3>1, <3>2, <3>3 DEF S!FrameGrows, S!Good
  <2>10. CASE x.k = "end"
    <3>1. S!Bad' = {} /\ S!Sound' = 1 .. Len(sOut) + 1 /\ S!Complete' /\ x.hi = sHsum
      BY <2>2, <2>10
    <3>2. S!Tip' = Len(sOut) /\ sOut'[Len(sOut)] = sOut[Len(sOut)]
      BY <3>1, <2>7 DEF S!Tip
    <3>3. \A i \in DOMAIN sOut' : i \in 1 .. Len(sOut) \/ (i = Len(sOut) + 1 /\ sOut'[i] = x)
      OBVIOUS
    <3>4. \A i \in S!Sound' :
            /\ (sOut'[i].k = "hdr") = (i = 1)
            /\ sOut'[i].k = "blk" => sOut'[i].lo = (IF i = 2 THEN 0 ELSE sOut'[i - 1].hi)
      BY <2>8, <2>10, <3>1, <3>3
    <3>5. \A i \in DOMAIN sOut' : sOut'[i].k = "blk" => sOut'[i].hi <= sSrcMark'
      BY <2>8, <2>10, <3>3
    <3>6. S!Tip' > 0 /\ sSrcMark' = IF S!Tip' = 1 THEN 0 ELSE sOut'[S!Tip'].hi
      BY <2>2, <2>6, <3>2
    <3>7. \A i \in DOMAIN sOut' : sOut'[i].k = "end" => i = Len(sOut') /\ sOut'[i] = x
      BY <2>7, <3>3
    <3>. QED  BY <2>2, <2>3, <3>1, <3>4, <3>5, <3>6, <3>7 DEF S!FrameGrows
  <2>. QED  BY <2>9, <2>10
<1>6. sOut' = sOut \/ S!WriteHeader \/ S!WriteFrame \/ S!WriteTrailer
  BY DEF S!Next, S!Write, S!ReadFrom, S!Flush, S!Close, S!WriteTop, S!ReadTop, S!ReturnCall, S!Release,
     S!CloseReturns
<1>. QED  BY <1>2, <1>3, <1>4, <1>5, <1>6

\* As long as no Write failed, the frame ends where srcMark is.
LEMMA SerialWritten ==
  ASSUME S!Types, S!InCall, S!FrameGrows, S!Bad = {}
  PROVE  S!Written = sSrcMark
<1>1. sSrcMark \in Nat /\ DOMAIN sOut = 1 .. Len(sOut) /\ Len(sOut) \in Nat /\ S!Sound = DOMAIN sOut
      /\ \A i \in DOMAIN sOut : sOut[i] \in S!Item
  <2>1. sSrcMark \in Nat /\ sOut \in Seq(S!Item)
    BY DEF S!Types
  <2>2. S!Sound = DOMAIN sOut
    BY DEF S!Sound
  <2>. QED  BY <2>1, <2>2
<1>2. \A n \in S!Sent : n \in Int /\ n <= sSrcMark
  BY <1>1 DEF S!Sent, S!FrameGrows, S!Item
<1>3. sSrcMark \in S!Sent
  <2>1. CASE sOut = <<>>
    BY <2>1 DEF S!InCall, S!Sent
  <2>2. CASE sOut # <<>> /\ S!Tip = 1
    BY <2>2 DEF S!FrameGrows, S!Sent
  <2>3. CASE sOut # <<>> /\ S!Tip # 1
    <3>1. sSrcMark = sOut[S!Tip].hi /\ S!Tip > 0
      BY <2>3 DEF S!FrameGrows
    <3>2. S!Tip \in DOMAIN sOut /\ (S!Complete => S!Tip # Len(sOut))
      <4>1. Len(sOut) \in Nat /\ DOMAIN sOut = 1 .. Len(sOut)
        BY <1>1
      <4>2. S!Tip = IF S!Complete THEN Len(sOut) - 1 ELSE Len(sOut)
        BY DEF S!Tip
      <4>3. CASE S!Complete
        <5>1. S!Tip = Len(sOut) - 1 /\ S!Tip > 0
          BY <3>1, <4>2, <4>3
        <5>2. S!Tip \in DOMAIN sOut /\ S!Tip # Len(sOut)
          <6>1. \A n \in Nat : n - 1 > 0 => n - 1 \in 1 .. n /\ n - 1 # n
            OBVIOUS
          <6>. QED  BY <4>1, <5>1, <6>1
        <5>. QED  BY <5>2
      <4>4. CASE ~S!Complete
        BY <3>1, <4>1, <4>2, <4>4
      <4>. QED  BY <4>3, <4>4
    <3>3. sOut[S!Tip].k # "end"
      BY <3>2 DEF S!FrameGrows, S!Complete
    <3>4. sOut[S!Tip].k # "hdr"
      BY <1>1, <2>3, <3>2 DEF S!FrameGrows
    <3>5. sOut[S!Tip].k # "bad"
      BY <3>2 DEF S!Bad
    <3>6. sOut[S!Tip].k = "blk"
      BY <1>1, <3>2, <3>3, <3>4, <3>5 DEF S!Item
    <3>. QED  BY <1>1, <3>1, <3>2, <3>6 DEF S!Sent
  <2>. QED  BY <2>1, <2>2, <2>3
<1>4. \A n \in S!Sent : (\A m \in S!Sent : m <= n) => n = sSrcMark
  BY <1>1, <1>2, <1>3
<1>. QED  BY <1>2, <1>3, <1>4 DEF S!Written

LEMMA SerialWrittenNext == (S!FrameInv /\ S!Bad = {} => S!Written = sSrcMark)'
<1>1. S!FrameInv /\ S!Bad = {} => S!Written = sSrcMark
  BY SerialWritten DEF S!FrameInv
<1>. QED  BY <1>1, PTL

LEMMA SerialExact ==
  ASSUME S!FrameInv
  PROVE  FrameExact
<1>. USE DEF S!FrameInv
<1>1. ASSUME NEW i \in DOMAIN sOut, sOut[i].k = "end"
      PROVE  i = Len(sOut) /\ S!Bad = {} /\ S!Written = sTaken /\ (HashOn => sOut[i].hi = sTaken)
  BY <1>1, SerialWritten DEF S!FrameGrows
<1>. QED  BY <1>1 DEF FrameExact, S!FrameExact, S!FrameGrows

\* Each step is one of the writer that was made.
LEMMA OneWriter ==
  ASSUME [Step]_<<parallel, vars, serialVars>>
  PROVE  /\ parallel' = parallel
         /\ \/ parallel /\ Next /\ UNCHANGED serialVars
            \/ ~parallel /\ S!Next /\ UNCHANGED vars
            \/ UNCHANGED <<vars, serialVars>>
BY DEF Step

LEMMA SerialInit == NewWriter => S!FrameInv
<1>. SUFFICES ASSUME NewWriter  PROVE S!FrameInv
  OBVIOUS
<1>1. S!Init
  BY DEF NewWriter
<1>2. S!Types
  <2>1. sOut = <<>> /\ sOut \in Seq(S!Item)
    BY <1>1 DEF S!Init
  <2>2. -1 \in -1 .. BlkSz
    BY BlkSzAssumption
  <2>3. /\ sPc = "idle" /\ sRetTo = "write" /\ sCall = "new" /\ sRet = "none" /\ sState = "none"
        /\ sErr = "none" /\ sLeft = 0 /\ sLen = 0 /\ sTaken = 0 /\ sSrcOff = -1 /\ sSrcMark = 0
        /\ sSrcNil = FALSE /\ sHsum = 0
    BY <1>1 DEF S!Init
  <2>4. sRet \in S!Errors /\ sState \in S!Errors /\ sErr \in S!Errors
    BY <2>3 DEF S!Errors
  <2>5. sSrcOff \in -1 .. BlkSz /\ sSrcMark \in Nat /\ sHsum \in Int
        /\ sLeft \in Nat /\ sLen \in Nat /\ sTaken \in Nat
    BY <2>2, <2>3
  <2>6. sSrcNil \in BOOLEAN
    BY <2>3
  <2>7. /\ sPc \in {"idle", "hdr", "frame", "write", "read", "return", "release", "trl", "closed"}
        /\ sRetTo \in {"write", "read", "return", "release"}
        /\ sCall \in {"new", "write", "readfrom", "flush", "close"}
    BY <2>3
  <2>. QED  BY <2>1, <2>4, <2>5, <2>6, <2>7 DEF S!Types
<1>5. S!InCall /\ S!Books
  BY <1>1 DEF S!Init, S!InCall, S!Place, S!Good, S!Books, S!Cached
<1>3. sOut = <<>> /\ DOMAIN sOut = {} /\ S!Bad = {} /\ S!Sound = {} /\ sPc # "closed"
  BY <1>1 DEF S!Init, S!Bad, S!Sound
<1>4. S!FrameGrows
  BY <1>3 DEF S!FrameGrows
<1>. QED  BY <1>2, <1>4, <1>5 DEF S!FrameInv

LEMMA SerialKept ==
  ASSUME S!FrameInv, UNCHANGED serialVars
  PROVE  S!FrameInv'
<1>. USE DEF serialVars, S!FrameInv
<1>1. S!Types' /\ S!InCall' /\ S!Books'
  BY DEF S!Types, S!InCall, S!Place, S!Good, S!Books, S!Cached
<1>2. S!Bad' = S!Bad /\ S!Sound' = S!Sound /\ (S!Complete' <=> S!Complete) /\ S!Tip' = S!Tip
  BY DEF S!Bad, S!Sound, S!Complete, S!Tip
<1>3. S!FrameGrows'
  BY <1>2 DEF S!FrameGrows, S!Good
<1>. QED  BY <1>1, <1>3

LEMMA SerialStep ==
  ASSUME S!FrameInv, [Step]_<<parallel, vars, serialVars>>
  PROVE  S!FrameInv'
<1>1. CASE S!Next
  BY <1>1, SerialTypes, SerialInCall, SerialBooks, SerialFrame DEF S!FrameInv
<1>. QED  BY <1>1, OneWriter, SerialKept

LEMMA SerialHolds == WriterProcess => []S!FrameInv
<1>1. S!FrameInv /\ [Step]_<<parallel, vars, serialVars>> => S!FrameInv'
  BY SerialStep
<1>. QED  BY <1>1, SerialInit, PTL DEF WriterProcess

\* The serial writer's blocks follow each other without a gap or a repetition
\* until a Write fails, and an end mark is behind every byte consumed with the
\* hash of them all: for any calls in any order and any failures, a failed
\* compression whose block Close tries again included (sync/writer.go).
THEOREM FrameIsExact == WriterProcess => []FrameExact
<1>1. S!FrameInv => FrameExact
  BY SerialExact
<1>. QED  BY <1>1, SerialHolds, PTL

\* The steps of the parallel writer are its own in either case.
LEMMA ParallelSpec == WriterProcess => Spec
<1>1. NewWriter => Init
  BY DEF NewWriter
<1>2. [Step]_<<parallel, vars, serialVars>> => [Next]_vars
  BY DEF Step
<1>. QED  BY <1>1, <1>2, PTL DEF WriterProcess, Spec

-----------------------------------------------------------------------------
(* What the caller sees of the serial writer *)

SHeader == sOut # <<>> /\ sOut[1].k = "hdr"
SFrame  == IF S!Bad # {} THEN "broken" ELSE IF S!Complete THEN "complete" ELSE "open"
SError  == IF sState = "none" THEN sErr ELSE sState
SClosed == sSrcNil /\ sPc = "idle"

\* The steps of WriterSpec, as the serial writer takes them.
LEMMA SerialView ==
  ASSUME parallel = FALSE, parallel' = FALSE
  PROVE  /\ /\ UNCHANGED <<sTaken, SHeader, S!Written, SFrame, SError, SClosed, sCall, sRet>>
            => UNCHANGED Promise!vars
         /\ /\ sCall' \in {"write", "readfrom", "flush", "close"} /\ UNCHANGED <<sTaken, SHeader, S!Written, SFrame, SError, SClosed, sRet>>
            => Promise!Next
         /\ /\ sCall \in {"write", "readfrom"} /\ ~SClosed /\ sTaken' \in Nat /\ sTaken' >= sTaken
            /\ (SError' = SError \/ SError = "none") /\ UNCHANGED <<SHeader, S!Written, SFrame, SClosed, sCall, sRet>>
            => Promise!Next
         /\ /\ SFrame = "open" /\ ~SHeader /\ SHeader' = TRUE /\ UNCHANGED <<sTaken, S!Written, SFrame, SError, SClosed, sCall, sRet>>
            => Promise!Next
         /\ /\ SFrame = "open" /\ SHeader /\ S!Written' \in Nat /\ S!Written < S!Written' /\ S!Written' <= sTaken /\ UNCHANGED <<sTaken, SHeader, SFrame, SError, SClosed, sCall, sRet>>
            => Promise!Next
         /\ /\ SFrame = "open" /\ SHeader /\ S!Written = sTaken /\ SError = "none" /\ sCall = "close" /\ SFrame' = "complete"
            /\ UNCHANGED <<sTaken, SHeader, S!Written, SError, SClosed, sCall, sRet>>
            => Promise!Next
         /\ /\ SFrame = "open" /\ SFrame' = "broken" /\ (SError' = SError \/ SError = "none") /\ UNCHANGED <<sTaken, SHeader, S!Written, SClosed, sCall, sRet>>
            => Promise!Next
         /\ /\ SError = "none" /\ SError' \notin {"none", "closed"} /\ SFrame # "complete" /\ UNCHANGED <<sTaken, SHeader, S!Written, SFrame, SClosed, sCall, sRet>>
            => Promise!Next
         /\ /\ (sCall' = sCall \/ SError # "none") /\ sRet' = SError /\ UNCHANGED <<sTaken, SHeader, S!Written, SFrame, SError, SClosed>>
            /\ (sCall' \in {"write", "readfrom"} \/ (SError # "none" /\ sCall' \in {"flush", "close"}))
            => Promise!Next
         /\ /\ sCall = "flush" /\ S!Written = sTaken /\ (sTaken = 0 \/ (SError = "none" /\ SFrame # "broken")) /\ sRet' = "none"
            /\ UNCHANGED <<sTaken, SHeader, S!Written, SFrame, SError, SClosed, sCall>>
            => Promise!Next
         /\ /\ sCall = "close" /\ ~SClosed /\ SClosed' = TRUE /\ UNCHANGED <<sTaken, SHeader, S!Written, SFrame, sCall>>
            /\ IF SError = "none" THEN SFrame = "complete" /\ sRet' = "none" /\ SError' = "closed"
               ELSE sRet' \in {"none", SError} /\ SError' = SError
            => Promise!Next
<1>0. /\ Either(Accepted,
                sTaken) = sTaken
      /\ Either(out # <<>> /\ out[1].k = "hdr",
                sOut # <<>> /\ sOut[1].k = "hdr") = SHeader
      /\ Either(Written,
                S!Written) = S!Written
      /\ Either(IF Broken THEN "broken" ELSE IF Complete THEN "complete" ELSE "open",
                IF S!Bad # {} THEN "broken" ELSE IF S!Complete THEN "complete" ELSE "open") = SFrame
      /\ Either(state,
                IF sState = "none" THEN sErr ELSE sState) = SError
      /\ Either(srcNil,
                sSrcNil /\ sPc = "idle") = SClosed
      /\ Either(call,
                sCall) = sCall
      /\ Either(ret,
                sRet) = sRet
  BY DEF Either, SHeader, SFrame, SError, SClosed
<1>1. /\ Either(Accepted,
                sTaken)' = sTaken'
      /\ Either(out # <<>> /\ out[1].k = "hdr",
                sOut # <<>> /\ sOut[1].k = "hdr")' = SHeader'
      /\ Either(Written,
                S!Written)' = S!Written'
      /\ Either(IF Broken THEN "broken" ELSE IF Complete THEN "complete" ELSE "open",
                IF S!Bad # {} THEN "broken" ELSE IF S!Complete THEN "complete" ELSE "open")' = SFrame'
      /\ Either(state,
                IF sState = "none" THEN sErr ELSE sState)' = SError'
      /\ Either(srcNil,
                sSrcNil /\ sPc = "idle")' = SClosed'
      /\ Either(call,
                sCall)' = sCall'
      /\ Either(ret,
                sRet)' = sRet'
  BY DEF Either, SHeader, SFrame, SError, SClosed
<1>2. ASSUME UNCHANGED <<sTaken, SHeader, S!Written, SFrame, SError, SClosed, sCall, sRet>>
      PROVE  UNCHANGED Promise!vars
  BY <1>0, <1>1, <1>2 DEF Promise!vars
<1>3. ASSUME sCall' \in {"write", "readfrom", "flush", "close"} /\ UNCHANGED <<sTaken, SHeader, S!Written, SFrame, SError, SClosed, sRet>>
      PROVE  Promise!Next
  BY <1>0, <1>1, <1>3 DEF Promise!Next, Promise!Begin
<1>4. ASSUME sCall \in {"write", "readfrom"} /\ ~SClosed /\ sTaken' \in Nat /\ sTaken' >= sTaken
            /\ (SError' = SError \/ SError = "none") /\ UNCHANGED <<SHeader, S!Written, SFrame, SClosed, sCall, sRet>>
      PROVE  Promise!Next
  BY <1>0, <1>1, <1>4 DEF Promise!Next, Promise!Accept
<1>5. ASSUME SFrame = "open" /\ ~SHeader /\ SHeader' = TRUE /\ UNCHANGED <<sTaken, S!Written, SFrame, SError, SClosed, sCall, sRet>>
      PROVE  Promise!Next
  BY <1>0, <1>1, <1>5 DEF Promise!Next, Promise!Header
<1>6. ASSUME SFrame = "open" /\ SHeader /\ S!Written' \in Nat /\ S!Written < S!Written' /\ S!Written' <= sTaken /\ UNCHANGED <<sTaken, SHeader, SFrame, SError, SClosed, sCall, sRet>>
      PROVE  Promise!Next
  BY <1>0, <1>1, <1>6 DEF Promise!Next, Promise!Advance
<1>7. ASSUME SFrame = "open" /\ SHeader /\ S!Written = sTaken /\ SError = "none" /\ sCall = "close" /\ SFrame' = "complete"
            /\ UNCHANGED <<sTaken, SHeader, S!Written, SError, SClosed, sCall, sRet>>
      PROVE  Promise!Next
  BY <1>0, <1>1, <1>7 DEF Promise!Next, Promise!Complete
<1>8. ASSUME SFrame = "open" /\ SFrame' = "broken" /\ (SError' = SError \/ SError = "none") /\ UNCHANGED <<sTaken, SHeader, S!Written, SClosed, sCall, sRet>>
      PROVE  Promise!Next
  BY <1>0, <1>1, <1>8 DEF Promise!Next, Promise!Break
<1>9. ASSUME SError = "none" /\ SError' \notin {"none", "closed"} /\ SFrame # "complete" /\ UNCHANGED <<sTaken, SHeader, S!Written, SFrame, SClosed, sCall, sRet>>
      PROVE  Promise!Next
  BY <1>0, <1>1, <1>9 DEF Promise!Next, Promise!Fail
<1>10. ASSUME (sCall' = sCall \/ SError # "none") /\ sRet' = SError /\ UNCHANGED <<sTaken, SHeader, S!Written, SFrame, SError, SClosed>>
            /\ (sCall' \in {"write", "readfrom"} \/ (SError # "none" /\ sCall' \in {"flush", "close"}))
      PROVE  Promise!Next
  BY <1>0, <1>1, <1>10 DEF Promise!Next, Promise!ReturnError
<1>11. ASSUME sCall = "flush" /\ S!Written = sTaken /\ (sTaken = 0 \/ (SError = "none" /\ SFrame # "broken")) /\ sRet' = "none"
            /\ UNCHANGED <<sTaken, SHeader, S!Written, SFrame, SError, SClosed, sCall>>
      PROVE  Promise!Next
  BY <1>0, <1>1, <1>11 DEF Promise!Next, Promise!ReturnFlush
<1>12. ASSUME sCall = "close" /\ ~SClosed /\ SClosed' = TRUE /\ UNCHANGED <<sTaken, SHeader, S!Written, SFrame, sCall>>
            /\ IF SError = "none" THEN SFrame = "complete" /\ sRet' = "none" /\ SError' = "closed"
               ELSE sRet' \in {"none", SError} /\ SError' = SError
      PROVE  Promise!Next
  BY <1>0, <1>1, <1>12 DEF Promise!Next, Promise!ReturnClose
<1>. QED  BY <1>2, <1>3, <1>4, <1>5, <1>6, <1>7, <1>8, <1>9, <1>10, <1>11, <1>12

LEMMA SerialOutSame ==
  ASSUME sOut' = sOut
  PROVE  UNCHANGED <<SHeader, S!Written, SFrame>>
BY DEF SHeader, SFrame, S!Written, S!Sent, S!Sound, S!Bad, S!Complete

\* The blocks that count are not changed by an item that does not count.
LEMMA SerialSentSame ==
  ASSUME S!Types, NEW x \in S!Item, sOut' = Append(sOut, x), S!Bad # {} \/ x.k \in {"bad", "end"}
  PROVE  S!Written' = S!Written
<1>1. \A i \in S!Sound : i \in S!Sound' /\ sOut'[i] = sOut[i]
  BY SerialAppend DEF S!Sound
<1>2. \A i \in S!Sound' : i \in S!Sound \/ sOut'[i].k = "end"
  BY SerialAppend
<1>3. {i \in S!Sound' : sOut'[i].k = "blk"} = {i \in S!Sound : sOut[i].k = "blk"}
  BY <1>1, <1>2
<1>4. S!Sent' = {0} \cup {sOut'[i].hi : i \in {j \in S!Sound' : sOut'[j].k = "blk"}}
  BY DEF S!Sent
<1>5. S!Sent' = {0} \cup {sOut'[i].hi : i \in {j \in S!Sound : sOut[j].k = "blk"}}
  BY <1>3, <1>4
<1>6. {sOut'[i].hi : i \in {j \in S!Sound : sOut[j].k = "blk"}}
      = {sOut[i].hi : i \in {j \in S!Sound : sOut[j].k = "blk"}}
  BY <1>1
<1>7. S!Sent' = S!Sent
  BY <1>5, <1>6, Zenon DEF S!Sent
<1>. QED  BY <1>7 DEF S!Written

LEMMA SerialHeaderSame ==
  ASSUME S!Types, NEW x \in S!Item, sOut' = Append(sOut, x), sOut # <<>>
  PROVE  SHeader' = SHeader
<1>1. Len(sOut) >= 1 /\ sOut' # <<>> /\ sOut'[1] = sOut[1]
  BY DEF S!Types
<1>. QED  BY <1>1 DEF SHeader

\* The header comes first as long as nothing failed.
LEMMA SerialHeader ==
  ASSUME S!Types, S!FrameGrows, S!Bad = {}, sOut # <<>>
  PROVE  SHeader
<1>1. 1 \in DOMAIN sOut
  BY DEF S!Types
<1>2. S!Sound = DOMAIN sOut
  BY DEF S!Sound
<1>. QED  BY <1>1, <1>2 DEF S!FrameGrows, SHeader

\* Calls, and returns.
LEMMA SerialCalls ==
  ASSUME S!FrameInv, parallel = FALSE, parallel' = FALSE,
         S!Write \/ S!ReadFrom \/ S!Flush \/ S!Close
  PROVE  Promise!Next
<1>. USE DEF S!FrameInv, S!Enter, S!Refuse, S!InError, S!HeaderThen, S!FlushBlk
<1>1. UNCHANGED <<sTaken, sOut, sErr, sState, sSrcNil>> /\ sPc = "idle"
  BY DEF S!Write, S!ReadFrom, S!Flush, S!Close
<1>2. UNCHANGED <<sTaken, SHeader, S!Written, SFrame, SError>>
  BY <1>1, SerialOutSame DEF SError
<1>3. sCall' \in {"write", "readfrom", "flush", "close"}
  BY DEF S!Write, S!ReadFrom, S!Flush, S!Close
<1>4. \/ sPc' # "idle" /\ ~sSrcNil /\ UNCHANGED sRet
      \/ sPc' = "idle" /\ sState # "none" /\ sRet' = sState
  BY DEF S!Write, S!ReadFrom, S!Flush, S!Close, S!InCall, S!Types
<1>5. UNCHANGED SClosed
  BY <1>1, <1>4 DEF SClosed
<1>6. CASE UNCHANGED sRet
  BY <1>2, <1>3, <1>5, <1>6, SerialView
<1>7. CASE sState # "none" /\ sRet' = sState
  <2>1. SError # "none" /\ sRet' = SError
    BY <1>7 DEF SError
  <2>2. sCall' \in {"write", "readfrom"} \/ sCall' \in {"flush", "close"}
    BY <1>3
  <2>. QED  BY <1>2, <1>5, <2>1, <2>2, SerialView
<1>. QED  BY <1>4, <1>6, <1>7

LEMMA SerialReturns ==
  ASSUME S!FrameInv, parallel = FALSE, parallel' = FALSE,
         S!ReturnCall \/ S!Release \/ S!CloseReturns
  PROVE  Promise!Next \/ UNCHANGED Promise!vars
<1>. USE DEF S!FrameInv, S!SkipTrailer, S!InError
<1>1. UNCHANGED <<sTaken, sOut, sErr, sCall>>
  BY DEF S!ReturnCall, S!Release, S!CloseReturns
<1>2. UNCHANGED <<sTaken, SHeader, S!Written, SFrame, sCall>>
  BY <1>1, SerialOutSame
<1>3. CASE S!ReturnCall
  <2>1. /\ sPc = "return" /\ sState = "none" /\ ~sSrcNil /\ sSrcNil' = sSrcNil /\ sRet' = sErr /\ sState' = sErr
        /\ sCall \in {"write", "readfrom", "flush"}
    BY <1>3 DEF S!ReturnCall, S!InCall, S!Place
  <2>2. SError = sErr /\ SError' = SError /\ ~SClosed /\ UNCHANGED SClosed
    BY <1>1, <2>1 DEF SError, SClosed
  <2>3. CASE sCall \in {"write", "readfrom"} \/ sErr # "none"
    BY <1>2, <2>1, <2>2, <2>3, SerialView
  <2>4. CASE sCall = "flush" /\ sErr = "none"
    <3>1. S!Good /\ S!Bad = {} /\ sSrcOff <= 0
      BY <2>1, <2>4 DEF S!Good, S!InCall, S!FrameGrows
    <3>2. S!Written = sTaken
      BY <2>1, <3>1, SerialWritten DEF S!Books, S!Cached, S!Types
    <3>3. SFrame # "broken"
      BY <3>1 DEF SFrame
    <3>. QED  BY <1>2, <2>1, <2>2, <2>4, <3>2, <3>3, SerialView
  <2>. QED  BY <2>1, <2>3, <2>4
<1>4. CASE S!Release
  <2>1. sPc = "release" /\ sCall = "close" /\ ~SClosed /\ sSrcNil' = TRUE
    BY <1>4 DEF S!Release, S!InCall, S!Place, SClosed
  <2>2. CASE sPc' = "trl"
    <3>1. UNCHANGED <<sRet, sState>>
      BY <1>4, <2>2 DEF S!Release
    <3>2. UNCHANGED <<SError, SClosed>>
      BY <1>1, <2>1, <2>2, <3>1 DEF SError, SClosed
    <3>. QED  BY <1>2, <3>1, <3>2, SerialView
  <2>3. CASE sPc' = "idle"
    <3>1. SClosed' = TRUE
      BY <2>1, <2>3 DEF SClosed
    <3>2. SError # "none" /\ SError' = SError /\ sRet' \in {"none", SError}
      BY <1>1, <1>4, <2>3 DEF S!Release, SError
    <3>. QED  BY <1>2, <2>1, <3>1, <3>2, SerialView
  <2>. QED  BY <1>4, <2>2, <2>3 DEF S!Release
<1>5. CASE S!CloseReturns
  <2>1. sPc = "closed" /\ sCall = "close" /\ ~SClosed /\ SClosed' = TRUE /\ sState = "none"
    BY <1>5 DEF S!CloseReturns, S!InCall, S!Place, SClosed
  <2>2. SError = sErr /\ sRet' = sErr /\ SError' = (IF sErr = "none" THEN "closed" ELSE sErr)
    BY <1>5, <2>1 DEF S!CloseReturns, SError
  <2>3. ASSUME sErr = "none"  PROVE SFrame = "complete"
    BY <2>1, <2>3 DEF SFrame, S!FrameGrows, S!Good
  <2>. QED  BY <1>2, <2>1, <2>2, <2>3, SerialView
<1>. QED  BY <1>3, <1>4, <1>5

LEMMA SerialTakes ==
  ASSUME S!FrameInv, S!FrameInv', parallel = FALSE, parallel' = FALSE, S!WriteTop \/ S!ReadTop
  PROVE  Promise!Next
<1>. USE DEF S!FrameInv
<1>1. UNCHANGED <<sOut, sState, sCall, sRet, sSrcNil>> /\ sPc \in {"write", "read"}
  BY DEF S!WriteTop, S!ReadTop
<1>2. UNCHANGED <<SHeader, S!Written, SFrame>>
  BY <1>1, SerialOutSame
<1>3. sCall \in {"write", "readfrom"} /\ sState = "none" /\ sErr = "none" /\ ~sSrcNil
  BY <1>1 DEF S!InCall, S!Place
<1>4. ~SClosed /\ UNCHANGED SClosed /\ SError = "none"
  BY <1>1, <1>3 DEF SClosed, SError
<1>5. sTaken' \in Nat /\ sTaken' >= sTaken
  <2>1. CASE S!WriteTop
    BY <2>1, BlkSzAssumption DEF S!WriteTop, S!Types
  <2>2. CASE S!ReadTop
    BY <2>2, BlkSzAssumption DEF S!ReadTop, S!Types
  <2>. QED  BY <2>1, <2>2
<1>. QED  BY <1>1, <1>2, <1>3, <1>4, <1>5, SerialView

\* A Write that fails breaks a frame that was open.
LEMMA SerialBreaks ==
  ASSUME S!FrameInv, S!FrameInv', NEW x \in S!Item, sOut' = Append(sOut, x), x.k = "bad", ~S!Complete
  PROVE  /\ UNCHANGED <<SHeader, S!Written>>
         /\ IF S!Bad = {} THEN SFrame = "open" /\ SFrame' = "broken" ELSE UNCHANGED SFrame
<1>. USE DEF S!FrameInv
<1>1. S!Written' = S!Written
  BY SerialSentSame
<1>2. SHeader' = SHeader
  <2>1. CASE sOut # <<>>
    BY <2>1, SerialHeaderSame
  <2>2. CASE sOut = <<>>
    BY <2>2 DEF SHeader
  <2>. QED  BY <2>1, <2>2
<1>3. S!Bad' # {}
  BY SerialAppend
<1>. QED  BY <1>1, <1>2, <1>3 DEF SFrame

LEMMA SerialWrites ==
  ASSUME S!FrameInv, S!FrameInv', parallel = FALSE, parallel' = FALSE,
         S!WriteHeader \/ S!WriteFrame \/ S!WriteTrailer
  PROVE  Promise!Next \/ UNCHANGED Promise!vars
<1>. USE DEF S!FrameInv
<1>1. /\ UNCHANGED <<sTaken, sCall, sRet, sSrcNil, sState>>
      /\ sPc \in {"hdr", "frame", "trl"} /\ sPc' # "idle"
  BY DEF S!WriteHeader, S!WriteFrame, S!WriteTrailer, S!Fails, S!Types, S!InCall
<1>2. ~SClosed /\ ~SClosed' /\ UNCHANGED SClosed
  BY <1>1 DEF SClosed
<1>3. ~S!Complete /\ (S!Good => S!Bad = {})
  BY <1>1 DEF S!Complete, S!FrameGrows
<1>4. sErr' = sErr \/ sErr' \in {"hdr", "blk", "trl", "cmp"}
  BY DEF S!WriteHeader, S!WriteFrame, S!WriteTrailer, S!Fails
<1>5. sState = "none" => sErr = "none"
  BY <1>1 DEF S!InCall
<1>6. SError' = SError \/ SError = "none"
  BY <1>1, <1>5 DEF SError
<1>7. sErr' = sErr => SError' = SError
  BY <1>1 DEF SError
<1>8. ASSUME NEW x \in S!Item, sOut' = Append(sOut, x), x.k = "bad", S!Bad # {} => sState # "none"
      PROVE  Promise!Next \/ UNCHANGED Promise!vars
  <2>1. CASE S!Bad = {}
    <3>1. UNCHANGED <<SHeader, S!Written>> /\ SFrame = "open" /\ SFrame' = "broken"
      BY <1>3, <1>8, <2>1, SerialBreaks
    <3>. QED  BY <1>1, <1>2, <1>6, <3>1, SerialView
  <2>2. CASE S!Bad # {}
    <3>1. UNCHANGED <<SHeader, S!Written, SFrame>>
      BY <1>3, <1>8, <2>2, SerialBreaks
    <3>2. SError' = SError
      BY <1>1, <1>8, <2>2 DEF SError
    <3>. QED  BY <1>1, <1>2, <3>1, <3>2, SerialView
  <2>. QED  BY <2>1, <2>2
<1>9. CASE S!WriteHeader
  <2>1. sOut = <<>> /\ S!Bad = {} /\ sState = "none"
    BY <1>9 DEF S!WriteHeader, S!InCall, S!Good, S!Bad
  <2>2. PICK x \in S!Item : /\ sOut' = Append(sOut, x)
                            /\ \/ x.k = "bad"
                               \/ x.k = "hdr" /\ sErr' = sErr
    BY <1>9, SerialItems DEF S!WriteHeader, S!Emit, S!Mark
  <2>3. CASE x.k = "hdr" /\ sErr' = sErr
    <3>1. SFrame = "open" /\ ~SHeader /\ S!Written = 0
      BY <1>3, <1>9, <2>1, SerialWritten DEF SFrame, SHeader, S!WriteHeader, S!InCall
    <3>2. sOut' # <<>> /\ sOut'[1] = x /\ S!Bad' = {} /\ ~S!Complete'
      BY <1>3, <2>1, <2>2, <2>3, SerialAppend
    <3>3. SHeader' = TRUE /\ SFrame' = SFrame
      BY <2>3, <3>1, <3>2 DEF SFrame, SHeader
    <3>4. S!Written' = sSrcMark' /\ sSrcMark' = 0
      <4>1. S!Written' = sSrcMark'
        BY <3>2, SerialWrittenNext
      <4>. QED  BY <1>9, <4>1 DEF S!WriteHeader, S!InCall
    <3>. QED  BY <1>1, <1>2, <1>7, <2>3, <3>1, <3>3, <3>4, SerialView
  <2>. QED  BY <1>8, <2>1, <2>2, <2>3
<1>10. CASE S!WriteFrame
  <2>1. sOut # <<>> /\ 0 < sLen
    BY <1>10 DEF S!WriteFrame, S!InCall
  <2>2. S!Bad # {} => sState # "none"
    BY <1>3, <1>5 DEF S!Good
  <2>3. CASE sOut' = sOut /\ sErr' = "cmp"
    <3>1. UNCHANGED <<SHeader, S!Written, SFrame>>
      BY <2>3, SerialOutSame
    <3>2. CASE sState = "none"
      <4>1. SError = "none" /\ SError' = "cmp"
        BY <1>1, <1>5, <2>3, <3>2 DEF SError
      <4>2. SFrame # "complete"
        BY <1>3 DEF SFrame
      <4>. QED  BY <1>1, <1>2, <3>1, <4>1, <4>2, SerialView
    <3>3. CASE sState # "none"
      <4>1. SError' = SError
        BY <1>1, <3>3 DEF SError
      <4>. QED  BY <1>1, <1>2, <3>1, <4>1, SerialView
    <3>. QED  BY <3>2, <3>3
  <2>4. ASSUME sOut' # sOut \/ sErr' # "cmp"
        PROVE  \E x \in S!Item : /\ sOut' = Append(sOut, x)
                                 /\ \/ x.k = "bad"
                                    \/ x.k = "blk" /\ sErr' = sErr /\ sSrcMark' = sSrcMark + sLen
    BY <1>10, <2>4, SerialItems DEF S!WriteFrame, S!Emit, S!Mark, S!Fails, S!Types
  <2>5. ASSUME NEW x \in S!Item, sOut' = Append(sOut, x), x.k = "blk", sErr' = sErr, sSrcMark' = sSrcMark + sLen
        PROVE  Promise!Next \/ UNCHANGED Promise!vars
    <3>1. SHeader' = SHeader /\ SError' = SError /\ ~S!Complete'
      BY <1>3, <1>7, <2>1, <2>5, SerialHeaderSame, SerialAppend
    <3>2. CASE S!Bad # {}
      <4>1. S!Bad' # {} /\ S!Written' = S!Written
        BY <2>5, <3>2, SerialAppend, SerialSentSame
      <4>2. SFrame' = SFrame
        BY <3>2, <4>1 DEF SFrame
      <4>. QED  BY <1>1, <1>2, <3>1, <4>1, <4>2, SerialView
    <3>3. CASE S!Bad = {}
      <4>1. S!Bad' = {} /\ SFrame = "open" /\ SFrame' = SFrame /\ SHeader
        BY <1>3, <2>1, <2>5, <3>1, <3>3, SerialAppend, SerialHeader DEF SFrame
      <4>2. S!Written = sSrcMark
        BY <3>3, SerialWritten
      <4>3. S!Written' = sSrcMark'
        BY <4>1, SerialWrittenNext
      <4>4. /\ S!Written' \in Nat /\ S!Written < S!Written' /\ S!Written' <= sTaken
        BY <1>10, <2>1, <2>5, <4>2, <4>3 DEF S!Types, S!Books, S!Cached, S!WriteFrame
      <4>. QED  BY <1>1, <1>2, <3>1, <4>1, <4>4, SerialView
    <3>. QED  BY <3>2, <3>3
  <2>. QED  BY <1>8, <2>2, <2>3, <2>4, <2>5
<1>11. CASE S!WriteTrailer
  <2>1. /\ S!Good /\ S!Bad = {} /\ sCall = "close" /\ sOut # <<>> /\ sSrcOff = 0
    BY <1>3, <1>11 DEF S!WriteTrailer, S!InCall, S!Place, S!Types
  <2>2. S!Written = sTaken /\ SFrame = "open" /\ SHeader /\ SError = "none"
    <3>1. S!Written = sSrcMark /\ SHeader
      BY <2>1, SerialWritten, SerialHeader
    <3>2. sSrcMark = sTaken
      BY <1>11, <2>1 DEF S!Books, S!Cached, S!Types, S!WriteTrailer
    <3>. QED  BY <1>3, <2>1, <3>1, <3>2 DEF SFrame, SError, S!Good
  <2>3. PICK x \in S!Item : /\ sOut' = Append(sOut, x)
                            /\ \/ x.k = "bad"
                               \/ x.k = "end" /\ sErr' = sErr
    BY <1>11, SerialItems DEF S!WriteTrailer, S!Emit, S!Mark, S!Types
  <2>4. CASE x.k = "end" /\ sErr' = sErr
    <3>1. S!Bad' = {} /\ S!Complete' /\ SHeader' = SHeader /\ S!Written' = S!Written
      BY <2>1, <2>3, <2>4, SerialAppend, SerialHeaderSame, SerialSentSame
    <3>2. SFrame' = "complete"
      BY <3>1 DEF SFrame
    <3>. QED  BY <1>1, <1>2, <1>7, <2>1, <2>2, <2>4, <3>1, <3>2, SerialView
  <2>. QED  BY <1>8, <2>1, <2>3, <2>4
<1>. QED  BY <1>9, <1>10, <1>11

LEMMA SerialPromise ==
  ASSUME S!FrameInv, S!FrameInv', parallel = FALSE, parallel' = FALSE, S!Next
  PROVE  Promise!Next \/ UNCHANGED Promise!vars
BY SerialCalls, SerialReturns, SerialTakes, SerialWrites DEF S!Next

LEMMA SerialRests ==
  ASSUME parallel = FALSE, parallel' = FALSE, UNCHANGED serialVars
  PROVE  UNCHANGED Promise!vars
<1>1. UNCHANGED <<SHeader, S!Written, SFrame>>
  BY SerialOutSame DEF serialVars
<1>2. UNCHANGED <<sTaken, SError, SClosed, sCall, sRet>>
  BY DEF serialVars, SError, SClosed
<1>. QED  BY <1>1, <1>2, SerialView

-----------------------------------------------------------------------------
(* What the caller sees of the parallel writer *)

PHeader == out # <<>> /\ out[1].k = "hdr"
PFrame  == IF Broken THEN "broken" ELSE IF Complete THEN "complete" ELSE "open"

\* The steps of WriterSpec, as the parallel writer takes them.
LEMMA ParallelView ==
  ASSUME parallel = TRUE, parallel' = TRUE
  PROVE  /\ /\ UNCHANGED <<Accepted, PHeader, Written, PFrame, state, srcNil, call, ret>>
            => UNCHANGED Promise!vars
         /\ /\ call' \in {"write", "readfrom", "flush", "close"} /\ UNCHANGED <<Accepted, PHeader, Written, PFrame, state, srcNil, ret>>
            => Promise!Next
         /\ /\ call \in {"write", "readfrom"} /\ ~srcNil /\ Accepted' \in Nat /\ Accepted' >= Accepted
            /\ (state' = state \/ state = "none") /\ UNCHANGED <<PHeader, Written, PFrame, srcNil, call, ret>>
            => Promise!Next
         /\ /\ PFrame = "open" /\ ~PHeader /\ PHeader' = TRUE /\ UNCHANGED <<Accepted, Written, PFrame, state, srcNil, call, ret>>
            => Promise!Next
         /\ /\ PFrame = "open" /\ PHeader /\ Written' \in Nat /\ Written < Written' /\ Written' <= Accepted /\ UNCHANGED <<Accepted, PHeader, PFrame, state, srcNil, call, ret>>
            => Promise!Next
         /\ /\ PFrame = "open" /\ PHeader /\ Written = Accepted /\ state = "none" /\ call = "close" /\ PFrame' = "complete"
            /\ UNCHANGED <<Accepted, PHeader, Written, state, srcNil, call, ret>>
            => Promise!Next
         /\ /\ PFrame = "open" /\ PFrame' = "broken" /\ (state' = state \/ state = "none") /\ UNCHANGED <<Accepted, PHeader, Written, srcNil, call, ret>>
            => Promise!Next
         /\ /\ state = "none" /\ state' \notin {"none", "closed"} /\ PFrame # "complete" /\ UNCHANGED <<Accepted, PHeader, Written, PFrame, srcNil, call, ret>>
            => Promise!Next
         /\ /\ (call' = call \/ state # "none") /\ ret' = state /\ UNCHANGED <<Accepted, PHeader, Written, PFrame, state, srcNil>>
            /\ (call' \in {"write", "readfrom"} \/ (state # "none" /\ call' \in {"flush", "close"}))
            => Promise!Next
         /\ /\ call = "flush" /\ Written = Accepted /\ (Accepted = 0 \/ (state = "none" /\ PFrame # "broken")) /\ ret' = "none"
            /\ UNCHANGED <<Accepted, PHeader, Written, PFrame, state, srcNil, call>>
            => Promise!Next
         /\ /\ call = "close" /\ ~srcNil /\ srcNil' = TRUE /\ UNCHANGED <<Accepted, PHeader, Written, PFrame, call>>
            /\ IF state = "none" THEN PFrame = "complete" /\ ret' = "none" /\ state' = "closed"
               ELSE ret' \in {"none", state} /\ state' = state
            => Promise!Next
<1>0. /\ Either(Accepted,
                sTaken) = Accepted
      /\ Either(out # <<>> /\ out[1].k = "hdr",
                sOut # <<>> /\ sOut[1].k = "hdr") = PHeader
      /\ Either(Written,
                S!Written) = Written
      /\ Either(IF Broken THEN "broken" ELSE IF Complete THEN "complete" ELSE "open",
                IF S!Bad # {} THEN "broken" ELSE IF S!Complete THEN "complete" ELSE "open") = PFrame
      /\ Either(state,
                IF sState = "none" THEN sErr ELSE sState) = state
      /\ Either(srcNil,
                sSrcNil /\ sPc = "idle") = srcNil
      /\ Either(call,
                sCall) = call
      /\ Either(ret,
                sRet) = ret
  BY DEF Either, PHeader, PFrame
<1>1. /\ Either(Accepted,
                sTaken)' = Accepted'
      /\ Either(out # <<>> /\ out[1].k = "hdr",
                sOut # <<>> /\ sOut[1].k = "hdr")' = PHeader'
      /\ Either(Written,
                S!Written)' = Written'
      /\ Either(IF Broken THEN "broken" ELSE IF Complete THEN "complete" ELSE "open",
                IF S!Bad # {} THEN "broken" ELSE IF S!Complete THEN "complete" ELSE "open")' = PFrame'
      /\ Either(state,
                IF sState = "none" THEN sErr ELSE sState)' = state'
      /\ Either(srcNil,
                sSrcNil /\ sPc = "idle")' = srcNil'
      /\ Either(call,
                sCall)' = call'
      /\ Either(ret,
                sRet)' = ret'
  BY DEF Either, PHeader, PFrame
<1>2. ASSUME UNCHANGED <<Accepted, PHeader, Written, PFrame, state, srcNil, call, ret>>
      PROVE  UNCHANGED Promise!vars
  BY <1>0, <1>1, <1>2 DEF Promise!vars
<1>3. ASSUME call' \in {"write", "readfrom", "flush", "close"} /\ UNCHANGED <<Accepted, PHeader, Written, PFrame, state, srcNil, ret>>
      PROVE  Promise!Next
  BY <1>0, <1>1, <1>3 DEF Promise!Next, Promise!Begin
<1>4. ASSUME call \in {"write", "readfrom"} /\ ~srcNil /\ Accepted' \in Nat /\ Accepted' >= Accepted
            /\ (state' = state \/ state = "none") /\ UNCHANGED <<PHeader, Written, PFrame, srcNil, call, ret>>
      PROVE  Promise!Next
  BY <1>0, <1>1, <1>4 DEF Promise!Next, Promise!Accept
<1>5. ASSUME PFrame = "open" /\ ~PHeader /\ PHeader' = TRUE /\ UNCHANGED <<Accepted, Written, PFrame, state, srcNil, call, ret>>
      PROVE  Promise!Next
  BY <1>0, <1>1, <1>5 DEF Promise!Next, Promise!Header
<1>6. ASSUME PFrame = "open" /\ PHeader /\ Written' \in Nat /\ Written < Written' /\ Written' <= Accepted /\ UNCHANGED <<Accepted, PHeader, PFrame, state, srcNil, call, ret>>
      PROVE  Promise!Next
  BY <1>0, <1>1, <1>6 DEF Promise!Next, Promise!Advance
<1>7. ASSUME PFrame = "open" /\ PHeader /\ Written = Accepted /\ state = "none" /\ call = "close" /\ PFrame' = "complete"
            /\ UNCHANGED <<Accepted, PHeader, Written, state, srcNil, call, ret>>
      PROVE  Promise!Next
  BY <1>0, <1>1, <1>7 DEF Promise!Next, Promise!Complete
<1>8. ASSUME PFrame = "open" /\ PFrame' = "broken" /\ (state' = state \/ state = "none") /\ UNCHANGED <<Accepted, PHeader, Written, srcNil, call, ret>>
      PROVE  Promise!Next
  BY <1>0, <1>1, <1>8 DEF Promise!Next, Promise!Break
<1>9. ASSUME state = "none" /\ state' \notin {"none", "closed"} /\ PFrame # "complete" /\ UNCHANGED <<Accepted, PHeader, Written, PFrame, srcNil, call, ret>>
      PROVE  Promise!Next
  BY <1>0, <1>1, <1>9 DEF Promise!Next, Promise!Fail
<1>10. ASSUME (call' = call \/ state # "none") /\ ret' = state /\ UNCHANGED <<Accepted, PHeader, Written, PFrame, state, srcNil>>
            /\ (call' \in {"write", "readfrom"} \/ (state # "none" /\ call' \in {"flush", "close"}))
      PROVE  Promise!Next
  BY <1>0, <1>1, <1>10 DEF Promise!Next, Promise!ReturnError
<1>11. ASSUME call = "flush" /\ Written = Accepted /\ (Accepted = 0 \/ (state = "none" /\ PFrame # "broken")) /\ ret' = "none"
            /\ UNCHANGED <<Accepted, PHeader, Written, PFrame, state, srcNil, call>>
      PROVE  Promise!Next
  BY <1>0, <1>1, <1>11 DEF Promise!Next, Promise!ReturnFlush
<1>12. ASSUME call = "close" /\ ~srcNil /\ srcNil' = TRUE /\ UNCHANGED <<Accepted, PHeader, Written, PFrame, call>>
            /\ IF state = "none" THEN PFrame = "complete" /\ ret' = "none" /\ state' = "closed"
               ELSE ret' \in {"none", state} /\ state' = state
      PROVE  Promise!Next
  BY <1>0, <1>1, <1>12 DEF Promise!Next, Promise!ReturnClose
<1>. QED  BY <1>2, <1>3, <1>4, <1>5, <1>6, <1>7, <1>8, <1>9, <1>10, <1>11, <1>12

LEMMA ParallelOutSame ==
  ASSUME out' = out
  PROVE  UNCHANGED <<PHeader, Written, PFrame>>
BY DEF PHeader, PFrame, Written, BlkAt, Broken, Complete

\* Blocks are queued in stream order, and each ends where the next begins.
LEMMA StartsStep ==
  ASSUME TypeOK, StartsRise, [Next]_vars
  PROVE  StartsRise'
<1>. USE DEF TypeOK, CallerTypeOK
<1>1. CASE starts' = starts
  BY <1>1 DEF StartsRise
<1>2. CASE NextBlk
  <2>1. starts' = Append(starts, Accepted) /\ Accepted \in Nat /\ Start \in Nat /\ Start <= Accepted
    BY <1>2, Positions DEF NextBlk, Accepted
  <2>2. /\ Len(starts) \in Nat /\ DOMAIN starts = 1 .. Len(starts) /\ 0 < Len(starts)
        /\ DOMAIN starts' = 1 .. Len(starts) + 1 /\ starts'[Len(starts) + 1] = Accepted
        /\ \A i \in 1 .. Len(starts) : starts'[i] = starts[i] /\ starts[i] \in Nat
    BY <2>1
  <2>3. \A i \in 1 .. Len(starts) : starts[i] <= Start
    BY <2>2 DEF StartsRise, Start
  <2>4. \A i \in 1 .. Len(starts) : starts[i] <= Accepted
    BY <2>1, <2>2, <2>3
  <2>5. ASSUME NEW i \in DOMAIN starts', NEW j \in DOMAIN starts', i <= j
        PROVE  starts'[i] <= starts'[j]
    <3>1. CASE j = Len(starts) + 1
      BY <2>1, <2>2, <2>4, <3>1
    <3>2. CASE j # Len(starts) + 1
      BY <2>2, <2>5, <3>2 DEF StartsRise
    <3>. QED  BY <3>1, <3>2
  <2>. QED  BY <2>5 DEF StartsRise
<1>3. starts' = starts \/ NextBlk
  <2>. USE DEF othersOfCaller, othersOfHasher, callerVars, callFields
  <2>1. CASE Call
    BY <2>1 DEF Call, Write, ReadFrom, Flush, Close
  <2>2. CASE CallerStep
    BY <2>2 DEF CallerStep, WriteTop, Copy, ReadTop, Fill, FlushNothing, FlushReturns, CloseChans,
       JoinTasks, CloseReturns, QueueHash, Acquire
  <2>3. ASSUME NEW w \in Workers, Task(w)  PROVE starts' = starts
    BY <2>3 DEF Task, TaskStarts, Compress, FreeSrc, QueueFree, DropToken, TaskExits
  <2>4. CASE Loop \/ UNCHANGED vars
    BY <2>4, LoopCaller DEF vars
  <2>5. CASE Hasher
    BY <2>5 DEF Hasher, HashTakes, HashUses, HashExits
  <2>6. CASE Meet
    BY <2>6 DEF Meet, RecvFlush, Reply, SendBlk, RecvOut
  <2>. QED  BY <2>1, <2>2, <2>3, <2>4, <2>5, <2>6 DEF Next
<1>. QED  BY <1>1, <1>2, <1>3

LEMMA StartsHold == Spec => []StartsRise
<1>1. Init => StartsRise
  BY DEF Init, StartsRise
<1>2. TypeOK /\ StartsRise /\ [Next]_vars => StartsRise'
  BY StartsStep
<1>. QED  BY <1>1, <1>2, TypeCorrect, PTL DEF Spec

\* A block ends behind its start, and before what was accepted.
LEMMA BlkEnds ==
  ASSUME TypeOK, StartsRise, NEW i \in Nat, i < Len(starts)
  PROVE  /\ EndOf(i) \in Nat /\ starts[i + 1] <= EndOf(i) /\ EndOf(i) <= Accepted
         /\ i + 1 < Len(starts) => EndOf(i) = starts[i + 2]
<1>1. /\ starts \in Seq(Nat) /\ Len(starts) \in Nat /\ srcOff \in Nat
      /\ Accepted = starts[Len(starts)] + srcOff /\ Accepted \in Nat
  BY BlkSzAssumption, Positions DEF TypeOK, CallerTypeOK, Accepted, Start
<1>2. i + 1 \in 1 .. Len(starts) /\ Len(starts) \in 1 .. Len(starts)
  BY <1>1
<1>3. starts[i + 1] \in Nat /\ starts[Len(starts)] \in Nat
  BY <1>1, <1>2
<1>4. CASE i + 2 <= Len(starts)
  <2>1. i + 2 \in 1 .. Len(starts) /\ EndOf(i) = starts[i + 2] /\ starts[i + 2] \in Nat
    BY <1>1, <1>4 DEF EndOf
  <2>2. starts[i + 1] <= starts[i + 2] /\ starts[i + 2] <= starts[Len(starts)]
    BY <1>1, <1>2, <2>1 DEF StartsRise
  <2>. QED  BY <1>1, <1>3, <2>1, <2>2
<1>5. CASE ~(i + 2 <= Len(starts))
  <2>1. EndOf(i) = Accepted /\ i + 1 = Len(starts)
    BY <1>1, <1>5 DEF EndOf
  <2>. QED  BY <1>1, <1>3, <2>1
<1>. QED  BY <1>4, <1>5

\* The bytes written are those of the last block.
LEMMA WrittenLast ==
  ASSUME NEW n \in Nat, BlkAt = 2 .. n
  PROVE  Written = IF n < 2 THEN 0 ELSE out[n].hi
<1>1. CASE n < 2
  <2>1. BlkAt = {}
    BY <1>1
  <2>. QED  BY <1>1, <2>1 DEF Written
<1>2. CASE ~(n < 2)
  <2>1. n \in BlkAt /\ \A j \in BlkAt : j <= n
    BY <1>2
  <2>2. \A i \in BlkAt : (\A j \in BlkAt : j <= i) => i = n
    BY <2>1
  <2>3. (CHOOSE i \in BlkAt : \A j \in BlkAt : j <= i) = n
    BY <2>1, <2>2
  <2>. QED  BY <1>2, <2>1, <2>3 DEF Written
<1>. QED  BY <1>1, <1>2

LEMMA WrittenLastNext == (\A n \in Nat : BlkAt = 2 .. n => Written = IF n < 2 THEN 0 ELSE out[n].hi)'
<1>1. \A n \in Nat : BlkAt = 2 .. n => Written = IF n < 2 THEN 0 ELSE out[n].hi
  BY WrittenLast
<1>. QED  BY <1>1, PTL

\* An item that is not a block adds no bytes.
LEMMA WrittenSame ==
  ASSUME TypeOK, NEW n \in Nat, BlkAt = 2 .. n, NEW x, x.k # "blk", out' = Append(out, x)
  PROVE  Written' = Written
<1>1. /\ Len(out) \in Nat /\ DOMAIN out = 1 .. Len(out) /\ DOMAIN out' = 1 .. Len(out) + 1
      /\ out'[Len(out) + 1] = x /\ \A i \in 1 .. Len(out) : out'[i] = out[i]
  BY DEF TypeOK, LoopTypeOK
<1>2. BlkAt' = BlkAt /\ \A i \in BlkAt : out'[i] = out[i]
  BY <1>1 DEF BlkAt
<1>3. Written' = (IF n < 2 THEN 0 ELSE out'[n].hi) /\ Written = (IF n < 2 THEN 0 ELSE out[n].hi)
  BY <1>2, WrittenLast, WrittenLastNext
<1>4. ~(n < 2) => n \in BlkAt
  OBVIOUS
<1>. QED  BY <1>2, <1>3, <1>4

\* Calls, and the tops of their loops.
LEMMA ParallelCalls ==
  ASSUME TypeOK, PipeInv, parallel = TRUE, parallel' = TRUE,
         Write \/ ReadFrom \/ Flush \/ Close \/ WriteTop \/ ReadTop
  PROVE  Promise!Next \/ UNCHANGED Promise!vars
<1>. USE DEF PipeInv, CallOf, CallPhase, othersOfCaller, loopVars, loopFields, sharedVars, Enter,
             ReportReturn, FlushBlk, EnterFlush
<1>1. UNCHANGED <<starts, srcOff, out, state, srcNil>>
  BY DEF Write, ReadFrom, Flush, Close, WriteTop, ReadTop
<1>2. UNCHANGED <<Accepted, PHeader, Written, PFrame, state, srcNil>>
  BY <1>1, ParallelOutSame DEF Accepted, Start
<1>3. CASE Write \/ ReadFrom \/ Flush \/ Close
  <2>1. call' \in {"write", "readfrom", "flush", "close"}
    BY <1>3 DEF Write, ReadFrom, Flush, Close
  <2>2. UNCHANGED ret \/ (ret' = state /\ state # "none")
    BY <1>3 DEF Write, ReadFrom, Flush, Close
  <2>3. CASE UNCHANGED ret
    BY <1>2, <2>1, <2>3, ParallelView
  <2>4. CASE ret' = state /\ state # "none"
    <3>1. call' \in {"write", "readfrom"} \/ call' \in {"flush", "close"}
      BY <2>1
    <3>. QED  BY <1>2, <2>4, <3>1, ParallelView
  <2>. QED  BY <2>2, <2>3, <2>4
<1>4. CASE WriteTop \/ ReadTop
  <2>1. call \in {"write", "readfrom"} /\ call' = call /\ (UNCHANGED ret \/ ret' = state)
    BY <1>4 DEF WriteTop, ReadTop
  <2>2. CASE UNCHANGED ret
    BY <1>2, <2>1, <2>2, ParallelView
  <2>3. CASE ret' = state
    BY <1>2, <2>1, <2>3, ParallelView
  <2>. QED  BY <2>1, <2>2, <2>3
<1>. QED  BY <1>3, <1>4

\* Bytes are taken.
LEMMA ParallelTakes ==
  ASSUME TypeOK, PipeInv, parallel = TRUE, parallel' = TRUE, Copy \/ Fill
  PROVE  Promise!Next \/ UNCHANGED Promise!vars
<1>. USE DEF PipeInv, CallOf, CallPhase, othersOfCaller, loopVars, loopFields, sharedVars, ReportReturn, EnterFlush
<1>1. UNCHANGED <<starts, out, srcNil, call>> /\ cpc \in {"copy", "fill"}
  BY DEF Copy, Fill
<1>2. UNCHANGED <<PHeader, Written, PFrame>>
  BY <1>1, ParallelOutSame
<1>3. call \in {"write", "readfrom"} /\ ~srcNil
  BY <1>1
<1>4. Accepted = Start + srcOff /\ Accepted' = Start + srcOff' /\ Start \in Nat /\ srcOff \in Nat
  BY <1>1, Positions, BlkSzAssumption DEF Accepted, Start, TypeOK, CallerTypeOK
<1>5. srcOff' \in Nat /\ srcOff' >= srcOff
  <2>1. CASE Copy
    BY <2>1, <1>4, BlkSzAssumption DEF Copy, TypeOK, CallerTypeOK
  <2>2. CASE Fill
    BY <2>2, <1>4, BlkSzAssumption DEF Fill, TypeOK, CallerTypeOK
  <2>. QED  BY <2>1, <2>2
<1>6. Accepted' \in Nat /\ Accepted' >= Accepted
  <2>1. \A a, b, c \in Nat : c >= b => a + c \in Nat /\ a + c >= a + b
    OBVIOUS
  <2>2. Start + srcOff' \in Nat /\ Start + srcOff' >= Start + srcOff
    BY <1>4, <1>5, <2>1
  <2>. QED  BY <1>4, <2>2
<1>7. \/ UNCHANGED ret /\ (state' = state \/ state = "none")
      \/ UNCHANGED <<srcOff, state>> /\ ret' = state
  <2>1. CASE Copy
    BY <2>1 DEF Copy
  <2>2. CASE Fill
    BY <2>2, <1>4 DEF Fill, SetError
  <2>. QED  BY <2>1, <2>2
<1>8. CASE UNCHANGED ret /\ (state' = state \/ state = "none")
  BY <1>1, <1>2, <1>3, <1>6, <1>8, ParallelView
<1>9. CASE UNCHANGED <<srcOff, state>> /\ ret' = state
  <2>1. Accepted' = Accepted
    BY <1>4, <1>9
  <2>. QED  BY <1>1, <1>2, <1>3, <1>9, <2>1, ParallelView
<1>. QED  BY <1>7, <1>8, <1>9

\* writeLoop is in good health: the output is the header and whole blocks.
LEMMA ParallelHealthy ==
  ASSUME TypeOK, OrderInv, Healthy
  PROVE  /\ Len(out) = nextIdx + 1 /\ nextIdx \in Nat /\ DOMAIN out = 1 .. nextIdx + 1
         /\ BlkAt = 2 .. nextIdx + 1 /\ ~Broken /\ ~Complete /\ PHeader /\ PFrame = "open"
<1>1. /\ Len(out) = nextIdx + 1 /\ out[1].k = "hdr" /\ \A i \in 2 .. Len(out) : out[i].k = "blk"
      /\ nextIdx \in Nat /\ DOMAIN out = 1 .. Len(out)
  BY DEF OrderInv, LoopPlace, TypeOK, LoopTypeOK
<1>2. \A i \in DOMAIN out : i = 1 \/ i \in 2 .. nextIdx + 1
  BY <1>1
<1>3. ~Broken /\ ~Complete
  BY <1>1, <1>2 DEF Broken, Complete
<1>4. BlkAt = 2 .. nextIdx + 1
  <2>1. \A i : i \in BlkAt <=> i \in 2 .. nextIdx + 1
    BY <1>1, <1>2 DEF BlkAt
  <2>. QED  BY <2>1
<1>5. PHeader
  BY <1>1 DEF PHeader
<1>. QED  BY <1>1, <1>3, <1>4, <1>5 DEF PFrame

\* Flush and Close return.
LEMMA ParallelReturns ==
  ASSUME TypeOK, OrderInv, OutputInOrder, PipeInv, parallel = TRUE, parallel' = TRUE,
         FlushNothing \/ FlushReturns \/ CloseReturns
  PROVE  Promise!Next \/ UNCHANGED Promise!vars
<1>. USE DEF PipeInv, CallOf, CallPhase, othersOfCaller, loopVars, loopFields, sharedVars, ReportReturn
<1>1. UNCHANGED <<starts, out, call>> /\ cpc \in {"sync", "synced", "joinloop"} /\ srcOff = 0 /\ srcOff' = 0
  BY DEF FlushNothing, FlushReturns, CloseReturns
<1>2. UNCHANGED <<Accepted, PHeader, Written, PFrame, call>>
  BY <1>1, ParallelOutSame DEF Accepted, Start
<1>3. CASE FlushNothing
  <2>1. call = "flush" /\ ret' = "none" /\ UNCHANGED <<state, srcNil>> /\ srcIdx = 0 /\ cpc = "sync"
    BY <1>3 DEF FlushNothing
  <2>2. Accepted = 0
    <3>1. Len(starts) = 1 /\ starts[1] = 0
      BY <2>1 DEF srcIdx, TypeOK, CallerTypeOK
    <3>. QED  BY <1>1, <3>1 DEF Accepted, Start
  <2>3. Written = 0
    <3>1. Sent = 0
      BY <2>1 DEF Sent
    <3>2. \A i \in DOMAIN out : out[i].k # "blk"
      <4>1. \A i \in DOMAIN out : out[i] \in Item
        BY DEF TypeOK, LoopTypeOK
      <4>2. \A i \in DOMAIN out : out[i].idx \in Nat /\ (out[i].k = "blk" => out[i].idx < 0)
        BY <3>1, <4>1 DEF OrderInv, LoopBytes, Item
      <4>3. \A n \in Nat : ~(n < 0)
        OBVIOUS
      <4>. QED  BY <4>2, <4>3
    <3>. QED  BY <3>2 DEF Written, BlkAt
  <2>. QED  BY <1>2, <2>1, <2>2, <2>3, ParallelView
<1>4. CASE FlushReturns
  <2>1. call = "flush" /\ ret' = state /\ UNCHANGED <<state, srcNil>> /\ cpc = "synced"
    BY <1>4 DEF FlushReturns
  <2>2. CASE state # "none"
    BY <1>2, <2>1, <2>2, ParallelView
  <2>3. CASE state = "none"
    <3>1. AllOut /\ lpc = "select"
      BY <2>1, <2>3 DEF FlushedTo
    <3>2. Healthy
      BY <2>3, <3>1 DEF Healthy
    <3>3. Written = Accepted /\ PFrame # "broken"
      BY <3>1, <3>2, ParallelHealthy, AllWritten
    <3>. QED  BY <1>2, <2>1, <2>3, <3>3, ParallelView
  <2>. QED  BY <2>2, <2>3
<1>5. CASE CloseReturns
  <2>1. /\ call = "close" /\ ~srcNil /\ srcNil' = TRUE /\ cpc = "joinloop" /\ "syn" \in chClosed
        /\ ret' = (IF report THEN "none" ELSE state)
        /\ state' = (IF ~report /\ state = "none" THEN "closed" ELSE state)
    BY <1>5 DEF CloseReturns
  <2>2. lpc = "done"
    BY <2>1 DEF ChannelPhase
  <2>3. CASE state = "none"
    <3>1. Complete
      BY <2>2, <2>3 DEF ClosedWith
    <3>2. ~Broken
      <4>1. PICK i \in DOMAIN out : out[i].k = "end"
        BY <3>1 DEF Complete
      <4>2. i = Len(out)
        BY <4>1 DEF OutputInOrder
      <4>3. \A j \in DOMAIN out : out[j].k = "bad" => j = Len(out)
        BY DEF OutputInOrder
      <4>. QED  BY <4>1, <4>2, <4>3 DEF Broken
    <3>3. PFrame = "complete"
      BY <3>1, <3>2 DEF PFrame
    <3>4. ~report
      BY <2>1, <2>3
    <3>5. ret' = "none" /\ state' = "closed"
      BY <2>1, <2>3, <3>4
    <3>. QED  BY <1>2, <2>1, <2>3, <3>3, <3>5, ParallelView
  <2>4. CASE state # "none"
    <3>1. state' = state /\ ret' \in {"none", state}
      BY <2>1, <2>4
    <3>. QED  BY <1>2, <2>1, <2>4, <3>1, ParallelView
  <2>. QED  BY <2>3, <2>4
<1>. QED  BY <1>3, <1>4, <1>5

\* The steps that write nothing, return nothing and take nothing.
LEMMA ParallelQuiet ==
  ASSUME TypeOK, parallel = TRUE, parallel' = TRUE,
         UNCHANGED <<starts, srcOff>> \/ NextBlk, UNCHANGED <<out, state, srcNil, call, ret>>
  PROVE  UNCHANGED Promise!vars
<1>1. UNCHANGED <<PHeader, Written, PFrame>>
  BY ParallelOutSame
<1>2. Accepted' = Accepted
  <2>1. CASE UNCHANGED <<starts, srcOff>>
    BY <2>1 DEF Accepted, Start
  <2>2. CASE NextBlk
    <3>1. starts \in Seq(Nat) /\ starts' = Append(starts, Accepted) /\ srcOff' = 0 /\ Accepted \in Nat
      BY <2>2, Positions DEF NextBlk, TypeOK, CallerTypeOK
    <3>2. starts'[Len(starts')] = Accepted
      BY <3>1
    <3>. QED  BY <3>1, <3>2 DEF Accepted, Start
  <2>. QED  BY <2>1, <2>2
<1>. QED  BY <1>1, <1>2, ParallelView

LEMMA ParallelOthers ==
  ASSUME TypeOK, parallel = TRUE, parallel' = TRUE,
         \/ CloseChans \/ JoinTasks \/ QueueHash \/ Acquire \/ NextBlk
         \/ Meet \/ Hasher \/ UNCHANGED vars \/ \E w \in Workers : Task(w)
         \/ OutClosed \/ Poll \/ More \/ NoReply \/ Drain \/ Drained \/ HashJoined
  PROVE  UNCHANGED Promise!vars
<1>. USE DEF loopVars, loopFields, sharedVars, callFields, callerVars
<1>1. CASE CloseChans \/ JoinTasks \/ QueueHash \/ Acquire \/ NextBlk
  BY <1>1, ParallelQuiet DEF CloseChans, JoinTasks, QueueHash, Acquire, NextBlk
<1>2. CASE Meet
  BY <1>2, ParallelQuiet DEF Meet, RecvFlush, Reply, SendBlk, RecvOut
<1>3. CASE Hasher \/ UNCHANGED vars
  BY <1>3, ParallelQuiet DEF Hasher, HashTakes, HashUses, HashExits, othersOfHasher, vars
<1>4. ASSUME NEW w \in Workers, Task(w)  PROVE UNCHANGED Promise!vars
  BY <1>4, ParallelQuiet DEF Task, TaskStarts, Compress, FreeSrc, QueueFree, DropToken, TaskExits
<1>5. CASE OutClosed \/ Poll \/ More \/ NoReply \/ Drain \/ Drained \/ HashJoined
  BY <1>5, ParallelQuiet DEF OutClosed, Poll, More, NoReply, Drain, Drained, HashJoined
<1>. QED  BY <1>1, <1>2, <1>3, <1>4, <1>5

\* A Write that fails ends a frame that was open.
LEMMA ParallelBreaks ==
  ASSUME TypeOK, NEW n \in Nat, BlkAt = 2 .. n, NEW x, out' = Append(out, x), x.k = "bad"
  PROVE  UNCHANGED <<Written, PHeader>> /\ PFrame' = "broken"
<1>1. /\ Len(out) \in Nat /\ DOMAIN out' = 1 .. Len(out) + 1 /\ out' # <<>>
      /\ out'[Len(out) + 1] = x /\ \A i \in 1 .. Len(out) : out'[i] = out[i]
      /\ (out # <<>> => 1 \in 1 .. Len(out)) /\ (out = <<>> => Len(out) + 1 = 1)
  BY DEF TypeOK, LoopTypeOK
<1>2. Written' = Written
  BY WrittenSame
<1>3. Broken'
  BY <1>1 DEF Broken
<1>4. PHeader' = PHeader
  BY <1>1 DEF PHeader
<1>. QED  BY <1>2, <1>3, <1>4 DEF PFrame

\* The block written begins where the frame ends.
LEMMA BlkFollows ==
  ASSUME TypeOK, OrderInv, OutputInOrder, StartsRise, PipeInv, lpc = "write"
  PROVE  /\ Written = cur.lo /\ cur.lo \in Nat /\ cur.hi \in Nat
         /\ cur.lo <= cur.hi /\ cur.hi <= Accepted
<1>1. Healthy /\ cur.idx = nextIdx /\ BytesOf(cur) /\ starts[1] = 0
  BY DEF Healthy, OrderInv, LoopPlace, LoopBytes, PipeInv, CallPhase
<1>2. /\ nextIdx \in Nat /\ BlkAt = 2 .. nextIdx + 1 /\ DOMAIN out = 1 .. nextIdx + 1
  BY <1>1, ParallelHealthy
<1>3. /\ Len(starts) \in Nat /\ nextIdx < Len(starts) /\ cur.lo = starts[nextIdx + 1] /\ cur.hi = EndOf(nextIdx)
      /\ cur \in Block
  BY <1>1, <1>2 DEF BytesOf, Sent, srcIdx, TypeOK, CallerTypeOK, LoopTypeOK
<1>4. cur.lo \in Nat /\ cur.hi \in Nat /\ cur.lo <= cur.hi /\ cur.hi <= Accepted
  BY <1>2, <1>3, BlkEnds DEF Block
<1>5. Written = cur.lo
  <2>1. Written = IF nextIdx + 1 < 2 THEN 0 ELSE out[nextIdx + 1].hi
    BY <1>2, WrittenLast
  <2>2. CASE nextIdx = 0
    BY <1>1, <1>3, <2>1, <2>2
  <2>3. CASE nextIdx # 0
    <3>1. /\ nextIdx - 1 \in Nat /\ nextIdx - 1 < Len(starts) /\ (nextIdx - 1) + 1 < Len(starts)
          /\ (nextIdx - 1) + 2 = nextIdx + 1 /\ (nextIdx + 1) - 2 = nextIdx - 1
          /\ nextIdx + 1 \in BlkAt /\ ~(nextIdx + 1 < 2)
      BY <1>2, <1>3, <2>3
    <3>2. EndOf(nextIdx - 1) = starts[nextIdx + 1]
      BY <3>1, BlkEnds
    <3>3. \A i : i = nextIdx + 1 => out[i].hi = EndOf(i - 2)
      BY <1>2, <3>1 DEF OutputInOrder, BlkAt
    <3>. QED  BY <1>3, <2>1, <3>1, <3>2, <3>3
  <2>. QED  BY <2>2, <2>3
<1>. QED  BY <1>4, <1>5

LEMMA ParallelWrites ==
  ASSUME TypeOK, OrderInv, OutputInOrder, StartsRise, PipeInv, parallel = TRUE, parallel' = TRUE,
         WriteHeader \/ WriteBlk \/ LoopFails \/ WriteTrailer
  PROVE  Promise!Next \/ UNCHANGED Promise!vars
<1>1. UNCHANGED <<starts, srcOff, srcNil, call, ret, cpc>>
  BY DEF WriteHeader, WriteBlk, LoopFails, WriteTrailer, callerVars, callFields
<1>2. UNCHANGED <<Accepted, srcNil, call, ret>>
  BY <1>1 DEF Accepted, Start
<1>3. state' = state \/ state = "none"
  BY DEF WriteHeader, WriteBlk, LoopFails, WriteTrailer, SetError
<1>4. CASE WriteHeader
  <2>1. out = <<>> /\ DOMAIN out = {} /\ Len(out) = 0
    BY <1>4 DEF WriteHeader, OrderInv, LoopPlace
  <2>2. /\ BlkAt = {} /\ 2 .. 1 = {} /\ BlkAt = 2 .. 1 /\ ~PHeader /\ PFrame = "open"
    BY <2>1 DEF BlkAt, PHeader, PFrame, Broken, Complete
  <2>3. PICK x : out' = Append(out, x) /\ (x.k = "bad" \/ (x.k = "hdr" /\ UNCHANGED state))
    BY <1>4 DEF WriteHeader, Emit, Mark
  <2>4. CASE x.k = "bad"
    <3>1. UNCHANGED <<Written, PHeader>> /\ PFrame' = "broken"
      BY <2>1, <2>2, <2>3, <2>4, ParallelBreaks
    <3>. QED  BY <1>2, <1>3, <2>2, <3>1, ParallelView
  <2>5. CASE x.k = "hdr" /\ UNCHANGED state
    <3>1. out' # <<>> /\ DOMAIN out' = {1} /\ out'[1] = x
      BY <2>1, <2>3
    <3>2. PHeader' = TRUE /\ PFrame' = "open"
      BY <2>5, <3>1 DEF PHeader, PFrame, Broken, Complete
    <3>3. Written' = Written
      BY <2>2, <2>3, <2>5, WrittenSame
    <3>. QED  BY <1>2, <2>2, <2>5, <3>2, <3>3, ParallelView
  <2>. QED  BY <2>3, <2>4, <2>5
<1>5. CASE WriteBlk
  <2>1. lpc = "write" /\ UNCHANGED state /\ Healthy
    BY <1>5 DEF WriteBlk, Healthy
  <2>2. /\ Len(out) = nextIdx + 1 /\ nextIdx \in Nat /\ nextIdx + 1 \in Nat /\ DOMAIN out = 1 .. nextIdx + 1
        /\ BlkAt = 2 .. nextIdx + 1 /\ PHeader /\ PFrame = "open" /\ ~Broken /\ ~Complete
    BY <2>1, ParallelHealthy
  <2>3. CASE out' = out
    BY <1>1, <2>1, <2>3, ParallelQuiet
  <2>4. ASSUME NEW x, out' = Append(out, x), x.k = "bad"
        PROVE  Promise!Next
    <3>1. UNCHANGED <<Written, PHeader>> /\ PFrame' = "broken"
      BY <2>2, <2>4, ParallelBreaks
    <3>. QED  BY <1>2, <1>3, <2>2, <3>1, ParallelView
  <2>5. ASSUME NEW x, out' = Append(out, x), x.k = "blk", x.hi = cur.hi
        PROVE  Promise!Next \/ UNCHANGED Promise!vars
    <3>1. /\ DOMAIN out' = 1 .. nextIdx + 2 /\ out'[nextIdx + 2] = x /\ out' # <<>> /\ nextIdx + 2 \in Nat
          /\ \A i \in 1 .. nextIdx + 1 : out'[i] = out[i]
          /\ 1 \in 1 .. nextIdx + 1 /\ out # <<>> /\ ~(nextIdx + 2 < 2)
      BY <2>2, <2>5 DEF TypeOK, LoopTypeOK
    <3>2. \A i \in 1 .. nextIdx + 2 : i \in 1 .. nextIdx + 1 \/ i = nextIdx + 2
      BY <2>2
    <3>3. BlkAt' = 2 .. nextIdx + 2
      <4>2. \A i : i \in BlkAt' <=> i \in BlkAt \/ i = nextIdx + 2
        BY <2>2, <2>5, <3>1, <3>2 DEF BlkAt
      <4>3. \A i : i \in BlkAt' <=> i \in 2 .. nextIdx + 2
        BY <2>2, <4>2
      <4>. QED  BY <4>3
    <3>4. Written' = cur.hi
      BY <2>5, <3>1, <3>3, WrittenLastNext
    <3>5. ~Broken' /\ ~Complete'
      BY <2>2, <2>5, <3>1, <3>2 DEF Broken, Complete
    <3>6. PHeader' = PHeader /\ PFrame' = PFrame
      BY <2>2, <3>1, <3>5 DEF PHeader, PFrame
    <3>7. Written = cur.lo /\ cur.lo \in Nat /\ cur.hi \in Nat /\ cur.lo <= cur.hi /\ cur.hi <= Accepted
      BY <2>1, BlkFollows
    <3>8. CASE cur.lo = cur.hi
      <4>1. Written' = Written
        BY <3>4, <3>7, <3>8
      <4>. QED  BY <1>2, <2>1, <3>6, <4>1, ParallelView
    <3>9. CASE cur.lo # cur.hi
      <4>1. Written' \in Nat /\ Written < Written' /\ Written' <= Accepted
        BY <3>4, <3>7, <3>9
      <4>. QED  BY <1>2, <2>1, <2>2, <3>6, <4>1, ParallelView
    <3>. QED  BY <3>8, <3>9
  <2>. QED  BY <1>5, <2>3, <2>4, <2>5 DEF WriteBlk, Emit, Mark
<1>6. CASE LoopFails
  <2>1. lpc = "fail" /\ out' = out /\ state' = (IF state = "none" THEN (IF cur.st = "err" THEN "cmp" ELSE "blk") ELSE state)
    BY <1>6 DEF LoopFails, SetError, loopFields
  <2>2. UNCHANGED <<PHeader, Written, PFrame>>
    BY <2>1, ParallelOutSame
  <2>3. CASE state # "none"
    BY <1>2, <2>1, <2>2, <2>3, ParallelView
  <2>4. CASE state = "none"
    <3>1. ~Complete
      BY <2>1 DEF PipeInv, ClosedWith
    <3>2. PFrame # "complete" /\ state' \notin {"none", "closed"}
      BY <2>1, <2>4, <3>1 DEF PFrame
    <3>. QED  BY <1>2, <2>2, <2>4, <3>2, ParallelView
  <2>. QED  BY <2>3, <2>4
<1>7. CASE WriteTrailer
  <2>1. lpc = "trl" /\ Healthy
    BY <1>7 DEF WriteTrailer, Healthy
  <2>2. state = "none" /\ starts[1] = 0 /\ cpc = "joinloop" /\ call = "close"
    BY <2>1 DEF PipeInv, ClosedWith, CallPhase, ChannelPhase, CallOf
  <2>3. /\ Len(out) = nextIdx + 1 /\ nextIdx \in Nat /\ nextIdx + 1 \in Nat /\ DOMAIN out = 1 .. nextIdx + 1
        /\ BlkAt = 2 .. nextIdx + 1 /\ PHeader /\ PFrame = "open" /\ ~Broken /\ ~Complete
    BY <2>1, ParallelHealthy
  <2>4. Written = Accepted
    BY <2>1, <2>2, <2>3, AtTrailer, AllWritten DEF PipeInv
  <2>5. PICK x : out' = Append(out, x) /\ (x.k = "bad" \/ (x.k = "end" /\ UNCHANGED state))
    BY <1>7 DEF WriteTrailer, Emit, Mark
  <2>6. CASE x.k = "bad"
    <3>1. UNCHANGED <<Written, PHeader>> /\ PFrame' = "broken"
      BY <2>3, <2>5, <2>6, ParallelBreaks
    <3>. QED  BY <1>2, <1>3, <2>3, <3>1, ParallelView
  <2>7. CASE x.k = "end" /\ UNCHANGED state
    <3>1. /\ DOMAIN out' = 1 .. nextIdx + 2 /\ out'[nextIdx + 2] = x /\ out' # <<>> /\ out # <<>>
          /\ nextIdx + 2 \in 1 .. nextIdx + 2 /\ 1 \in 1 .. nextIdx + 1
          /\ \A i \in 1 .. nextIdx + 1 : out'[i] = out[i]
      BY <2>3, <2>5 DEF TypeOK, LoopTypeOK
    <3>2. \A i \in 1 .. nextIdx + 2 : i \in 1 .. nextIdx + 1 \/ i = nextIdx + 2
      BY <2>3
    <3>3. Complete' /\ ~Broken' /\ PHeader' = PHeader
      BY <2>3, <2>7, <3>1, <3>2 DEF Complete, Broken, PHeader
    <3>4. Written' = Written
      BY <2>3, <2>5, <2>7, WrittenSame
    <3>5. PFrame' = "complete"
      BY <3>3 DEF PFrame
    <3>. QED  BY <1>2, <2>2, <2>3, <2>4, <2>7, <3>3, <3>4, <3>5, ParallelView
  <2>. QED  BY <2>5, <2>6, <2>7
<1>. QED  BY <1>4, <1>5, <1>6, <1>7

LEMMA ParallelPromise ==
  ASSUME TypeOK, OrderInv, OutputInOrder, StartsRise, PipeInv, parallel = TRUE, parallel' = TRUE, [Next]_vars
  PROVE  Promise!Next \/ UNCHANGED Promise!vars
<1>1. \/ Write \/ ReadFrom \/ Flush \/ Close \/ WriteTop \/ ReadTop
      \/ Copy \/ Fill
      \/ FlushNothing \/ FlushReturns \/ CloseReturns
      \/ WriteHeader \/ WriteBlk \/ LoopFails \/ WriteTrailer
      \/ CloseChans \/ JoinTasks \/ QueueHash \/ Acquire \/ NextBlk
      \/ Meet \/ Hasher \/ UNCHANGED vars \/ (\E w \in Workers : Task(w))
      \/ OutClosed \/ Poll \/ More \/ NoReply \/ Drain \/ Drained \/ HashJoined
  BY DEF Next, Call, CallerStep, Loop
<1>. QED  BY <1>1, ParallelCalls, ParallelTakes, ParallelReturns, ParallelWrites, ParallelOthers

-----------------------------------------------------------------------------
(* Both writers *)

WriterInvs ==
  /\ parallel \in BOOLEAN
  /\ S!FrameInv
  /\ TypeOK /\ (OrderInv /\ OutputInOrder) /\ StartsRise /\ (NoPanic => PipeInv)

LEMMA WriterInvsHold == WriterProcess => []WriterInvs
<1>. DEFINE Chosen == parallel \in BOOLEAN
<1>1. NewWriter => Chosen
  BY DEF NewWriter
<1>2. Chosen /\ [Step]_<<parallel, vars, serialVars>> => Chosen'
  BY DEF Step
<1>. HIDE DEF Chosen
<1>3. WriterProcess => []Chosen
  BY <1>1, <1>2, PTL DEF WriterProcess
<1>4. Chosen /\ S!FrameInv /\ TypeOK /\ (OrderInv /\ OutputInOrder) /\ StartsRise /\ (NoPanic => PipeInv)
      => WriterInvs
  BY DEF WriterInvs, Chosen
<1>. QED  BY <1>3, <1>4, SerialHolds, ParallelSpec, TypeCorrect, OutputOrdered, StartsHold, PipeHolds, PTL

LEMMA PromiseInit == NewWriter => Promise!Init
<1>. SUFFICES ASSUME NewWriter  PROVE Promise!Init
  OBVIOUS
<1>1. Init /\ S!Init /\ parallel \in BOOLEAN
  BY DEF NewWriter
<1>2. /\ sTaken = 0 /\ sOut = <<>> /\ sState = "none" /\ sErr = "none" /\ sSrcNil = FALSE
      /\ sCall = "new" /\ sRet = "none" /\ sSrcMark = 0
  BY <1>1 DEF S!Init
<1>3. DOMAIN sOut = {} /\ S!Bad = {} /\ ~S!Complete
  BY <1>2 DEF S!Bad, S!Complete
<1>4. S!Written = 0
  BY <1>2, <1>3, SerialInit, SerialWritten DEF S!FrameInv
<1>5. out = <<>> /\ state = "none" /\ srcNil = FALSE /\ call = "new" /\ ret = "none" /\ starts = <<0>> /\ srcOff = 0
  BY <1>1 DEF Init
<1>6. DOMAIN out = {} /\ ~Broken /\ ~Complete /\ Written = 0 /\ Accepted = 0
  BY <1>5 DEF Broken, Complete, Written, BlkAt, Accepted, Start
<1>7. CASE parallel = TRUE
  BY <1>5, <1>6, <1>7 DEF Promise!Init, Either
<1>8. CASE parallel = FALSE
  BY <1>2, <1>3, <1>4, <1>8 DEF Promise!Init, Either
<1>. QED  BY <1>1, <1>7, <1>8

LEMMA PromiseStep ==
  ASSUME WriterInvs, WriterInvs', [Step]_<<parallel, vars, serialVars>>
  PROVE  Promise!Next \/ UNCHANGED Promise!vars
<1>. USE DEF WriterInvs
<1>1. parallel' = parallel
  BY OneWriter
<1>2. CASE parallel = FALSE
  <2>1. S!Next \/ UNCHANGED serialVars
    BY <1>2, OneWriter
  <2>. QED  BY <1>1, <1>2, <2>1, SerialPromise, SerialRests
<1>3. CASE parallel = TRUE
  <2>1. CASE Next
    <3>1. NoPanic
      BY <2>1 DEF Next, NoPanic
    <3>. QED  BY <1>1, <1>3, <2>1, <3>1, ParallelPromise
  <2>2. CASE UNCHANGED vars
    BY <1>1, <1>3, <2>2, ParallelOthers
  <2>. QED  BY <1>3, <2>1, <2>2, OneWriter
<1>. QED  BY <1>2, <1>3

\* Whichever writer the options select, each of its steps, of any goroutine
\* and after any error, is one WriterSpec allows, or one the caller does not
\* see: NewWriter of plz4_writer.go keeps its promise for every number of
\* tasks and tokens, every block size and set of faults.
THEOREM KeepsPromise == WriterProcess => ImplementsPromise
<1>1. NewWriter => Promise!Init
  BY PromiseInit
<1>2. WriterInvs /\ WriterInvs' /\ [Step]_<<parallel, vars, serialVars>> => [Promise!Next]_(Promise!vars)
  BY PromiseStep
<1>. QED  BY <1>1, <1>2, WriterInvsHold, PTL DEF WriterProcess, ImplementsPromise, Promise!Spec
=============================================================================

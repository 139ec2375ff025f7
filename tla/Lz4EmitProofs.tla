-------------------------- MODULE Lz4EmitProofs --------------------------
(***************************************************************************)
(* For every input size, capacity and parse: the encoder of lz4.c writes   *)
(* inside its destination and covers its source.                           *)
(***************************************************************************)
EXTENDS Lz4Emit, TLAPS

\* What the length bytes cost, against the two ways the checks count them.
LEMMA LengthBytesBound ==
    ASSUME NEW a \in Nat
    PROVE  /\ LengthBytes(a, 15) \in Nat
           /\ LengthBytes(a, 15) = (a + 240) \div 255
           /\ LengthBytes(a, 15) <= a \div 255 + 1
           /\ LengthBytes(a, 15) <= a
           /\ a \div 255 \in Nat
BY DEF LengthBytes

\* The overshoot of the copy in steps of eight.
LEMMA WildEndBound ==
    ASSUME NEW d \in Nat, NEW a \in Nat
    PROVE  /\ WildEnd(d, a) \in Nat
           /\ WildEnd(d, a) >= d + a
           /\ WildEnd(d, a) <= d + a + 8
           /\ a > 0 => WildEnd(d, a) <= d + a + 7
BY DEF WildEnd

LEMMA DivMonotone ==
    ASSUME NEW a \in Nat, NEW b \in Nat
    PROVE  /\ a \div 255 + b \div 255 <= (a + b) \div 255
           /\ a <= b => a \div 255 <= b \div 255
OBVIOUS

\* The length bytes of a match, as the check before them counts them.
LEMMA AfterMatchIs ==
    ASSUME NEW o \in Nat, NEW a \in Nat
    PROVE  AfterMatch(o, a) = o + (a + 240) \div 255
BY DEF AfterMatch, LengthBytes, ML_MASK

LEMMA AfterMatchBound ==
    ASSUME NEW o \in Nat, NEW a \in Nat
    PROVE  /\ AfterMatch(o, a) \in Nat
           /\ AfterMatch(o, a) >= o
           /\ AfterMatch(o, a) <= o + a
BY DEF AfterMatch, LengthBytes, ML_MASK

\* Four bytes written at a time overshoot the length bytes by three.
LEMMA TopOfMatchBound ==
    ASSUME NEW o \in Nat, NEW a \in Nat
    PROVE  /\ TopOfMatch(o, a) \in Nat
           /\ TopOfMatch(o, a) <= AfterMatch(o, a) + 3
BY DEF TopOfMatch, AfterMatch, LengthBytes, ML_MASK

\* The match code a filling call keeps is shorter than the one it found and
\* uses the room up to the last literals.
LEMMA ReducedBound ==
    ASSUME NEW o \in Nat, NEW a \in Nat, NEW r \in Nat,
           o + 6 <= r, MatchOverflow(o, a, r)
    PROVE  /\ ReducedMatchCode(o, r) \in Nat
           /\ ReducedMatchCode(o, r) < a
           /\ AfterMatch(o, ReducedMatchCode(o, r)) + 6 <= r
<1>1. ReducedMatchCode(o, r) = 14 + (r - o - 6) * 255
  BY DEF ReducedMatchCode, LASTLITERALS
<1>2. (a + 240) \div 255 > r - o - 6
  BY DEF MatchOverflow, LASTLITERALS
<1>3. ReducedMatchCode(o, r) \in Nat /\ ReducedMatchCode(o, r) < a
  BY <1>1, <1>2
<1>4. (ReducedMatchCode(o, r) + 240) \div 255 <= r - o - 6
  BY <1>1
<1> DEFINE c == ReducedMatchCode(o, r)
<1> HIDE DEF c
<1>5. c \in Nat
  BY <1>3 DEF c
<1>6. AfterMatch(o, c) = o + (c + 240) \div 255
  BY <1>5, AfterMatchIs
<1>7. (c + 240) \div 255 <= r - o - 6
  BY <1>4 DEF c
<1>8. AfterMatch(o, c) + 6 <= r
  BY <1>5, <1>6, <1>7
<1> QED BY <1>3, <1>8 DEF c

\* The last literals of a filling call fit with their length bytes, and are
\* no more than the source holds.
LEMMA FilledBound ==
    ASSUME NEW o \in Nat, NEW a \in Nat, NEW r \in Nat,
           o + 1 <= r, LastOverflow(o, a, r)
    PROVE  /\ FilledLastRun(o, r) \in Nat
           /\ FilledLastRun(o, r) <= a
           /\ AfterLast(o, FilledLastRun(o, r)) <= r
<1> DEFINE room == r - o - 1
           f    == room - (room + 241) \div 256
<1>1. room \in Nat /\ f \in Nat /\ FilledLastRun(o, r) = f
  BY DEF FilledLastRun, RUN_MASK
<1>2. a + (a + 240) \div 255 > room
  BY DEF LastOverflow, RUN_MASK
<1>3. f + (f + 240) \div 255 <= room
  BY <1>1
<1> HIDE DEF f, room
<1>4. f <= a
  <2>1. SUFFICES ASSUME a + 1 <= f PROVE FALSE
    BY <1>1
  <2>2. (a + 240) \div 255 <= (f + 240) \div 255
    BY <1>1, <2>1, DivMonotone
  <2> QED BY <1>1, <1>2, <1>3, <2>1, <2>2
<1>5. AfterLast(o, f) = o + 1 + f + (f + 240) \div 255
  <2>1. LengthBytes(f, 15) = (f + 240) \div 255
    BY <1>1, LengthBytesBound
  <2>2. AfterLast(o, f) = o + 1 + LengthBytes(f, 15) + f
    BY DEF AfterLast, RUN_MASK
  <2> QED BY <1>1, <2>1, <2>2
<1> QED BY <1>1, <1>3, <1>4, <1>5 DEF room

-----------------------------------------------------------------------------
(* The inductive invariant: how far the output may be ahead of the source  *)
(* in a call without limit, and the room every check leaves in the others. *)

Ahead == op <= anchor + anchor \div 255
Room == olimit >= op + LASTLITERALS + 1

AtSeq ==
    at = "seq" =>
        /\ anchor = 0 => op = 0
        /\ anchor > 0 => anchor + LASTLITERALS <= n
        /\ Ahead
        /\ directive # "notLimited" /\ anchor > 0 => Room

AtMatch ==
    at = "match" =>
        /\ ip + MFLIMIT <= n /\ anchor <= ip
        /\ op <= ip + ip \div 255 + 2
        /\ token < op
        /\ directive = "limitedOutput" => op + 5 <= olimit
        /\ directive = "fillOutput" => op <= olimit

AtLast ==
    at = "last" => directive = "fillOutput" /\ anchor <= n /\ op + 1 <= olimit

CallOK ==
    /\ Fits(n, olimit, directive)
    /\ at # "done" => result = 0

IInv ==
    /\ TypeOK /\ CallOK /\ AtSeq /\ AtMatch /\ AtLast
    /\ WritesInBounds /\ SourceCovered

LEMMA Defs ==
    /\ MFLIMIT = 12 /\ LASTLITERALS = 5 /\ MINMATCH = 4
    /\ RUN_MASK = 15 /\ ML_MASK = 15
BY DEF MFLIMIT, LASTLITERALS, MINMATCH, RUN_MASK, ML_MASK

LEMMA InitInv == Init => IInv
<1> SUFFICES ASSUME Init PROVE IInv
  OBVIOUS
<1>1. TypeOK
  BY DEF Init, TypeOK, Directives
<1>2. Fits(n, olimit, directive)
  BY DEF Init, Fits
<1> QED BY <1>1, <1>2 DEF Init, IInv, CallOK, AtSeq, AtMatch, AtLast,
        WritesInBounds, SourceCovered

\* A step that leaves the call alone keeps what the caller promised.
LEMMA SameCall ==
    ASSUME CallOK, UNCHANGED <<n, olimit, directive>>, at' # "done" => result' = 0
    PROVE  CallOK'
BY DEF CallOK, Fits, LZ4_compressBound

LEMMA CallKeeps ==
    ASSUME NEW size \in Nat, NEW room \in Nat, NEW dir \in Directives, Call(size, room, dir)
    PROVE  IInv'
<1>1. /\ n' = size /\ olimit' = room /\ directive' = dir
      /\ anchor' = 0 /\ ip' = 0 /\ token' = 0 /\ op' = 0 /\ top' = 0
      /\ at' = "seq" /\ result' = 0 /\ Fits(size, room, dir)
  BY DEF Call
<1>2. TypeOK'
  BY <1>1 DEF TypeOK
<1>3. CallOK'
  BY <1>1 DEF CallOK
<1>4. Ahead'
  BY <1>1 DEF Ahead
<1> QED BY <1>1, <1>2, <1>3, <1>4
      DEF IInv, AtSeq, AtMatch, AtLast, WritesInBounds, SourceCovered

LEMMA LiteralsKeep ==
    ASSUME IInv, NEW lit \in Nat, EncodeLiterals(lit)
    PROVE  IInv'
<1> DEFINE new == AfterLiterals(op, lit)
           wild == TopOfLiterals(op, lit)
           lb == LengthBytes(lit, 15)
<1>1. /\ n \in Nat /\ olimit \in Nat /\ directive \in Directives
      /\ anchor \in Nat /\ ip \in Nat /\ token \in Nat /\ op \in Nat /\ top \in Nat
      /\ at = "seq" /\ result = 0 /\ top <= olimit
      /\ anchor = 0 => op = 0
      /\ anchor > 0 => anchor + 5 <= n
      /\ op <= anchor + anchor \div 255
      /\ directive # "notLimited" /\ anchor > 0 => olimit >= op + 6
      /\ Fits(n, olimit, directive)
  BY Defs DEF IInv, TypeOK, CallOK, AtSeq, Ahead, Room, WritesInBounds, EncodeLiterals
<1>2. /\ UNCHANGED <<n, olimit, directive, anchor, result>>
      /\ anchor + lit + 12 <= n
      /\ token' = op
  BY Defs DEF EncodeLiterals
<1>3. CallOK'
  BY <1>1, <1>2, SameCall DEF IInv
<1>4. /\ lb \in Nat /\ lb <= lit \div 255 + 1 /\ lb <= lit /\ lit \div 255 \in Nat
      /\ lb = (lit + 240) \div 255
  BY LengthBytesBound
<1>5. /\ new = op + 1 + lb + lit /\ new \in Nat
      /\ wild \in Nat /\ wild <= new + 8 /\ wild >= new
      /\ lit > 0 => wild <= new + 7
  <2> DEFINE d == op + 1 + lb
  <2>1. new = d + lit /\ wild = WildEnd(d, lit)
    BY Defs DEF AfterLiterals, TopOfLiterals
  <2>2. d \in Nat /\ d = op + 1 + lb
    BY <1>1, <1>4
  <2> HIDE DEF lb, new, wild, d
  <2>3. /\ wild \in Nat /\ wild <= d + lit + 8 /\ wild >= d + lit
        /\ lit > 0 => wild <= d + lit + 7
    BY <2>1, <2>2, WildEndBound
  <2> QED BY <1>1, <1>4, <2>1, <2>2, <2>3
<1> HIDE DEF lb, new, wild
<1>6. new <= anchor + lit + (anchor + lit) \div 255 + 2
  <2>1. anchor \div 255 + lit \div 255 <= (anchor + lit) \div 255
    BY <1>1, DivMonotone
  <2> QED BY <1>1, <1>4, <1>5, <2>1
<1>7. (anchor + lit) \div 255 <= n \div 255
  BY <1>1, <1>2, DivMonotone
<1>a. CASE /\ directive = "fillOutput" /\ LiteralsFill(op, lit, olimit) /\ ip' = 0 /\ at' = "last"
           /\ UNCHANGED <<op, top>>
  <2>1. op + 1 <= olimit
    BY <1>a, <1>1 DEF Fits
  <2>2. TypeOK'
    BY <1>a, <1>1, <1>2 DEF TypeOK, Directives
  <2> QED BY <1>a, <1>1, <1>2, <1>3, <2>1, <2>2
        DEF IInv, AtSeq, AtMatch, AtLast, WritesInBounds, SourceCovered
<1>b. CASE /\ directive = "limitedOutput" => ~LiteralsOverflow(op, lit, olimit)
           /\ directive = "fillOutput" => ~LiteralsFill(op, lit, olimit)
           /\ op' = new /\ top' = Higher(top, wild) /\ ip' = anchor + lit /\ at' = "match"
  <2>1. wild <= olimit
    <3>1. CASE directive = "notLimited"
      <4>1. olimit >= n + n \div 255 + 16
        BY <3>1, <1>1 DEF Fits, LZ4_compressBound
      <4> QED BY <4>1, <1>1, <1>2, <1>5, <1>6, <1>7
    <3>2. CASE directive = "limitedOutput"
      <4>1. op + 1 + lit + 8 + lit \div 255 <= olimit
        BY <3>2, <1>b, <1>1, <1>4, Defs DEF LiteralsOverflow
      <4>2. CASE lit = 0
        BY <4>1, <4>2, <1>1, <1>4, <1>5
      <4>3. CASE lit > 0
        BY <4>1, <4>3, <1>1, <1>4, <1>5
      <4> QED BY <4>2, <4>3
    <3>3. CASE directive = "fillOutput"
      <4>1. op + 1 + lb + lit + 11 <= olimit
        BY <3>3, <1>b, <1>1, <1>4, Defs DEF LiteralsFill
      <4> QED BY <4>1, <1>1, <1>4, <1>5
    <3> QED BY <1>1, <3>1, <3>2, <3>3 DEF Directives
  <2>2. top' \in Nat /\ top' <= olimit
    BY <1>b, <1>1, <1>5, <2>1 DEF Higher
  <2>3. TypeOK'
    BY <1>b, <1>1, <1>2, <1>5, <2>2 DEF TypeOK, Directives
  <2>4. directive = "limitedOutput" => new + 5 <= olimit
    <3>1. SUFFICES ASSUME directive = "limitedOutput" PROVE new + 5 <= olimit
      OBVIOUS
    <3>2. op + 1 + lit + 8 + lit \div 255 <= olimit
      BY <3>1, <1>b, <1>1, <1>4, Defs DEF LiteralsOverflow
    <3> QED BY <3>2, <1>1, <1>4, <1>5
  <2>5. AtMatch'
    <3>1. ip' + 12 <= n' /\ anchor' <= ip' /\ op' <= ip' + ip' \div 255 + 2
      BY <1>b, <1>1, <1>2, <1>5, <1>6
    <3>2. token' < op'
      BY <1>b, <1>1, <1>2, <1>4, <1>5
    <3>3. directive' = "fillOutput" => op' <= olimit'
      BY <1>b, <1>1, <1>2, <1>5, <2>1
    <3>4. directive' = "limitedOutput" => op' + 5 <= olimit'
      BY <1>b, <1>2, <2>4
    <3> QED BY <3>1, <3>2, <3>3, <3>4, Defs DEF AtMatch
  <2> QED BY <1>b, <1>2, <1>3, <2>2, <2>3, <2>5
        DEF IInv, AtSeq, AtLast, WritesInBounds, SourceCovered
<1> QED BY <1>a, <1>b DEF EncodeLiterals, new, wild

LEMMA NextMatchKeeps ==
    ASSUME IInv, NextMatch
    PROVE  IInv'
<1>1. /\ n \in Nat /\ olimit \in Nat /\ directive \in Directives
      /\ anchor \in Nat /\ op \in Nat /\ top \in Nat
      /\ at = "seq" /\ result = 0 /\ top <= olimit /\ anchor > 0
      /\ op <= anchor + anchor \div 255
      /\ directive # "notLimited" => olimit >= op + 6
      /\ Fits(n, olimit, directive)
  BY Defs DEF IInv, TypeOK, CallOK, AtSeq, Ahead, Room, WritesInBounds, NextMatch
<1>2. /\ UNCHANGED <<n, olimit, directive, anchor, result>>
      /\ anchor + 12 <= n /\ at' = "match"
      /\ ip' = anchor /\ token' = op /\ op' = op + 1 /\ top' = Higher(top, op + 1)
  BY Defs DEF NextMatch
<1>3. CallOK'
  BY <1>1, <1>2, SameCall DEF IInv
<1>4. op + 1 <= olimit
  <2>1. CASE directive = "notLimited"
    <3>1. olimit >= n + n \div 255 + 16
      BY <2>1, <1>1 DEF Fits, LZ4_compressBound
    <3>2. anchor \div 255 <= n \div 255
      BY <1>1, <1>2, DivMonotone
    <3> QED BY <1>1, <1>2, <3>1, <3>2
  <2> QED BY <1>1, <2>1
<1>5. top' \in Nat /\ top' <= olimit'
  BY <1>1, <1>2, <1>4 DEF Higher
<1>6. TypeOK'
  BY <1>1, <1>2, <1>5 DEF TypeOK, Directives
<1>7. AtMatch'
  <2>1. op' <= ip' + ip' \div 255 + 2
    BY <1>1, <1>2
  <2>2. directive' = "limitedOutput" => op' + 5 <= olimit'
    BY <1>1, <1>2
  <2>3. directive' = "fillOutput" => op' <= olimit'
    BY <1>1, <1>2
  <2> QED BY <1>1, <1>2, <2>1, <2>2, <2>3, Defs DEF AtMatch
<1> QED BY <1>2, <1>3, <1>5, <1>6, <1>7
      DEF IInv, AtSeq, AtLast, WritesInBounds, SourceCovered

LEMMA MatchKeeps ==
    ASSUME IInv, NEW matchCode \in Nat, EncodeMatch(matchCode)
    PROVE  IInv'
<1>1. /\ n \in Nat /\ olimit \in Nat /\ directive \in Directives
      /\ anchor \in Nat /\ ip \in Nat /\ token \in Nat /\ op \in Nat /\ top \in Nat
      /\ at = "match" /\ result = 0 /\ top <= olimit
      /\ ip + 12 <= n /\ anchor <= ip
      /\ op <= ip + ip \div 255 + 2
      /\ token < op
      /\ directive = "limitedOutput" => op + 5 <= olimit
      /\ directive = "fillOutput" => op <= olimit
      /\ Fits(n, olimit, directive)
  BY Defs DEF IInv, TypeOK, CallOK, AtMatch, WritesInBounds, EncodeMatch
<1>2. /\ UNCHANGED <<n, olimit, directive, token, result>> /\ ip' = 0
      /\ ip + 4 + matchCode + 5 <= n
  BY Defs DEF EncodeMatch
<1>3. CallOK'
  BY <1>1, <1>2, SameCall DEF IInv
<1>a. CASE directive = "fillOutput" /\ OffsetFills(op, olimit)
  <2>1. op' = token /\ at' = "last" /\ UNCHANGED <<anchor, top>>
    BY <1>a DEF EncodeMatch
  <2>2. TypeOK'
    BY <2>1, <1>1, <1>2 DEF TypeOK, Directives
  <2>3. AtLast'
    BY <2>1, <1>a, <1>1, <1>2 DEF AtLast
  <2> QED BY <2>1, <2>2, <2>3, <1>1, <1>2, <1>3
        DEF IInv, AtSeq, AtMatch, WritesInBounds, SourceCovered
<1>b. CASE ~(directive = "fillOutput" /\ OffsetFills(op, olimit))
  <2> DEFINE oo   == op + 2
             full == directive # "notLimited" /\ MatchOverflow(oo, matchCode, olimit)
             code == IF full THEN ReducedMatchCode(oo, olimit) ELSE matchCode
             new  == AfterMatch(oo, code)
             wild == TopOfMatch(oo, code)
  <2>1. /\ full => directive = "fillOutput"
        /\ op' = new /\ top' = Higher(top, Higher(op', wild))
        /\ anchor' = ip + 4 + code /\ at' = "seq"
    BY <1>b, Defs DEF EncodeMatch
  <2>2. oo \in Nat
    BY <1>1
  <2>3. directive = "fillOutput" => oo + 9 <= olimit
    BY <1>b, <1>1, Defs DEF OffsetFills
  <2>4. code \in Nat /\ code <= matchCode
    BY <1>1, <2>1, <2>2, <2>3, ReducedBound
  <2>5. directive # "notLimited" => new + 6 <= olimit
    <3>1. CASE full
      BY <3>1, <1>1, <2>1, <2>2, <2>3, ReducedBound
    <3>2. CASE ~full /\ directive # "notLimited"
      <4>1. oo + 6 + (matchCode + 240) \div 255 <= olimit
        BY <3>2, <1>1, <2>2, Defs DEF MatchOverflow
      <4>2. new = oo + (matchCode + 240) \div 255
        BY <3>2, <2>2, AfterMatchIs
      <4> HIDE DEF oo, new
      <4> QED BY <4>1, <4>2, <1>1, <2>2
    <3> QED BY <3>1, <3>2
  <2>6. full => directive = "fillOutput"
    BY <2>1
  <2> HIDE DEF full, code, oo
  <2>7. /\ new \in Nat /\ wild \in Nat /\ wild <= new + 3
        /\ new <= oo + code /\ new >= oo
    <3>1. oo \in Nat /\ code \in Nat
      BY <2>2, <2>4
    <3>2. /\ AfterMatch(oo, code) \in Nat
          /\ AfterMatch(oo, code) >= oo
          /\ AfterMatch(oo, code) <= oo + code
      BY <3>1, AfterMatchBound
    <3>3. /\ TopOfMatch(oo, code) \in Nat
          /\ TopOfMatch(oo, code) <= AfterMatch(oo, code) + 3
      BY <3>1, TopOfMatchBound
    <3> QED BY <3>2, <3>3
  <2>7a. oo = op + 2
    BY DEF oo
  <2> HIDE DEF new, wild
  <2> DEFINE a == ip + 4 + code
  <2>a. a \in Nat /\ a > 0 /\ a + 5 <= n /\ anchor' = a
    BY <1>1, <1>2, <2>1, <2>4
  <2>8. new <= a + a \div 255
    <3>1. ip \div 255 <= (ip + 4 + code) \div 255
      BY <1>1, <2>4, DivMonotone
    <3> QED BY <1>1, <2>4, <2>7, <2>7a, <3>1
  <2> HIDE DEF a
  <2>9. new <= olimit /\ wild <= olimit
    <3>1. CASE directive = "notLimited"
      <4>1. olimit >= n + n \div 255 + 16
        BY <3>1, <1>1 DEF Fits, LZ4_compressBound
      <4>2. a \div 255 <= n \div 255
        BY <1>1, <2>a, DivMonotone
      <4>3. a \div 255 \in Nat /\ n \div 255 \in Nat
        BY <1>1, <2>a
      <4>4. new + 3 <= olimit
        BY <1>1, <2>7, <2>8, <2>a, <4>1, <4>2, <4>3
      <4> QED BY <1>1, <2>7, <4>4
    <3>2. CASE directive # "notLimited"
      BY <3>2, <1>1, <2>5, <2>7
    <3> QED BY <3>1, <3>2
  <2>10. top' \in Nat /\ top' <= olimit'
    BY <1>1, <1>2, <2>1, <2>7, <2>9 DEF Higher
  <2>11. TypeOK'
    BY <1>1, <1>2, <2>1, <2>4, <2>7, <2>10 DEF TypeOK, Directives
  <2>12. AtSeq'
    <3>1. anchor' > 0 /\ anchor' + 5 <= n'
      BY <1>1, <1>2, <2>a
    <3>2. Ahead'
      BY <2>1, <2>8, <2>a DEF Ahead
    <3>3. directive' # "notLimited" => olimit' >= op' + 6
      BY <1>1, <1>2, <2>1, <2>5, <2>7
    <3>4. op' \in Nat /\ olimit' \in Nat /\ anchor' \in Nat /\ n' \in Nat
      BY <2>11 DEF TypeOK
    <3>5. directive' # "notLimited" => Room'
      <4>1. CASE directive' = "notLimited"
        BY <4>1
      <4>2. CASE directive' # "notLimited"
        <5>1. olimit' >= op' + 6
          BY <4>2, <3>3
        <5>2. op' + 6 = op' + LASTLITERALS + 1
          BY <3>4 DEF LASTLITERALS
        <5> QED BY <5>1, <5>2 DEF Room
      <4> QED BY <4>1, <4>2
    <3>6. anchor' + LASTLITERALS <= n'
      BY <3>1, Defs
    <3>7. ~(anchor' = 0)
      BY <3>1, <3>4
    <3> QED BY <3>2, <3>5, <3>6, <3>7 DEF AtSeq
  <2> QED BY <2>1, <2>10, <2>11, <2>12, <1>2, <1>3
        DEF IInv, AtMatch, AtLast, WritesInBounds, SourceCovered
<1> QED BY <1>a, <1>b

LEMMA LastKeeps ==
    ASSUME IInv, LastLiterals
    PROVE  IInv'
<1> DEFINE rest    == n - anchor
           full    == directive # "notLimited" /\ LastOverflow(op, rest, olimit)
           lastRun == IF full THEN FilledLastRun(op, olimit) ELSE rest
           new     == AfterLast(op, lastRun)
<1>1. /\ n \in Nat /\ olimit \in Nat /\ directive \in Directives
      /\ anchor \in Nat /\ op \in Nat /\ top \in Nat /\ ip \in Nat /\ token \in Nat
      /\ result = 0 /\ top <= olimit
      /\ Fits(n, olimit, directive) /\ at \in {"seq", "last"}
      /\ anchor <= n
      /\ directive = "notLimited" => op <= anchor + anchor \div 255
      /\ directive = "fillOutput" => op + 1 <= olimit
  <2>1. IInv /\ at \in {"seq", "last"}
    BY DEF LastLiterals
  <2>2. /\ n \in Nat /\ olimit \in Nat /\ directive \in Directives
        /\ anchor \in Nat /\ op \in Nat /\ top \in Nat /\ ip \in Nat /\ token \in Nat
        /\ top <= olimit /\ Fits(n, olimit, directive)
    BY <2>1 DEF IInv, TypeOK, CallOK, WritesInBounds
  <2>3. result = 0
    BY <2>1 DEF IInv, CallOK
  <2>4. CASE at = "seq"
    <3>1. /\ anchor = 0 => op = 0
          /\ anchor > 0 => anchor + 5 <= n
          /\ op <= anchor + anchor \div 255
          /\ directive # "notLimited" /\ anchor > 0 => olimit >= op + 6
      BY <2>1, <2>2, <2>4, Defs DEF IInv, AtSeq, Ahead, Room
    <3>2. directive = "fillOutput" => olimit >= 1
      BY <2>2 DEF Fits
    <3> QED BY <2>1, <2>2, <2>3, <3>1, <3>2
  <2>5. CASE at = "last"
    BY <2>1, <2>2, <2>3, <2>5 DEF IInv, AtLast
  <2> QED BY <2>1, <2>4, <2>5
<1>2. /\ full => directive = "fillOutput"
      /\ op' = new /\ anchor' = anchor + lastRun
      /\ top' = Higher(top, op') /\ result' = op' /\ at' = "done"
      /\ UNCHANGED <<n, olimit, directive, ip, token>>
  BY DEF LastLiterals
<1>3. CallOK'
  BY <1>2, SameCall DEF IInv
<1>4. rest \in Nat /\ rest <= n
  BY <1>1
<1>5. /\ lastRun \in Nat /\ lastRun <= rest
      /\ directive # "notLimited" => new <= olimit
      /\ directive # "fillOutput" => lastRun = rest
  <2>1. CASE full
    BY <2>1, <1>1, <1>2, <1>4, FilledBound
  <2>2. CASE ~full
    <3>1. lastRun = rest
      BY <2>2
    <3>2. LengthBytes(rest, 15) = (rest + 240) \div 255
      BY <1>4, LengthBytesBound
    <3>3. directive # "notLimited" => op + rest + 1 + (rest + 240) \div 255 <= olimit
      BY <2>2, <1>1, <1>4, Defs DEF LastOverflow
    <3>4. new = op + 1 + LengthBytes(rest, 15) + rest
      BY <3>1, Defs DEF AfterLast
    <3> HIDE DEF rest, lastRun, new, full
    <3> QED BY <3>1, <3>2, <3>3, <3>4, <1>1, <1>4
  <2> QED BY <2>1, <2>2
<1> HIDE DEF full, lastRun
<1>6. /\ new = op + 1 + LengthBytes(lastRun, 15) + lastRun
      /\ LengthBytes(lastRun, 15) \in Nat
      /\ LengthBytes(lastRun, 15) <= lastRun \div 255 + 1
      /\ lastRun \div 255 \in Nat
  BY <1>5, LengthBytesBound, Defs DEF AfterLast
<1> HIDE DEF new
<1>7. new \in Nat /\ new > 0 /\ new <= olimit
  <2>1. new \in Nat /\ new > 0
    BY <1>1, <1>5, <1>6
  <2>2. CASE directive = "notLimited"
    <3>1. olimit >= n + n \div 255 + 16
      BY <2>2, <1>1 DEF Fits, LZ4_compressBound
    <3>2. anchor + lastRun = n
      BY <2>2, <1>1, <1>5
    <3>3. anchor \div 255 + lastRun \div 255 <= (anchor + lastRun) \div 255
      BY <1>1, <1>5, DivMonotone
    <3> QED BY <2>1, <2>2, <1>1, <1>5, <1>6, <3>1, <3>2, <3>3
  <2> QED BY <2>1, <2>2, <1>5
<1>8. anchor' \in Nat /\ anchor' <= n /\ (directive # "fillOutput" => anchor' = n)
  BY <1>1, <1>2, <1>4, <1>5
<1>9. top' \in Nat /\ top' <= olimit'
  BY <1>1, <1>2, <1>7 DEF Higher
<1>10. TypeOK'
  BY <1>1, <1>2, <1>7, <1>8, <1>9 DEF TypeOK, Directives
<1> QED BY <1>2, <1>3, <1>7, <1>8, <1>9, <1>10
      DEF IInv, AtSeq, AtMatch, AtLast, WritesInBounds, SourceCovered

LEMMA FailKeeps ==
    ASSUME IInv, Fail
    PROVE  IInv'
<1>1. /\ UNCHANGED <<n, olimit, directive, anchor, token, op, top>>
      /\ at' = "done" /\ result' = 0 /\ ip' = 0
  BY DEF Fail
<1>2. CallOK'
  BY <1>1, SameCall DEF IInv
<1>3. TypeOK'
  BY <1>1 DEF IInv, TypeOK
<1> QED BY <1>1, <1>2, <1>3
      DEF IInv, AtSeq, AtMatch, AtLast, WritesInBounds, SourceCovered

LEMMA StepInv == IInv /\ [Next]_vars => IInv'
<1> SUFFICES ASSUME IInv, [Next]_vars PROVE IInv'
  OBVIOUS
<1>0. ASSUME NEW size \in Sizes, NEW room \in Capacities, NEW dir \in Directives,
             Call(size, room, dir)
      PROVE  IInv'
  BY <1>0, CallKeeps, SizesAssumption
<1>1. ASSUME NEW lit \in Lengths, EncodeLiterals(lit) PROVE IInv'
  BY <1>1, LiteralsKeep, SizesAssumption
<1>2. CASE NextMatch
  BY <1>2, NextMatchKeeps
<1>3. ASSUME NEW matchCode \in Lengths, EncodeMatch(matchCode) PROVE IInv'
  BY <1>3, MatchKeeps, SizesAssumption
<1>4. CASE LastLiterals
  BY <1>4, LastKeeps
<1>5. CASE Fail
  BY <1>5, FailKeeps
<1>6. CASE UNCHANGED vars
  <2>1. TypeOK' /\ CallOK'
    BY <1>6 DEF vars, IInv, TypeOK, CallOK, Fits, LZ4_compressBound
  <2>2. AtSeq' /\ AtMatch' /\ AtLast'
    BY <1>6 DEF vars, IInv, AtSeq, Ahead, Room, AtMatch, AtLast
  <2>3. WritesInBounds' /\ SourceCovered'
    BY <1>6 DEF vars, IInv, WritesInBounds, SourceCovered
  <2> QED
    BY <2>1, <2>2, <2>3 DEF IInv
<1> QED BY <1>0, <1>1, <1>2, <1>3, <1>4, <1>5, <1>6 DEF Next

-----------------------------------------------------------------------------

(* Whatever the match finder returns, for every source size and capacity,  *)
(* LZ4_compress_generic_validated writes nothing behind dest + capacity.   *)
THEOREM NoOverrun == Spec => []WritesInBounds
<1>1. IInv => WritesInBounds
  BY DEF IInv
<1> QED BY InitInv, StepInv, <1>1, PTL DEF Spec

(* Every successful block covers its source exactly, or the consumed part  *)
(* of it, and is no longer than the capacity.                              *)
THEOREM Covered == Spec => []SourceCovered
<1>1. IInv => SourceCovered
  BY DEF IInv
<1> QED BY InitInv, StepInv, <1>1, PTL DEF Spec
=============================================================================

-------------------------- MODULE SparseWriterProofs --------------------------
(***************************************************************************)
(* What TLAPS proves of SparseWriter for every block, group and buffer     *)
(* size, every number of bytes, and every failure of the file.             *)
(***************************************************************************)
EXTENDS SparseWriter, TLAPS

\* What Held rests on: behind its offset the file is empty, and a hole is
\* put off only where a seek can skip it.
EmptyBehind == \A j \in Places : j >= pos => file[j] = 0

Inv ==
  /\ Typed /\ Held
  /\ EmptyBehind
  /\ ~seeks => skip = 0

-----------------------------------------------------------------------------
(* What a write does to the bytes of a file. *)

\* Bytes stay bytes.
LEMMA PutTyped ==
  ASSUME NEW f \in [Places -> Byte], NEW to \in Nat, NEW from \in Nat, NEW n \in Nat,
         NEW m \in Nat, from + n <= m, NEW b \in [0 .. (m - 1) -> Byte]
  PROVE  Put(f, to, b, from, n) \in [Places -> Byte]
<1>1. ASSUME NEW j \in Places, j \in to .. (to + n - 1)
      PROVE  b[from + j - to] \in Byte
  <2>1. from + j - to \in 0 .. (m - 1)
    BY <1>1 DEF Places
  <2>. QED  BY <2>1
<1>. QED  BY <1>1 DEF Put

\* Zeros need not be written where there are zeros: what is written is the rest.
LEMMA ZerosSkipped ==
  ASSUME NEW f \in [Places -> Byte], NEW to \in Nat, NEW k \in Nat, NEW n \in Nat, NEW b,
         \A j \in 0 .. (k - 1) : b[j] = 0,
         \A j \in Places : j >= to => f[j] = 0
  PROVE  Put(f, to, b, 0, k + n) = Put(f, to + k, b, k, n)
<1>1. ASSUME NEW j \in Places
      PROVE  (IF j \in to .. (to + (k + n) - 1) THEN b[0 + j - to] ELSE f[j])
               = (IF j \in (to + k) .. (to + k + n - 1) THEN b[k + j - (to + k)] ELSE f[j])
  <2>. j \in Int
    BY DEF Places
  <2>1. CASE j \in to .. (to + k - 1)
    <3>1. j - to \in 0 .. (k - 1) /\ 0 + j - to = j - to
      BY <2>1
    <3>2. b[0 + j - to] = 0 /\ f[j] = 0
      BY <2>1, <3>1
    <3>3. j \in to .. (to + (k + n) - 1) /\ j \notin (to + k) .. (to + k + n - 1)
      BY <2>1
    <3>. QED  BY <3>2, <3>3
  <2>2. CASE j \in (to + k) .. (to + k + n - 1)
    <3>1. 0 + j - to = k + j - (to + k) /\ j \in to .. (to + (k + n) - 1)
      BY <2>2
    <3>. QED  BY <2>2, <3>1
  <2>3. CASE j \notin to .. (to + k + n - 1)
    <3>1. j \notin to .. (to + (k + n) - 1) /\ j \notin (to + k) .. (to + k + n - 1)
      BY <2>3
    <3>. QED  BY <3>1
  <2>. QED  BY <2>1, <2>2, <2>3
<1>. QED  BY <1>1 DEF Put

\* Nothing is written.
LEMMA NothingPut ==
  ASSUME NEW f \in [Places -> Byte], NEW to \in Nat, NEW from, NEW b
  PROVE  Put(f, to, b, from, 0) = f
<1>1. \A j \in Places : j \notin to .. (to + 0 - 1)
  BY DEF Places
<1>. QED  BY <1>1 DEF Put

\* Zeros behind the offset stay there.
LEMMA StillEmpty ==
  ASSUME NEW f \in [Places -> Byte], NEW to \in Nat, NEW from, NEW n \in Nat, NEW b,
         \A j \in Places : j >= to => f[j] = 0
  PROVE  \A j \in Places : j >= to + n => Put(f, to, b, from, n)[j] = 0
<1>1. ASSUME NEW j \in Places, j >= to + n
      PROVE  j \notin to .. (to + n - 1) /\ j >= to
  BY <1>1 DEF Places
<1>. QED  BY <1>1 DEF Put

-----------------------------------------------------------------------------

THEOREM InitHolds == Init => Inv
<1>. SUFFICES ASSUME Init PROVE Inv
  OBVIOUS
<1>1. lost \in BOOLEAN /\ seeks \in BOOLEAN
  BY DEF Init
<1>. QED  BY <1>1, SparseAssumption DEF Init, Inv, Held, Typed, EmptyBehind

\* A write that succeeds, fails or stops in between, k zeros behind the hole.
LEMMA WriteHolds ==
  ASSUME Inv, NEW n \in Nat, NEW b \in [0 .. (n - 1) -> Byte],
         NEW k \in 0 .. n, NEW wn \in 0 .. (n - k),
         \A j \in 0 .. (k - 1) : b[j] = 0,
         WriteAt(pos + skip + k, b, k, wn), Report(b, k + wn)
  PROVE  /\ file' \in [Places -> Byte] /\ plain' \in [Places -> Byte]
         /\ size' \in Nat /\ pos' \in Nat /\ len' = len + k + wn
         /\ pos' = len' /\ size' <= pos'
         /\ file' = plain'
         /\ EmptyBehind'
         /\ lost' \in BOOLEAN
<1>1. /\ pos \in Nat /\ skip \in Nat /\ size \in Nat /\ len = pos + skip /\ size <= pos
      /\ k \in Nat /\ wn \in Nat /\ k + wn <= n
      /\ plain \in [Places -> Byte] /\ file = plain /\ EmptyBehind
      /\ len \in Nat /\ len + k \in Nat /\ k + wn \in Nat
  BY DEF Inv, Held, Typed
<1>2. plain' \in [Places -> Byte]
  BY <1>1, PutTyped DEF Report
<1>3. \A j \in Places : j >= len => plain[j] = 0
  BY <1>1 DEF EmptyBehind, Places
<1>4. plain' = Put(plain, len + k, b, k, wn)
  <2>1. ASSUME NEW c, \A j \in 0 .. (k - 1) : c[j] = 0
        PROVE  Put(plain, len, c, 0, k + wn) = Put(plain, len + k, c, k, wn)
    BY <1>1, <1>3, <2>1, ZerosSkipped
  <2>2. Put(plain, len, b, 0, k + wn) = Put(plain, len + k, b, k, wn)
    BY <2>1, Zenon
  <2>. QED  BY <2>2 DEF Report
<1>5. file' = plain'
  BY <1>1, <1>4 DEF WriteAt
<1>6. pos' = len' /\ len' = len + k + wn
  BY <1>1 DEF WriteAt, Report
<1>7. size' \in Nat /\ size' <= pos'
  BY <1>1 DEF WriteAt, Later
<1>8. \A j \in Places : j >= len + k => plain[j] = 0
  BY <1>1, <1>3 DEF Places
<1>9. EmptyBehind'
  <2>2. \A j \in Places : j >= (len + k) + wn => Put(plain, len + k, b, k, wn)[j] = 0
    BY <1>1, <1>8, StillEmpty
  <2>3. file' = Put(plain, len + k, b, k, wn) /\ pos' = (len + k) + wn
    BY <1>4, <1>5, <1>6
  <2>. QED  BY <2>2, <2>3 DEF EmptyBehind
<1>10. lost' \in BOOLEAN
  BY DEF WriteAt
<1>. QED  BY <1>1, <1>2, <1>5, <1>6, <1>7, <1>9, <1>10

\* Zeros that are only counted.
LEMMA HoleGrows ==
  ASSUME Inv, NEW n \in Nat, NEW b, NEW k \in 0 .. n,
         \A j \in 0 .. (k - 1) : b[j] = 0, Report(b, k)
  PROVE  plain' = plain /\ len' = len + k
<1>1. len \in Nat /\ k \in Nat /\ len >= pos /\ pos \in Nat
  BY DEF Inv, Held, Typed
<1>2. plain \in [Places -> Byte] /\ \A j \in Places : j >= len => plain[j] = 0
  BY <1>1 DEF Inv, Held, Typed, EmptyBehind, Places
<1>3. plain' = Put(plain, len, b, 0, k + 0)
  BY <1>1 DEF Report
<1>4. plain' = Put(plain, len + k, b, k, 0)
  BY <1>1, <1>2, <1>3, ZerosSkipped, SMTT(30)
<1>. QED  BY <1>1, <1>2, <1>4, NothingPut DEF Report

LEMMA WriteThroughHolds == Inv /\ WriteThrough => Inv'
<1>. SUFFICES ASSUME Inv, WriteThrough PROVE Inv'
  OBVIOUS
<1>. USE DEF Inv, Held, Typed, callVars, Begin
<1>1. PICK b \in [0 .. (left - 1) -> Byte], wn \in 0 .. left :
        /\ WriteAt(pos, b, 0, wn) /\ Report(b, wn)
        /\ (wn = left /\ left' = 0 /\ pc' = "scanned" /\ UNCHANGED ret) \/ Return("error")
  BY DEF WriteThrough
<1>2. skip = 0 /\ ~seeks /\ UNCHANGED <<seeks, skip, callVars>> /\ pos + skip + 0 = pos /\ 0 + wn = wn
  BY DEF WriteThrough
<1>3. WriteAt(pos + skip + 0, b, 0, wn) /\ Report(b, 0 + wn) /\ wn \in 0 .. (left - 0)
  BY <1>1, <1>2
<1>4. /\ file' \in [Places -> Byte] /\ plain' \in [Places -> Byte]
      /\ size' \in Nat /\ pos' \in Nat /\ len' = len + 0 + wn
      /\ pos' = len' /\ size' <= pos' /\ file' = plain' /\ EmptyBehind' /\ lost' \in BOOLEAN
  BY <1>3, WriteHolds
<1>5. pc' \in {"idle", "scanned"} /\ ret' \in {"none", "error"} /\ left' = 0
  BY <1>1 DEF Return
<1>6. len' \in Nat /\ len' + left' <= MaxBytes
  BY <1>1, <1>4, <1>5, SparseAssumption
<1>7. Typed'
  BY <1>2, <1>4, <1>5, <1>6
<1>8. pos' + skip' = len'
  BY <1>2, <1>4
<1>. QED  BY <1>2, <1>4, <1>7, <1>8

LEMMA ScanBlockHolds == Inv /\ ScanBlock => Inv'
<1>. SUFFICES ASSUME Inv, ScanBlock PROVE Inv'
  OBVIOUS
<1>. USE DEF Inv, Held, Typed, callVars, Begin
<1>. DEFINE n == IF left >= blkSz THEN blkSz ELSE left
<1>1. PICK b \in [0 .. (n - 1) -> Byte], k \in 0 .. n : skipZeros(b, n, k) /\ ScanFunc(b, n, k)
  BY DEF ScanBlock
<1>2. n \in Nat /\ n <= left /\ k \in Nat /\ k <= n /\ left \in Nat /\ len \in Nat
  BY <1>1, SparseAssumption
<1>3. seeks /\ pc = "scan" /\ UNCHANGED <<seeks, callVars>>
  BY DEF ScanBlock
<1>4. \A j \in 0 .. (k - 1) : b[j] = 0
  BY <1>1 DEF skipZeros
<1>. HIDE DEF n
<1>5. CASE k = n /\ skip' = skip + n /\ Report(b, n) /\ left' = left - n /\ UNCHANGED <<fileVars, pc, ret>>
  <2>1. plain' = plain /\ len' = len + k
    BY <1>2, <1>4, <1>5, HoleGrows
  <2>2. EmptyBehind'
    BY <1>5 DEF EmptyBehind, fileVars
  <2>. QED  BY <1>2, <1>3, <1>5, <2>1, <2>2 DEF fileVars
<1>6. CASE k < n /\ skip' = skip + k /\ Report(b, k) /\ Return("error") /\ UNCHANGED fileVars
  <2>1. plain' = plain /\ len' = len + k
    BY <1>2, <1>4, <1>6, HoleGrows
  <2>2. EmptyBehind'
    BY <1>6 DEF EmptyBehind, fileVars
  <2>3. /\ skip' \in Nat /\ len' \in Nat /\ left' = 0 /\ len' + left' <= MaxBytes
        /\ pos + skip' = len' /\ pc' = "idle" /\ ret' = "error"
    BY <1>2, <1>6, <2>1, SparseAssumption DEF Return
  <2>. QED  BY <1>3, <1>6, <2>1, <2>2, <2>3 DEF fileVars
<1>7. CASE /\ k < n /\ skip' = 0
           /\ \E wn \in 0 .. (n - k) :
                /\ WriteAt(pos + skip + k, b, k, wn)
                /\ Report(b, k + wn)
                /\ \/ wn = n - k /\ left' = left - n /\ UNCHANGED <<pc, ret>>
                   \/ Return("error")
  <2>1. PICK wn \in 0 .. (n - k) :
               /\ WriteAt(pos + skip + k, b, k, wn)
               /\ Report(b, k + wn)
               /\ \/ wn = n - k /\ left' = left - n /\ UNCHANGED <<pc, ret>>
                  \/ Return("error")
    BY <1>7
  <2>2. /\ file' \in [Places -> Byte] /\ plain' \in [Places -> Byte]
        /\ size' \in Nat /\ pos' \in Nat /\ len' = len + k + wn
        /\ pos' = len' /\ size' <= pos' /\ file' = plain' /\ EmptyBehind' /\ lost' \in BOOLEAN
    BY <1>2, <1>4, <2>1, WriteHolds
  <2>3. /\ pc' \in {"idle", "scan"} /\ ret' \in {"none", "error"}
        /\ left' \in Nat /\ len' + left' <= MaxBytes
    <3>1. CASE wn = n - k /\ left' = left - n /\ UNCHANGED <<pc, ret>>
      <4>1. left' \in Nat /\ len' + left' <= MaxBytes
        BY <1>2, <2>2, <3>1, SparseAssumption
      <4>. QED  BY <1>3, <3>1, <4>1
    <3>2. CASE Return("error")
      <4>1. left' = 0 /\ pc' = "idle" /\ ret' = "error"
        BY <3>2 DEF Return
      <4>2. k + wn <= left /\ wn \in Nat
        BY <1>2
      <4>. QED  BY <1>2, <2>2, <4>1, <4>2, SparseAssumption
    <3>. QED  BY <2>1, <3>1, <3>2
  <2>. QED  BY <1>3, <1>7, <2>2, <2>3
<1>. QED  BY <1>1, <1>5, <1>6, <1>7 DEF ScanFunc

LEMMA CloseHolds == Inv /\ Close => Inv'
<1>. SUFFICES ASSUME Inv, Close PROVE Inv'
  OBVIOUS
<1>. USE DEF Inv, Held, Typed, callVars, Begin
<1>1. /\ ret' \in {"none", "error"} /\ pos \in Nat /\ skip \in Nat
      /\ call' = "close" /\ nRead' \in Nat /\ began' \in Nat
      /\ UNCHANGED <<seeks, pc, left, plain, len>>
  BY DEF Close
<1>0. seeks' \in BOOLEAN
  BY <1>1
<1>2. CASE UNCHANGED <<fileVars, skip>>
  <2>1. lost' \in BOOLEAN
    BY <1>2 DEF fileVars
  <2>. QED  BY <1>0, <1>1, <1>2, <2>1 DEF EmptyBehind, fileVars
<1>3. CASE skip > 0 /\ pos' = pos + skip - 1 /\ skip' = 1 /\ UNCHANGED <<file, size, lost>>
  <2>1. EmptyBehind'
    BY <1>1, <1>3 DEF EmptyBehind, Places
  <2>2. lost' \in BOOLEAN
    BY <1>3
  <2>. QED  BY <1>0, <1>1, <1>3, <2>1, <2>2
<1>4. CASE skip > 0 /\ skip' = 0 /\ WriteAt(pos + skip - 1, [j \in {0} |-> 0], 0, 1)
  <2>. DEFINE at == pos + skip - 1
              z == [j \in {0} |-> 0]
  <2>1. at \in Nat /\ at >= pos /\ at + 1 = len
    BY <1>1, <1>4
  <2>2. \A j \in Places : j >= at => file[j] = 0
    BY <1>1, <2>1 DEF EmptyBehind, Places
  <2>3. \A j \in 0 .. (1 - 1) : z[j] = 0
    OBVIOUS
  <2>. HIDE DEF at, z
  <2>4. Put(file, at, z, 0, 1 + 0) = Put(file, at + 1, z, 1, 0)
    BY <2>1, <2>2, <2>3, ZerosSkipped
  <2>5. file' = file
    <3>1. file' = Put(file, at, z, 0, 1 + 0)
      BY <1>4 DEF WriteAt, at, z
    <3>. QED  BY <2>1, <2>4, <3>1, NothingPut
  <2>6. pos' = len /\ size' \in Nat /\ size' <= pos'
    BY <1>1, <1>4, <2>1 DEF WriteAt, Later, at
  <2>7. EmptyBehind'
    BY <1>1, <2>1, <2>5, <2>6 DEF EmptyBehind, Places
  <2>8. lost' \in BOOLEAN
    BY <1>4 DEF WriteAt
  <2>. QED  BY <1>0, <1>1, <1>4, <2>5, <2>6, <2>7, <2>8
<1>. QED  BY <1>2, <1>3, <1>4 DEF Close

LEMMA StepHolds == Inv /\ [Next]_vars => Inv'
<1>. SUFFICES ASSUME Inv, [Next]_vars PROVE Inv'
  OBVIOUS
<1>. USE DEF Inv, Held, Typed, callVars, Begin
<1>1. CASE \E n \in 0 .. MaxBytes : Write(n)
  BY <1>1 DEF Write, EmptyBehind, fileVars
<1>2. CASE ReadFrom
  BY <1>2 DEF ReadFrom, EmptyBehind, fileVars
<1>3. CASE \E n \in 0 .. readSz : Fill(n)
  BY <1>3, SparseAssumption DEF Fill, Return, EmptyBehind, fileVars
<1>4. CASE WriteThrough
  BY <1>4, WriteThroughHolds
<1>5. CASE ScanBlock
  BY <1>5, ScanBlockHolds
<1>6. CASE Scanned
  BY <1>6, SparseAssumption DEF Scanned, Return, EmptyBehind, fileVars
<1>7. CASE Flush
  <2>1. pos \in Nat /\ skip \in Nat /\ ((pos' = pos /\ skip' = skip) \/ (pos' = pos + skip /\ skip' = 0))
    BY <1>7 DEF Flush
  <2>2. EmptyBehind'
    BY <1>7, <2>1 DEF Flush, EmptyBehind, Places
  <2>. QED  BY <1>7, <2>1, <2>2 DEF Flush
<1>8. CASE Close
  BY <1>8, CloseHolds
<1>9. CASE UNCHANGED vars
  BY <1>9 DEF vars, EmptyBehind
<1>. QED  BY <1>1, <1>2, <1>3, <1>4, <1>5, <1>6, <1>7, <1>8, <1>9 DEF Next

-----------------------------------------------------------------------------
(* ReadFrom's n. *)

\* The loop of ReadFrom, and what it has counted.
Counts ==
  /\ pc # "idle" => call \in {"write", "readfrom"} /\ ret = "none"
  /\ pc = "fill" => call = "readfrom"
  /\ pc # "scan" => left = 0
  /\ ReadCounted

LEMMA CountsHold == Inv /\ Counts /\ [Next]_vars => Counts'
<1>. SUFFICES ASSUME Inv, Counts, [Next]_vars PROVE Counts'
  OBVIOUS
<1>. USE DEF Counts, ReadCounted
<1>0. nRead \in Nat /\ len \in Nat /\ left \in Nat /\ began \in Nat
  BY DEF Inv, Typed
<1>1. CASE (\E n \in 0 .. MaxBytes : Write(n)) \/ Flush \/ Close
  BY <1>1 DEF Write, Flush, Close, Begin
<1>2. CASE ReadFrom
  <2>1. call' = "readfrom" /\ nRead' = 0 /\ began' = len /\ len' = len /\ pc' = "fill" /\ ret' = "none"
    BY <1>2 DEF ReadFrom, Begin
  <2>. QED  BY <1>0, <1>2, <2>1 DEF ReadFrom
<1>3. CASE \E n \in 0 .. readSz : Fill(n)
  <2>1. PICK n \in 0 .. readSz : Fill(n)
    BY <1>3
  <2>2. n \in Nat /\ pc = "fill" /\ nRead' = nRead + n /\ UNCHANGED <<call, len, began>>
    BY <2>1, SparseAssumption DEF Fill
  <2>3. CASE n > 0 /\ pc' = "scan" /\ left' = n /\ UNCHANGED ret
    BY <1>0, <2>2, <2>3
  <2>4. CASE (n = 0 /\ Return("none")) \/ Return("error")
    BY <1>0, <2>2, <2>4 DEF Return
  <2>. QED  BY <2>1, <2>3, <2>4 DEF Fill
<1>4. CASE WriteThrough
  <2>1. PICK b \in [0 .. (left - 1) -> Byte], wn \in 0 .. left :
          Report(b, wn) /\ ((wn = left /\ left' = 0 /\ pc' = "scanned" /\ UNCHANGED ret) \/ Return("error"))
    BY <1>4 DEF WriteThrough
  <2>2. wn \in Nat /\ wn <= left /\ len' = len + wn /\ pc = "scan" /\ UNCHANGED <<call, nRead, began>>
    BY <1>0, <1>4, <2>1 DEF WriteThrough, Report, callVars
  <2>. QED  BY <1>0, <2>1, <2>2 DEF Return
<1>5. CASE ScanBlock
  <2>. DEFINE n == IF left >= blkSz THEN blkSz ELSE left
  <2>1. PICK b \in [0 .. (n - 1) -> Byte], k \in 0 .. n : ScanFunc(b, n, k)
    BY <1>5 DEF ScanBlock
  <2>2. n \in Nat /\ n <= left /\ k \in Nat /\ k <= n
    BY <1>0, <2>1, SparseAssumption
  <2>3. pc = "scan" /\ UNCHANGED <<call, nRead, began>>
    BY <1>5 DEF ScanBlock, callVars
  <2>. HIDE DEF n
  <2>4. \/ len' = len + n /\ left' = left - n /\ UNCHANGED <<pc, ret>>
        \/ \E m \in 0 .. n : len' = len + m /\ Return("error")
    <3>1. CASE Report(b, n) /\ left' = left - n /\ UNCHANGED <<pc, ret>>
      BY <3>1 DEF Report
    <3>2. CASE Report(b, k) /\ Return("error")
      BY <2>2, <3>2 DEF Report
    <3>3. CASE \E wn \in 0 .. (n - k) :
                 /\ Report(b, k + wn)
                 /\ \/ wn = n - k /\ left' = left - n /\ UNCHANGED <<pc, ret>>
                    \/ Return("error")
      <4>1. PICK wn \in 0 .. (n - k) :
                 /\ len' = len + (k + wn)
                 /\ \/ wn = n - k /\ left' = left - n /\ UNCHANGED <<pc, ret>>
                    \/ Return("error")
        BY <3>3 DEF Report
      <4>2. k + wn \in 0 .. n /\ (wn = n - k => k + wn = n)
        BY <2>2
      <4>. QED  BY <4>1, <4>2
    <3>. QED  BY <2>1, <3>1, <3>2, <3>3 DEF ScanFunc
  <2>. QED  BY <1>0, <2>2, <2>3, <2>4 DEF Return
<1>6. CASE Scanned
  <2>1. left = 0 /\ UNCHANGED <<call, nRead, began, len>>
    BY <1>6 DEF Scanned, callVars
  <2>. QED  BY <1>0, <1>6, <2>1 DEF Scanned, Return
<1>7. CASE UNCHANGED vars
  BY <1>7 DEF vars
<1>. QED  BY <1>1, <1>2, <1>3, <1>4, <1>5, <1>6, <1>7 DEF Next

\* Whatever seeks, writes and reads fail, the file and the hole still to come are
\* the bytes the callers were told were written, and ReadFrom without an error
\* has counted just the bytes that went there.
THEOREM FileAlwaysHolds == Spec => []FileHolds
<1>1. Init => Counts
  BY DEF Init, Counts, ReadCounted
<1>2. Inv /\ Counts => FileHolds
  BY DEF Inv, Counts, FileHolds
<1>. QED  BY InitHolds, StepHolds, CountsHold, <1>1, <1>2, PTL DEF Spec

-----------------------------------------------------------------------------
(* Close. *)

\* Once nothing is put off, the file ends before its offset just when the last
\* seek over a hole has no byte behind it.
Behind ==
  /\ skip = 0 => (size < pos <=> lost)
  /\ pc # "idle" => call \in {"write", "readfrom"}
  /\ ClosedWhole

LEMMA BehindHolds == Inv /\ Behind /\ [Next]_vars => Behind'
<1>. SUFFICES ASSUME Inv, Behind, [Next]_vars PROVE Behind'
  OBVIOUS
<1>. USE DEF Behind, ClosedWhole
<1>0. /\ pos \in Nat /\ skip \in Nat /\ size \in Nat /\ lost \in BOOLEAN
      /\ pos + skip = len /\ size <= pos /\ left \in Nat
  BY DEF Inv, Held, Typed
<1>1. CASE (\E n \in 0 .. MaxBytes : Write(n)) \/ ReadFrom
  BY <1>1 DEF Write, ReadFrom, Begin, fileVars
<1>2. CASE (\E n \in 0 .. readSz : Fill(n)) \/ Scanned
  BY <1>2 DEF Fill, Scanned, Return, fileVars, callVars
<1>3. ASSUME NEW at \in Nat, NEW b, NEW from, NEW wn \in Nat, at >= pos, skip > 0 => at > pos,
             WriteAt(at, b, from, wn)
      PROVE  size' < pos' <=> lost'
  <2>1. lost' <=> (wn = 0 /\ (lost \/ at > pos))
    BY <1>3 DEF WriteAt
  <2>2. pos' = at + wn /\ size' = IF wn = 0 THEN size ELSE Later(size, at + wn)
    BY <1>3 DEF WriteAt
  <2>3. CASE wn > 0
    <3>1. size' = pos'
      BY <1>0, <1>3, <2>2, <2>3 DEF Later
    <3>. QED  BY <1>0, <1>3, <2>1, <2>2, <2>3, <3>1
  <2>4. CASE wn = 0 /\ at > pos
    BY <1>0, <1>3, <2>1, <2>2, <2>4
  <2>5. CASE wn = 0 /\ at = pos
    <3>1. size' = size /\ pos' = pos /\ (size < pos <=> lost)
      BY <1>0, <1>3, <2>2, <2>5
    <3>2. lost' <=> lost
      BY <1>0, <2>1, <2>5
    <3>. QED  BY <3>1, <3>2
  <2>. QED  BY <1>0, <1>3, <2>3, <2>4, <2>5
<1>4. CASE WriteThrough
  <2>1. PICK b \in [0 .. (left - 1) -> Byte], wn \in 0 .. left : WriteAt(pos, b, 0, wn)
    BY <1>4 DEF WriteThrough
  <2>2. skip = 0 /\ skip' = 0 /\ call' = call /\ pc = "scan"
    BY <1>4 DEF WriteThrough, Inv, callVars
  <2>3. size' < pos' <=> lost'
    BY <1>0, <1>3, <2>1, <2>2
  <2>. QED  BY <2>2, <2>3
<1>5. CASE ScanBlock
  <2>. DEFINE n == IF left >= blkSz THEN blkSz ELSE left
  <2>1. PICK b \in [0 .. (n - 1) -> Byte], k \in 0 .. n : ScanFunc(b, n, k)
    BY <1>5 DEF ScanBlock
  <2>2. n \in Nat \ {0} /\ k \in Nat /\ call' = call /\ pc = "scan"
    BY <1>0, <1>5, <2>1, SparseAssumption DEF ScanBlock, callVars
  <2>. HIDE DEF n
  <2>3. CASE (k = n /\ skip' = skip + n) \/ (skip + k > 0 /\ skip' = skip + k)
    BY <1>0, <2>2, <2>3
  <2>4. CASE \E wn \in 0 .. (n - k) : WriteAt(pos + skip + k, b, k, wn)
    <3>1. PICK wn \in 0 .. (n - k) : WriteAt(pos + skip + k, b, k, wn)
      BY <2>4
    <3>2. pos + skip + k \in Nat /\ pos + skip + k >= pos /\ (skip > 0 => pos + skip + k > pos)
      BY <1>0, <2>2
    <3>3. size' < pos' <=> lost'
      BY <1>3, <3>1, <3>2
    <3>. QED  BY <2>2, <3>3
  <2>. QED  BY <2>1, <2>3, <2>4 DEF ScanFunc
<1>6. CASE Flush
  <2>1. pc' = "idle" /\ call' = "flush" /\ size' = size
    BY <1>6 DEF Flush, Begin
  <2>2. CASE skip > 0 /\ skip' = skip
    BY <2>1, <2>2
  <2>3. CASE pos' = pos + skip /\ skip' = 0 /\ lost' = (lost \/ skip > 0)
    <3>1. lost' <=> (lost \/ skip > 0)
      BY <2>3
    <3>2. size < pos + skip <=> (lost \/ skip > 0)
      BY <1>0
    <3>. QED  BY <2>1, <2>3, <3>1, <3>2
  <2>. QED  BY <1>6, <2>2, <2>3 DEF Flush
<1>7. CASE Close
  <2>1. pc' = "idle" /\ pc = "idle" /\ call' = "close" /\ len' = len
    BY <1>7 DEF Close, Begin
  <2>2. CASE skip > 1 /\ ret' = "error" /\ UNCHANGED <<fileVars, skip>>
    BY <1>0, <2>1, <2>2
  <2>3. CASE skip > 0 /\ ret' = "error" /\ skip' = 1
    BY <2>1, <2>3
  <2>4. CASE skip > 0 /\ skip' = 0 /\ WriteAt(pos + skip - 1, [j \in {0} |-> 0], 0, 1)
    <3>1. pos' = pos + skip - 1 + 1 /\ size' = Later(size, pos + skip - 1 + 1)
      BY <2>4 DEF WriteAt
    <3>2. lost' <=> (1 = 0 /\ (lost \/ pos + skip - 1 > pos))
      BY <2>4 DEF WriteAt
    <3>3. ~lost'
      BY <3>2
    <3>4. size' = len /\ pos' = len
      BY <1>0, <2>4, <3>1 DEF Later
    <3>. QED  BY <1>0, <2>1, <3>1, <3>3, <3>4
  <2>5. CASE skip = 0 /\ UNCHANGED <<fileVars, skip>>
    BY <1>0, <2>1, <2>5 DEF fileVars
  <2>. QED  BY <1>7, <2>2, <2>3, <2>4, <2>5 DEF Close
<1>8. CASE UNCHANGED vars
  BY <1>8 DEF vars
<1>. QED  BY <1>1, <1>2, <1>4, <1>5, <1>6, <1>7, <1>8 DEF Next

\* Whatever was called and whatever failed before, a file closed without an error
\* is short of the bytes reported just when a Flush or the seek of a failed write
\* was the last to move behind a hole (the comment at sparse.go:140).
THEOREM ClosedFileWhole == Spec => []ClosedWhole
<1>1. Init => Behind
  BY DEF Init, Behind, ClosedWhole
<1>2. Behind => ClosedWhole
  BY DEF Behind
<1>. QED  BY InitHolds, StepHolds, BehindHolds, <1>1, <1>2, PTL DEF Spec
=============================================================================

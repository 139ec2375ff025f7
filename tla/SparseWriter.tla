----------------------------- MODULE SparseWriter -----------------------------
(***************************************************************************)
(* The sparse writer, pkg/sparse/sparse.go: zeros are not written but      *)
(* skipped by a seek, which is put off until the next byte that is not     *)
(* zero.  The io.Writer below is a file with an offset: bytes that a seek  *)
(* leaves out read as zeros once something is written behind them.         *)
(*                                                                         *)
(* The bytes of a slice are chosen block by block as they are scanned.     *)
(***************************************************************************)
EXTENDS Integers

CONSTANTS
  Byte,        \* the values of a byte
  blkSz,       \* the blocks a slice is scanned in
  unroll,      \* bytes skipZeros compares at once, 256 in the code
  readSz,      \* the buffer of ReadFrom
  MaxBytes     \* bound: bytes given to the writer

ASSUME SparseAssumption ==
  /\ 0 \in Byte
  /\ {blkSz, unroll, readSz} \subseteq Nat \ {0} /\ MaxBytes \in Nat

VARIABLES
  seeks,       \* the io.Writer is an io.Seeker
  file, size, pos,  \* its bytes, its length and its offset
  skip,        \* w.skip
  pc,          \* where the call is
  call, ret,   \* the call, and whether the last one returned an error
  left,        \* bytes of the slice that are not scanned yet
  nRead,       \* ReadFrom's n, the bytes it has read from the source
  plain, len,  \* the bytes reported written by all calls, and their number
  began,       \* len when the call began
  lost         \* a seek has skipped a hole, and no byte was written behind it

vars == <<seeks, file, size, pos, skip, pc, call, ret, left, nRead, plain, len, began, lost>>

fileVars == <<file, size, pos, lost>>
callVars == <<call, nRead, began>>

Places == 0 .. (MaxBytes - 1)

-----------------------------------------------------------------------------

\* k bytes of zeros are skipped: whole groups, then single bytes, but only of
\* the group that is not whole, so a zero before another byte in its group stays.
skipZeros(b, n, k) ==
  LET whole == n - (n % unroll)
  IN  /\ \A j \in 0 .. (k - 1) : b[j] = 0
      /\ k < whole => k % unroll = 0 /\ \E j \in k .. (k + unroll - 1) : b[j] # 0
      /\ k \in whole .. (n - 1) => b[k] # 0

\* f with the n bytes of b from from on at the place to.
Put(f, to, b, from, n) ==
  [j \in Places |-> IF j \in to .. (to + n - 1) THEN b[from + j - to] ELSE f[j]]

Later(a, b) == IF a >= b THEN a ELSE b

\* wr.Write of bytes of b from from on, behind a seek to at: wn of them arrive.
WriteAt(at, b, from, wn) ==
  /\ file' = Put(file, at, b, from, wn)
  /\ size' = IF wn = 0 THEN size ELSE Later(size, at + wn)
  /\ pos' = at + wn
  /\ lost' = (wn = 0 /\ (lost \/ at > pos))

\* The first n bytes of b count as written.
Report(b, n) ==
  /\ plain' = Put(plain, len, b, 0, n)
  /\ len' = len + n

Begin(c) == call' = c /\ nRead' = 0 /\ began' = len

Return(r) == pc' = "idle" /\ ret' = r /\ left' = 0

-----------------------------------------------------------------------------

Write(n) ==
  /\ pc = "idle" /\ len + n <= MaxBytes
  /\ Begin("write") /\ pc' = "scan" /\ left' = n /\ ret' = "none"
  /\ UNCHANGED <<seeks, fileVars, skip, plain, len>>

ReadFrom ==
  /\ pc = "idle"
  /\ Begin("readfrom") /\ pc' = "fill" /\ ret' = "none"
  /\ UNCHANGED <<seeks, fileVars, skip, left, plain, len>>

\* io.ReadFull: what a reader delivered before it failed is counted, and dropped.
Fill(n) ==
  /\ pc = "fill" /\ len + n <= MaxBytes
  /\ \/ n > 0 /\ pc' = "scan" /\ left' = n /\ UNCHANGED ret
     \/ n = 0 /\ Return("none")
     \/ n < readSz /\ Return("error")
  /\ nRead' = nRead + n
  /\ UNCHANGED <<seeks, fileVars, skip, call, plain, len, began>>

\* Write on a writer that cannot seek.
WriteThrough ==
  /\ pc = "scan" /\ ~seeks
  /\ \E b \in [0 .. (left - 1) -> Byte], wn \in 0 .. left :
       /\ WriteAt(pos, b, 0, wn)
       /\ Report(b, wn)
       /\ \/ wn = left /\ left' = 0 /\ pc' = "scanned" /\ UNCHANGED ret
          \/ Return("error")
  /\ UNCHANGED <<seeks, skip, callVars>>

\* scanFunc: the k zeros a block begins with are added to the hole; if there are
\* other bytes behind them, the hole is skipped and the rest is written.  The
\* zeros count as written, whatever happens to the seek.
ScanSeekKept(b, n, k) ==  \* mutant
  \/ /\ k = n
     /\ skip' = skip + n /\ Report(b, n) /\ left' = left - n
     /\ UNCHANGED <<fileVars, pc, ret>>
  \/ /\ k < n /\ skip + k > 0
     /\ skip' = skip + k /\ Report(b, k) /\ Return("error")
     /\ UNCHANGED fileVars
  \/ /\ k < n /\ skip' = k
     /\ \E wn \in 0 .. (n - k) :
          /\ WriteAt(pos + skip + k, b, k, wn)
          /\ Report(b, k + wn)
          /\ \/ wn = n - k /\ left' = left - n /\ UNCHANGED <<pc, ret>>
             \/ Return("error")
ScanFunc(b, n, k) ==
  \/ /\ k = n
     /\ skip' = skip + n /\ Report(b, n) /\ left' = left - n
     /\ UNCHANGED <<fileVars, pc, ret>>
  \/ /\ k < n /\ skip + k > 0
     /\ skip' = skip + k /\ Report(b, k) /\ Return("error")
     /\ UNCHANGED fileVars
  \/ /\ k < n /\ skip' = 0
     /\ \E wn \in 0 .. (n - k) :
          /\ WriteAt(pos + skip + k, b, k, wn)
          /\ Report(b, k + wn)
          /\ \/ wn = n - k /\ left' = left - n /\ UNCHANGED <<pc, ret>>
             \/ Return("error")

ScanBlock ==
  /\ pc = "scan" /\ seeks /\ left > 0
  /\ LET n == IF left >= blkSz THEN blkSz ELSE left
     IN  \E b \in [0 .. (n - 1) -> Byte], k \in 0 .. n :
           skipZeros(b, n, k) /\ ScanFunc(b, n, k)
  /\ UNCHANGED <<seeks, callVars>>

\* Write returns, to ReadFrom perhaps.
Scanned ==
  /\ pc = "scanned" \/ (pc = "scan" /\ seeks /\ left = 0)
  /\ IF call = "write" THEN Return("none") ELSE pc' = "fill" /\ UNCHANGED <<ret, left>>
  /\ UNCHANGED <<seeks, fileVars, skip, callVars, plain, len>>

\* The file's own Flush may fail, too, if it has one.
Flush ==
  /\ pc = "idle"
  /\ Begin("flush") /\ ret' \in {"none", "error"}
  /\ \/ skip > 0 /\ ret' = "error" /\ UNCHANGED <<pos, skip, lost>>
     \/ pos' = pos + skip /\ skip' = 0 /\ lost' = (lost \/ skip > 0)
  /\ UNCHANGED <<seeks, file, size, pc, left, plain, len>>

\* Seek to the last byte of the hole, and write that; a write that fails writes
\* nothing.  The file's own Close may fail, too, if it has one.
CloseSeeks ==  \* mutant
  /\ pc = "idle"
  /\ Begin("close") /\ ret' \in {"none", "error"}
  /\ \/ skip > 1 /\ ret' = "error" /\ UNCHANGED <<fileVars, skip>>
     \/ pos' = pos + skip /\ skip' = 0 /\ UNCHANGED <<file, size, lost>>
  /\ UNCHANGED <<seeks, pc, left, plain, len>>
Close ==
  /\ pc = "idle"
  /\ Begin("close") /\ ret' \in {"none", "error"}
  /\ \/ skip > 1 /\ ret' = "error" /\ UNCHANGED <<fileVars, skip>>
     \/ /\ skip > 0 /\ ret' = "error"
        /\ pos' = pos + skip - 1 /\ skip' = 1 /\ UNCHANGED <<file, size, lost>>
     \/ /\ skip > 0 /\ skip' = 0
        /\ WriteAt(pos + skip - 1, [j \in {0} |-> 0], 0, 1)
     \/ skip = 0 /\ UNCHANGED <<fileVars, skip>>
  /\ UNCHANGED <<seeks, pc, left, plain, len>>

-----------------------------------------------------------------------------

Init ==
  /\ seeks \in BOOLEAN
  /\ file = [j \in Places |-> 0] /\ size = 0 /\ pos = 0
  /\ skip = 0
  /\ pc = "idle" /\ call = "write" /\ ret = "none" /\ left = 0
  /\ nRead = 0 /\ began = 0 /\ lost = FALSE
  /\ plain = [j \in Places |-> 0] /\ len = 0

Next ==
  \/ \E n \in 0 .. MaxBytes : Write(n)
  \/ ReadFrom
  \/ \E n \in 0 .. readSz : Fill(n)
  \/ WriteThrough \/ ScanBlock \/ Scanned
  \/ Flush \/ Close

Spec == Init /\ [][Next]_vars

-----------------------------------------------------------------------------

Typed ==
  /\ seeks \in BOOLEAN /\ lost \in BOOLEAN
  /\ file \in [Places -> Byte] /\ size \in Nat /\ pos \in Nat /\ skip \in Nat
  /\ pc \in {"idle", "fill", "scan", "scanned"}
  /\ call \in {"write", "readfrom", "flush", "close"}
  /\ ret \in {"none", "error"}
  /\ left \in Nat /\ len \in Nat /\ len + left <= MaxBytes
  /\ nRead \in Nat /\ began \in Nat
  /\ plain \in [Places -> Byte]

\* The file and the hole that is still to come are the bytes reported, in their
\* places.
Held ==
  /\ pos + skip = len /\ size <= pos
  /\ file = plain

\* ReadFrom's n and the bytes reported part only where it returns an error.
ReadCounted ==
  call = "readfrom" =>
    /\ nRead >= len + left - began
    /\ ret = "none" => nRead = len + left - began

\* The file and the hole that is still to come are the bytes the callers were
\* told were written, in their places, in the middle of a call and after any
\* seek or write that failed (a caller may go on behind the bytes reported);
\* ReadFrom's n is what went into the file, and the writer has lost a byte of the
\* source only if it returns an error; and the writer keeps its type.
FileHolds == Typed /\ Held /\ ReadCounted

\* The comment at sparse.go:140, "This causes the underlying writer, usually a
\* file, to commit the seek": a file closed without an error has the length of
\* the bytes reported, though they end in zeros, whatever calls failed before;
\* except when a Flush (sparse.go:117-123) or a seek before a write of which
\* nothing arrived (sparse.go:46-56) was the last to move behind a hole.  Then
\* Close has no byte to write, and the file is short.
ClosedWhole ==
  pc = "idle" /\ call = "close" /\ ret = "none" => (size < len <=> lost)
=============================================================================

------------------------------ MODULE ReaderSpec ------------------------------
(***************************************************************************)
(* What a block reader of one frame (blk.BlkRdrI: NextBlock and Close)     *)
(* promises the stream reader, however it is scheduled: blocks come in the *)
(* order of the frame, each once, an error comes in the place of the block *)
(* that caused it and is the last thing that comes, the end comes after    *)
(* the last block and only if the content hash, when it is checked, is     *)
(* that of all the blocks.  The io.Reader is read at most ahead packets    *)
(* ahead, never past the end of the frame, and not at all once Close has   *)
(* returned.                                                               *)
(***************************************************************************)
EXTENDS Naturals, Sequences

VARIABLES
  ahead,      \* packets that may be read and not delivered yet
  checked,    \* the content hash of the frame is checked
  fetched,    \* the packets taken from the io.Reader, in order
  delivered,  \* how many of them the caller was given, or told of
  held,       \* the place of the block the caller holds, 0 if none
  result,     \* "none", or what ended the frame for the caller
  closed      \* Close has returned

vars == <<ahead, checked, fetched, delivered, held, result, closed>>

Data    == {"raw", "packed", "corrupt"}
EndsOf  == {"end", "badsum", "fail"}

\* What the caller must be told of a packet: nothing, or an error.
Outcome(k) ==
  IF k \in {"raw", "packed"} THEN "none"
  ELSE IF k = "badsum" /\ ~checked THEN "end" ELSE k

Init ==
  /\ ahead \in Nat /\ checked \in BOOLEAN
  /\ fetched = <<>> /\ delivered = 0 /\ held = 0 /\ result = "none" /\ closed = FALSE

Fetch ==
  /\ ~closed
  /\ \A i \in DOMAIN fetched : fetched[i] \notin EndsOf
  /\ Len(fetched) < delivered + ahead
  /\ \E k \in Data \cup EndsOf : fetched' = Append(fetched, k)
  /\ UNCHANGED <<ahead, checked, delivered, held, result, closed>>

\* The caller is done with the block it holds.
GiveBack ==
  /\ held # 0 /\ held' = 0
  /\ UNCHANGED <<ahead, checked, fetched, delivered, result, closed>>

Deliver ==
  /\ ~closed /\ result = "none" /\ held = 0
  /\ delivered < Len(fetched)
  /\ delivered' = delivered + 1
  /\ result' = Outcome(fetched[delivered'])
  /\ held' = IF result' = "none" THEN delivered' ELSE 0
  /\ UNCHANGED <<ahead, checked, fetched, closed>>

Close ==
  /\ closed' = TRUE
  /\ held' \in {held, 0}
  /\ UNCHANGED <<ahead, checked, fetched, delivered, result>>

Next == Fetch \/ GiveBack \/ Deliver \/ Close

Spec == Init /\ [][Next]_vars
=============================================================================

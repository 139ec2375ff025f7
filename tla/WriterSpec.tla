------------------------------ MODULE WriterSpec ------------------------------
(***************************************************************************)
(* What a plz4 frame writer promises its caller, whatever runs behind it:  *)
(* the interface of plz4_writer.go, with the bytes counted and their       *)
(* blocks forgotten.  The frame in the io.Writer only grows, holds a       *)
(* prefix of the bytes accepted, is never touched again once it is         *)
(* complete, and is complete only when every accepted byte is in it and no *)
(* error occurred.  Once a Write of it failed it is broken for good; what  *)
(* the io.Writer is given after that is not part of the frame.             *)
(***************************************************************************)
EXTENDS Naturals

VARIABLES
  accepted,   \* bytes taken from the caller
  header,     \* the frame header is in the io.Writer
  written,    \* bytes of the stream in the io.Writer, in blocks
  frame,      \* "open", "complete" (end mark written) or "broken"
  error,      \* "none", or the first error, which stays
  closed,     \* Close has released the writer
  call, ret   \* the call in progress or last made, and its error

vars == <<accepted, header, written, frame, error, closed, call, ret>>

Init ==
  /\ accepted = 0 /\ header = FALSE /\ written = 0 /\ frame = "open"
  /\ error = "none" /\ closed = FALSE /\ call = "new" /\ ret = "none"

Begin ==
  /\ call' \in {"write", "readfrom", "flush", "close"}
  /\ UNCHANGED <<accepted, header, written, frame, error, closed, ret>>

\* Bytes are accepted while the writer is open, by Write and ReadFrom only.
Accept ==
  /\ call \in {"write", "readfrom"} /\ ~closed
  /\ accepted' \in Nat /\ accepted' >= accepted
  /\ error' = error \/ error = "none"
  /\ UNCHANGED <<header, written, frame, closed, call, ret>>

\* The header comes first and the blocks follow, never past what was accepted.
Header ==
  /\ frame = "open" /\ ~header
  /\ header' = TRUE
  /\ UNCHANGED <<accepted, written, frame, error, closed, call, ret>>

Advance ==
  /\ frame = "open" /\ header
  /\ written' \in Nat /\ written < written' /\ written' <= accepted
  /\ UNCHANGED <<accepted, header, frame, error, closed, call, ret>>

\* The end mark: only from Close, only of a whole and error-free stream.
Complete ==
  /\ frame = "open" /\ header /\ written = accepted
  /\ error = "none" /\ call = "close"
  /\ frame' = "complete"
  /\ UNCHANGED <<accepted, header, written, error, closed, call, ret>>

\* A Write to the io.Writer fails: the frame ends there.  The error may become
\* visible in a later step.
Break ==
  /\ frame = "open" /\ frame' = "broken"
  /\ error' = error \/ error = "none"
  /\ UNCHANGED <<accepted, header, written, closed, call, ret>>

Fail ==
  /\ error = "none" /\ error' \notin {"none", "closed"} /\ frame # "complete"
  /\ UNCHANGED <<accepted, header, written, frame, closed, call, ret>>

\* Write and ReadFrom return the error state.  A call made in an error state
\* may return it at once.
ReturnError ==
  /\ call' = call \/ error # "none"
  /\ call' \in {"write", "readfrom"} \/ (error # "none" /\ call' \in {"flush", "close"})
  /\ ret' = error
  /\ UNCHANGED <<accepted, header, written, frame, error, closed>>

\* Flush succeeds only when everything accepted is in the io.Writer.  When
\* nothing was ever accepted there is nothing to wait for, not even an error.
ReturnFlush ==
  /\ call = "flush" /\ written = accepted
  /\ accepted = 0 \/ (error = "none" /\ frame # "broken")
  /\ ret' = "none"
  /\ UNCHANGED <<accepted, header, written, frame, error, closed, call>>

\* Close returns nil and leaves ErrClosed behind a complete frame, or finds
\* an error; one returned before is not returned again.
ReturnClose ==
  /\ call = "close" /\ ~closed /\ closed' = TRUE
  /\ IF error = "none"
     THEN frame = "complete" /\ ret' = "none" /\ error' = "closed"
     ELSE ret' \in {"none", error} /\ UNCHANGED error
  /\ UNCHANGED <<accepted, header, written, frame, call>>

Next ==
  \/ Begin \/ Accept \/ Header \/ Advance \/ Complete \/ Break \/ Fail
  \/ ReturnError \/ ReturnFlush \/ ReturnClose

Spec == Init /\ [][Next]_vars
=============================================================================

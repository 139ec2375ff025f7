---------------------------- MODULE MCStreamReader ----------------------------
(* The Reader over small streams: the headers that may occur in each run. *)
EXTENDS StreamReaderProps

Header(size_, sum_) == [size |-> size_, sum |-> sum_, linked |-> FALSE]

Linked == [Header(NoSize, FALSE) EXCEPT !.linked = TRUE]
Sized  == {Header(2, TRUE), Header(3, FALSE)}
Summed == {Header(NoSize, TRUE)}

\* Without an offset a linked frame is read like a plain one.
Any   == Sized \cup Summed \cup {Linked}
Mixed == Summed \cup {Header(2, TRUE)}
=============================================================================

------------------------------- MODULE MCWriter -------------------------------
(* Writer on small instances.  The tasks are interchangeable. *)
EXTENDS Writer, TLC

Tasks == Permutations(Workers)
=============================================================================

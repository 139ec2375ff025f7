---------------------------- MODULE MCAsyncWriter ----------------------------
(* AsyncWriter on small instances.  The tasks are interchangeable. *)
EXTENDS AsyncWriterProps, TLC

Tasks == Permutations(Workers)
=============================================================================

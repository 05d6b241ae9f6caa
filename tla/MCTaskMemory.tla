---------------------------- MODULE MCTaskMemory ----------------------------
(***************************************************************************)
(* Instances of TaskMemoryProps for TLC.                                   *)
(***************************************************************************)
EXTENDS TaskMemoryProps

\* A file with a segment of code, which only a forked program can write to, and
\* one of data.
Code == <<[va |-> 0, n_pages |-> 1, flags |-> {"r", "x"}],
          [va |-> 1, n_pages |-> 1, flags |-> {"r", "w"}]>>

=============================================================================

---------------------------- MODULE MCPageTable ----------------------------
(***************************************************************************)
(* Instances of PageTable for TLC: three entries per table, the upper two  *)
(* the kernel's.                                                           *)
(***************************************************************************)
EXTENDS PageTableProps

CONSTANTS s1, s2

\* In one space two pages in different last-level tables, of which the other
\* space maps one too.
Pages == [s \in {s1, s2} |->
            IF s = s1 THEN {<<0, 0, 0>>, <<0, 1, 0>>} ELSE {<<0, 1, 0>>}]

\* Enough for both tasks to have memory at once, and little enough for it to
\* run out.
Frames == {<<2, 2, 1>>, <<2, 2, 2>>}

=============================================================================

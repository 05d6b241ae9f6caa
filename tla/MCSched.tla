------------------------------ MODULE MCSched ------------------------------
(***************************************************************************)
(* Instances of SchedProps for TLC.                                        *)
(***************************************************************************)
EXTENDS SchedProps

\* Programs that start others, execute files, rotate and end.
Exec == {"yield", "fork", "execve", "exit"}

\* The calls user/test.c makes around its execve.
TestProgram == {"fork", "execve", "yield", "putchar", "exit"}

=============================================================================

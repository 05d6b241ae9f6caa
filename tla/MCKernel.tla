------------------------------ MODULE MCKernel ------------------------------
(***************************************************************************)
(* Instances of KernelProps for TLC.                                       *)
(***************************************************************************)
EXTENDS KernelProps

\* Programs that use the console in every way and compete for the hart.
ConsoleUsers == {"getchar", "putchar", "yield", "dump", "fork", "fault"}

=============================================================================

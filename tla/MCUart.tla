------------------------------- MODULE MCUart -------------------------------
(***************************************************************************)
(* Instances of UartProps for TLC.                                         *)
(***************************************************************************)
EXTENDS UartProps

=============================================================================

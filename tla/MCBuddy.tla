------------------------------ MODULE MCBuddy ------------------------------
(***************************************************************************)
(* Instances of BuddyProps for TLC.                                        *)
(***************************************************************************)
EXTENDS BuddyProps

PowersOfTwo == [k \in 0..MAX_ORDER |-> 2^k]

=============================================================================

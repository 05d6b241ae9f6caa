---------------------------- MODULE MCBuddyLinks ----------------------------
(***************************************************************************)
(* Instances of BuddyLinks for TLC.                                        *)
(***************************************************************************)
EXTENDS BuddyLinks

PowersOfTwo == [k \in 0..MAX_ORDER |-> 2^k]

=============================================================================

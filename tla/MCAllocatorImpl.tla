-------------------------- MODULE MCAllocatorImpl --------------------------
(* Bounds for TLC: up to one block of each tier, whose addresses give an   *)
(* aligned allocation different offsets.                                   *)
EXTENDS AllocatorImpl

CONSTANTS small, medium, large
MCTiers == [b \in Blocks |-> CASE b = small -> "Small" [] b = medium -> "Medium" [] OTHER -> "Large"]
MCOffsets == [b \in Blocks |-> IF b = small THEN kFrontGuardSize ELSE 16]
=============================================================================

-------------------------- MODULE MCSlotExecution --------------------------
(* Instance of SlotExecution for TLC. *)
EXTENDS SlotExecution, TLC

Identities == Permutations(Jobs) \cup Permutations(Closures)
=============================================================================

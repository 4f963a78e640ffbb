------------------------- MODULE MCMachineLifecycle -------------------------
(* Instances of MachineLifecycle. *)
EXTENDS MachineLifecycle, TLC
=============================================================================

------------------------- MODULE MCMachineRegistry -------------------------
(***************************************************************************)
(* Model-checking instance of MachineRegistryHistory.                      *)
(***************************************************************************)
EXTENDS MachineRegistryHistory, TLC

\* UUIDs are interchangeable: the registry only compares them for equality.
IdSymmetry == Permutations(Id)
=============================================================================

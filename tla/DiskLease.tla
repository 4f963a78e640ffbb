----------------------------- MODULE DiskLease -----------------------------
(***************************************************************************)
(* What a Spawnr machine promises about its two disk images, whatever its  *)
(* commands, helpers and crashes do: environment.raw and workspace.raw     *)
(* have at most one user at a time.  A user is a Cloud Hypervisor process, *)
(* the exporter of `spawnr publish`, or the remover of `spawnr rm`; once   *)
(* the remover has started to unlink the tree, nobody but another remover  *)
(* uses the disks again.                                                   *)
(*                                                                         *)
(* MachineLifecycle implements this module (its Lease instance).           *)
(***************************************************************************)
CONSTANTS Hypervisor,  \* identities Cloud Hypervisor processes may have
          Exporter,    \* the publish command reading environment.raw
          Remover      \* the rm command unlinking the machine directory

VARIABLES users,       \* who uses the disks now
          destroyed    \* the tree has started to disappear

leaseVars == <<users, destroyed>>

User == Hypervisor \cup {Exporter, Remover}

Init == users = {} /\ destroyed = FALSE

\* Only free disks are acquired, and only whole ones are booted or exported.
Acquire(u) ==
    /\ users = {}
    /\ destroyed => u = Remover
    /\ users' = {u}
    /\ UNCHANGED destroyed

Release ==
    /\ users' = {}
    /\ UNCHANGED destroyed

Erase ==
    /\ users = {Remover}
    /\ destroyed' = TRUE
    /\ UNCHANGED users

Next == (\E u \in User : Acquire(u)) \/ Release \/ Erase

Spec == Init /\ [][Next]_leaseVars
=============================================================================

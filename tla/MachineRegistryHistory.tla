----------------------- MODULE MachineRegistryHistory -----------------------
(***************************************************************************)
(* MachineRegistry with the history its promises are stated over: whether  *)
(* more has gone wrong than a command may meet and leave nothing behind,   *)
(* and how much the running command was asked for.                         *)
(***************************************************************************)
EXTENDS MachineRegistry

VARIABLES
  mishap,   \* some command has met a second failure, or something that a signal
            \* mask does not hold back ended it while its signals were masked
  asked     \* the machines the running command is to create or remove

historyVars == <<vars, mishap, asked>>

HistoryInit == Init /\ mishap = FALSE /\ asked = 0

\* What a step adds to the history.
Recorded ==
    /\ mishap' = (mishap \/ faults' > 1 \/ (masked /\ outcome' = "killed"))
    /\ asked' = IF cmd' = "none" THEN 0
                ELSE IF cmd # "none" THEN asked
                ELSE IF cmd' = "clone" THEN left' ELSE 1

HistoryNext == Next /\ Recorded

HistorySpec == HistoryInit /\ [][HistoryNext]_historyVars

\* Until such a mishap every directory between commands belongs to a record:
\* one failure, or a signal at any point, leaves no orphaned disks (machine.rs,
\* ownership_commit).
OrphansNeedMishap == mishap \/ StorageIsRecorded

Catalogue == INSTANCE MachineCatalogue WITH
    machines <- stateFile, command <- cmd, failures <- faults, MaxFailures <- MaxFaults

\* init, clone and rm implement the catalogue: however many things go wrong and
\* whenever they are killed, they touch no other machine's record; a success is
\* the whole of what was asked, and after a single failure (rollback_created)
\* state.json lists what it did before.
CatalogueSpec == Catalogue!Spec
=============================================================================

-------------------------- MODULE MachineRegistry ---------------------------
(***************************************************************************)
(* The set of machines: how `init`, `clone --count n` and `rm` keep        *)
(* state.json, the machine directories and the running VMs in step.        *)
(*                                                                         *)
(* A command holds the state lock throughout, works on the records it read *)
(* (`memory`) and writes them back with save.  It may be ended by a        *)
(* termination signal wherever those are not blocked; any step of it may   *)
(* fail.  The VM behind a record is reduced to "on" and "off": what        *)
(* Vmm::start and Vmm::stop do in detail is MachineLifecycle's subject.    *)
(* Display names are left out: a record is its UUID, and one that nothing  *)
(* refers to any more stands for a new one.                                *)
(***************************************************************************)
EXTENDS Naturals, FiniteSets

CONSTANTS Id,          \* machine UUIDs
          NoId,        \* no machine
          MaxCount,    \* bound: most machines one clone asks for
          MaxFaults,   \* bound: failures a command may meet
          Interrupts   \* "none", "signals" (maskable), "crash" (also SIGKILL
                       \*   and a host reboot, which nothing masks)

ASSUME IdAssumption == NoId \notin Id
ASSUME BoundAssumption == MaxCount \in Nat \ {0} /\ MaxFaults \in Nat
ASSUME InterruptAssumption == Interrupts \in {"none", "signals", "crash"}

VARIABLES
  stateFile,   \* the machines state.json records
  dir,         \* dir[m]: "gone", "partial" (no owner.json), "owned" (marker,
               \*   disks incomplete), "made" (markers and both disks)
  vm,          \* vm[m]: a helper of m is "on" or both are "off"
  cmd, pc,     \* the command holding the lock, the step it has reached
  memory,      \* LockedState.state: the records the command works on
  current,     \* the machine a step is about
  created,     \* clone's `created`, or what rollback_created still has to do
  left,        \* machines the clone has still to make
  ret,         \* who called remove_storage
  masked,      \* TerminationSignalBlock held
  outcome,     \* how the last command ended
  faults,      \* history: failures this command has met
  before,      \* history: the machines recorded when it began
  doomed       \* history: machines a removal has been started on

locals == <<memory, current, created, left, ret, masked>>
vars == <<stateFile, dir, vm, cmd, pc, memory, current, created, left, ret,
          masked, outcome, faults, before, doomed>>

Dir == {"gone", "partial", "owned", "made"}
Step == {"prepare", "create_dir", "write_markers", "disks", "save_new",
         "start_clone", "rollback", "rollback_save", "rm_stop", "rm_tree", "remove_save"}

Referenced == stateFile \cup memory \cup created \cup before \cup {current}
              \cup {m \in Id : dir[m] # "gone" \/ vm[m] = "on"}

NoFault == UNCHANGED faults
Fault == faults < MaxFaults /\ faults' = faults + 1

Finish(o) ==
    /\ cmd' = "none" /\ pc' = "idle" /\ outcome' = o
    /\ memory' = {} /\ current' = NoId /\ created' = {} /\ left' = 0
    /\ ret' = "none" /\ masked' = FALSE /\ before' = {}

Goto(l) == pc' = l /\ UNCHANGED <<cmd, outcome, before, memory, current, created, left, ret, masked>>

\* save: the renamed file is there even when the last directory sync fails.
Saved == stateFile' = memory
SaveFailed == stateFile' \in {stateFile, memory}

\* Enter rollback_created for the machines in S.
RollBack(S, stillMasked) ==
    /\ pc' = "rollback" /\ created' = S /\ masked' = stillMasked
    /\ ret' = "rollback" /\ current' = NoId /\ left' = 0
    /\ UNCHANGED <<cmd, outcome, before, memory>>

CallRemove(m, back) ==
    /\ pc' = "rm_stop" /\ current' = m /\ ret' = back
-----------------------------------------------------------------------------
BeginInit ==
    /\ pc = "idle"
    /\ cmd' = "init" /\ pc' = "prepare" /\ left' = 1
    /\ memory' = stateFile /\ before' = stateFile
    /\ outcome' = "none" /\ faults' = 0
    /\ UNCHANGED <<stateFile, dir, vm, current, created, ret, masked, doomed>>

BeginClone ==
    /\ pc = "idle"
    /\ cmd' = "clone" /\ pc' = "prepare" /\ left' \in 1 .. MaxCount
    /\ memory' = stateFile /\ before' = stateFile
    /\ outcome' = "none" /\ faults' = 0
    /\ UNCHANGED <<stateFile, dir, vm, current, created, ret, masked, doomed>>

BeginRemove(m) ==
    /\ pc = "idle" /\ m \in stateFile
    /\ cmd' = "rm" /\ CallRemove(m, "rm")
    /\ memory' = stateFile /\ before' = stateFile
    /\ outcome' = "none" /\ faults' = 0
    /\ UNCHANGED <<stateFile, dir, vm, created, left, masked, doomed>>

\* new_record, prepare_storage in the shared image cache, and the signal
\* block that protects everything from the first directory to the save.
Prepare ==
    /\ pc = "prepare"
    /\ \/ /\ \E m \in Id \ Referenced :
                /\ current' = m /\ doomed' = doomed \ {m}
          /\ pc' = "create_dir" /\ masked' = TRUE /\ NoFault
          /\ UNCHANGED <<cmd, outcome, before, memory, created, left, ret>>
       \/ cmd = "init" /\ Finish("err") /\ Fault /\ UNCHANGED doomed
       \/ cmd = "clone" /\ RollBack(created, FALSE) /\ Fault /\ UNCHANGED doomed
    /\ UNCHANGED <<stateFile, dir, vm>>

\* commit_storage failed; clone lifts the block before it rolls back.
CommitFails ==
    \/ cmd = "init" /\ Finish("err")
    \/ cmd = "clone" /\ RollBack(created, FALSE)

\* MachinePaths::create and Storage::create undo what they made, but nobody
\* looks at whether that worked.
CreateDir ==
    /\ pc = "create_dir"
    /\ \/ dir' = [dir EXCEPT ![current] = "partial"] /\ Goto("write_markers") /\ NoFault
       \/ CommitFails /\ Fault /\ UNCHANGED dir
    /\ UNCHANGED <<stateFile, vm, doomed>>

WriteMarkers ==
    /\ pc = "write_markers"
    /\ \/ dir' = [dir EXCEPT ![current] = "owned"] /\ Goto("disks") /\ NoFault
       \/ dir' = [dir EXCEPT ![current] = "gone"] /\ CommitFails /\ Fault
       \/ /\ faults + 2 <= MaxFaults /\ faults' = faults + 2
          /\ dir' \in {dir, [dir EXCEPT ![current] = "owned"]} /\ CommitFails
    /\ UNCHANGED <<stateFile, vm, doomed>>

\* Two slips: the failed disks are left where they are, or recorded as made.
DisksUnsynced ==
    /\ pc = "disks"
    /\ \/ dir' = [dir EXCEPT ![current] = "made"] /\ Goto("save_new") /\ NoFault
       \/ UNCHANGED dir /\ Goto("save_new") /\ Fault
    /\ UNCHANGED <<stateFile, vm, doomed>>

DisksNoUndo ==
    /\ pc = "disks"
    /\ \/ dir' = [dir EXCEPT ![current] = "made"] /\ Goto("save_new") /\ NoFault
       \/ UNCHANGED dir /\ CommitFails /\ Fault
    /\ UNCHANGED <<stateFile, vm, doomed>>

Disks ==
    /\ pc = "disks"
    /\ \/ dir' = [dir EXCEPT ![current] = "made"] /\ Goto("save_new") /\ NoFault
       \/ dir' = [dir EXCEPT ![current] = "gone"] /\ CommitFails /\ Fault
       \/ /\ faults + 2 <= MaxFaults /\ faults' = faults + 2
          /\ dir' \in {dir, [dir EXCEPT ![current] = "partial"]} /\ CommitFails
    /\ UNCHANGED <<stateFile, vm, doomed>>

\* The record is inserted and saved; only then is the signal block dropped.
\* If the save fails the rollback runs under it.
SaveNew ==
    LET grown == memory \cup {current} IN
    /\ pc = "save_new"
    /\ \/ cmd = "init" /\ stateFile' = grown /\ Finish("ok") /\ NoFault
       \/ /\ cmd = "clone" /\ stateFile' = grown /\ memory' = grown
          /\ pc' = "start_clone" /\ created' = created \cup {current} /\ masked' = FALSE
          /\ NoFault /\ UNCHANGED <<cmd, outcome, before, current, left, ret>>
       \/ /\ stateFile' \in {stateFile, grown} /\ memory' = grown
          /\ \/ /\ cmd = "init" /\ pc' = "rollback" /\ created' = {current}
                /\ ret' = "rollback" /\ current' = NoId
             \/ cmd = "clone" /\ CallRemove(current, "current") /\ UNCHANGED created
          /\ Fault /\ UNCHANGED <<cmd, outcome, before, left, masked>>
    /\ UNCHANGED <<dir, vm, doomed>>

\* start_record and the CloneRepository request.
StartClone ==
    /\ pc = "start_clone"
    /\ \/ /\ vm' = [vm EXCEPT ![current] = "on"]
          /\ IF left = 1 THEN Finish("ok")
             ELSE /\ pc' = "prepare" /\ left' = left - 1 /\ current' = NoId
                  /\ UNCHANGED <<cmd, outcome, before, memory, created, ret, masked>>
          /\ NoFault
       \/ /\ \E v \in {"on", "off"} : vm' = [vm EXCEPT ![current] = v]
          /\ RollBack(created, FALSE) /\ Fault
    /\ UNCHANGED <<stateFile, dir, doomed>>
-----------------------------------------------------------------------------
(* rollback_created, and remove_storage which it shares with rm and clone. *)

\* A slip: the rollback takes every record it finds.
RollbackEverything ==
    /\ pc = "rollback"
    /\ \/ \E m \in memory \ doomed : CallRemove(m, "rollback")
             /\ UNCHANGED <<cmd, outcome, before, memory, created, left, masked>>
       \/ memory \subseteq doomed /\ Goto("rollback_save")
    /\ NoFault /\ UNCHANGED <<stateFile, dir, vm, doomed>>

Rollback ==
    /\ pc = "rollback"
    /\ \/ \E m \in created : CallRemove(m, "rollback")
             /\ UNCHANGED <<cmd, outcome, before, memory, created, left, masked>>
       \/ created = {} /\ Goto("rollback_save")
    /\ NoFault /\ UNCHANGED <<stateFile, dir, vm, doomed>>

\* Only a machine whose storage is provably gone loses its record.
RemoveReturns(ok) ==
    LET kept == IF ok THEN memory \ {current} ELSE memory IN
    \/ /\ ret \in {"current", "rollback"}
       /\ pc' = "rollback" /\ memory' = kept /\ created' = created \ {current}
       /\ current' = NoId /\ ret' = "rollback"
       /\ UNCHANGED <<cmd, outcome, before, left, masked>>
    \/ /\ ret = "rm" /\ ok
       /\ pc' = "remove_save" /\ memory' = kept
       /\ UNCHANGED <<cmd, outcome, before, current, created, left, ret, masked>>
    \/ /\ ret = "rm" /\ ~ok /\ Finish("err")

\* A slip: storage is removed although the runtime could not be stopped.
RmStopIgnoringErrors ==
    /\ pc = "rm_stop"
    /\ \/ vm' = [vm EXCEPT ![current] = "off"] /\ Goto("rm_tree") /\ NoFault
       \/ UNCHANGED vm /\ Goto("rm_tree") /\ Fault
    /\ UNCHANGED <<stateFile, dir, doomed>>

\* vmm::stop asks for the owner marker before anything else.
RmStop ==
    /\ pc = "rm_stop"
    /\ \/ /\ dir[current] \in {"owned", "made"}
          /\ vm' = [vm EXCEPT ![current] = "off"] /\ Goto("rm_tree") /\ NoFault
       \/ /\ dir[current] \notin {"owned", "made"}
          /\ UNCHANGED vm /\ RemoveReturns(FALSE) /\ NoFault
       \/ /\ \E v \in {vm[current], "off"} : vm' = [vm EXCEPT ![current] = v]
          /\ RemoveReturns(FALSE) /\ Fault
    /\ UNCHANGED <<stateFile, dir, doomed>>

\* remove_dir_all in whatever order the directory lists its entries.
RmTree ==
    /\ pc = "rm_tree"
    /\ doomed' = doomed \cup {current}
    /\ \/ /\ dir[current] = "made" /\ dir' = [dir EXCEPT ![current] = "owned"]
          /\ NoFault /\ Goto("rm_tree")
       \/ /\ dir[current] \in {"made", "owned"} /\ dir' = [dir EXCEPT ![current] = "partial"]
          /\ NoFault /\ Goto("rm_tree")
       \/ /\ dir[current] = "partial" /\ dir' = [dir EXCEPT ![current] = "gone"]
          /\ NoFault /\ Goto("rm_tree")
       \/ dir[current] = "gone" /\ RemoveReturns(TRUE) /\ NoFault /\ UNCHANGED dir
       \/ RemoveReturns(FALSE) /\ Fault /\ UNCHANGED dir
    /\ UNCHANGED <<stateFile, vm>>

RollbackSave ==
    /\ pc = "rollback_save"
    /\ \/ Saved /\ NoFault
       \/ SaveFailed /\ Fault
    /\ Finish("err")
    /\ UNCHANGED <<dir, vm, doomed>>

RemoveSave ==
    /\ pc = "remove_save"
    /\ \/ Saved /\ Finish("ok") /\ NoFault
       \/ SaveFailed /\ Finish("err") /\ Fault
    /\ UNCHANGED <<dir, vm, doomed>>
-----------------------------------------------------------------------------
(* The environment.                                                        *)

\* `spawnr start` of some machine, between two of the commands above.
StartMachine(m) ==
    /\ pc = "idle" /\ m \in stateFile /\ dir[m] = "made" /\ vm[m] = "off"
    /\ vm' = [vm EXCEPT ![m] = "on"]
    /\ UNCHANGED <<stateFile, dir, cmd, pc, locals, outcome, faults, before, doomed>>

\* `spawnr stop`, or the VM powering off or crashing, at any moment.
VmExit(m) ==
    /\ vm[m] = "on"
    /\ vm' = [vm EXCEPT ![m] = "off"]
    /\ UNCHANGED <<stateFile, dir, cmd, pc, locals, outcome, faults, before, doomed>>

Interrupt ==
    /\ cmd # "none"
    /\ \/ Interrupts = "signals" /\ ~masked
       \/ Interrupts = "crash"
    /\ Finish("killed")
    /\ UNCHANGED <<stateFile, dir, vm, faults, doomed>>

HostReboot ==
    /\ Interrupts = "crash"
    /\ vm' = [m \in Id |-> "off"]
    /\ Finish("killed")
    /\ UNCHANGED <<stateFile, dir, faults, doomed>>
-----------------------------------------------------------------------------
Init ==
    /\ stateFile = {} /\ dir = [m \in Id |-> "gone"] /\ vm = [m \in Id |-> "off"]
    /\ cmd = "none" /\ pc = "idle"
    /\ memory = {} /\ current = NoId /\ created = {} /\ left = 0
    /\ ret = "none" /\ masked = FALSE
    /\ outcome = "none" /\ faults = 0 /\ before = {} /\ doomed = {}

CreateStep ==
    \/ Prepare \/ CreateDir \/ WriteMarkers \/ Disks \/ SaveNew \/ StartClone

RemoveStep ==
    \/ Rollback \/ RmStop \/ RmTree \/ RollbackSave \/ RemoveSave

Next ==
    \/ BeginInit \/ BeginClone \/ (\E m \in Id : BeginRemove(m))
    \/ CreateStep
    \/ RemoveStep
    \/ (\E m \in Id : StartMachine(m) \/ VmExit(m))
    \/ Interrupt \/ HostReboot

Spec == Init /\ [][Next]_vars
-----------------------------------------------------------------------------
(* Properties.                                                             *)

TypeOK ==
    /\ stateFile \subseteq Id
    /\ dir \in [Id -> Dir]
    /\ vm \in [Id -> {"on", "off"}]
    /\ cmd \in {"none", "init", "clone", "rm"}
    /\ pc \in Step \cup {"idle"}
    /\ memory \subseteq Id
    /\ current \in Id \cup {NoId}
    /\ created \subseteq Id
    /\ left \in 0 .. MaxCount
    /\ ret \in {"none", "rm", "current", "rollback"}
    /\ masked \in BOOLEAN
    /\ outcome \in {"none", "ok", "err", "killed"}
    /\ faults \in 0 .. MaxFaults
    /\ before \subseteq Id
    /\ doomed \subseteq Id

\* A VM that runs is one the user can find and stop: through every rollback,
\* failed save, signal and crash its record stays in state.json.
RunningIsRecorded == \A m \in Id : vm[m] = "on" => m \in stateFile

\* What state.json lists has its directory and both disks, unless a removal of it
\* has begun: the record is written only after them (storage.rs: "the caller can
\* commit state only after this succeeds").  The session inside the directory,
\* which clear_session empties, is MachineLifecycle's.
RecordedIsComplete == \A m \in stateFile \ doomed : dir[m] = "made"

\* Between commands every machine directory belongs to a record: a single
\* failure, or a termination signal at any point, leaves no orphaned disks
\* (machine.rs, ownership_commit).
StorageIsRecorded == pc = "idle" => \A m \in Id : dir[m] # "gone" => m \in stateFile

Creating == cmd \in {"init", "clone"}

\* However many things go wrong, creating machines and rolling them back
\* never touches the record or the disks of one that was there before.
CloneSparesOthers ==
    [][Creating
        => \A m \in before : m \in stateFile' /\ dir'[m] = dir[m]]_vars

=============================================================================

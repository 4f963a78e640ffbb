----------------------- MODULE MachineRegistryProofs ------------------------
(***************************************************************************)
(* Theorems about MachineRegistry, for any set of machines, any count, any *)
(* number of failures and every kind of interruption.                      *)
(*                                                                         *)
(* state.json is written from the records in memory, so what is claimed of *)
(* the file is claimed of the memory of the running command as well; the   *)
(* rest of the invariant says which machine a step is about.  A second     *)
(* invariant, PInv, says how far a command has come; it gives the          *)
(* refinement of MachineCatalogue.                                         *)
(***************************************************************************)
EXTENDS MachineRegistryHistory, FiniteSetTheorems, TLAPS

\* A machine under construction is nobody else's and not yet recorded.
Unrecorded ==
    pc \in {"create_dir", "write_markers", "disks", "save_new"}
      => current \in Id \ (stateFile \cup memory)

\* What the step at hand relies on.
StepHolds ==
    /\ pc \in {"prepare", "create_dir", "write_markers", "disks", "save_new", "start_clone"}
         => left >= 1
    /\ pc = "save_new" => dir[current] = "made"
    /\ pc = "start_clone" => current \in stateFile \cap memory
    /\ pc \in {"rm_stop", "rm_tree"} => current \in Id
    /\ pc = "rm_tree" => vm[current] = "off"

\* What holds of the file holds of the memory it is written from.
MemorySound ==
    pc # "idle" =>
        /\ \A m \in Id : vm[m] = "on" => m \in memory
        /\ \A m \in memory \ doomed : dir[m] = "made"

\* A creating command works on machines of its own only.
OthersApart ==
    /\ pc = "idle" => created = {} /\ current = NoId
    /\ pc # "idle" /\ cmd = "rm" => created = {}
    /\ Creating =>
         /\ before \subseteq memory \cap stateFile
         /\ before \cap created = {}
         /\ current \notin before

IInv ==
    /\ TypeOK
    /\ Unrecorded
    /\ StepHolds
    /\ MemorySound
    /\ OthersApart
    /\ RunningIsRecorded
    /\ RecordedIsComplete

USE DEF Creating

\* Arithmetic of the clones still to make and of the failures met.
LEMMA Counts ==
    /\ 0 \in 0 .. MaxCount /\ 1 \in 0 .. MaxCount
    /\ \A n \in 1 .. MaxCount : n \in 0 .. MaxCount
    /\ \A n \in 0 .. MaxCount : n >= 1 => n - 1 \in 0 .. MaxCount
BY BoundAssumption

LEMMA FaultCounts ==
    /\ 0 \in 0 .. MaxFaults
    /\ \A n \in 0 .. MaxFaults : n < MaxFaults => n + 1 \in 0 .. MaxFaults
    /\ \A n \in 0 .. MaxFaults : n + 2 <= MaxFaults => n + 2 \in 0 .. MaxFaults
BY BoundAssumption

\* The invariant holds initially.
LEMMA IInvInit == Init => IInv
<1>1. Init => TypeOK
    BY Counts, FaultCounts DEF Init, TypeOK, Dir, Step
<1>2. Init => Unrecorded /\ StepHolds /\ MemorySound /\ OthersApart
    BY DEF Init, Unrecorded, StepHolds, MemorySound, OthersApart
<1>3. Init => RunningIsRecorded /\ RecordedIsComplete
    BY DEF Init, RunningIsRecorded, RecordedIsComplete
<1>. QED
    BY <1>1, <1>2, <1>3 DEF IInv

\* Every step keeps the types.
LEMMA TypedStep == ASSUME IInv, [Next]_vars PROVE TypeOK'
<1>0. TypeOK /\ StepHolds /\ Unrecorded
    BY DEF IInv
<1> USE Counts, FaultCounts DEF TypeOK, StepHolds, Step, Dir
<1>1. CASE BeginInit
    BY <1>0, <1>1 DEF BeginInit
<1>2. CASE BeginClone
    BY <1>0, <1>2 DEF BeginClone
<1>3. CASE \E m \in Id : BeginRemove(m)
    BY <1>0, <1>3 DEF BeginRemove, CallRemove
<1>4. CASE Prepare
    BY <1>0, <1>4 DEF Prepare, Finish, RollBack, Fault, NoFault, Referenced
<1>5. CASE CreateDir
    BY <1>0, <1>5 DEF CreateDir, Goto, CommitFails, Finish, RollBack, Fault,
       NoFault
<1>6. CASE WriteMarkers
    BY <1>0, <1>6 DEF WriteMarkers, Goto, CommitFails, Finish, RollBack,
       Fault, NoFault
<1>7. CASE Disks
    BY <1>0, <1>7 DEF Disks, Goto, CommitFails, Finish, RollBack, Fault,
       NoFault
<1>8. CASE SaveNew
    <2>1. /\ current \in Id
          /\ pc = "save_new" /\ UNCHANGED <<dir, vm, doomed>>
        BY <1>0, <1>8 DEF SaveNew, Unrecorded
    <2>2. CASE cmd = "init" /\ stateFile' = memory \cup {current} /\ Finish("ok") /\ NoFault
        BY <1>0, <2>1, <2>2 DEF Finish, NoFault
    <2>3. CASE /\ cmd = "clone" /\ stateFile' = memory \cup {current}
               /\ memory' = memory \cup {current} /\ pc' = "start_clone"
               /\ created' = created \cup {current} /\ masked' = FALSE
               /\ NoFault /\ UNCHANGED <<cmd, outcome, before, current, left, ret>>
        BY <1>0, <2>1, <2>3 DEF NoFault
    <2>4. CASE /\ stateFile' \in {stateFile, memory \cup {current}}
               /\ memory' = memory \cup {current}
               /\ \/ /\ cmd = "init" /\ pc' = "rollback" /\ created' = {current}
                     /\ ret' = "rollback" /\ current' = NoId
                  \/ cmd = "clone" /\ CallRemove(current, "current") /\ UNCHANGED created
               /\ Fault /\ UNCHANGED <<cmd, outcome, before, left, masked>>
        BY <1>0, <2>1, <2>4 DEF CallRemove, Fault
    <2>. QED
        BY <1>8, <2>2, <2>3, <2>4 DEF SaveNew
<1>9. CASE StartClone
    BY <1>0, <1>9 DEF StartClone, Finish, RollBack, Fault, NoFault
<1>10. CASE Rollback
    BY <1>0, <1>10 DEF Rollback, CallRemove, Goto, NoFault
<1>11. CASE RmStop
    <2>1. vm' \in [Id -> {"on", "off"}]
        BY <1>0, <1>11 DEF RmStop
    <2>2. CASE Goto("rm_tree") /\ NoFault
        BY <1>0, <1>11, <2>1, <2>2 DEF RmStop, Goto, NoFault
    <2>3. CASE RemoveReturns(FALSE) /\ NoFault
        BY <1>0, <1>11, <2>1, <2>3 DEF RmStop, RemoveReturns, Finish, NoFault
    <2>4. CASE RemoveReturns(FALSE) /\ Fault
        BY <1>0, <1>11, <2>1, <2>4 DEF RmStop, RemoveReturns, Finish, Fault
    <2>. QED
        BY <1>11, <2>2, <2>3, <2>4 DEF RmStop
<1>12. CASE RmTree
    <2>1. dir' \in [Id -> Dir]
        BY <1>0, <1>12 DEF RmTree
    <2>2. CASE Goto("rm_tree") /\ NoFault
        BY <1>0, <1>12, <2>1, <2>2 DEF RmTree, Goto, NoFault
    <2>3. CASE RemoveReturns(TRUE) /\ NoFault
        BY <1>0, <1>12, <2>1, <2>3 DEF RmTree, RemoveReturns, Finish, NoFault
    <2>4. CASE RemoveReturns(FALSE) /\ Fault
        BY <1>0, <1>12, <2>1, <2>4 DEF RmTree, RemoveReturns, Finish, Fault
    <2>. QED
        BY <1>12, <2>2, <2>3, <2>4 DEF RmTree
<1>13. CASE RollbackSave
    BY <1>0, <1>13 DEF RollbackSave, Saved, SaveFailed, Finish, Fault, NoFault
<1>14. CASE RemoveSave
    BY <1>0, <1>14 DEF RemoveSave, Saved, SaveFailed, Finish, Fault, NoFault
<1>15. CASE \E m \in Id : StartMachine(m)
    BY <1>0, <1>15 DEF StartMachine, locals
<1>16. CASE \E m \in Id : VmExit(m)
    BY <1>0, <1>16 DEF VmExit, locals
<1>17. CASE Interrupt
    BY <1>0, <1>17 DEF Interrupt, Finish
<1>18. CASE HostReboot
    BY <1>0, <1>18 DEF HostReboot, Finish
<1>19. CASE UNCHANGED vars
    BY <1>0, <1>19 DEF vars
<1>. QED
    BY <1>1, <1>2, <1>3, <1>4, <1>5, <1>6, <1>7, <1>8, <1>9, <1>10, <1>11,
       <1>12, <1>13, <1>14, <1>15, <1>16, <1>17, <1>18, <1>19
    DEF Next, CreateStep, RemoveStep

\* Every step keeps what it says of the machine at hand.
LEMMA StepHoldsStep == ASSUME IInv, [Next]_vars PROVE Unrecorded' /\ StepHolds'
<1> USE IdAssumption, BoundAssumption
    DEF IInv, TypeOK, Unrecorded, StepHolds, Step, Dir
<1>1. CASE BeginInit
    BY <1>1 DEF BeginInit
<1>2. CASE BeginClone
    BY <1>2 DEF BeginClone
<1>3. CASE \E m \in Id : BeginRemove(m)
    BY <1>3 DEF BeginRemove, CallRemove
<1>4. CASE Prepare
    BY <1>4 DEF Prepare, Finish, RollBack, Fault, NoFault, Referenced
<1>5. CASE CreateDir
    BY <1>5 DEF CreateDir, Goto, CommitFails, Finish, RollBack, Fault, NoFault
<1>6. CASE WriteMarkers
    BY <1>6 DEF WriteMarkers, Goto, CommitFails, Finish, RollBack, Fault,
       NoFault
<1>7. CASE Disks
    BY <1>7 DEF Disks, Goto, CommitFails, Finish, RollBack, Fault, NoFault
<1>8. CASE SaveNew
    BY <1>8 DEF SaveNew, CallRemove, Finish, Fault, NoFault
<1>9. CASE StartClone
    BY <1>9 DEF StartClone, Finish, RollBack, Fault, NoFault
<1>10. CASE Rollback
    BY <1>10 DEF Rollback, CallRemove, Goto, NoFault
<1>11. CASE RmStop
    BY <1>11 DEF RmStop, RemoveReturns, Finish, Goto, Fault, NoFault
<1>12. CASE RmTree
    BY <1>12 DEF RmTree, RemoveReturns, Finish, Goto, Fault, NoFault
<1>13. CASE RollbackSave
    BY <1>13 DEF RollbackSave, Saved, SaveFailed, Finish, Fault, NoFault
<1>14. CASE RemoveSave
    BY <1>14 DEF RemoveSave, Saved, SaveFailed, Finish, Fault, NoFault
<1>15. CASE \E m \in Id : StartMachine(m)
    BY <1>15 DEF StartMachine, locals
<1>16. CASE \E m \in Id : VmExit(m)
    BY <1>16 DEF VmExit, locals
<1>17. CASE Interrupt
    BY <1>17 DEF Interrupt, Finish
<1>18. CASE HostReboot
    BY <1>18 DEF HostReboot, Finish
<1>19. CASE UNCHANGED vars
    BY <1>19 DEF vars
<1>. QED
    BY <1>1, <1>2, <1>3, <1>4, <1>5, <1>6, <1>7, <1>8, <1>9, <1>10, <1>11,
       <1>12, <1>13, <1>14, <1>15, <1>16, <1>17, <1>18, <1>19
    DEF Next, CreateStep, RemoveStep

\* Every step keeps the records complete, those in the file and those in memory.
LEMMA RecordsStep ==
    ASSUME IInv, [Next]_vars
    PROVE  MemorySound' /\ RunningIsRecorded' /\ RecordedIsComplete'
<1> USE IdAssumption
    DEF IInv, TypeOK, Unrecorded, StepHolds, MemorySound, RunningIsRecorded,
        RecordedIsComplete, Dir
<1>1. CASE BeginInit
    BY <1>1 DEF BeginInit
<1>2. CASE BeginClone
    BY <1>2 DEF BeginClone
<1>3. CASE \E m \in Id : BeginRemove(m)
    BY <1>3 DEF BeginRemove, CallRemove
<1>4. CASE Prepare
    BY <1>4 DEF Prepare, Finish, RollBack, Fault, NoFault, Referenced
<1>5. CASE CreateDir
    BY <1>5 DEF CreateDir, Goto, CommitFails, Finish, RollBack, Fault, NoFault
<1>6. CASE WriteMarkers
    BY <1>6 DEF WriteMarkers, Goto, CommitFails, Finish, RollBack, Fault,
       NoFault
<1>7. CASE Disks
    BY <1>7 DEF Disks, Goto, CommitFails, Finish, RollBack, Fault, NoFault
<1>8. CASE SaveNew
    BY <1>8 DEF SaveNew, CallRemove, Finish, Fault, NoFault
<1>9. CASE StartClone
    BY <1>9 DEF StartClone, Finish, RollBack, Fault, NoFault
<1>10. CASE Rollback
    BY <1>10 DEF Rollback, CallRemove, Goto, NoFault
<1>11. CASE RmStop
    BY <1>11 DEF RmStop, RemoveReturns, Finish, Goto, Fault, NoFault
<1>12. CASE RmTree
    BY <1>12 DEF RmTree, RemoveReturns, Finish, Goto, Fault, NoFault
<1>13. CASE RollbackSave
    BY <1>13 DEF RollbackSave, Saved, SaveFailed, Finish, Fault, NoFault
<1>14. CASE RemoveSave
    BY <1>14 DEF RemoveSave, Saved, SaveFailed, Finish, Fault, NoFault
<1>15. CASE \E m \in Id : StartMachine(m)
    BY <1>15 DEF StartMachine, locals
<1>16. CASE \E m \in Id : VmExit(m)
    BY <1>16 DEF VmExit, locals
<1>17. CASE Interrupt
    BY <1>17 DEF Interrupt, Finish
<1>18. CASE HostReboot
    BY <1>18 DEF HostReboot, Finish
<1>19. CASE UNCHANGED vars
    BY <1>19 DEF vars
<1>. QED
    BY <1>1, <1>2, <1>3, <1>4, <1>5, <1>6, <1>7, <1>8, <1>9, <1>10, <1>11,
       <1>12, <1>13, <1>14, <1>15, <1>16, <1>17, <1>18, <1>19
    DEF Next, CreateStep, RemoveStep

\* A creating command keeps to its own machines.
LEMMA ApartStep == ASSUME IInv, [Next]_vars PROVE OthersApart'
<1> USE IdAssumption DEF IInv, TypeOK, Unrecorded, StepHolds, OthersApart
<1>1. CASE BeginInit
    BY <1>1 DEF BeginInit
<1>2. CASE BeginClone
    BY <1>2 DEF BeginClone
<1>3. CASE \E m \in Id : BeginRemove(m)
    BY <1>3 DEF BeginRemove, CallRemove
<1>4. CASE Prepare
    BY <1>4 DEF Prepare, Finish, RollBack, Fault, NoFault, Referenced
<1>5. CASE CreateDir
    BY <1>5 DEF CreateDir, Goto, CommitFails, Finish, RollBack, Fault, NoFault
<1>6. CASE WriteMarkers
    BY <1>6 DEF WriteMarkers, Goto, CommitFails, Finish, RollBack, Fault,
       NoFault
<1>7. CASE Disks
    BY <1>7 DEF Disks, Goto, CommitFails, Finish, RollBack, Fault, NoFault
<1>8. CASE SaveNew
    BY <1>8 DEF SaveNew, CallRemove, Finish, Fault, NoFault
<1>9. CASE StartClone
    BY <1>9 DEF StartClone, Finish, RollBack, Fault, NoFault
<1>10. CASE Rollback
    BY <1>10 DEF Rollback, CallRemove, Goto, NoFault
<1>11. CASE RmStop
    BY <1>11 DEF RmStop, RemoveReturns, Finish, Goto, Fault, NoFault
<1>12. CASE RmTree
    BY <1>12 DEF RmTree, RemoveReturns, Finish, Goto, Fault, NoFault
<1>13. CASE RollbackSave
    BY <1>13 DEF RollbackSave, Saved, SaveFailed, Finish, Fault, NoFault
<1>14. CASE RemoveSave
    BY <1>14 DEF RemoveSave, Saved, SaveFailed, Finish, Fault, NoFault
<1>15. CASE \E m \in Id : StartMachine(m)
    BY <1>15 DEF StartMachine, locals
<1>16. CASE \E m \in Id : VmExit(m)
    BY <1>16 DEF VmExit, locals
<1>17. CASE Interrupt
    BY <1>17 DEF Interrupt, Finish
<1>18. CASE HostReboot
    BY <1>18 DEF HostReboot, Finish
<1>19. CASE UNCHANGED vars
    BY <1>19 DEF vars
<1>. QED
    BY <1>1, <1>2, <1>3, <1>4, <1>5, <1>6, <1>7, <1>8, <1>9, <1>10, <1>11,
       <1>12, <1>13, <1>14, <1>15, <1>16, <1>17, <1>18, <1>19
    DEF Next, CreateStep, RemoveStep

\* The invariant is inductive.
LEMMA IInvStep == IInv /\ [Next]_vars => IInv'
<1>. SUFFICES ASSUME IInv, [Next]_vars PROVE IInv'
    OBVIOUS
<1>. QED
    BY TypedStep, StepHoldsStep, RecordsStep, ApartStep
       DEF IInv

\* The invariant the theorems below are read off, in every reachable state.
THEOREM Invariance == Spec => []IInv
BY IInvInit, IInvStep, PTL DEF Spec

\* The types hold through every command, whatever fails or interrupts it.
THEOREM TypeCorrect == Spec => []TypeOK
<1>1. IInv => TypeOK
    BY DEF IInv
<1>. QED
    BY <1>1, Invariance, PTL

\* No VM ever runs without a record in state.json, even after SIGKILL or a
\* save that failed halfway, and however many removals fail.
THEOREM RunningRecorded == Spec => []RunningIsRecorded
<1>1. IInv => RunningIsRecorded
    BY DEF IInv
<1>. QED
    BY <1>1, Invariance, PTL

\* A record always stands for a complete machine, up to the machines whose
\* removal was begun.
THEOREM RecordsComplete == Spec => []RecordedIsComplete
<1>1. IInv => RecordedIsComplete
    BY DEF IInv
<1>. QED
    BY <1>1, Invariance, PTL

\* What init and clone do to a machine that was there before: nothing.
LEMMA SparesStep ==
    ASSUME IInv, [Next]_vars, Creating, NEW k \in before
    PROVE  k \in stateFile' /\ dir'[k] = dir[k]
<1> USE IdAssumption DEF IInv, TypeOK, Unrecorded, StepHolds, OthersApart
<1>1. CASE BeginInit
    BY <1>1 DEF BeginInit
<1>2. CASE BeginClone
    BY <1>2 DEF BeginClone
<1>3. CASE \E m \in Id : BeginRemove(m)
    BY <1>3 DEF BeginRemove, CallRemove
<1>4. CASE Prepare
    BY <1>4 DEF Prepare, Finish, RollBack, Fault, NoFault, Referenced
<1>5. CASE CreateDir
    BY <1>5 DEF CreateDir, Goto, CommitFails, Finish, RollBack, Fault, NoFault
<1>6. CASE WriteMarkers
    BY <1>6 DEF WriteMarkers, Goto, CommitFails, Finish, RollBack, Fault,
       NoFault
<1>7. CASE Disks
    BY <1>7 DEF Disks, Goto, CommitFails, Finish, RollBack, Fault, NoFault
<1>8. CASE SaveNew
    BY <1>8 DEF SaveNew, CallRemove, Finish, Fault, NoFault
<1>9. CASE StartClone
    BY <1>9 DEF StartClone, Finish, RollBack, Fault, NoFault
<1>10. CASE Rollback
    BY <1>10 DEF Rollback, CallRemove, Goto, NoFault
<1>11. CASE RmStop
    BY <1>11 DEF RmStop, RemoveReturns, Finish, Goto, Fault, NoFault
<1>12. CASE RmTree
    BY <1>12 DEF RmTree, RemoveReturns, Finish, Goto, Fault, NoFault
<1>13. CASE RollbackSave
    BY <1>13 DEF RollbackSave, Saved, SaveFailed, Finish, Fault, NoFault
<1>14. CASE RemoveSave
    BY <1>14 DEF RemoveSave, Saved, SaveFailed, Finish, Fault, NoFault
<1>15. CASE \E m \in Id : StartMachine(m)
    BY <1>15 DEF StartMachine, locals
<1>16. CASE \E m \in Id : VmExit(m)
    BY <1>16 DEF VmExit, locals
<1>17. CASE Interrupt
    BY <1>17 DEF Interrupt, Finish
<1>18. CASE HostReboot
    BY <1>18 DEF HostReboot, Finish
<1>19. CASE UNCHANGED vars
    BY <1>19 DEF vars
<1>. QED
    BY <1>1, <1>2, <1>3, <1>4, <1>5, <1>6, <1>7, <1>8, <1>9, <1>10, <1>11,
       <1>12, <1>13, <1>14, <1>15, <1>16, <1>17, <1>18, <1>19
    DEF Next, CreateStep, RemoveStep

\* Creating machines, and every rollback of it, spares the records and the
\* disks of the machines that were there before.
THEOREM OthersSpared == Spec => CloneSparesOthers
<1>1. IInv /\ [Next]_vars
        => [Creating => \A m \in before : m \in stateFile' /\ dir'[m] = dir[m]]_vars
    BY SparesStep
<1>. QED
    BY <1>1, Invariance, PTL DEF Spec, CloneSparesOthers

-----------------------------------------------------------------------------
(* The promises: what MachineCatalogue lists, and what is left on disk.    *)

\* A command is under way exactly when it has a step to take; and it was asked
\* for a machine at least.
CommandSound ==
    /\ cmd = "none" <=> pc = "idle"
    /\ pc = "idle" => asked = 0 /\ before = {} /\ ~masked
    /\ cmd # "none" => asked \in 1 .. MaxCount /\ (cmd # "clone" => asked = 1)
    /\ cmd = "rm" <=> ret = "rm"
    /\ IsFiniteSet(stateFile) /\ IsFiniteSet(memory)

\* On the way to the next machine: nothing has failed yet, and what was created
\* is what is recorded since the command began.
Forward == {"prepare", "create_dir", "write_markers", "disks", "save_new", "start_clone"}
ForwardSound ==
    pc \in Forward =>
        /\ Creating /\ faults = 0
        /\ stateFile = memory /\ created = memory \ before
        /\ Cardinality(created) + left = IF pc = "start_clone" THEN asked + 1 ELSE asked
        /\ pc = "start_clone" => cmd = "clone"
        /\ masked <=> pc \notin {"prepare", "start_clone"}
        /\ pc = "create_dir" => dir[current] = "gone"

\* On the way back: something has failed, and if it was one thing only, what is
\* still recorded is what is still to be removed.
Back ==
    pc \in {"rollback", "rollback_save"} \/ (pc \in {"rm_stop", "rm_tree"} /\ cmd # "rm")
BackSound ==
    Back =>
        /\ Creating /\ faults >= 1
        /\ Cardinality(memory \ before) <= asked
        /\ Cardinality(stateFile \ before) <= asked
        /\ pc = "rollback_save" => created = {}
        /\ faults = 1 =>
             memory \ before =
                 created \cup IF pc \in {"rm_stop", "rm_tree"} THEN {current} ELSE {}

\* Each machine that was created is whole until its removal.
CreatedSound ==
    /\ \A m \in created : dir[m] = "made" \/ (pc = "rm_tree" /\ m = current)
    /\ pc = "rm_stop" /\ cmd # "rm" => dir[current] = "made"

\* A removal has its one machine in mind, which the file lists to the end.
RemovalSound ==
    /\ pc = "remove_save" => cmd = "rm"
    /\ cmd = "rm" =>
        /\ pc \in {"rm_stop", "rm_tree", "remove_save"}
        /\ ~masked /\ stateFile = before /\ current \in before
        /\ memory = IF pc = "remove_save" THEN before \ {current} ELSE before

\* Without a mishap a directory belongs to a record: in the file, or, while
\* signals are blocked, in the memory that is about to be saved.
StorageSound ==
    ~mishap =>
        /\ faults <= 1
        /\ ~masked => \A m \in Id : dir[m] # "gone" => m \in stateFile
        /\ pc # "idle" => \A m \in Id : dir[m] # "gone" =>
              m \in memory \/ (m = current /\ pc \in {"write_markers", "disks", "save_new"})

PInv ==
    /\ CommandSound /\ ForwardSound /\ BackSound /\ CreatedSound /\ RemovalSound
    /\ StorageSound

\* Sizes of finite sets.
LEMMA Sizes ==
    /\ IsFiniteSet({}) /\ Cardinality({}) = 0
    /\ \A S : IsFiniteSet(S) => Cardinality(S) \in Nat
    /\ \A S, T : IsFiniteSet(S) /\ T \subseteq S =>
          IsFiniteSet(T) /\ Cardinality(T) <= Cardinality(S)
    /\ \A S, x : IsFiniteSet(S) /\ x \notin S =>
          IsFiniteSet(S \cup {x}) /\ Cardinality(S \cup {x}) = Cardinality(S) + 1
    /\ \A S, x : IsFiniteSet(S) /\ x \in S => Cardinality(S \ {x}) = Cardinality(S) - 1
<1>1. \A S, T : IsFiniteSet(S) /\ T \subseteq S =>
          IsFiniteSet(T) /\ Cardinality(T) <= Cardinality(S)
    BY FS_Subset
<1>2. \A S, x : IsFiniteSet(S) => IsFiniteSet(S \cup {x})
    BY FS_AddElement
<1>. QED
    BY <1>1, <1>2, FS_EmptySet, FS_CardinalityType, FS_AddElement, FS_RemoveElement


\* What a command has made and recorded, it counts.
LEMMA Counted == ASSUME IInv, PInv PROVE
    /\ IsFiniteSet(memory \ before) /\ IsFiniteSet(stateFile \ before)
    /\ \A S : Cardinality(memory \ S) \in Nat /\ Cardinality(stateFile \ S) \in Nat
    /\ pc \in Forward =>
          /\ IsFiniteSet(created) /\ left >= 1 /\ left \in Nat /\ asked \in Nat
          /\ Cardinality(created) \in Nat /\ Cardinality(created) <= asked
<1>1. /\ IsFiniteSet(stateFile) /\ IsFiniteSet(memory)
      /\ \A S : IsFiniteSet(memory \ S) /\ IsFiniteSet(stateFile \ S)
    BY Sizes DEF PInv, CommandSound
<1>2. \A S : Cardinality(memory \ S) \in Nat /\ Cardinality(stateFile \ S) \in Nat
    BY <1>1, Sizes
<1>3. ASSUME pc \in Forward
      PROVE  /\ IsFiniteSet(created) /\ left >= 1 /\ left \in Nat /\ asked \in Nat
             /\ Cardinality(created) \in Nat /\ Cardinality(created) <= asked
    <2>1. created = memory \ before
        BY <1>3 DEF PInv, ForwardSound
    <2>2. Cardinality(created) \in Nat /\ IsFiniteSet(created)
        BY <1>1, <1>2, <2>1
    <2>3. left \in Nat /\ left >= 1
        BY <1>3, BoundAssumption DEF IInv, TypeOK, StepHolds, Forward
    <2>4. asked \in Nat
        BY <1>3, BoundAssumption DEF PInv, CommandSound, ForwardSound
    <2>5. Cardinality(created) + left = asked \/ Cardinality(created) + left = asked + 1
        BY <1>3 DEF PInv, ForwardSound
    <2>. QED
        BY <2>2, <2>3, <2>4, <2>5
<1>. QED
    BY <1>1, <1>2, <1>3

\* A command that creates machines goes back with all that it has recorded.
LEMMA TurnsBack ==
    ASSUME IInv, PInv, pc \in Forward, RollBack(created, FALSE), UNCHANGED stateFile,
           asked' = asked, faults' >= 1
    PROVE  BackSound'
<1>1. /\ pc' = "rollback" /\ UNCHANGED <<cmd, created, before, memory>>
    BY DEF RollBack
<1>2. Creating /\ stateFile = memory /\ created = memory \ before
    BY DEF PInv, ForwardSound
<1>3. /\ Cardinality(memory' \ before') <= asked'
      /\ Cardinality(stateFile' \ before') <= asked'
    BY <1>1, <1>2, Counted
<1>4. memory' \ before' = created' \cup {}
    BY <1>1, <1>2
<1>. QED
    BY <1>1, <1>2, <1>3, <1>4 DEF BackSound, Back

\* Every step keeps what it says of the command.
LEMMA CommandStep == ASSUME IInv, PInv, Next, Recorded PROVE CommandSound'
<1>1. CASE BeginInit
    BY <1>1, BoundAssumption, Sizes DEF BeginInit, PInv, CommandSound, Recorded
<1>2. CASE BeginClone
    BY <1>2, Sizes DEF BeginClone, PInv, CommandSound, Recorded
<1>3. CASE \E m \in Id : BeginRemove(m)
    BY <1>3, BoundAssumption, Sizes DEF BeginRemove, CallRemove, PInv, CommandSound,
                                        Recorded
<1>4. CASE Prepare
    BY <1>4, Sizes DEF Prepare, Finish, RollBack, PInv, CommandSound, Recorded
<1>5. CASE CreateDir
    BY <1>5, Sizes DEF CreateDir, Goto, CommitFails, Finish, RollBack, PInv,
                       CommandSound, Recorded
<1>6. CASE WriteMarkers
    BY <1>6, Sizes DEF WriteMarkers, Goto, CommitFails, Finish, RollBack, PInv,
                       CommandSound, Recorded
<1>7. CASE Disks
    BY <1>7, Sizes DEF Disks, Goto, CommitFails, Finish, RollBack, PInv, CommandSound,
                       Recorded
<1>8. CASE SaveNew
    BY <1>8, Sizes DEF SaveNew, CallRemove, Finish, PInv, CommandSound, Recorded
<1>9. CASE StartClone
    BY <1>9, Sizes DEF StartClone, Finish, RollBack, PInv, CommandSound, RemovalSound,
                       Recorded
<1>10. CASE Rollback
    BY <1>10, Sizes DEF Rollback, CallRemove, Goto, IInv, OthersApart, PInv,
                        CommandSound, Recorded
<1>11. CASE RmStop
    BY <1>11, Sizes DEF RmStop, RemoveReturns, Finish, Goto, PInv, CommandSound,
                        Recorded
<1>12. CASE RmTree
    BY <1>12, Sizes DEF RmTree, RemoveReturns, Finish, Goto, PInv, CommandSound,
                        Recorded
<1>13. CASE RollbackSave
    BY <1>13, Sizes DEF RollbackSave, Saved, SaveFailed, Finish, PInv, CommandSound,
                        Recorded
<1>14. CASE RemoveSave
    BY <1>14, Sizes DEF RemoveSave, Saved, SaveFailed, Finish, PInv, CommandSound,
                        Recorded
<1>15. CASE \E m \in Id : StartMachine(m)
    BY <1>15, Sizes DEF StartMachine, locals, PInv, CommandSound, Recorded
<1>16. CASE \E m \in Id : VmExit(m)
    BY <1>16, Sizes DEF VmExit, locals, PInv, CommandSound, Recorded
<1>17. CASE Interrupt
    BY <1>17, Sizes DEF Interrupt, Finish, PInv, CommandSound, Recorded
<1>18. CASE HostReboot
    BY <1>18, Sizes DEF HostReboot, Finish, PInv, CommandSound, Recorded
<1>. QED
    BY <1>1, <1>2, <1>3, <1>4, <1>5, <1>6, <1>7, <1>8, <1>9, <1>10, <1>11,
       <1>12, <1>13, <1>14, <1>15, <1>16, <1>17, <1>18
    DEF Next, CreateStep, RemoveStep

\* Nothing fails on the way forward.
LEMMA ForwardStep == ASSUME IInv, PInv, Next, Recorded PROVE ForwardSound'
<1>1. CASE BeginInit
    BY <1>1, Sizes DEF BeginInit, IInv, OthersApart, PInv, CommandSound, ForwardSound,
                       Recorded
<1>2. CASE BeginClone
    BY <1>2, Sizes DEF BeginClone, IInv, OthersApart, PInv, CommandSound,
                       ForwardSound, Recorded
<1>3. CASE \E m \in Id : BeginRemove(m)
    BY <1>3, Sizes DEF BeginRemove, CallRemove, ForwardSound, Forward
<1>4. CASE Prepare
    BY <1>4, Sizes DEF Prepare, Finish, RollBack, NoFault, Referenced, PInv,
                       ForwardSound, Forward, Recorded
<1>5. CASE CreateDir
    BY <1>5, Sizes DEF CreateDir, Goto, CommitFails, Finish, RollBack, NoFault, PInv,
                       ForwardSound, Forward, Recorded
<1>6. CASE WriteMarkers
    BY <1>6, Sizes DEF WriteMarkers, Goto, CommitFails, Finish, RollBack, NoFault,
                       PInv, ForwardSound, Forward, Recorded
<1>7. CASE Disks
    BY <1>7, Sizes DEF Disks, Goto, CommitFails, Finish, RollBack, NoFault, PInv,
                       ForwardSound, Forward, Recorded
<1>8. CASE SaveNew
    <2>1. /\ pc = "save_new" /\ pc \in Forward /\ Creating /\ faults = 0
          /\ stateFile = memory /\ created = memory \ before
          /\ current \notin memory /\ current \notin before
          /\ Cardinality(created) + left = asked
        BY <1>8 DEF SaveNew, Forward, IInv, Unrecorded, OthersApart, PInv,
                    ForwardSound
    <2>2. CASE pc' \in {"idle", "rollback", "rm_stop"}
        BY <2>2 DEF ForwardSound, Forward
    <2>3. CASE /\ cmd = "clone" /\ stateFile' = memory \cup {current}
               /\ memory' = memory \cup {current} /\ pc' = "start_clone"
               /\ created' = created \cup {current} /\ masked' = FALSE
               /\ NoFault /\ UNCHANGED <<cmd, outcome, before, current, left, ret>>
        <3>1. /\ Cardinality(created') = Cardinality(created) + 1
              /\ Cardinality(created) \in Nat /\ left \in Nat /\ asked \in Nat
            BY <2>1, <2>3, Counted, Sizes
        <3>2. Cardinality(created') + left' = asked + 1
            BY <2>1, <2>3, <3>1
        <3>3. asked' = asked
            BY <2>3 DEF Recorded
        <3>4. created' = memory' \ before'
            BY <2>1, <2>3
        <3>. QED
            BY <2>1, <2>3, <3>2, <3>3, <3>4 DEF ForwardSound, NoFault
    <2>. QED
        BY <1>8, <2>2, <2>3 DEF SaveNew, Finish, CallRemove
<1>9. CASE StartClone
    BY <1>9, Sizes DEF StartClone, Finish, RollBack, NoFault, IInv, TypeOK, PInv,
                       CommandSound, ForwardSound, Forward, Recorded
<1>10. CASE Rollback
    BY <1>10, Sizes DEF Rollback, CallRemove, Goto, ForwardSound, Forward
<1>11. CASE RmStop
    BY <1>11, Sizes DEF RmStop, RemoveReturns, Finish, Goto, ForwardSound, Forward
<1>12. CASE RmTree
    BY <1>12, Sizes DEF RmTree, RemoveReturns, Finish, Goto, ForwardSound, Forward
<1>13. CASE RollbackSave
    BY <1>13, Sizes DEF RollbackSave, Finish, ForwardSound, Forward
<1>14. CASE RemoveSave
    BY <1>14, Sizes DEF RemoveSave, Finish, ForwardSound, Forward
<1>15. CASE \E m \in Id : StartMachine(m)
    BY <1>15, Sizes DEF StartMachine, PInv, CommandSound, ForwardSound
<1>16. CASE \E m \in Id : VmExit(m)
    BY <1>16, Sizes DEF VmExit, locals, PInv, ForwardSound, Recorded
<1>17. CASE Interrupt
    BY <1>17, Sizes DEF Interrupt, Finish, ForwardSound, Forward
<1>18. CASE HostReboot
    BY <1>18, Sizes DEF HostReboot, Finish, ForwardSound, Forward
<1>. QED
    BY <1>1, <1>2, <1>3, <1>4, <1>5, <1>6, <1>7, <1>8, <1>9, <1>10, <1>11,
       <1>12, <1>13, <1>14, <1>15, <1>16, <1>17, <1>18
    DEF Next, CreateStep, RemoveStep

\* The first failure leaves just what is still to be removed.
LEMMA BackStep == ASSUME IInv, PInv, Next, Recorded PROVE BackSound'
<1>1. CASE BeginInit
    BY <1>1 DEF BeginInit, BackSound, Back
<1>2. CASE BeginClone
    BY <1>2 DEF BeginClone, BackSound, Back
<1>3. CASE \E m \in Id : BeginRemove(m)
    BY <1>3 DEF BeginRemove, CallRemove, BackSound, Back
<1>4. CASE Prepare
    <2>1. pc \in Forward /\ UNCHANGED stateFile /\ faults = 0 /\ cmd # "none"
        BY <1>4 DEF Prepare, Forward, PInv, ForwardSound
    <2>2. Fault \/ faults' = faults + 2 => faults' >= 1
        BY <2>1 DEF Fault
    <2>3. CASE RollBack(created, FALSE) /\ faults' >= 1
        <3>1. asked' = asked
            BY <2>1, <2>3 DEF RollBack, Recorded
        <3>. QED
            BY <2>1, <2>3, <3>1, TurnsBack
    <2>4. CASE pc' \in {"create_dir", "write_markers", "disks", "save_new", "prepare",
                       "idle"}
        BY <2>4 DEF BackSound, Back
    <2>. QED
        BY <1>4, <2>2, <2>3, <2>4 DEF Prepare, Finish
<1>5. CASE CreateDir
    <2>1. pc \in Forward /\ UNCHANGED stateFile /\ faults = 0 /\ cmd # "none"
        BY <1>5 DEF CreateDir, Forward, PInv, ForwardSound
    <2>2. Fault \/ faults' = faults + 2 => faults' >= 1
        BY <2>1 DEF Fault
    <2>3. CASE RollBack(created, FALSE) /\ faults' >= 1
        <3>1. asked' = asked
            BY <2>1, <2>3 DEF RollBack, Recorded
        <3>. QED
            BY <2>1, <2>3, <3>1, TurnsBack
    <2>4. CASE pc' \in {"create_dir", "write_markers", "disks", "save_new", "prepare",
                       "idle"}
        BY <2>4 DEF BackSound, Back
    <2>. QED
        BY <1>5, <2>2, <2>3, <2>4 DEF CreateDir, Goto, CommitFails, Finish
<1>6. CASE WriteMarkers
    <2>1. pc \in Forward /\ UNCHANGED stateFile /\ faults = 0 /\ cmd # "none"
        BY <1>6 DEF WriteMarkers, Forward, PInv, ForwardSound
    <2>2. Fault \/ faults' = faults + 2 => faults' >= 1
        BY <2>1 DEF Fault
    <2>3. CASE RollBack(created, FALSE) /\ faults' >= 1
        <3>1. asked' = asked
            BY <2>1, <2>3 DEF RollBack, Recorded
        <3>. QED
            BY <2>1, <2>3, <3>1, TurnsBack
    <2>4. CASE pc' \in {"create_dir", "write_markers", "disks", "save_new", "prepare",
                       "idle"}
        BY <2>4 DEF BackSound, Back
    <2>. QED
        BY <1>6, <2>2, <2>3, <2>4 DEF WriteMarkers, Goto, CommitFails, Finish
<1>7. CASE Disks
    <2>1. pc \in Forward /\ UNCHANGED stateFile /\ faults = 0 /\ cmd # "none"
        BY <1>7 DEF Disks, Forward, PInv, ForwardSound
    <2>2. Fault \/ faults' = faults + 2 => faults' >= 1
        BY <2>1 DEF Fault
    <2>3. CASE RollBack(created, FALSE) /\ faults' >= 1
        <3>1. asked' = asked
            BY <2>1, <2>3 DEF RollBack, Recorded
        <3>. QED
            BY <2>1, <2>3, <3>1, TurnsBack
    <2>4. CASE pc' \in {"create_dir", "write_markers", "disks", "save_new", "prepare",
                       "idle"}
        BY <2>4 DEF BackSound, Back
    <2>. QED
        BY <1>7, <2>2, <2>3, <2>4 DEF Disks, Goto, CommitFails, Finish
<1>8. CASE SaveNew
    <2>1. /\ pc = "save_new" /\ pc \in Forward /\ Creating /\ faults = 0
          /\ stateFile = memory /\ created = memory \ before
          /\ current \notin memory /\ current \notin before /\ UNCHANGED dir
          /\ Cardinality(created) + left = asked
        BY <1>8 DEF SaveNew, Forward, IInv, Unrecorded, OthersApart, PInv,
                    ForwardSound
    <2>2. CASE pc' \in {"idle", "start_clone"}
        BY <2>2 DEF BackSound, Back
    <2>3. CASE /\ stateFile' \in {stateFile, memory \cup {current}}
               /\ memory' = memory \cup {current}
               /\ \/ /\ cmd = "init" /\ pc' = "rollback" /\ created' = {current}
                     /\ ret' = "rollback" /\ current' = NoId
                  \/ cmd = "clone" /\ CallRemove(current, "current") /\ UNCHANGED created
               /\ Fault /\ UNCHANGED <<cmd, outcome, before, left, masked>>
        <3>1. /\ faults' = 1 /\ asked' = asked
              /\ pc' \in {"rollback", "rm_stop"} /\ UNCHANGED <<cmd, before>>
            BY <2>1, <2>3 DEF Fault, Recorded, CallRemove
        <3>2. memory' \ before' = created \cup {current} /\ current \notin created
            BY <2>1, <2>3
        <3>3. /\ Cardinality(memory' \ before') = Cardinality(created) + 1
              /\ Cardinality(memory' \ before') <= asked
            <4>1. /\ IsFiniteSet(created) /\ Cardinality(created) \in Nat
                  /\ left \in Nat /\ left >= 1
                BY <2>1, Counted
            <4>2. Cardinality(memory' \ before') = Cardinality(created) + 1
                BY <3>2, <4>1, Sizes
            <4>. QED
                BY <2>1, <4>1, <4>2
        <3>4. Cardinality(stateFile' \ before') <= asked
            <4>1. CASE stateFile' = memory'
                BY <3>3, <4>1
            <4>2. CASE stateFile' = stateFile
                BY <2>1, <3>1, <4>2, Counted
            <4>. QED
                BY <2>3, <4>1, <4>2
        <3>5. cmd = "init" => created = {}
            <4>1. ASSUME cmd = "init" PROVE Cardinality(created) = 0
                BY <2>1, <4>1, Counted DEF PInv, CommandSound
            <4>. QED
                BY <2>1, <4>1, Counted, FS_EmptySet
        <3>6. pc' = "rm_stop" => memory' \ before' = created' \cup {current'}
            BY <2>3, <3>2 DEF CallRemove
        <3>7. pc' = "rollback" => memory' \ before' = created' \cup {}
            BY <2>3, <3>2, <3>5 DEF CallRemove
        <3>. QED
            BY <2>1, <3>1, <3>3, <3>4, <3>6, <3>7 DEF BackSound
    <2>. QED
        BY <1>8, <2>2, <2>3 DEF SaveNew, Finish
<1>9. CASE StartClone
    <2>1. pc \in Forward /\ UNCHANGED stateFile /\ faults = 0 /\ cmd # "none"
        BY <1>9 DEF StartClone, Forward, PInv, ForwardSound
    <2>2. Fault \/ faults' = faults + 2 => faults' >= 1
        BY <2>1 DEF Fault
    <2>3. CASE RollBack(created, FALSE) /\ faults' >= 1
        <3>1. asked' = asked
            BY <2>1, <2>3 DEF RollBack, Recorded
        <3>. QED
            BY <2>1, <2>3, <3>1, TurnsBack
    <2>4. CASE pc' \in {"create_dir", "write_markers", "disks", "save_new", "prepare",
                       "idle"}
        BY <2>4 DEF BackSound, Back
    <2>. QED
        BY <1>9, <2>2, <2>3, <2>4 DEF StartClone, Finish
<1>10. CASE Rollback
    BY <1>10 DEF Rollback, CallRemove, Goto, NoFault, PInv, BackSound, Back, Recorded
<1>11. CASE RmStop
    <2>1. CASE cmd = "rm"
        BY <1>11, <2>1 DEF RmStop, RemoveReturns, Finish, Goto, BackSound, Back, PInv,
                           CommandSound
    <2>2. CASE cmd # "rm"
        <3>1. /\ pc = "rm_stop" /\ Back /\ dir[current] = "made"
              /\ cmd # "none" /\ ret # "rm"
              /\ UNCHANGED <<stateFile, cmd, before>> /\ asked' = asked
            BY <1>11, <2>2 DEF RmStop, RemoveReturns, Goto, Back, PInv, CreatedSound,
                               CommandSound, Recorded
        <3>2. /\ Creating /\ faults >= 1 /\ faults \in Nat
              /\ Cardinality(memory \ before) <= asked
              /\ Cardinality(stateFile \ before) <= asked
            BY <3>1 DEF PInv, BackSound, IInv, TypeOK
        <3>3. CASE Goto("rm_tree") /\ NoFault
            BY <3>1, <3>2, <3>3 DEF Goto, NoFault, PInv, BackSound
        <3>4. CASE RemoveReturns(FALSE) /\ Fault
            <4>1. faults' >= 1 /\ faults' # 1
                BY <3>2, <3>4 DEF Fault
            <4>2. pc' = "rollback" /\ memory' = memory
                BY <3>1, <3>4 DEF RemoveReturns
            <4>. QED
                BY <3>1, <3>2, <4>1, <4>2 DEF BackSound
        <3>. QED
            BY <1>11, <3>1, <3>3, <3>4 DEF RmStop
    <2>. QED
        BY <2>1, <2>2
<1>12. CASE RmTree
    <2>1. CASE cmd = "rm"
        BY <1>12, <2>1 DEF RmTree, RemoveReturns, Finish, Goto, BackSound, Back, PInv,
                           CommandSound
    <2>2. CASE cmd # "rm"
        <3>1. /\ pc = "rm_tree" /\ Back /\ cmd # "none" /\ ret # "rm"
              /\ UNCHANGED <<stateFile, cmd, before>> /\ asked' = asked
            BY <1>12, <2>2 DEF RmTree, RemoveReturns, Goto, Back, PInv, CommandSound,
                               Recorded
        <3>2. /\ Creating /\ faults >= 1 /\ faults \in Nat /\ asked \in Nat
              /\ Cardinality(memory \ before) <= asked
              /\ Cardinality(stateFile \ before) <= asked
              /\ faults = 1 => memory \ before = created \cup {current}
            BY <3>1 DEF PInv, BackSound, CommandSound, IInv, TypeOK
        <3>3. CASE Goto("rm_tree") /\ NoFault
            BY <3>1, <3>2, <3>3 DEF Goto, NoFault, BackSound
        <3>4. CASE RemoveReturns(FALSE) /\ Fault
            <4>1. faults' >= 1 /\ faults' # 1
                BY <3>2, <3>4 DEF Fault
            <4>2. pc' = "rollback" /\ memory' = memory
                BY <3>1, <3>4 DEF RemoveReturns
            <4>. QED
                BY <3>1, <3>2, <4>1, <4>2 DEF BackSound
        <3>5. CASE RemoveReturns(TRUE) /\ NoFault
            <4>1. /\ pc' = "rollback" /\ memory' = memory \ {current}
                  /\ created' = created \ {current}
                  /\ faults' = faults
                BY <3>1, <3>5 DEF RemoveReturns, NoFault
            <4>2. /\ memory' \ before' \subseteq memory \ before
                  /\ faults' = 1 => memory' \ before' = created' \cup {}
                BY <3>1, <3>2, <4>1
            <4>3. Cardinality(memory' \ before') <= asked
                <5>1. /\ IsFiniteSet(memory \ before)
                      /\ Cardinality(memory \ before) \in Nat
                      /\ Cardinality(memory' \ before') <= Cardinality(memory \ before)
                      /\ IsFiniteSet(memory' \ before')
                    BY <4>2, Counted, Sizes
                <5>2. Cardinality(memory' \ before') \in Nat
                    BY <5>1, Sizes
                <5>. QED
                    BY <3>2, <5>1, <5>2
            <4>. QED
                BY <3>1, <3>2, <4>1, <4>2, <4>3 DEF BackSound
        <3>. QED
            BY <1>12, <3>1, <3>3, <3>4, <3>5 DEF RmTree
    <2>. QED
        BY <2>1, <2>2
<1>13. CASE RollbackSave
    BY <1>13 DEF RollbackSave, Finish, BackSound, Back
<1>14. CASE RemoveSave
    BY <1>14 DEF RemoveSave, Finish, BackSound, Back
<1>15. CASE \E m \in Id : StartMachine(m)
    BY <1>15 DEF StartMachine, BackSound, Back
<1>16. CASE \E m \in Id : VmExit(m)
    BY <1>16 DEF VmExit, locals, PInv, BackSound, Back, Recorded
<1>17. CASE Interrupt
    BY <1>17 DEF Interrupt, Finish, BackSound, Back
<1>18. CASE HostReboot
    BY <1>18 DEF HostReboot, Finish, BackSound, Back
<1>. QED
    BY <1>1, <1>2, <1>3, <1>4, <1>5, <1>6, <1>7, <1>8, <1>9, <1>10, <1>11,
       <1>12, <1>13, <1>14, <1>15, <1>16, <1>17, <1>18
    DEF Next, CreateStep, RemoveStep

\* What was created is left alone until it is removed.
LEMMA CreatedStep == ASSUME IInv, PInv, Next, Recorded PROVE CreatedSound'
<1>1. CASE BeginInit
    BY <1>1 DEF BeginInit, IInv, OthersApart, CreatedSound
<1>2. CASE BeginClone
    BY <1>2 DEF BeginClone, IInv, OthersApart, CreatedSound
<1>3. CASE \E m \in Id : BeginRemove(m)
    BY <1>3 DEF BeginRemove, IInv, OthersApart, CreatedSound
<1>4. CASE Prepare
    BY <1>4 DEF Prepare, Finish, RollBack, PInv, CreatedSound
<1>5. CASE CreateDir
    BY <1>5 DEF CreateDir, Goto, CommitFails, Finish, RollBack, IInv, TypeOK, PInv,
                CreatedSound, ForwardSound, Forward
<1>6. CASE WriteMarkers
    BY <1>6 DEF WriteMarkers, Goto, CommitFails, Finish, RollBack, IInv, TypeOK,
                Unrecorded, PInv, CreatedSound, ForwardSound, Forward
<1>7. CASE Disks
    BY <1>7 DEF Disks, Goto, CommitFails, Finish, RollBack, IInv, TypeOK, Unrecorded,
                PInv, CreatedSound, ForwardSound, Forward
<1>8. CASE SaveNew
    BY <1>8 DEF SaveNew, CallRemove, Finish, IInv, StepHolds, PInv, CreatedSound
<1>9. CASE StartClone
    BY <1>9 DEF StartClone, Finish, RollBack, PInv, CreatedSound
<1>10. CASE Rollback
    BY <1>10 DEF Rollback, CallRemove, Goto, PInv, CreatedSound
<1>11. CASE RmStop
    BY <1>11 DEF RmStop, RemoveReturns, Finish, Goto, PInv, CreatedSound
<1>12. CASE RmTree
    BY <1>12 DEF RmTree, RemoveReturns, Finish, Goto, IInv, TypeOK, OthersApart, PInv,
                 CommandSound, CreatedSound
<1>13. CASE RollbackSave
    BY <1>13 DEF RollbackSave, Finish, CreatedSound
<1>14. CASE RemoveSave
    BY <1>14 DEF RemoveSave, Finish, CreatedSound
<1>15. CASE \E m \in Id : StartMachine(m)
    BY <1>15 DEF StartMachine, locals, IInv, OthersApart, CreatedSound
<1>16. CASE \E m \in Id : VmExit(m)
    BY <1>16 DEF VmExit, locals, PInv, CreatedSound
<1>17. CASE Interrupt
    BY <1>17 DEF Interrupt, Finish, CreatedSound
<1>18. CASE HostReboot
    BY <1>18 DEF HostReboot, Finish, CreatedSound
<1>. QED
    BY <1>1, <1>2, <1>3, <1>4, <1>5, <1>6, <1>7, <1>8, <1>9, <1>10, <1>11,
       <1>12, <1>13, <1>14, <1>15, <1>16, <1>17, <1>18
    DEF Next, CreateStep, RemoveStep

\* A removal keeps to its machine.
LEMMA RemovalStep == ASSUME IInv, PInv, Next, Recorded PROVE RemovalSound'
<1>1. CASE BeginInit
    BY <1>1 DEF BeginInit, RemovalSound
<1>2. CASE BeginClone
    BY <1>2 DEF BeginClone, RemovalSound
<1>3. CASE \E m \in Id : BeginRemove(m)
    BY <1>3 DEF BeginRemove, CallRemove, PInv, CommandSound, RemovalSound
<1>4. CASE Prepare
    BY <1>4 DEF Prepare, Finish, RollBack, PInv, RemovalSound
<1>5. CASE CreateDir
    BY <1>5 DEF CreateDir, Goto, CommitFails, Finish, RollBack, PInv, RemovalSound
<1>6. CASE WriteMarkers
    BY <1>6 DEF WriteMarkers, Goto, CommitFails, Finish, RollBack, PInv, RemovalSound
<1>7. CASE Disks
    BY <1>7 DEF Disks, Goto, CommitFails, Finish, RollBack, PInv, RemovalSound
<1>8. CASE SaveNew
    BY <1>8 DEF SaveNew, CallRemove, Finish, RemovalSound
<1>9. CASE StartClone
    BY <1>9 DEF StartClone, Finish, RollBack, PInv, RemovalSound
<1>10. CASE Rollback
    BY <1>10 DEF Rollback, CallRemove, Goto, PInv, RemovalSound
<1>11. CASE RmStop
    BY <1>11 DEF RmStop, RemoveReturns, Finish, Goto, PInv, CommandSound, RemovalSound
<1>12. CASE RmTree
    BY <1>12 DEF RmTree, RemoveReturns, Finish, Goto, PInv, CommandSound, RemovalSound
<1>13. CASE RollbackSave
    BY <1>13 DEF RollbackSave, Finish, RemovalSound
<1>14. CASE RemoveSave
    BY <1>14 DEF RemoveSave, Finish, RemovalSound
<1>15. CASE \E m \in Id : StartMachine(m)
    BY <1>15 DEF StartMachine, PInv, RemovalSound
<1>16. CASE \E m \in Id : VmExit(m)
    BY <1>16 DEF VmExit, locals, PInv, RemovalSound
<1>17. CASE Interrupt
    BY <1>17 DEF Interrupt, Finish, RemovalSound
<1>18. CASE HostReboot
    BY <1>18 DEF HostReboot, Finish, RemovalSound
<1>. QED
    BY <1>1, <1>2, <1>3, <1>4, <1>5, <1>6, <1>7, <1>8, <1>9, <1>10, <1>11,
       <1>12, <1>13, <1>14, <1>15, <1>16, <1>17, <1>18
    DEF Next, CreateStep, RemoveStep

\* As long as there is no mishap, commands have met one failure at most.
LEMMA NoMishap ==
    ASSUME IInv, PInv, Next, Recorded, ~mishap'
    PROVE  /\ ~mishap /\ faults' \in Nat /\ faults' <= 1
           /\ masked => outcome' # "killed"
           /\ ~masked => \A m \in Id : dir[m] # "gone" => m \in stateFile
           /\ pc # "idle" => \A m \in Id : dir[m] # "gone" =>
                 \/ m \in memory
                 \/ m = current /\ pc \in {"write_markers", "disks", "save_new"}
<1>1. ~mishap /\ ~(faults' > 1) /\ ~(masked /\ outcome' = "killed")
    BY DEF Recorded
<1>2. faults' \in Nat
    BY TypedStep DEF TypeOK
<1>. QED
    BY <1>1, <1>2 DEF PInv, StorageSound

\* Every directory stays accounted for.
LEMMA StorageStep == ASSUME IInv, PInv, Next, Recorded PROVE StorageSound'
<1> SUFFICES ASSUME ~mishap'
             PROVE  /\ ~masked' => \A m \in Id : dir'[m] # "gone" => m \in stateFile'
                    /\ pc' # "idle" => \A m \in Id : dir'[m] # "gone" =>
                          \/ m \in memory'
                          \/ m = current' /\ pc' \in {"write_markers", "disks", "save_new"}
    BY NoMishap DEF StorageSound
<1>0. /\ ~masked => \A m \in Id : dir[m] # "gone" => m \in stateFile
      /\ pc # "idle" => \A m \in Id : dir[m] # "gone" =>
            m \in memory \/ (m = current /\ pc \in {"write_markers", "disks", "save_new"})
    BY NoMishap
<1>10. /\ faults' # 2 /\ ~(faults >= 1 /\ Fault) /\ (masked => outcome' # "killed")
       /\ dir \in [Id -> Dir]
    <2>1. faults \in Nat /\ faults' \in Nat /\ faults' <= 1 /\ dir \in [Id -> Dir]
        BY NoMishap DEF IInv, TypeOK
    <2>. QED
        BY <2>1, NoMishap DEF Fault
<1>11. pc = "idle" => ~masked
    BY DEF PInv, CommandSound
<1>12. pc \in Forward => stateFile = memory /\ faults = 0
    BY DEF PInv, ForwardSound
<1>1. CASE BeginInit \/ BeginClone \/ \E m \in Id : BeginRemove(m)
    BY <1>0, <1>1, <1>11 DEF BeginInit, BeginClone, BeginRemove
<1>2. CASE Prepare
    BY <1>0, <1>2, <1>12 DEF Prepare, Finish, RollBack, Forward
<1>3. CASE CreateDir
    <2>1. /\ pc = "create_dir" /\ stateFile = memory
          /\ \A m \in Id : dir[m] # "gone" => m \in memory
        BY <1>0, <1>3, <1>12 DEF CreateDir, Forward
    <2>2. CASE dir' = [dir EXCEPT ![current] = "partial"] /\ Goto("write_markers")
        BY <1>3, <1>10, <2>1, <2>2 DEF Goto, PInv, ForwardSound, Forward
    <2>3. CASE UNCHANGED <<dir, stateFile>> /\ CommitFails
        BY <2>1, <2>3 DEF CommitFails, Finish, RollBack
    <2>. QED
        BY <1>3, <2>2, <2>3 DEF CreateDir
<1>4. CASE WriteMarkers \/ Disks
    <2>1. faults' # faults + 2
        BY <1>4, <1>10, <1>12 DEF WriteMarkers, Disks, Forward
    <2>2. /\ pc \in {"write_markers", "disks"} /\ stateFile = memory /\ UNCHANGED stateFile
          /\ masked
          /\ \A m \in Id : dir[m] # "gone" => m \in memory \/ m = current
        BY <1>0, <1>4, <1>12 DEF WriteMarkers, Disks, Forward, PInv, ForwardSound
    <2>3. CASE /\ \E d \in {"owned", "made"} : dir' = [dir EXCEPT ![current] = d]
               /\ Goto("disks") \/ Goto("save_new")
        BY <1>10, <2>2, <2>3 DEF Goto
    <2>4. CASE dir' = [dir EXCEPT ![current] = "gone"] /\ CommitFails
        <3>1. \A m \in Id : dir'[m] # "gone" => m \in memory
            BY <1>10, <2>2, <2>4
        <3>. QED
            BY <2>2, <2>4, <3>1 DEF CommitFails, Finish, RollBack
    <2>. QED
        BY <1>4, <2>1, <2>3, <2>4 DEF WriteMarkers, Disks
<1>5. CASE SaveNew
    BY <1>0, <1>5 DEF SaveNew, Finish
<1>6. CASE StartClone
    BY <1>0, <1>6, <1>12 DEF StartClone, Finish, RollBack, Forward
<1>7. CASE Rollback
    BY <1>0, <1>7 DEF Rollback, Goto
<1>8. CASE RmStop
    <2>1. ret = "rm" => ~masked
        BY DEF PInv, CommandSound, RemovalSound
    <2>. QED
        BY <1>0, <1>8, <2>1 DEF RmStop, RemoveReturns, Finish, Goto
<1>9. CASE RmTree
    <2>1. ret = "rm" => ~masked
        BY DEF PInv, CommandSound, RemovalSound
    <2>2. /\ pc = "rm_tree" /\ UNCHANGED stateFile
          /\ \A m \in Id : dir'[m] # "gone" => dir[m] # "gone"
        BY <1>9, <1>10 DEF RmTree
    <2>3. CASE Goto("rm_tree")
        BY <1>0, <2>2, <2>3 DEF Goto
    <2>4. CASE RemoveReturns(FALSE)
        BY <1>0, <2>1, <2>2, <2>4 DEF RemoveReturns, Finish
    <2>5. CASE RemoveReturns(TRUE) /\ dir[current] = "gone"
        BY <1>0, <2>1, <2>2, <2>5 DEF RemoveReturns
    <2>. QED
        BY <1>9, <2>3, <2>4, <2>5 DEF RmTree
<1>13. CASE RollbackSave
    <2>1. faults >= 1
        BY <1>13 DEF RollbackSave, PInv, BackSound, Back
    <2>. QED
        BY <1>0, <1>10, <1>13, <2>1 DEF RollbackSave, Saved, Finish
<1>14. CASE RemoveSave
    <2>1. ~masked /\ pc = "remove_save" /\ memory \subseteq stateFile
        BY <1>14 DEF RemoveSave, PInv, RemovalSound
    <2>. QED
        BY <1>0, <1>14, <2>1 DEF RemoveSave, Saved, SaveFailed, Finish
<1>15. CASE (\E m \in Id : StartMachine(m) \/ VmExit(m)) \/ Interrupt \/ HostReboot
    BY <1>0, <1>10, <1>15 DEF StartMachine, VmExit, Interrupt, HostReboot, Finish,
                              locals
<1>. QED
    BY <1>1, <1>2, <1>3, <1>4, <1>5, <1>6, <1>7, <1>8, <1>9, <1>13, <1>14, <1>15
       DEF Next, CreateStep, RemoveStep

\* The promises hold initially, and a step that changes nothing keeps them.
LEMMA PInvInit == HistoryInit => PInv
<1> SUFFICES ASSUME HistoryInit PROVE PInv
    OBVIOUS
<1>1. CommandSound /\ RemovalSound
    BY Sizes DEF HistoryInit, Init, CommandSound, RemovalSound
<1>2. ForwardSound /\ BackSound /\ CreatedSound
    BY DEF HistoryInit, Init, ForwardSound, Forward, BackSound, Back, CreatedSound
<1>3. StorageSound
    BY DEF HistoryInit, Init, StorageSound
<1>. QED
    BY <1>1, <1>2, <1>3 DEF PInv

\* Every step keeps the promises.
LEMMA PInvStep == ASSUME IInv, PInv, [HistoryNext]_historyVars PROVE PInv'
<1>1. CASE HistoryNext
    BY <1>1, CommandStep, ForwardStep, BackStep, CreatedStep, RemovalStep, StorageStep
       DEF HistoryNext, PInv
<1>2. CASE UNCHANGED historyVars
    <2>1. (CommandSound /\ RemovalSound /\ ForwardSound)'
        BY <1>2 DEF historyVars, vars, PInv, CommandSound, RemovalSound, ForwardSound
    <2>2. (BackSound /\ CreatedSound /\ StorageSound)'
        BY <1>2 DEF historyVars, vars, PInv, BackSound, Back, CreatedSound,
                    StorageSound
    <2>. QED
        BY <2>1, <2>2 DEF PInv
<1>. QED
    BY <1>1, <1>2

\* The invariants of the commands, in every reachable state.
THEOREM PromisesInvariance == HistorySpec => [](IInv /\ PInv)
<1>1. HistoryInit => IInv /\ PInv
    BY IInvInit, PInvInit DEF HistoryInit
<1>2. IInv /\ PInv /\ [HistoryNext]_historyVars => (IInv /\ PInv)'
    <2>1. [HistoryNext]_historyVars => [Next]_vars
        BY DEF HistoryNext, historyVars
    <2>. QED
        BY <2>1, IInvStep, PInvStep
<1>. QED
    BY <1>1, <1>2, PTL DEF HistorySpec

\* One failure, or a signal at any point of init, clone or rm, leaves no disks
\* without a record (machine.rs ownership_commit, storage.rs create).
THEOREM OrphansAccounted == HistorySpec => []OrphansNeedMishap
<1>1. IInv /\ PInv => OrphansNeedMishap
    BY DEF PInv, StorageSound, CommandSound, OrphansNeedMishap, StorageIsRecorded
<1>. QED
    BY <1>1, PromisesInvariance, PTL

-----------------------------------------------------------------------------
(* The refinement of MachineCatalogue. *)

\* The catalogue counts as the registry does.
LEMMA SameSize == \A S : Catalogue!Cardinality(S) = Cardinality(S)
BY DEF Catalogue!Cardinality, Cardinality

\* A running command has made or removed no more than it was asked for.
LEMMA AlwaysWithin == IInv /\ PInv /\ cmd # "none" => Catalogue!Within(stateFile)
<1> SUFFICES ASSUME IInv, PInv, cmd # "none" PROVE Catalogue!Within(stateFile)
    OBVIOUS
<1>1. CASE cmd = "rm"
    <2>1. stateFile = before /\ before \ stateFile = {} /\ asked = 1
        BY <1>1 DEF PInv, RemovalSound, CommandSound
    <2>2. Cardinality(before \ stateFile) <= asked
        BY <2>1, Sizes
    <2>. QED
        BY <1>1, <2>1, <2>2, SameSize DEF Catalogue!Within
<1>2. CASE cmd # "rm"
    <2>1. Creating /\ before \subseteq stateFile
        BY <1>2 DEF IInv, TypeOK, OthersApart
    <2>2. Cardinality(stateFile \ before) <= asked
        <3>1. CASE pc \in Forward
            BY <3>1, Counted DEF PInv, ForwardSound
        <3>2. CASE pc \notin Forward
            <4>1. Back
                BY <1>2, <3>2 DEF Back, Forward, IInv, TypeOK, Step, PInv,
                                  CommandSound, RemovalSound
            <4>. QED
                BY <4>1 DEF PInv, BackSound
        <3>. QED
            BY <3>1, <3>2
    <2>. QED
        BY <1>2, <2>1, <2>2, SameSize DEF Catalogue!Within
<1>. QED
    BY <1>1, <1>2

\* Whoever goes on is at work.
LEMMA Works ==
    ASSUME IInv', PInv', Recorded, cmd # "none", UNCHANGED <<cmd, outcome, before>>,
           faults' \in faults .. MaxFaults
    PROVE  Catalogue!Work
<1>1. (IInv /\ PInv /\ cmd # "none" => Catalogue!Within(stateFile))'
    BY AlwaysWithin, PTL
<1>2. asked' = asked
    BY DEF Recorded
<1>3. Catalogue!Within(stateFile')
    BY <1>1, <1>2 DEF Catalogue!Within
<1>. QED
    BY <1>2, <1>3 DEF Catalogue!Work

\* Whoever ends is done.
LEMMA Ends ==
    ASSUME Recorded, NEW o, Finish(o)
    PROVE  Catalogue!Ended(o)
BY DEF Recorded, Finish, Catalogue!Ended

\* A command that creates, as long as it has created nothing.
LEMMA NothingCreated ==
    ASSUME IInv, PInv, pc \in Forward, cmd = "init"
    PROVE  memory = before /\ stateFile = before
<1>1. Cardinality(created) = 0
    <2>1. pc # "start_clone" /\ asked = 1
        BY DEF PInv, ForwardSound, CommandSound
    <2>. QED
        BY <2>1, Counted DEF PInv, ForwardSound
<1>2. created = {}
    BY <1>1, Counted, FS_EmptySet
<1>3. created = memory \ before /\ stateFile = memory /\ before \subseteq memory
    BY DEF PInv, ForwardSound, IInv, OthersApart
<1>. QED
    BY <1>2, <1>3

\* A failure of init before anything is recorded.
LEMMA InitFails ==
    ASSUME IInv, PInv, Recorded, pc \in Forward, cmd = "init", Finish("err"),
           UNCHANGED stateFile, faults' \in faults .. MaxFaults
    PROVE  Catalogue!Fail
<1>1. Catalogue!Within(stateFile') /\ stateFile' = before
    BY AlwaysWithin, NothingCreated
<1>. QED
    BY <1>1, Ends DEF Catalogue!Fail

\* What is left of the machines without the one that is removed.
LEMMA OneLess ==
    ASSUME IInv, PInv, cmd = "rm", NEW M, M = before \ {current}
    PROVE  Catalogue!Whole(M)
<1>1. current \in before /\ IsFiniteSet(before) /\ asked = 1 /\ before \ M = {current}
    BY DEF PInv, RemovalSound, CommandSound
<1>2. Cardinality(before \ M) <= asked /\ Cardinality(M) = Cardinality(before) - asked
    BY <1>1, Sizes, FS_Singleton
<1>. QED
    BY <1>1, <1>2, SameSize DEF Catalogue!Whole, Catalogue!Within

\* What fails or not, the count of failures does not fall.
LEMMA FaultsGrow ==
    ASSUME IInv
    PROVE  UNCHANGED faults \/ Fault \/ (faults + 2 <= MaxFaults /\ faults' = faults + 2)
              => faults' \in faults .. MaxFaults
<1>1. faults \in Nat /\ MaxFaults \in Nat /\ faults <= MaxFaults
    BY BoundAssumption DEF IInv, TypeOK
<1>. QED
    BY <1>1 DEF Fault

\* The steps that create machines.
LEMMA CreateSimulates ==
    ASSUME IInv, PInv, IInv', PInv', Recorded, CreateStep PROVE Catalogue!Next
<1>0. cmd # "none" /\ pc \in Forward
    BY DEF CreateStep, Prepare, CreateDir, WriteMarkers, Disks, SaveNew, StartClone,
           PInv, CommandSound, Forward
<1>1. faults' \in faults .. MaxFaults
    BY FaultsGrow DEF CreateStep, Prepare, CreateDir, WriteMarkers, Disks, SaveNew,
                      StartClone, NoFault
<1>2. CASE UNCHANGED <<cmd, outcome, before>>
    BY <1>0, <1>1, <1>2, Works DEF Catalogue!Next
<1>3. CASE cmd = "init" /\ Finish("err") /\ UNCHANGED stateFile
    BY <1>0, <1>1, <1>3, InitFails DEF Catalogue!Next
<1>4. CASE /\ SaveNew /\ cmd = "init" /\ Finish("ok") /\ NoFault
           /\ stateFile' = memory \cup {current}
    <2>1. /\ memory = before /\ current \notin before /\ asked = 1 /\ IsFiniteSet(before)
          /\ stateFile' = before \cup {current}
        BY <1>0, <1>4, NothingCreated DEF SaveNew, PInv, CommandSound, IInv,
                                          Unrecorded
    <2>2. stateFile' \ before = {current}
        BY <2>1
    <2>3. /\ Cardinality(stateFile' \ before) <= asked
          /\ Cardinality(stateFile') = Cardinality(before) + asked
        BY <2>1, <2>2, Sizes, FS_Singleton
    <2>4. Catalogue!Whole(stateFile')
        BY <1>4, <2>1, <2>3, SameSize DEF Catalogue!Whole, Catalogue!Within
    <2>. QED
        BY <1>0, <1>4, <2>4, Ends DEF Catalogue!Succeed, Catalogue!Next, NoFault
<1>5. CASE StartClone /\ left = 1 /\ Finish("ok") /\ NoFault
    <2>1. /\ UNCHANGED stateFile /\ cmd = "clone" /\ created = stateFile \ before
          /\ Cardinality(created) + left = asked + 1 /\ IsFiniteSet(stateFile)
          /\ before \subseteq stateFile
        BY <1>0, <1>5 DEF StartClone, PInv, ForwardSound, CommandSound, IInv,
                          OthersApart
    <2>2. /\ Cardinality(created) = asked /\ asked \in Nat
        BY <1>0, <1>5, <2>1, Counted
    <2>3. Cardinality(created) = Cardinality(stateFile) - Cardinality(before)
        <3>1. stateFile \cap before = before
            BY <2>1
        <3>. QED
            BY <2>1, <3>1, FS_Difference
    <2>4. Cardinality(stateFile) \in Nat /\ Cardinality(before) \in Nat
        BY <2>1, Sizes
    <2>5. Catalogue!Whole(stateFile')
        BY <1>0, <2>1, <2>2, <2>3, <2>4, AlwaysWithin, SameSize
           DEF Catalogue!Whole
    <2>. QED
        BY <1>0, <1>5, <2>5, Ends DEF Catalogue!Succeed, Catalogue!Next, NoFault
<1>6. CASE Prepare \/ CreateDir \/ WriteMarkers \/ Disks
    BY <1>2, <1>3, <1>6 DEF Prepare, CreateDir, WriteMarkers, Disks, Goto,
                            CommitFails, RollBack
<1>7. CASE SaveNew
    BY <1>2, <1>4, <1>7 DEF SaveNew
<1>8. CASE StartClone
    BY <1>2, <1>5, <1>8 DEF StartClone, RollBack
<1>. QED
    BY <1>6, <1>7, <1>8 DEF CreateStep

\* The steps that remove them.
LEMMA RemoveSimulates ==
    ASSUME IInv, PInv, IInv', PInv', Recorded, RemoveStep PROVE Catalogue!Next
<1>0. cmd # "none"
    BY DEF RemoveStep, Rollback, RmStop, RmTree, RollbackSave, RemoveSave, PInv,
           CommandSound
<1>1. faults' \in faults .. MaxFaults
    BY FaultsGrow DEF RemoveStep, Rollback, RmStop, RmTree, RollbackSave, RemoveSave,
                      NoFault
<1>2. CASE UNCHANGED <<cmd, outcome, before>>
    BY <1>0, <1>1, <1>2, Works DEF Catalogue!Next
<1>3. CASE cmd = "rm" /\ Finish("err") /\ Catalogue!Within(stateFile')
    BY <1>0, <1>1, <1>3, Ends DEF Catalogue!Fail, Catalogue!Next
<1>4. CASE Rollback \/ RmStop \/ RmTree
    <2>1. UNCHANGED stateFile
        BY <1>4 DEF Rollback, RmStop, RmTree
    <2>2. UNCHANGED <<cmd, outcome, before>> \/ (ret = "rm" /\ Finish("err"))
        BY <1>4 DEF Rollback, RmStop, RmTree, Goto, RemoveReturns
    <2>3. Catalogue!Within(stateFile')
        BY <1>0, <2>1, AlwaysWithin
    <2>. QED
        BY <1>2, <1>3, <2>2, <2>3 DEF PInv, CommandSound
<1>5. CASE RollbackSave
    <2>1. /\ pc = "rollback_save" /\ Finish("err") /\ stateFile' \in {stateFile, memory}
          /\ stateFile' = memory \/ Fault
        BY <1>5 DEF RollbackSave, Saved, SaveFailed
    <2>2. /\ Creating /\ faults \in Nat /\ faults >= 1 /\ created = {}
          /\ faults = 1 => memory \ before = {}
          /\ Cardinality(memory \ before) <= asked
        BY <2>1 DEF PInv, BackSound, Back, IInv, TypeOK
    <2>3. before \subseteq memory
        BY <2>2 DEF IInv, OthersApart
    <2>4. Catalogue!Within(stateFile')
        BY <1>0, <2>1, <2>2, <2>3, AlwaysWithin, SameSize
           DEF Catalogue!Within
    <2>5. ASSUME faults' <= 1 PROVE stateFile' = before
        <3>1. faults = 1 /\ ~Fault
            BY <1>1, <2>2, <2>5 DEF Fault
        <3>. QED
            BY <2>1, <2>2, <2>3, <3>1
    <2>. QED
        BY <1>0, <1>1, <2>1, <2>4, <2>5, Ends DEF Catalogue!Fail, Catalogue!Next
<1>6. CASE RemoveSave
    <2>1. cmd = "rm" /\ stateFile = before /\ memory = before \ {current}
        BY <1>6 DEF RemoveSave, PInv, RemovalSound
    <2>2. Catalogue!Whole(memory) /\ Catalogue!Within(memory) /\ Catalogue!Within(stateFile)
        BY <1>0, <2>1, OneLess, AlwaysWithin DEF Catalogue!Whole
    <2>3. CASE Saved /\ Finish("ok") /\ NoFault
        <3>1. Catalogue!Whole(stateFile')
            BY <2>2, <2>3 DEF Saved
        <3>. QED
            BY <1>0, <2>3, <3>1, Ends DEF Catalogue!Succeed, Catalogue!Next, NoFault
    <2>4. CASE SaveFailed /\ Finish("err")
        <3>1. Catalogue!Within(stateFile')
            BY <2>2, <2>4 DEF SaveFailed
        <3>. QED
            BY <1>3, <2>1, <2>4, <3>1
    <2>. QED
        BY <1>6, <2>3, <2>4 DEF RemoveSave
<1>. QED
    BY <1>4, <1>5, <1>6 DEF RemoveStep

\* Every step of the registry is one of the catalogue, or none.
LEMMA StepSimulates ==
    ASSUME IInv, PInv, IInv', PInv', [HistoryNext]_historyVars
    PROVE  [Catalogue!Next]_(Catalogue!catalogue)
<1>1. CASE BeginInit /\ Recorded
    BY <1>1 DEF BeginInit, PInv, CommandSound, Catalogue!Begin, Catalogue!Next
<1>2. CASE BeginClone /\ Recorded
    BY <1>2 DEF BeginClone, PInv, CommandSound, Catalogue!Begin, Catalogue!Next
<1>3. CASE (\E m \in Id : BeginRemove(m)) /\ Recorded
    BY <1>3 DEF BeginRemove, PInv, CommandSound, Catalogue!Begin, Catalogue!Next
<1>4. CASE (Interrupt \/ HostReboot) /\ Recorded
    BY <1>4, Ends DEF Interrupt, HostReboot, Catalogue!Killed, Catalogue!Next
<1>5. CASE (\E m \in Id : StartMachine(m) \/ VmExit(m)) /\ Recorded
    <2>1. UNCHANGED <<stateFile, cmd, before, faults, outcome>>
        BY <1>5 DEF StartMachine, VmExit
    <2>2. asked' = asked
        BY <1>5, <2>1 DEF Recorded, PInv, CommandSound
    <2>. QED
        BY <2>1, <2>2 DEF Catalogue!catalogue
<1>6. CASE UNCHANGED historyVars
    BY <1>6 DEF historyVars, vars, Catalogue!catalogue
<1>. QED
    BY <1>1, <1>2, <1>3, <1>4, <1>5, <1>6, CreateSimulates, RemoveSimulates
       DEF HistoryNext, Next

\* init, clone and rm do all that they were asked for when they succeed, leave
\* the listed machines as they were when one thing fails, and touch no other
\* machine whatever happens (machine.rs init, clone, remove, rollback_created).
THEOREM CatalogueImplemented == HistorySpec => CatalogueSpec
<1>1. HistoryInit => Catalogue!Init
    BY DEF HistoryInit, Init, Catalogue!Init
<1>2. /\ IInv /\ PInv /\ (IInv /\ PInv)' /\ [HistoryNext]_historyVars
      => [Catalogue!Next]_(Catalogue!catalogue)
    BY StepSimulates
<1>. QED
    BY <1>1, <1>2, PromisesInvariance, PTL DEF HistorySpec, CatalogueSpec,
                                               Catalogue!Spec
=============================================================================

---------------------------- MODULE MachineStorage ----------------------------
(***************************************************************************)
(* What a power failure of the host leaves of a machine.  `init` makes its *)
(* directories, markers and disks (storage.rs) and records it in           *)
(* state.json (state.rs); `rm` removes it again.  Directory entries and    *)
(* the contents of files reach the disk when they are synced, and before   *)
(* that perhaps.                                                           *)
(*                                                                         *)
(* MachineRegistry has the commands in full, for several machines, over    *)
(* storage that never forgets.  Here is one machine, with every call that  *)
(* its durability and the clean-up after failures depend on.               *)
(***************************************************************************)
EXTENDS Naturals, Sequences, FiniteSetsExt, SequencesExt

CONSTANTS MaxFaults,  \* bound: calls that fail
          MaxLosses   \* bound: power failures

ASSUME BoundAssumption == MaxFaults \in Nat /\ MaxLosses \in Nat

VARIABLES
  names,     \* the entries there are
  durable,   \* those that the disk has
  unsynced,  \* files whose contents the disk may not have
  torn,      \* files that a power failure left with other contents
  phase,     \* what the process is about
  todo,      \* the calls it has still to make for that
  outcome,   \* how the last command ended: "none", "ok", "err", "lost"
  faults, losses,
  command,   \* history: the last command: "none", "init", "rm"
  faulty,    \* history: calls that failed in it
  doomed     \* history: a removal has begun

storage == <<names, durable, unsynced, torn>>
process == <<phase, todo, outcome>>
history == <<faults, losses, command, faulty, doomed>>
vars == <<storage, process, history>>

\* "record" is a state.json that lists the machine, and "new" the file that is
\* to replace it.  An entry is in a directory.
Parent ==
    [root |-> "machines", environment |-> "root", workspace |-> "root",
     session |-> "root", owner |-> "root",
     env_marker |-> "environment", work_marker |-> "workspace",
     session_marker |-> "session",
     env_temp |-> "environment", env_disk |-> "environment",
     work_temp |-> "workspace", work_disk |-> "workspace",
     new |-> "data", record |-> "data"]
Name == DOMAIN Parent
Tree == Name \ {"new", "record"}
Needed == Tree \ {"env_temp", "work_temp"}
In(d) == {n \in Name : Parent[n] = d}

-----------------------------------------------------------------------------
(* The calls of a command, in their order. *)

\* A slip: the file is written, but not synced.
WriteUnsynced(file) == <<<<"make", file>>, <<"sync_dir", Parent[file]>>>>

\* write_json_new
WriteNew(file) == <<<<"make", file>>, <<"sync", file>>, <<"sync_dir", Parent[file]>>>>

\* MachinePaths::create
CreateTree ==
    <<<<"mkdir", "root">>, <<"mkdir", "environment">>, <<"mkdir", "workspace">>,
      <<"mkdir", "session">>>>
    \o WriteNew("owner") \o WriteNew("env_marker") \o WriteNew("work_marker")
    \o WriteNew("session_marker") \o <<<<"sync_dir", "root">>, <<"sync_dir", "machines">>>>

\* clone_image_atomic and create_ext4_atomic, with commit_no_replace.
CreateDisk(temp, disk) ==
    <<<<"make", temp>>, <<"sync", temp>>, <<"link", temp, disk>>, <<"unlink", temp>>,
      <<"sync_dir", Parent[disk]>>>>

\* Storage::create
CreateDisks == CreateDisk("env_temp", "env_disk") \o CreateDisk("work_temp", "work_disk")

\* A slip: state.json is replaced, and that is all.
SaveUnsynced(replace) == <<<<"make", "new">>, <<"sync", "new">>, <<replace, "new", "record">>>>

\* save: "rename" when the machine is recorded, "forget" when it no longer is.
Save(replace) ==
    <<<<"make", "new">>, <<"sync", "new">>, <<replace, "new", "record">>, <<"sync_dir", "data">>>>

-----------------------------------------------------------------------------
(* One call. *)

Make(n) == names' = names \cup {n} /\ unsynced' = unsynced \cup {n} /\ UNCHANGED durable
MakeDir(n) == names' = names \cup {n} /\ UNCHANGED <<durable, unsynced>>
Sync(n) == unsynced' = unsynced \ {n} /\ UNCHANGED <<names, durable>>
SyncDir(d) ==
    durable' = (durable \ In(d)) \cup (names \cap In(d)) /\ UNCHANGED <<names, unsynced>>
Link(a, b) ==
    /\ names' = names \cup {b}
    /\ unsynced' = IF a \in unsynced THEN unsynced \cup {b} ELSE unsynced
    /\ UNCHANGED durable
Gone(S) == names' = names \ S /\ unsynced' = unsynced \ S /\ UNCHANGED durable
Move(a, b) ==
    /\ names' = (names \ {a}) \cup {b}
    /\ unsynced' = IF a \in unsynced THEN (unsynced \ {a}) \cup {b} ELSE unsynced
    /\ UNCHANGED durable

Perform(call) ==
    \/ call[1] = "make" /\ Make(call[2])
    \/ call[1] = "mkdir" /\ MakeDir(call[2])
    \/ call[1] = "sync" /\ Sync(call[2])
    \/ call[1] = "sync_dir" /\ SyncDir(call[2])
    \/ call[1] = "link" /\ Link(call[2], call[3])
    \/ call[1] = "unlink" /\ Gone({call[2]})
    \/ call[1] = "rename" /\ Move(call[2], call[3])
    \/ call[1] = "forget" /\ Gone({call[2], call[3]})

\* The next call of the phase.
Call ==
    /\ todo # <<>> /\ Perform(Head(todo)) /\ todo' = Tail(todo)
    /\ UNCHANGED <<torn, phase, outcome, history>>

Enter(p, calls) == phase' = p /\ todo' = calls
End(o) == Enter("idle", <<>>) /\ outcome' = o

-----------------------------------------------------------------------------
(* The phases. *)

Idle == phase = "idle"
Readable(n) == n \in names /\ n \notin torn
Begin(c, p, calls) == Enter(p, calls) /\ command' = c /\ outcome' = "none" /\ faulty' = 0

BeginInit ==
    /\ Idle /\ names = {} /\ ~doomed
    /\ Begin("init", "tree", CreateTree)
    /\ UNCHANGED <<storage, faults, losses, doomed>>

\* rm: vmm::stop and MachinePaths::remove both ask for the owner marker.
BeginRemove ==
    /\ Idle /\ Readable("record")
    /\ IF Readable("owner")
       THEN Begin("rm", "remove", <<>>) /\ doomed' = TRUE
       ELSE End("err") /\ command' = "rm" /\ faulty' = 0 /\ UNCHANGED doomed
    /\ UNCHANGED <<storage, faults, losses>>

\* A phase whose calls are all made.
Next1 ==
    /\ todo = <<>>
    /\ \/ phase = "tree" /\ Enter("disks", CreateDisks) /\ UNCHANGED outcome
       \/ phase = "disks" /\ Enter("save", Save("rename")) /\ UNCHANGED outcome
       \/ phase = "save" /\ End("ok")
       \/ phase = "unmake" /\ Enter("clear", <<>>) /\ UNCHANGED outcome
       \/ phase \in {"keep", "undo_save", "sync_cleared"} /\ End("err")
       \/ phase = "sync_removed" /\ Enter("rm_save", Save("forget")) /\ UNCHANGED outcome
       \/ phase = "sync_undone" /\ Enter("undo_save", Save("forget")) /\ UNCHANGED outcome
       \/ phase = "rm_save" /\ End("ok")
    /\ UNCHANGED <<storage, history>>

\* remove_dir_all takes the entries in any order, a directory after its own.
Removes == {"clear", "clear_tree", "remove", "undo"}
Leaf(n) == n \in names /\ \A m \in names : Parent[m] # n

RemoveEntry ==
    /\ phase \in Removes
    /\ \E n \in Tree : Leaf(n) /\ Gone({n})
    /\ UNCHANGED <<torn, process, history>>

TreeRemoved ==
    /\ phase \in Removes /\ names \cap Tree = {}
    /\ \/ phase = "clear" /\ Enter("sync_cleared", <<<<"sync_dir", "machines">>>>)
          /\ UNCHANGED outcome
       \/ phase = "clear_tree" /\ End("err")
       \/ phase = "remove" /\ Enter("sync_removed", <<<<"sync_dir", "machines">>>>)
          /\ UNCHANGED outcome
       \/ phase = "undo" /\ Enter("sync_undone", <<<<"sync_dir", "machines">>>>)
          /\ UNCHANGED outcome
    /\ UNCHANGED <<storage, history>>

-----------------------------------------------------------------------------
(* What happens when a call fails. *)

Fault == faults < MaxFaults /\ faults' = faults + 1 /\ faulty' = faulty + 1

\* save takes its temporary file away, unless that fails too.
DropNew ==
    \/ Fault /\ Gone({"new"})
    \/ /\ faults + 2 <= MaxFaults /\ faults' = faults + 2 /\ faulty' = faulty + 2
       /\ UNCHANGED <<names, durable, unsynced>>

\* The disks that Storage::create and commit_no_replace take away again; nobody
\* looks at whether that works.
Unmake == <<<<"unlink", "env_temp">>, <<"unlink", "work_temp">>,
            <<"unlink", "env_disk">>, <<"unlink", "work_disk">>>>

\* A slip: what create has made so far is removed only if it has its marker.
TreeFailsOwned ==
    /\ phase = "tree" /\ todo # <<>> /\ Fault
    /\ IF Readable("owner") THEN Enter("clear_tree", <<>>) /\ UNCHANGED outcome ELSE End("err")
    /\ UNCHANGED <<storage, losses, command, doomed>>

\* MachinePaths::create removes the root it made, whatever is in it.
TreeFails ==
    /\ phase = "tree" /\ todo # <<>> /\ Fault
    /\ IF Head(todo) = <<"mkdir", "root">> THEN End("err")
       ELSE Enter("clear_tree", <<>>) /\ UNCHANGED outcome
    /\ UNCHANGED <<storage, losses, command, doomed>>

\* commit_machine_storage removes the machine, its owner marker being there.
DisksFail ==
    /\ phase = "disks" /\ todo # <<>> /\ Fault
    /\ Enter("unmake", Unmake) /\ UNCHANGED outcome
    /\ UNCHANGED <<storage, losses, command, doomed>>

\* A temporary file is removed, disk or no disk; when a clean-up call fails the
\* next one follows.
CleanUpFails ==
    /\ phase = "unmake" /\ todo # <<>> /\ Fault
    /\ todo' = Tail(todo) /\ UNCHANGED <<phase, outcome>>
    /\ UNCHANGED <<storage, losses, command, doomed>>

\* rollback_created removes the machine and
\* saves again.
SaveFails ==
    /\ phase = "save" /\ todo # <<>> /\ DropNew
    /\ Enter("undo", <<>>) /\ doomed' = TRUE
    /\ UNCHANGED <<torn, outcome, losses, command>>

\* A removal stops where it fails: the record is kept, by the rollback with
\* another save, or the failure is ignored.
RemovalFails ==
    /\ phase \in Removes \cup {"sync_cleared", "sync_removed", "sync_undone"} /\ Fault
    /\ IF phase \in {"undo", "sync_undone"} THEN Enter("keep", Save("rename")) /\ UNCHANGED outcome
                                            ELSE End("err")
    /\ UNCHANGED <<storage, losses, command, doomed>>

LastSaveFails ==
    /\ phase \in {"keep", "undo_save", "rm_save"} /\ todo # <<>> /\ DropNew /\ End("err")
    /\ UNCHANGED <<torn, losses, command, doomed>>

-----------------------------------------------------------------------------
\* The power fails.  An entry that was not synced may be there or not, one whose
\* directory is not there is not, and unsynced contents may be anything.
PowerLoss ==
    /\ losses < MaxLosses /\ losses' = losses + 1
    /\ \E after \in SUBSET (names \cup durable) :
         /\ names \cap durable \subseteq after
         /\ names' = {n \in after : LET up == Parent[n] IN
                        /\ up \in after \cup {"machines", "data"}
                        /\ up \in {"environment", "workspace", "session"} => "root" \in after}
    /\ durable' = names' /\ unsynced' = {}
    /\ \E lost \in SUBSET (unsynced \cap names') : torn' = (torn \cap names') \cup lost
    /\ Enter("idle", <<>>) /\ outcome' = IF Idle THEN outcome ELSE "lost"
    /\ UNCHANGED <<faults, command, faulty, doomed>>

Init ==
    /\ names = {} /\ durable = {} /\ unsynced = {} /\ torn = {}
    /\ phase = "idle" /\ todo = <<>> /\ outcome = "none"
    /\ faults = 0 /\ losses = 0 /\ command = "none" /\ faulty = 0 /\ doomed = FALSE

Works == Call \/ Next1 \/ RemoveEntry \/ TreeRemoved
Fails == TreeFails \/ DisksFail \/ CleanUpFails \/ SaveFails \/ RemovalFails \/ LastSaveFails

Next == BeginInit \/ BeginRemove \/ Works \/ Fails \/ PowerLoss

Spec == Init /\ [][Next]_vars

-----------------------------------------------------------------------------
(* Properties. *)

\* Types; without a power failure a temporary state.json stays only where two
\* calls failed.
TypeOK ==
    /\ names \subseteq Name /\ durable \subseteq Name
    /\ unsynced \subseteq names /\ torn \subseteq Name
    /\ outcome \in {"none", "ok", "err", "lost"} /\ command \in {"none", "init", "rm"} /\ doomed \in BOOLEAN
    /\ faults \in 0 .. MaxFaults /\ faulty \in 0 .. faults /\ losses \in 0 .. MaxLosses
    /\ phase = "idle" /\ losses = 0 /\ faults < 2 => "new" \notin names

\* "so the caller can commit state only after this succeeds" (storage.rs), also
\* when the power fails: state.json is readable, and as long as nobody has begun
\* to remove it a machine that it lists has both disks and the markers its creation
\* wrote, whole.  (What clear_session does to the session's marker afterwards is
\* MachineLifecycle's.)
RecordedIsWhole ==
    "record" \in names =>
        Readable("record") /\ (~doomed => \A n \in Needed : Readable(n))

\* What a command has answered outlives the power: a machine made is recorded,
\* and a machine removed does not return.
OkIsDurable ==
    outcome = "ok" => IF command = "rm" THEN names = {} ELSE "record" \in names

\* "Both domains are removed if either operation fails" (storage.rs), and with
\* them the directory and the record: an init in which one call fails leaves
\* nothing behind.
OneFailureLeavesNothing ==
    outcome = "err" /\ command = "init" /\ faulty = 1 /\ losses = 0 => names = {}
=============================================================================

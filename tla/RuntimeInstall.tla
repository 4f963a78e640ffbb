--------------------------- MODULE RuntimeInstall ---------------------------
(***************************************************************************)
(* Installing and using the managed runtime: setup and install_staging of  *)
(* runtime_install.rs against each other, against the commands that look   *)
(* up a tool (component_path), and against failures, signals and SIGKILL.  *)
(*                                                                         *)
(* A runtime tree is one directory per version.  What matters of it is the *)
(* manifest it carries and whether every file still matches that manifest. *)
(* A manifest determines its version and the CLIs it is for, and an        *)
(* archive is identified with the manifest inside it.  Several manifests   *)
(* may have one version: a lock given to setup may name any of them.  Left *)
(* out: temporary files a killed setup leaves behind (their names are      *)
(* never reused), and the bytes themselves.                                *)
(***************************************************************************)
EXTENDS Naturals, FiniteSets

CONSTANTS
  Setup, Reader,      \* processes: "spawnr setup", commands that need a tool
  Manifest, Version,
  VersionOf,          \* [Manifest -> Version]
  Cli, CliOf,         \* CLI versions; [Setup \cup Reader -> Cli]
  RangeOf,            \* [Manifest -> SUBSET Cli]: its cli_compatibility
  Valid,              \* manifests that RuntimeManifest::validate accepts
  Lock,               \* runtime locks a CLI may carry or be given
  None,               \* no tree, no pointer, no holder
  Unreadable,         \* a manifest or an archive that cannot be read
  MaxSetups,          \* bound: setups that are run
  MaxFaults,          \* bound: I/O failures
  MaxDamages,         \* bound: times somebody damages an installed tree
  Sigkill             \* SIGKILL may happen, too

ASSUME VersionAssumption == VersionOf \in [Manifest -> Version]
ASSUME ValidAssumption == Valid \subseteq Manifest
ASSUME CliAssumption ==
    CliOf \in [Setup \cup Reader -> Cli] /\ RangeOf \in [Manifest -> SUBSET Cli]

\* A lock that RuntimeLock::validate refuses has an empty range.
ASSUME LockAssumption ==
    Lock \subseteq [version : Version, range : SUBSET Cli, archive : Manifest,
                    manifest : Manifest]
ASSUME BoundAssumption ==
    MaxSetups \in Nat /\ MaxFaults \in Nat /\ MaxDamages \in Nat
ASSUME SigkillAssumption == Sigkill \in BOOLEAN

VARIABLES
  tree,      \* [Version -> Tree or None]: the runtime directories
  active,    \* active.json: a Pointer, or None
  torn,      \* history: a commit broke off between its two steps
  holder,    \* who holds setup.lock
  pc,        \* [Setup -> the next step]
  lock,      \* [Setup -> the runtime lock it installs]
  archive,   \* [Setup -> its archive; None until it is downloaded]
  staging,   \* [Setup -> its staging directory]
  installation,  \* [Setup -> the manifest it has verified, or None]
  outcome,   \* [Setup -> "none" | "ok" | "err"]
  rpc,       \* [Reader -> the next step]
  pointer,   \* [Reader -> the pointer it read]
  result,    \* [Reader -> how its last look-up ended; "none" during one]
  crossed,   \* history: readers whose look-up a commit of another release of
             \* the same version crossed
  setups, faults, damages,   \* counters, for the bounds
  clean      \* history: setups that met no failure, no bad input, no damage

vars == <<tree, active, torn, holder, pc, lock, archive, staging, installation,
          outcome, rpc, pointer, result, crossed, setups, faults, damages, clean>>
current == <<active, torn>>
readers == <<rpc, pointer, result, crossed>>
history == <<setups, faults, damages, clean>>

Tree == [manifest : Manifest \cup {Unreadable}, intact : BOOLEAN]
Pointer == [version : Version, manifest : Manifest]

ASSUME NoneAssumption ==
    None \notin Setup \cup Tree \cup Pointer /\ Unreadable \notin Manifest

\* load_installation
Loads(t) == t \in Tree /\ t.manifest \in Valid

\* RuntimeManifest::validate_against_lock
MatchesLock(m, l) ==
    m \in Valid /\ VersionOf[m] = l.version /\ RangeOf[m] = l.range

\* The files found are the files listed, with their size, mode and SHA-256.
FilesMatch(t) == t.intact

\* A slip: the manifest is compared with the lock, the files are not looked at.
VerifiesManifest(t, l) ==
    Loads(t) /\ t.manifest = l.manifest /\ MatchesLock(t.manifest, l)

\* verify_installation_at with a lock: the manifest, and every file.
Verifies(t, l) ==
    /\ Loads(t)
    /\ t.manifest = l.manifest /\ MatchesLock(t.manifest, l)
    /\ FilesMatch(t)

\* discover: the pointer agrees with the manifest of the tree it names ...
Agrees(p, t) ==
    Loads(t) /\ VersionOf[t.manifest] = p.version /\ t.manifest = p.manifest

\* ... and the runtime is for the CLI that asks.
Discovers(c, p, t) == Agrees(p, t) /\ c \in RangeOf[t.manifest]

\* verify_active, by a CLI of version c
Usable(c) ==
    /\ active # None
    /\ Discovers(c, active, tree[active.version])
    /\ FilesMatch(tree[active.version])

\* Setup s has exchanged the active version for another release of that version,
\* and has not written active.json yet.
Exchanging(s) ==
    /\ pc[s] = "activate" /\ active # None
    /\ active.version = lock[s].version /\ active.manifest # installation[s]

-----------------------------------------------------------------------------
Init ==
    /\ tree = [v \in Version |-> None] /\ active = None /\ torn = FALSE
    /\ holder = None
    /\ pc = [s \in Setup |-> "idle"]
    /\ lock = [s \in Setup |-> None]
    /\ archive = [s \in Setup |-> None]
    /\ staging = [s \in Setup |-> None]
    /\ installation = [s \in Setup |-> None]
    /\ outcome = [s \in Setup |-> "none"]
    /\ rpc = [r \in Reader |-> "idle"]
    /\ pointer = [r \in Reader |-> None]
    /\ result = [r \in Reader |-> "none"] /\ crossed = {}
    /\ setups = 0 /\ faults = 0 /\ damages = 0
    /\ clean = {}

Goto(s, l) == pc' = [pc EXCEPT ![s] = l] /\ UNCHANGED outcome
Fail(s, l) ==
    /\ pc' = [pc EXCEPT ![s] = l]
    /\ outcome' = [outcome EXCEPT ![s] = "err"]

\* An I/O failure, within the bound.
Fault(s) ==
    /\ faults < MaxFaults /\ faults' = faults + 1
    /\ clean' = clean \ {s}
    /\ UNCHANGED <<setups, damages>>

\* The input of this setup was not what its lock asks for.
BadInput(s) == clean' = clean \ {s} /\ UNCHANGED <<setups, faults, damages>>

\* A setup starts, with an archive of the user's or to download one.
Begin(s) ==
    /\ pc[s] = "idle" /\ setups < MaxSetups
    /\ \E l \in Lock, a \in Manifest \cup {Unreadable, None} :
          lock' = [lock EXCEPT ![s] = l] /\ archive' = [archive EXCEPT ![s] = a]
    /\ Goto(s, "flock")
    /\ setups' = setups + 1 /\ clean' = clean \cup {s}
    /\ UNCHANGED <<tree, current, holder, staging, installation, readers, faults,
                   damages>>

\* SetupLock::acquire, held until the process ends.
Acquire(s) ==
    /\ pc[s] = "flock" /\ holder = None
    /\ holder' = s
    /\ Goto(s, "check")
    /\ UNCHANGED <<tree, current, lock, archive, staging, installation, readers,
                   history>>

\* load_runtime_lock and validate_for_cli, then the destination: a valid
\* installation is only activated again; one that cannot be verified, for
\* whatever reason, is installed anew.
Check(s) ==
    LET l == lock[s]
        accepted == CliOf[s] \in l.range
        there == tree[l.version]
        obtain == Goto(s, IF archive[s] = None THEN "download" ELSE "verify")
    IN
    /\ pc[s] = "check"
    /\ \/ ~accepted /\ Fail(s, "end") /\ BadInput(s) /\ UNCHANGED installation
       \/ /\ accepted /\ Verifies(there, l)
          /\ installation' = [installation EXCEPT ![s] = there.manifest]
          /\ Goto(s, "reuse") /\ UNCHANGED history
       \/ accepted /\ ~Verifies(there, l) /\ obtain /\ UNCHANGED <<installation, history>>
       \/ Fault(s) /\ Fail(s, "end") /\ UNCHANGED installation
       \/ accepted /\ Fault(s) /\ obtain /\ UNCHANGED installation
    /\ UNCHANGED <<tree, current, holder, lock, archive, staging, readers>>

\* write_active, of the installation that was verified: a temporary file, then a
\* rename.  It may fail before the rename, or after it when the directory cannot
\* be synced.
WriteActive(s, next, failed) ==
    LET m == installation[s] IN
    \/ /\ active' = [version |-> VersionOf[m], manifest |-> m] /\ torn' = FALSE
       /\ \/ next /\ UNCHANGED history
          \/ failed /\ Fault(s)
    \/ /\ UNCHANGED active /\ torn' = (torn \/ Exchanging(s))
       /\ failed /\ Fault(s)

Finish(s) == pc' = [pc EXCEPT ![s] = "end"] /\ outcome' = [outcome EXCEPT ![s] = "ok"]

Reuse(s) ==
    /\ pc[s] = "reuse"
    /\ WriteActive(s, Finish(s), Fail(s, "end"))
    /\ UNCHANGED <<tree, holder, lock, archive, staging, installation, readers>>

\* download_archive: the server may send anything of the right length.
Download(s) ==
    /\ pc[s] = "download"
    /\ \/ /\ \E a \in Manifest \cup {Unreadable} : archive' = [archive EXCEPT ![s] = a]
          /\ Goto(s, "verify") /\ UNCHANGED history
       \/ Fault(s) /\ Fail(s, "end") /\ UNCHANGED archive
    /\ UNCHANGED <<tree, current, holder, lock, staging, installation, readers>>

\* verify_archive: size and SHA-256 against the lock.
VerifyArchive(s) ==
    /\ pc[s] = "verify"
    /\ \/ archive[s] = lock[s].archive /\ Goto(s, "extract") /\ UNCHANGED history
       \/ archive[s] # lock[s].archive /\ Fail(s, "end") /\ BadInput(s)
       \/ Fault(s) /\ Fail(s, "end")
    /\ UNCHANGED <<tree, current, holder, lock, archive, staging, installation,
                   readers>>

\* extract_archive into a directory of its own, hashing every member; what it
\* has written when it refuses is of no use.
Extract(s) ==
    LET l == lock[s]
        good == [manifest |-> archive[s], intact |-> TRUE]
        part == [manifest |-> Unreadable, intact |-> FALSE]
    IN
    /\ pc[s] = "extract"
    /\ \/ /\ Verifies(good, l)
          /\ staging' = [staging EXCEPT ![s] = good]
          /\ Goto(s, "inspect") /\ UNCHANGED history
       \/ /\ ~Verifies(good, l)
          /\ staging' = [staging EXCEPT ![s] = part]
          /\ Fail(s, "cleanup") /\ BadInput(s)
       \/ /\ staging' \in {staging, [staging EXCEPT ![s] = part]}
          /\ Fault(s) /\ Fail(s, "cleanup")
    /\ UNCHANGED <<tree, current, holder, lock, archive, installation, readers>>

\* The staged tree is read back before it is used.
Inspect(s) ==
    /\ pc[s] = "inspect"
    /\ \/ IF Verifies(staging[s], lock[s])
          THEN /\ installation' = [installation EXCEPT ![s] = staging[s].manifest]
               /\ Goto(s, "install") /\ UNCHANGED history
          ELSE Fail(s, "cleanup") /\ BadInput(s) /\ UNCHANGED installation
       \/ Fault(s) /\ Fail(s, "cleanup") /\ UNCHANGED installation
    /\ UNCHANGED <<tree, current, holder, lock, archive, staging, readers>>

\* A slip: the pointer is moved before the directory.
InstallPointerFirst(s) ==
    LET m == installation[s] IN
    /\ pc[s] = "install"
    /\ active' = [version |-> VersionOf[m], manifest |-> m] /\ torn' = FALSE
    /\ Goto(s, "activate")
    /\ UNCHANGED <<tree, holder, lock, archive, staging, installation, readers, history>>

\* install_staging, termination signals blocked: an exchange with the tree that
\* is there, or a plain rename ...
Install(s) ==
    LET v == lock[s].version
        m == staging[s].manifest
    IN
    /\ pc[s] = "install"
    /\ \/ /\ tree' = [tree EXCEPT ![v] = staging[s]]
          /\ staging' = [staging EXCEPT ![s] = tree[v]]
          /\ crossed' = crossed \cup
                {r \in Reader : /\ rpc[r] # "idle" /\ pointer[r].version = v
                               /\ pointer[r].manifest # m}
          /\ Goto(s, "activate") /\ UNCHANGED history
       \/ Fault(s) /\ Fail(s, "cleanup") /\ UNCHANGED <<tree, staging, crossed>>
    /\ UNCHANGED <<current, holder, lock, archive, installation, rpc, pointer, result>>

\* ... then the pointer.
Activate(s) ==
    /\ pc[s] = "activate"
    /\ WriteActive(s, Goto(s, "discard"), Fail(s, "cleanup"))
    /\ UNCHANGED <<tree, holder, lock, archive, staging, installation, readers>>

\* Signals are admitted again; the replaced tree goes.
Discard(s) ==
    /\ pc[s] = "discard"
    /\ \/ /\ staging' = [staging EXCEPT ![s] = None]
          /\ Goto(s, "confirm") /\ UNCHANGED history
       \/ Fault(s) /\ Fail(s, "cleanup") /\ UNCHANGED staging
    /\ UNCHANGED <<tree, current, holder, lock, archive, installation, readers>>

\* The installed tree is verified in its place.
Confirm(s) ==
    LET l == lock[s] IN
    /\ pc[s] = "confirm"
    /\ \/ Verifies(tree[l.version], l) /\ Finish(s) /\ UNCHANGED history
       \/ ~Verifies(tree[l.version], l) /\ Fail(s, "cleanup") /\ BadInput(s)
       \/ Fault(s) /\ Fail(s, "cleanup")
    /\ UNCHANGED <<tree, current, holder, lock, archive, staging, installation,
                   readers>>

\* A slip: the clean-up of a failed setup removes the destination.
CleanupDestination(s) ==
    /\ pc[s] = "cleanup"
    /\ tree' = [tree EXCEPT ![lock[s].version] = None]
    /\ staging' = [staging EXCEPT ![s] = None]
    /\ Goto(s, "end")
    /\ UNCHANGED <<current, holder, lock, archive, installation, readers, history>>

\* remove_any on the staging directory of a failed setup; nobody looks whether
\* it worked.
Cleanup(s) ==
    /\ pc[s] = "cleanup"
    /\ \/ staging' = [staging EXCEPT ![s] = None] /\ UNCHANGED faults
       \/ /\ staging[s] # None /\ faults < MaxFaults
          /\ faults' = faults + 1 /\ UNCHANGED staging
    /\ Goto(s, "end")
    /\ UNCHANGED <<tree, current, holder, lock, archive, installation, readers, setups,
                   damages, clean>>

\* The process is gone: the kernel drops its flock, and the name of its staging
\* directory will never be used again.
Vanish(s) ==
    /\ pc' = [pc EXCEPT ![s] = "idle"]
    /\ holder' = IF holder = s THEN None ELSE holder
    /\ lock' = [lock EXCEPT ![s] = None]
    /\ archive' = [archive EXCEPT ![s] = None]
    /\ staging' = [staging EXCEPT ![s] = None]
    /\ installation' = [installation EXCEPT ![s] = None]
    /\ outcome' = [outcome EXCEPT ![s] = "none"]
    /\ clean' = clean \ {s}
    /\ UNCHANGED <<tree, active, readers, setups, faults, damages>>

End(s) == pc[s] = "end" /\ Vanish(s) /\ UNCHANGED torn

\* A slip: the commit is not protected from signals.
TerminateUnmasked(s) == pc[s] \notin {"idle", "end"} /\ Vanish(s) /\ UNCHANGED torn

\* TerminationSignalBlock holds from the exchange until the pointer is written.
Terminate(s) ==
    pc[s] \notin {"idle", "end", "activate"} /\ Vanish(s) /\ UNCHANGED torn
Kill(s) ==
    Sigkill /\ pc[s] = "activate" /\ Vanish(s) /\ torn' = (torn \/ Exchanging(s))

\* Somebody changes an installed file, or the manifest itself.
Damage(v) ==
    /\ tree[v] # None /\ tree[v].intact /\ damages < MaxDamages
    /\ \E m \in {tree[v].manifest, Unreadable} :
          tree' = [tree EXCEPT ![v] = [manifest |-> m, intact |-> FALSE]]
    /\ damages' = damages + 1 /\ clean' = {}
    /\ UNCHANGED <<current, holder, pc, lock, archive, staging, installation, outcome,
                   readers, setups, faults>>

-----------------------------------------------------------------------------
(* A command looks up a tool.  It does not take setup.lock.                *)

others == <<tree, current, holder, pc, lock, archive, staging, installation, outcome,
            history>>

Ends(r, how) ==
    /\ rpc' = [rpc EXCEPT ![r] = "idle"]
    /\ result' = [result EXCEPT ![r] = how]
    /\ pointer' = [pointer EXCEPT ![r] = None]
    /\ UNCHANGED crossed

Goes(r, l) == rpc' = [rpc EXCEPT ![r] = l] /\ UNCHANGED <<pointer, result, crossed>>

\* discover, first half: active.json
ReadActive(r) ==
    /\ rpc[r] = "idle"
    /\ \/ active = None /\ Ends(r, "missing")
       \/ /\ active # None
          /\ pointer' = [pointer EXCEPT ![r] = active]
          /\ rpc' = [rpc EXCEPT ![r] = "load"]
          /\ result' = [result EXCEPT ![r] = "none"]
          /\ crossed' = IF torn \/ \E s \in Setup : Exchanging(s)
                        THEN crossed \cup {r} ELSE crossed \ {r}
    /\ UNCHANGED others

\* discover, second half: the manifest of the tree that was named, and whether
\* it is for this CLI
Load(r) ==
    LET p == pointer[r]
        t == tree[p.version]
    IN
    /\ rpc[r] = "load"
    /\ \/ Discovers(CliOf[r], p, t) /\ Goes(r, "check")
       \/ ~Agrees(p, t) /\ Ends(r, "error")
       \/ Agrees(p, t) /\ ~Discovers(CliOf[r], p, t) /\ Ends(r, "unsupported")
    /\ UNCHANGED others

\* component: the file must match the manifest that was loaded.  In a damaged
\* tree, or in one of another release, this file may happen to match.
Component(r) ==
    LET p == pointer[r]
        t == tree[p.version]
    IN
    /\ rpc[r] = "check"
    /\ \/ t # None /\ Goes(r, "run")
       \/ /\ t = None \/ ~t.intact \/ t.manifest # p.manifest
          /\ Ends(r, "error")
    /\ UNCHANGED others

\* The command executes whatever the path names by then.
Run(r) ==
    LET p == pointer[r]
        t == tree[p.version]
    IN
    /\ rpc[r] = "run"
    /\ Ends(r, IF t # None /\ t.intact /\ t.manifest = p.manifest THEN "ran"
               ELSE "ran other")
    /\ UNCHANGED others

SetupStep(s) ==
    \/ Acquire(s) \/ Check(s) \/ Reuse(s) \/ Download(s) \/ VerifyArchive(s)
    \/ Extract(s) \/ Inspect(s) \/ Install(s) \/ Activate(s) \/ Discard(s)
    \/ Confirm(s) \/ Cleanup(s) \/ End(s)

Next ==
    \/ \E s \in Setup : Begin(s) \/ SetupStep(s) \/ Terminate(s) \/ Kill(s)
    \/ \E v \in Version : Damage(v)
    \/ \E r \in Reader : ReadActive(r) \/ Load(r) \/ Component(r) \/ Run(r)

Spec == Init /\ [][Next]_vars

-----------------------------------------------------------------------------
Steps == {"idle", "flock", "check", "reuse", "download", "verify", "extract",
          "inspect", "install", "activate", "discard", "confirm", "cleanup",
          "end"}
Results == {"none", "missing", "error", "unsupported", "ran", "ran other"}

\* Every variable has its type, and exactly the setup that is past its flock
\* holds setup.lock.
TypeOK ==
    /\ tree \in [Version -> Tree \cup {None}]
    /\ active \in Pointer \cup {None} /\ torn \in BOOLEAN
    /\ holder \in Setup \cup {None}
    /\ pc \in [Setup -> Steps]
    /\ lock \in [Setup -> Lock \cup {None}]
    /\ archive \in [Setup -> Manifest \cup {Unreadable, None}]
    /\ staging \in [Setup -> Tree \cup {None}]
    /\ installation \in [Setup -> Manifest \cup {None}]
    /\ outcome \in [Setup -> {"none", "ok", "err"}]
    /\ rpc \in [Reader -> {"idle", "load", "check", "run"}]
    /\ pointer \in [Reader -> Pointer \cup {None}]
    /\ result \in [Reader -> Results] /\ crossed \subseteq Reader
    /\ setups \in 0 .. MaxSetups /\ faults \in 0 .. MaxFaults
    /\ damages \in 0 .. MaxDamages
    /\ clean \subseteq Setup
    /\ \A s \in Setup : pc[s] \notin {"idle", "flock"} <=> holder = s

\* The tree that active.json names is the release it names, unless a setup is
\* between the two steps of committing another release of that version, or one
\* broke off there because active.json could not be written or because of
\* SIGKILL.  No signal that can be caught does it, nor a setup of another version
\* (install_staging, TerminationSignalBlock, write_active).
PointerAgrees ==
    damages = 0 /\ active # None =>
        \/ Agrees(active, tree[active.version])
        \/ torn \/ \E s \in Setup : Exchanging(s)

\* A step after which some CLI has no usable runtime any more: the exchange of the
\* active version for another release of it, or the activation of a release that
\* is for other CLIs.
OnlyCommitsDisable ==
    \A c \in Cli : damages' = 0 /\ Usable(c) /\ ~Usable(c)' =>
        \/ active' # active /\ c \notin RangeOf[active'.manifest]
        \/ active' = active /\ \E s \in Setup : ~Exchanging(s) /\ Exchanging(s)'

\* Nothing but such a commit, and damage, takes a usable runtime away: a setup that
\* fails, is interrupted or killed, and the clean-up behind it, leave it usable
\* (setup, install_staging, remove_any).
KeepsUsable == [][OnlyCommitsDisable]_vars

\* A setup that reports success has activated its lock's runtime, and what is
\* installed under that version is that runtime (or was damaged since), for this
\* setup's CLI.  And one that meets no failure, has a lock for its CLI and gets the
\* archive the lock names does succeed, whatever crashed setups, broken-off commits
\* and damage left in its way: it also is the repair.
SetupDelivers ==
    \A s \in Setup : pc[s] = "end" =>
        /\ outcome[s] = "ok" =>
             /\ active = [version |-> lock[s].version, manifest |-> lock[s].manifest]
             /\ tree[active.version] # None
             /\ tree[active.version].intact => Usable(CliOf[s])
        /\ s \in clean => outcome[s] = "ok" /\ Usable(CliOf[s])

\* Without damage, looking up a tool fails, or runs a file other than the one that
\* was checked, only if another release of the same version was committed beside
\* the look-up, or such a commit had broken off before it.  Setups of other
\* versions, re-activations, failures and clean-ups are not noticed.  (discover,
\* InstalledRuntime::component, install_staging)
ReadersUndisturbed ==
    damages = 0 => \A r \in Reader : result[r] \in {"error", "ran other"} => r \in crossed

\* What docs/releases.md:131-133 says of the commit of the versioned directory and
\* active.json: it is atomic.  A look-up in an undamaged runtime would then never
\* find the two at odds; it does, and README.md says how.
CommitsAtomically == damages = 0 => \A r \in Reader : result[r] # "error"

=============================================================================

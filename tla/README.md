# Spawnr in TLA+

Spawnr gives every development environment a microVM of its own: a Cloud
Hypervisor process with two private disks, a passt process for its network, and
an agent inside the guest. There is no daemon. Every command is one short-lived
CLI process that takes a file lock, reads `state.json`, works on directories,
pid files and processes, and writes `state.json` back. What makes this hard is
less the concurrency between commands, which the lock excludes, than everything
that may happen between two steps of one: a helper exits, a step fails, a signal or
a crash ends the command and the next one finds whatever is left. Where commands do
run beside each other, at the runtime directory, in the guest and at the image cache,
they meet there with locks of their own, or none.

The modules beside this file model that, TLC checks them on small instances, and
TLAPS proves their main invariants for every instance.

## The system

Paths are relative to `src/crates/`.

| Component | State it keeps | Operations | What makes it correct |
|---|---|---|---|
| Machine lifecycle (`spawnr/src/machine.rs`, `vmm.rs`) | session directory, pid files, helper processes | start, stop, open, publish, rm | the disks have one user; every helper can be found again; stop always cleans, start repairs; the lock is given back |
| Machine registry (`machine.rs`, `state.rs`) | `state.json`, machine directories | init, clone --count, rm, ls, rollback | no VM and no disks without a record, no record without its disks, rollback spares the others |
| Managed processes (`process.rs`) | pid files with Linux identities | spawn, inspect, signal, wait, terminate | only the recorded process is signalled; success means it is gone; every wait ends |
| Storage (`storage.rs`) | owner and domain markers, disk images | create, clear_session, remove, commit | nothing without a marker is touched; images appear atomically; what is recorded is on the disk |
| OCI environments (`oci.rs`) | image cache, locks per key | prepare, publish | one immutable image per digest and key |
| Runtime (`runtime_install.rs`, `runtime.rs`) | installed versions, active pointer | setup, discover, verify | an active runtime is always complete; nothing but another runtime replaces it |
| Credentials, guest client (`credentials.rs`, `guest.rs`) | agent symlink, connections, the terminal's mode | collect, expose, request, shell | a capability lives as long as its session; a shell ends with its host and the host's command with its shell |
| Protocol (`spawnr-protocol/src/lib.rs`) | none | frames | a frame is read whole or refused; two writers do not mix theirs |
| Guest boot (`spawnr-agent/src/lib.rs`, `mount.rs`, `account.rs`) | the environment's disk, mounts | initialize, serve | a boot succeeds whatever earlier boots left |
| Guest agent (`spawnr-agent/src/`) | session files, children, PTY | configure, clone, exec, shutdown, reap | a session is replaced as a whole; no child status is lost; orphans are reaped; output comes before the status and is not mistaken |

The components interact by calls inside one CLI process, by files (`state.json`,
markers, pid files, sockets) between CLI processes, by signals and sockets to the
helpers, and by frames over vsock to the agent.

Hard behaviours: crashes between any two steps; termination signals, masked only
around two commit windows (spawn to pid file, first directory to saved record);
helpers that exit on their own, in either order; cleanup and rollback steps that
fail in turn; `save` failing after its rename; pids that are reused; exits between
an identity check and a signal; handler threads in the guest that outlive the request
they serve; readers that take no lock; tags and files that change between two reads;
power failures before a sync; blocking reads and writes between a terminal, a
connection and a PTY that may each be full; processes that outlive their command.

## Modules

| Module | What it is |
|---|---|
| `MachineLifecycle` | one machine: start, stop, open, publish, rm, with the helpers, pid files, session and markers |
| `DiskLease` | abstract: what a machine promises about its disks |
| `MachineLifecycleProofs` | theorems about `MachineLifecycle` |
| `MachineRegistry` | several machines: init, clone, rm, rollback, save |
| `MachineCatalogue` | abstract: what init, clone and rm promise of the list of machines |
| `MachineRegistryHistory` | `MachineRegistry` with two history variables, the promise about orphaned disks, and the refinement mapping to `MachineCatalogue` |
| `MachineRegistryProofs` | theorems about `MachineRegistry` and its refinement |
| `ProcessIdentity` | one pid: terminate and terminate_spawned, system call by system call |
| `ProcessIdentityProofs` | theorems about `ProcessIdentity` |
| `MachineStorage` | one machine made and removed call by call, on a disk that keeps what was synced |
| `MachineStorageProofs` | theorems about `MachineStorage` |
| `RuntimeInstall` | setup, the exchange of a tree, its pointer, and the commands that look up a tool |
| `RuntimeInstallProofs` | theorems about `RuntimeInstall` |
| `OciCache` | creations that share the image cache, moving tags, publishing |
| `OciCacheProofs` | theorems about `OciCache` |
| `GuestSession` | the session a host sends, the guest's handlers that write it, the shells that read it |
| `GuestSessionProofs` | theorems about `GuestSession` |
| `GuestCommands` | the guest's processes, the handlers that await them, the reaper of PID 1 |
| `GuestBoot` | the guest from power-on to service, on a disk that earlier boots have used |
| `GuestAgent` | composition: a guest boots (`GuestBoot`), serves (`GuestCommands`), panics, boots again |
| `GuestAgentProofs` | theorems about `GuestAgent`: its boots, and the commands and the reaper of a guest; about `GuestExec`: a terminal, and a captured command |
| `PtyRelay` | a terminal session: the threads of `spawnr open`, the connection, the relay, the PTY, the shell |
| `CapturedCommand` | `git status` for rm: the command, its pipes, the two readers |
| `GuestExec` | composition: a request to exec is served by one or the other |
| `MC*` | instances for TLC: sets and symmetry |

Definitions named as a *slip* in their comment are not part of any specification.
Each is a plausible mistake in the operator that follows it; putting it in that
operator's place makes one of the properties fail, which shows that the property
is sensitive to the code.

### MachineLifecycle

`cmd` is the command that holds the flock and `pc` the step it has reached; one
action per step, in the code's order, each with its failure exits. Procedures
that are called from several places (`Vmm::stop`, `stop_network`,
`clear_session`) are steps of their own and return through `ret`.

| State | Code |
|---|---|
| `live[k]` | running Cloud Hypervisor ("vmm") and passt ("net") processes |
| `pidfile[k]`, `session` | `session/*.pid.json`, the session directory and its domain marker |
| `root` | machine directory: whole, domains damaged, `owner.json` gone, gone |
| `recorded` | the record in `state.json` |
| `known`, `firstError`, `wasRunning`, `verdict` | locals of the functions of the same names |
| `began`, `faults` | history, only read by properties |

A process identity (pid, boot id, start tick, inode) is an element of `Identity`.
`HelperExit`, `Interrupt` and `HostReboot` may happen between any two steps. The exit of
a helper counts in `faults` while a boot depends on it, and not in the clean-up of a
failed boot (`Abort`), which terminates the helpers itself.
`remove_dir_all` is one action per entry, in an order the code does not choose.
`Uncatchable` says whether SIGKILL may end a command, also where the four
termination signals are blocked.

### MachineRegistry

The VM behind a record is reduced to on and off; in exchange there are several
machines, and the commands that create and remove them are modelled up to their
rollbacks. `memory` is `LockedState.state`, `stateFile` the file; `SaveFailed`
leaves the file old or new. `dir[m]` says how much of a machine directory exists.
`Interrupts` chooses what may end a command: nothing, maskable signals, or also
SIGKILL and reboots; `masked` is the `TerminationSignalBlock`.
`MachineRegistryHistory` adds what its promises are stated over and the code does not
keep: `mishap`, more has gone wrong than a command can undo, and `asked`, the number of
machines the command was asked for. They record steps and restrain none.

### ProcessIdentity

Who holds the pid, whether the holder is a zombie, and where `terminate` or
`terminate_spawned` is. An identity check is two reads, `stat` and `exe`, with
the process table free to change in between; the second is answered with yes by
a stranger of the same binary or one that denies access. `Pidfd` says whether the
kernel has `pidfd_open`; without it `Send` is kill(2) on the number.

### RuntimeInstall

A runtime tree is the manifest it carries and whether its files match it; `tree[v]`
is the directory of version v and `active` the content of `active.json`. A version may
have several releases, that is valid manifests, since `setup` takes any lock that names
one; each is for the CLIs in `RangeOf`. A setup runs through flock, check (of the lock
against its CLI, then of what is installed), download, verify, extract, inspect, install
(the rename or exchange), activate (the pointer, to the `installation` it has verified)
and clean-up. Readers read the pointer, then the manifest and whether it is for their
CLI, then the file, and execute it by its path, four steps without a lock. Any step of a
setup may fail, be interrupted where signals are not blocked, or be killed; somebody may
damage a tree.

Between the exchange of the active version for another release of it and the write of
`active.json` the two disagree (`Exchanging`). Nothing in the code closes that window
for those without `setup.lock`, and a failed write or SIGKILL leaves it open. The
history variables say exactly that: `torn`, a commit broke off there; `crossed`, the
readers that such a commit came across. `PointerAgrees`, `KeepsUsable` and
`ReadersUndisturbed` hold for everything else; `CommitsAtomically`, which the release
notes claim, does not hold (see below the runs).

### OciCache

`cache[k]` is the entry of a key (digest and agent), split in what can differ when a
tag or the agent changes at a bad moment: layout, root filesystem, agent, image
environment, recorded digest and key, disk, metadata. A creator goes from `resolve` to
`commit`; `holder` is the flock per key. Creators are concurrent here although the
commands that create machines hold the state lock meanwhile: the cache's lock is
meant to be enough by itself.

### GuestSession

Openers are `start` and `open`. `Begin` stands for their part under the state lock up to
the request; `Send` gives the request to a handler thread, which goes on whatever
becomes of the host. A handler writes four files in order, each by unlink, create,
fill, rename, through a temporary name shared by all handlers, then switches the
SSH-agent proxy. A value is the handler that wrote it, so a mixture is visible. A
shell reads image environment, agent, known hosts and token one after the other.

### GuestCommands

`proc` is the process table with parents, groups and zombies; numbers are free when
neither a process nor a group has them. A handler spawns (fork and registration in
one step, as the code holds the registry's lock), observes the end without reaping,
signals the group, waits, and drops its guard. The reaper looks at one number after
the other: registered? child of PID 1? wait. `recycled` remembers numbers that were
given out again while the reaper or a guard still meant their old holder.

### GuestBoot and GuestAgent

`step` is what PID 1 does next, in the order of `main.rs` `run` and `lib.rs`
`initialize`; the variables `account` to `shim` are the environment's disk, which
outlives a boot and which a power cut leaves as it is. A failing step ends PID 1 and
so the kernel, and `panic=1` boots again. `GuestAgent` lets commands run only while
`vm` is "serving", and a new kernel has no process left of the old one.

### PtyRelay, CapturedCommand and GuestExec

`PtyRelay` has every thread of a terminal session: on the host the printing loop
(`host`), the readers of stdin and of signals with their mutex (`thread`, `lock`); in
the guest the relay (`relay`), which blocks where the code does. Connection and PTY
are bounded queues; a frame is written as header and payload, so two writers could
mix theirs. In `CapturedCommand` the handler waits and raises `done`, and each reader
looks at that flag, at its pipe and at its deadline, in the code's order. The shell,
its jobs, git and its helpers do as they like. A request goes to one of the two, which
is all that `GuestExec` adds.

### MachineStorage

A command is a sequence of calls (`todo`), written down as the code makes them:
create a file, sync it, link, unlink, rename, sync a directory. `names` is what
there is, `durable` the entries the disk has, `unsynced` the files whose contents it
may not have. `PowerLoss` keeps any of what was not synced and may leave such a file with
any contents (`torn`). When a call fails the phase changes to the clean-up the
code has for it, each call of which may fail too.

## Runs

| Run | Shows | Bounds |
|---|---|---|
| `Lifecycle` | every helper is named by its pid file and pid files outlive their processes, the layout is intact while one runs, stop cleans, start repairs, a failed start leaves nothing, publish restores, the lock is always released, `MachineLifecycle` implements `DiskLease` (the disks have one user; a tree that is being removed has none) | 3 identities |
| `LifecycleStaleFilesHandled` | *violated*: a start after an interrupted `clear_session` | 2 identities |
| `LifecycleDamagedRemainsRemovable` | *violated*: rm after an interrupted rm | 2 identities |
| `Registry` | no VM without a record, no record without disks, under SIGKILL and reboots; no orphaned directory before a second failure or a kill; `MachineRegistry` implements `MachineCatalogue`: no command touches another machine's record, a success is complete, a single failure changes nothing | 4 machines, clones of up to 3, 3 failures per command |
| `ProcessSignals` | no stranger is signalled, success means gone, a process that had exited is no failure | 2 strangers |
| `RuntimeInstall` | pointer and tree agree, a usable runtime stays usable and look-ups are not disturbed, but for commits of another release of the same version and runtimes for other CLIs; setup delivers and repairs | 3 setups, 2 at a time, 1 reader, 2 versions of the CLI, 3 releases (2 of one version) and a bad one, 1 failure, 1 damage |
| `OciCache` | entries are of one image, machines keep their image, failures have reasons | 2 creators, 2 images, 2 agents, 2 tags, one of each mishap |
| `GuestSession` | an acknowledged session is complete and free of earlier ones, a shell gets one session, leftovers fail nobody, the host's lock comes back whatever the guest does and before a shell begins | 2 openers, 2 requests, 1 failure |
| `GuestSessionOpenHasItsSession` | *violated*: a handler of an open that gave up writes after the next open was answered | 2 openers, 2 requests, no failure |
| `GuestAgent` | a boot fails for a reason, statuses are not stolen, signals stay in their group, orphans are reaped | 2 handlers, 2 pids beside PID 1, 2 failures of boots |
| `GuestExec` | output comes before the status, failures have reasons, a logout ends the session, a host takes its shell along; git's answer is complete and "clean" only if it is, the end of a command is answered, output holds nobody up | a frame of input, a signal, a chunk of output, queues of one; 2 chunks, pipes of 2, 1 kept |
| `MachineStorage` | what state.json lists is whole on the disk, answers are durable, one failure leaves nothing behind | 1 machine, 3 failures, 2 power failures |

Why the bounds are enough. A machine has at most one helper of each kind that is
recorded and one being replaced, so three identities cover every situation
without SIGKILL. An identity nothing refers to any more counts as fresh, so
executions are unbounded in length. Failures are counted only up to the number the
properties speak of. A clone of two has a machine before and one after the failing
one; a third id is a machine that was there before. A pid is given to two strangers
one after the other. Two setups, creators or openers are what the locks and shared
names are about; each kind of mishap is one, and the properties say which mishap
excuses which outcome. The third setup is the one that comes after a commit that broke
off beside another. Two images tell a mixture from a whole. Two pids are the
smallest number at which one is reused while the other lives; the safety properties
of `GuestCommands` were also checked with three (29.6 million states), which takes
longer than a run should. In `GuestAgent` commands run only in guests that came up
on a bare image without a failure, and the user changes the environment between commands
(`Sampled`, `Quiet`): what a command does depends on neither. Queues of one unit are
full as soon as they are used, which is when threads block; in `CapturedCommand` a
pipe of two is what lets the end of a command and of its helper stand in one. Three
failures in `MachineStorage` are a call, its clean-up and the save of the rollback; two
power failures are one in the command and one after it.

Fairness. `Lifecycle` assumes that a CLI process that is not killed takes its next
step; `GuestSession` that the host's commands do and that five seconds pass, for the handshake
of a connection as for the answer;
`GuestExec` that the threads of `open`, of the relay and of the readers run and that
deadlines of 100 ms pass; `GuestAgent` that PID 1 boots, that a panic is followed by
a boot, and that the agent's reaper and handlers run, but for a relay, which
writes to a host that may take no output. Nothing is assumed of guests seen from the
host, of helpers, users, shells, or commands in the guest: they run, hang or exit as
they like. The deadlines of the code are what the liveness properties check. The other
runs are about safety only.

`CHECK_DEADLOCK FALSE` is set where the model really stops: `ProcessIdentity` is one
call that ends, `GuestExec` one request; `OciCache`, `GuestSession` and
`MachineStorage` have spent their bounds on creations, requests and failures.

`TypeOK` is no invariant of any run: in every module that has one it is a theorem.

What the violated runs show is in `PROJECT.json`, "findings". Other places where code
and documents differ, met while modelling and not made into a run:

- `docs/releases.md:131-133` says that the directory of a version and `active.json` "are
  committed atomically while termination signals are blocked". The directory is
  exchanged at `runtime_install.rs:477`, the pointer renamed at 486. When the lock given
  to setup (`docs/cli.md:33-36`) names another release of the active version
  (`runtime_install.rs:110-118`), a look-up in between fails at 188-191, and SIGKILL or
  a failed write there leaves the runtime unusable until the next setup. Check the
  invariant `CommitsAtomically` in the instance of `MCRuntimeInstall` and TLC shows such
  a look-up, in a trace of 19 states without failure, signal or damage. `PointerAgrees`,
  `KeepsUsable` and `ReadersUndisturbed` say what holds nevertheless.
- Without `pidfd_open`, `send_signal_checked` uses kill(2) on the number
  (`process.rs:416`), which the comment at 442-443 does not allow for. Set `Pidfd` to
  FALSE and TLC shows a stranger signalled.
- The agent is hashed into the cache key (`oci.rs:651`) and read again when it is
  copied (`oci.rs:338`); `EntriesAreOneImage` excepts entries built meanwhile.
- A guard is dropped after its child was waited for (`reaper.rs:36`), so a command
  that is given the same pid in between is not registered. `StatusesAreNotStolen`
  excepts exactly that.
- A rollback "keeps any state record whose owned resources could not be proven removed"
  (`docs/architecture.md:252-254`, `machine.rs:605`), but a save that fails before its
  rename, a removal that fails and a second save that fails leave a directory without
  a record; so does a failed clean-up in `commit_machine_storage`
  (`storage.rs:305`), which nobody looks at. `OrphansNeedMishap` and
  `OneFailureLeavesNothing` hold for one failure and say so.
- "Do not let background descendants retain the PTY" (`command.rs:239`): a descendant
  that never reads its input still does, once `write_all` (`command.rs:293`) waits for
  it. `LogoutEndsSession` and `HostTakesShellAlong` except exactly that state.
- A request for a terminal that is refused is logged in the guest but not
  answered (`lib.rs:306-307`): `open` ends with the end of the connection and no reason.
- `useradd` cut off by power between the account's entry and its home leaves an account
  whose home no later boot makes (`account.rs:39`).
- The connection of an SSH-agent client that has gone stays open until the host's
  agent closes it: `proxy` (`agent_proxy.rs:89-97`) does not pass the end of the
  upload on. Each leaves a thread and two descriptors in the guest.

## Theorems

All are of the form `Spec => ...` and hold for every value of the constants; the
assumptions are those named in the modules (a null value outside its set, bounds
that are naturals, Boolean switches).

*MachineLifecycle.* The inductive invariant `IInv` is a conjunction: the types, split
in those of disk and control; `DiskSound`, what is on disk when a helper runs;
`BootIntact`, which says that a boot in progress finds the layout whole and its
own pid files; `HandlesHeld`, which helper the command itself is responsible for;
and `VmmQuiet`, `NetQuiet` and `Quiet`, which say at which steps a helper is known
to be dead. The properties alone are not inductive: that `clear_session` never
deletes the file of a living helper only follows from what the steps before it
have established. From it: `TypeCorrect`, `LayoutKept`, `RecordKept`, `HandleKept`
hold unconditionally, SIGKILL in the masked window included, which no run has;
`HelpersFound`, `Exclusive` and the refinement `LeaseImplemented` need `Orderly`, a
second conjunction that holds when `Uncatchable` is FALSE. `RecordKept`
(`RecordOutlivesStorage`), `HandleKept` (`RecordedUntilDead`) and `Exclusive`
(`ExclusiveDisks`) are stated of properties no run checks: what TLC sees of them is
`LeaseSpec` and `HelpersRecorded`.

What the commands promise is about the step that ends one, and about what failed before
it. `StartingOK` and `SpawnedOK` tie the count of failures to the locals: as long as it
is zero there is no `first_error`, and every helper a boot has spawned runs. A stop is
never outside `Vmm::stop` (`StopSound`); a start of a degraded machine, or a publish of a
running one, in which nothing has failed is at a step that leads on to the next
(`RevivalSound`); a start of a machine that was off knows what it has running, or has
counted a failure for it (`ColdSound`). From it: `StopsClean`, `StartsRepair`,
`PublishesRestore` and `FailedStartsClean`, the first and the last only if `Uncatchable`
is FALSE: a helper that no pid file names is beyond any later command. The one failure
of `FailedStartsClean` may come at any step, with either helper alive.

*MachineRegistry.* The file is written from the records in memory, so what is
claimed of the file is claimed of the memory of the running command too
(`MemorySound`); `StepHolds` and `Unrecorded` say which machine a step is about and
`OthersApart` that a creating command's machines are none of those before. From
it: `RunningRecorded`, `RecordsComplete`, `OthersSpared` (`CloneSparesOthers`, which in
the runs is part of `CatalogueSpec`).

The promises need more: `PInv` says how far a command has come. On the way forward
(`ForwardSound`) nothing has failed, what it created is what is recorded since it began,
and with what is left to make that adds up to what it was asked for. On the way back
(`BackSound`) something has failed, and if it was one thing, what is still recorded is
what is still to be removed. A removal keeps to its machine (`RemovalSound`), and without
a mishap every directory is in the file or, while signals are blocked, in the memory
that is about to be written (`StorageSound`). From it: `OrphansAccounted`, and the
refinement `CatalogueImplemented`. Its steps: a running command is always `Within` what
it was asked for (`AlwaysWithin`), so every step that does not end it is one of
`Catalogue!Work`; what ends it is a success that is `Whole`, a failure or a kill. Sizes of
sets come from the library's facts about finite sets.

*ProcessIdentity.* `PidfdHeld` is the argument: while a signal is being prepared the
pidfd is the target's or the target has lost the pid for good. From it:
`OnlyTarget` (with pidfds) and `AnswersTrue` (on any kernel).

*GuestAgent.* `BootSound` says what a boot has established when it reaches a step:
there is no reaper before the step that starts it, no leftover file when a new one is
created, no link when one is made. From it: `BootTypeCorrect` and `BootsForAReason`.

For the commands of a guest, `CommandsInv`: the registered numbers are those of the
guards (`GuardsOK`), no two guards have the same number (`GuardsApart`), the reaper has in
its eye no number that is registered (`ReaperOK`), and the child of a handler that
awaits it is there, a child of PID 1 that leads its own group (`ChildrenSound`), of which
nobody else's process is a member (`GroupsSound`); each but for numbers in `recycled`,
which the kernel handed out again while a guard or the reaper still meant their old
holder. `SignalsStayInGroup` alone is not inductive: it has to hold until the child is
collected, not just until the signal is sent, since a number is free only when the group
has gone as well. From it: `CommandsTypeCorrect`, `StatusesKept` and `SignalsKept`.

*RuntimeInstall.* `IInv` follows a setup: what it has found, verified and made at each
step (`SetupSound`, `VerifiedSound`, `StagingSound`), whose tree is in place when it moves
the pointer (`TreeInPlace`, `PointerInPlace`), and why one that meets nothing unusual
cannot fail (`CleanSound`). For those who look without a lock: the pointer names a valid
release (`PointersSound`), unless somebody damaged it a tree is a release of its version
(`TreesReleased`), and what a reader has read agrees with the tree as long as no commit
has crossed it (`ReadersSound`). `PointerAgrees` is part of the invariant. From it:
`TypeCorrect`, `SetupsDeliver`, `PointersAgree`, `LookupsUndisturbed` and `UsabilityKept`,
none of them with a condition: releases, locks and ranges are arbitrary. That the run
has three setups, one failure and one damage is no restriction: the theorems hold for any
number.

*OciCache.* Who builds an entry has its lock and nobody else has made the entry
(`LockSound`); what is built is of the job's image at every step (`BuildSound`), although
the tag may point elsewhere by then (`TagSeen`); what a creator has found or made stays
until it is done with it (`FoundSound`). An entry's layout and root filesystem are of its
key's image whatever happens to its metadata (`EntrySound`). From it: `TypeCorrect`,
`EntriesOfOneImage`, `FailuresReasoned` and `MachinesKept`, for any number of creators,
images and mishaps.

*GuestSession.* `ProgressSound` says which files a handler has written by the step it is
at, and that the temporary file it is about to create, fill or rename is absent or its
own, as long as nobody ran beside it; `Alone`, who that is. What it has done outlasts the
answer until another request is sent (`OkSound`), and a shell that is put together
meanwhile has read parts of that session so far (`ShellSound`) and nothing half-written
(`NothingTorn`). Two frame lemmas split the work: the host's steps leave alone what
handlers have done (`HostKeeps`), and a handler's step disturbs only those beside it
(`HandlerKeeps`). From it: `TypeCorrect`, `AcknowledgedComplete`, `RefusalsReasoned` and
`ShellsOfOneSession`, for any number of commands, requests and failures. `LockReturned` is
liveness and stays with TLC.

*MachineStorage.* What is on the disk in the middle of a command is only half of the
argument; the other half is what the command has still to do. `Coming` joins the two: an
entry is there for good, or the calls to come make it and then sync its directory
(`Lasting`), and its contents are synced after they are written for the last time
(`FlushedBy`); a disk is linked only when its contents are synced (`LinksFlushed`). The
lists of calls satisfy this when a phase begins (`TreeCalls`, `DiskCalls`), each call that
is made keeps it (`LastingStep`, `FlushedStep`), and when none is left it says that
everything is `Safe`, which a power loss does not change. `RecordOK` has it for a machine
that is recorded, `SaveOK` that state.json is replaced only by a file whose contents are
synced, `GoneOK` the same for removals, and `CommandOK` how many calls have failed for a
command to be where it is. From it: `TypeCorrect`, `Recorded`, `OkDurable` and
`OneFailure`, for any number of failures and power losses.

*GuestExec.* Both invariants count. `RelayInv` is about a terminal: what the shell wrote
was printed or is `Underway`, in the PTY, in the relay's hands or on the connection, and
when the exit frame is due none of it is left behind it (`OutputOK`); the first frame to
the host says ExecReady and the last one the status (`AnswersOK`). That a failure has a
reason rests on the other direction, which two threads and the relay share: every header
is followed by its payload or about to be, by the thread that has the mutex (`FramesOK`),
and the relay is where the stream is (`ReadingOK`), so that it never takes one for the
other. `CaptureInv` is about a command whose output is captured: what it wrote was kept
or is in its pipe, but for a stream that had too much, and a reader that is over has left
nothing of it there, but for its deadline (`KeptOK`); a verdict is about a command that
has ended and whose readers are over (`ChildOK`). How many items of a queue are of a kind
is a cardinality, which the lemmas about `Number` follow when one is added or taken. From
it: `ExecTypeCorrect`, `OutputFirst`, `FailuresReasoned`, `CleanOnly` and
`AnswersComplete`, for queues and pipes of any size and any amount of input and output.

Model-checked only: the liveness properties (`LogoutEndsSession`, `HostTakesShellAlong`,
`EndIsAnswered` and `NeverHeldUp` of `GuestExec`, and those of `Lifecycle`, `GuestSession`
and `GuestAgent`). They hold under fairness, which is about ENABLED and beyond TLAPS here.

## Not modelled

The components marked so in `PROJECT.json`: argument lists and `doctor`, paths and
command-line parsing, and everything outside `src/crates`. Inside the modelled
components: the content of messages and files, names and references, the copying
of an image (reflink, sparse copy, mkfs), log files, and `spawnr ls`, which only
reads. Of the runtime: what a manifest must contain (a constant set of valid ones),
temporary files of killed setups. Of images: reference syntax, the provisioning of a
root filesystem file by file, the limits on an image's environment. Of the guest: the
validation of session values, of paths and of arguments, the parsing of mountinfo and
of block labels, the bytes that the SSH-agent proxy relays, exit codes, window sizes,
and what a signal does to a shell. Of the protocol: the JSON of requests and responses,
which arrive or do not.

## Plan

1. `AgentProxy`: connections of SSH-agent clients, their ends and the switch that
   `ConfigureSession` sets (`agent_proxy.rs`, `credentials.rs:41-89`).
2. Pure algorithms against reference definitions: clone names, vsock CID allocation,
   layering of environments, runtime manifests, the search for free data in a sparse copy.
3. Further disagreements to settle by a run: `terminate` reports a changed identity for
   a process that is simply gone (`process.rs:451`), and those listed above.

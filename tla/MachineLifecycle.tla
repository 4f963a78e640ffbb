-------------------------- MODULE MachineLifecycle --------------------------
(***************************************************************************)
(* The life of one Spawnr machine: the commands start, stop, open, publish *)
(* and rm of machine.rs, the VMM driver of vmm.rs they call, and the pid   *)
(* files, session directory and owner marker they leave on disk.           *)
(*                                                                         *)
(* Who acts.  There is no daemon: a command is one CLI process that holds  *)
(* the flock on state.lock from its first read to its end, so at most one  *)
(* is under way; `cmd` is that command and `pc` the place it has reached.  *)
(* Between any two of its steps a helper (Cloud Hypervisor "vmm", passt    *)
(* "net") may exit, a signal may end the command, or the host may reboot.  *)
(* Any I/O a step performs may fail.                                       *)
(*                                                                         *)
(* What is abstracted.  A process identity (pid, boot id, start tick,      *)
(* executable inode) is an element of Identity; one nothing refers to any  *)
(* more stands for a fresh one.  Signals, guest shutdown requests and the  *)
(* power button only make an exit more likely, so they change no variable. *)
(* A wait ends when the process is gone or when its deadline has passed.   *)
(* Two reads of the same step see one instant.                             *)
(***************************************************************************)
EXTENDS Naturals

CONSTANTS Identity,     \* identities of helper processes
          None,         \* no process: an absent pid file, an unset local
          Uncatchable   \* SIGKILL may end a command, even a masked one

ASSUME IdentityAssumption == None \notin Identity
ASSUME UncatchableAssumption == Uncatchable \in BOOLEAN

VARIABLES
  live,        \* live[k]: the running processes of kind k
  pidfile,     \* pidfile[k]: the identity session/<k>.pid.json records
  session,     \* the session directory: "ready", "bare" (no marker), "gone"
  root,        \* machine directory: "whole", "stripped" (domains damaged,
               \*   owner.json present), "disowned" (no owner.json), "gone"
  recorded,    \* state.json holds the machine's record
  cmd,         \* the command holding the state lock, or "none"
  pc,          \* the step it has reached
  ret,         \* ret[p]: where procedure p returns to
  known,       \* known[k]: the identity the command acts on
  firstError,  \* the local first_error of stop and cleanup_failed_start
  wasRunning,  \* the local was_running of publish and rm
  verdict,     \* result kept for later: the export, the workspace check
  outcome,     \* how the last command ended
  began,       \* history: the status start, open or publish read first
  faults       \* history: failures the command has met, counted up to 2

world    == <<live>>
disk     == <<pidfile, session, root, recorded>>
locals   == <<ret, known, firstError, wasRunning, verdict>>
history  == <<began, faults>>
control  == <<cmd, pc, ret, known, firstError, wasRunning, verdict, outcome, began>>
vars     == <<live, pidfile, session, root, recorded, cmd, pc, ret, known,
              firstError, wasRunning, verdict, outcome, began, faults>>

Kind    == {"vmm", "net"}
Command == {"start", "stop", "open", "publish", "remove", "remove_force"}

Boot == {"inspect", "forget_stale", "spawn_net", "record_net", "net_socket",
         "expose_agent", "spawn_vmm", "record_vmm", "vmm_socket", "abort_vmm",
         "abort_net", "healthy", "configure"}
Abort == {"abort_vmm", "abort_net"}     \* cleanup_failed_start
Stop == {"stop_owned", "vmm_inspect", "vmm_wait", "vmm_forget"}
Net  == {"net_inspect", "net_wait"}
Clear == {"clear_owned", "clear_remove", "clear_mkdir", "clear_marker"}
Removal == {"remove_owned", "remove_tree", "remove_save"}
Step == {"status", "start_record", "reconfigure", "publish_layout", "publish_read",
         "workspace_status", "workspace_verdict", "remove_check"}
        \cup Boot \cup Stop \cup Net \cup Clear \cup Removal

\* Termination signals are blocked from spawn(2) to the synced pid file.
Masked == {"record_net", "record_vmm"}

StopReturn  == {"repair", "boot_failed", "stop", "publish", "recheck", "remove",
                "storage"}
NetReturn   == {"start", "stop"}
ClearReturn == {"start", "stop", "abort"}
NoReturn == [stop |-> "none", net |-> "none", clear |-> "none"]
Nobody   == [k \in Kind |-> None]
-----------------------------------------------------------------------------
(* Reading the pid files.                                                  *)

Inspect(k) ==
    IF pidfile[k] = None THEN "missing"
    ELSE IF pidfile[k] \in live[k] THEN "running" ELSE "stale"

\* A one-sided pair still counts as running.
StatusEither ==
    IF \E k \in Kind : Inspect(k) = "running" THEN "running" ELSE "stopped"

Status ==
    IF \A k \in Kind : Inspect(k) = "running" THEN "running"
    ELSE IF \E k \in Kind : Inspect(k) = "running" THEN "degraded"
    ELSE "stopped"

Owned == root \in {"whole", "stripped"}          \* assert_owned
LayoutHolds == root = "whole" /\ session = "ready" \* assert_domain_layout

\* Identities no process, pid file or local still refers to.
Fresh == Identity \ (live["vmm"] \cup live["net"] \cup
                     {pidfile[k] : k \in Kind} \cup {known[k] : k \in Kind})
-----------------------------------------------------------------------------
(* Moving between steps, calling and returning.                            *)

Fault   == faults' = IF faults < 2 THEN faults + 1 ELSE 2
NoFault == UNCHANGED faults

Goto(l) ==
    /\ pc' = l
    /\ UNCHANGED <<cmd, ret, known, firstError, wasRunning, verdict, outcome, began>>

Finish(o) ==
    /\ cmd' = "none" /\ pc' = "idle" /\ outcome' = o
    /\ ret' = NoReturn /\ known' = Nobody /\ firstError' = FALSE
    /\ wasRunning' = FALSE /\ verdict' = "none" /\ began' = "none"

CallStop(back) ==
    /\ pc' = "stop_owned" /\ ret' = [ret EXCEPT !.stop = back]
    /\ known' = Nobody /\ firstError' = FALSE
    /\ UNCHANGED <<cmd, wasRunning, verdict, outcome, began>>

CallNet(back) ==
    /\ pc' = "net_inspect" /\ ret' = [ret EXCEPT !.net = back]
    /\ UNCHANGED <<cmd, known, firstError, wasRunning, verdict, outcome, began>>

CallClear(back) ==
    /\ pc' = "clear_owned" /\ ret' = [ret EXCEPT !.clear = back]
    /\ known' = Nobody
    /\ UNCHANGED <<cmd, firstError, wasRunning, verdict, outcome, began>>

\* start_record failed: every caller reports the error and ends.
StartFails == Finish("err")

\* open drops the lock here, before the unbounded interactive shell.
StartSucceeds ==
    \/ cmd \in {"start", "open"} /\ Finish("ok")
    \/ cmd = "publish" /\ Finish(verdict)
    \/ cmd = "remove" /\ Goto("workspace_status")

StopReturns(ok) ==
    \/ ret.stop = "repair" /\ ok /\ CallClear("start")
    \/ ret.stop = "repair" /\ ~ok /\ StartFails
    \/ ret.stop = "boot_failed" /\ StartFails
    \/ ret.stop = "stop" /\ Finish(IF ok THEN "ok" ELSE "err")
    \/ ret.stop = "publish" /\ ok /\ Goto("publish_layout")
    \/ ret.stop = "recheck" /\ Goto("workspace_verdict")
    \/ ret.stop = "remove" /\ ok /\ CallStop("storage")
    \/ ret.stop = "storage" /\ ok /\ Goto("remove_owned")
    \/ ret.stop \in {"publish", "remove", "storage"} /\ ~ok /\ Finish("err")

ClearReturns(ok) ==
    \/ ret.clear = "start" /\ ok /\ Goto("spawn_net")
    \/ ret.clear = "start" /\ ~ok /\ StartFails
    \/ ret.clear = "stop" /\ StopReturns(ok)
    \/ ret.clear = "abort" /\ StartFails

\* stop_network's callers; the first caller's slip is to clear regardless.
NetReturnsIgnoringErrors(ok) ==
    \/ ret.net = "start" /\ CallClear("start")
    \/ ret.net = "stop" /\ CallClear("stop")

NetReturns(ok) ==
    \/ ret.net = "start" /\ ok /\ CallClear("start")
    \/ ret.net = "start" /\ ~ok /\ StartFails
    \/ ret.net = "stop" /\ ok /\ ~firstError /\ CallClear("stop")
    \/ ret.net = "stop" /\ (~ok \/ firstError) /\ StopReturns(FALSE)
-----------------------------------------------------------------------------
(* Commands take the lock, look their record up and read the status.       *)

Begin(c) ==
    /\ pc = "idle" /\ recorded
    /\ cmd' = c /\ pc' = "status" /\ outcome' = "none" /\ faults' = 0
    /\ UNCHANGED <<world, disk, locals, began>>

\* The status is read; began notes what it was.
Enter(l) ==
    /\ pc' = l /\ began' = Status
    /\ UNCHANGED <<cmd, ret, known, firstError, wasRunning, verdict, outcome>>

StartCommand ==
    /\ pc = "status" /\ cmd = "start"
    /\ IF Status = "running" THEN Finish("ok") ELSE Enter("start_record")
    /\ NoFault /\ UNCHANGED <<world, disk>>

OpenCommand ==
    /\ pc = "status" /\ cmd = "open"
    /\ IF Status = "running" THEN Goto("reconfigure") ELSE Goto("start_record")
    /\ NoFault /\ UNCHANGED <<world, disk>>

\* stop always runs the host-side cleanup, whatever the status says.
StopCommand ==
    /\ pc = "status" /\ cmd = "stop"
    /\ CallStop("stop")
    /\ NoFault /\ UNCHANGED <<world, disk>>

\* Two slips: was_running read after the machine has been stopped, and only
\* a fully running machine stopped before its disk is read.
PublishForgetsRunning ==
    /\ pc = "status" /\ cmd = "publish"
    /\ wasRunning' = FALSE /\ began' = Status
    /\ \/ Status = "stopped" /\ pc' = "publish_layout" /\ UNCHANGED <<ret, known, firstError>>
       \/ Status # "stopped" /\ pc' = "stop_owned" /\ ret' = [ret EXCEPT !.stop = "publish"]
                             /\ known' = Nobody /\ firstError' = FALSE
    /\ UNCHANGED <<cmd, verdict, outcome>>
    /\ NoFault /\ UNCHANGED <<world, disk>>

PublishCommand ==
    /\ pc = "status" /\ cmd = "publish"
    /\ wasRunning' = (Status = "running") /\ began' = Status
    /\ \/ Status = "stopped" /\ pc' = "publish_layout" /\ UNCHANGED <<ret, known, firstError>>
       \/ Status # "stopped" /\ pc' = "stop_owned" /\ ret' = [ret EXCEPT !.stop = "publish"]
                             /\ known' = Nobody /\ firstError' = FALSE
    /\ UNCHANGED <<cmd, verdict, outcome>>
    /\ NoFault /\ UNCHANGED <<world, disk>>

\* A checked rm needs the guest's answer, so it boots a machine that is off.
RemoveCommand ==
    /\ pc = "status" /\ cmd \in {"remove", "remove_force"}
    /\ wasRunning' = (Status = "running")
    /\ pc' = CASE cmd = "remove_force" -> "remove_check"
               [] cmd = "remove" /\ Status = "running" -> "workspace_status"
               [] OTHER -> "start_record"
    /\ UNCHANGED <<cmd, ret, known, firstError, verdict, outcome, began>>
    /\ NoFault /\ UNCHANGED <<world, disk>>

StatusFails ==
    /\ pc \in {"status", "remove_check"}
    /\ Finish("err") /\ Fault /\ UNCHANGED <<world, disk>>
-----------------------------------------------------------------------------
(* start_record and Vmm::start.                                            *)

\* collect_credentials, then assert_domain_layout before any mutation.
StartRecord ==
    /\ pc = "start_record"
    /\ \/ LayoutHolds /\ Goto("inspect") /\ NoFault
       \/ ~LayoutHolds /\ StartFails /\ NoFault
       \/ StartFails /\ Fault
    /\ UNCHANGED <<world, disk>>

\* A VMM without its network is stopped first; a slip is to start beside it.
InspectWithoutRepair ==
    /\ pc = "inspect"
    /\ \/ Inspect("vmm") = "stale" /\ Goto("forget_stale")
       \/ Inspect("vmm") # "stale" /\ CallNet("start")
    /\ NoFault /\ UNCHANGED <<world, disk>>

InspectPair ==
    /\ pc = "inspect"
    /\ \/ Status = "running" /\ Goto("healthy") /\ NoFault
       \/ Inspect("vmm") = "running" /\ Inspect("net") # "running"
             /\ CallStop("repair") /\ NoFault
       \/ Inspect("vmm") = "stale" /\ Goto("forget_stale") /\ NoFault
       \/ Inspect("vmm") = "missing" /\ CallNet("start") /\ NoFault
       \/ StartFails /\ Fault
    /\ UNCHANGED <<world, disk>>

ForgetStale ==
    /\ pc = "forget_stale"
    /\ \/ /\ pidfile' = [pidfile EXCEPT !["vmm"] = None]
          /\ \/ CallNet("start") /\ NoFault
             \/ StartFails /\ Fault
       \/ StartFails /\ Fault /\ UNCHANGED pidfile
    /\ UNCHANGED <<live, session, root, recorded>>

\* spawn_managed(passt): its failure returns at once, with nothing to undo.
SpawnNet ==
    /\ pc = "spawn_net"
    /\ \/ /\ pidfile["net"] = None
          /\ \E i \in Fresh :
                /\ live' = [live EXCEPT !["net"] = @ \cup {i}]
                /\ known' = [known EXCEPT !["net"] = i]
          /\ pc' = "record_net" /\ NoFault
          /\ UNCHANGED <<cmd, ret, firstError, wasRunning, verdict, outcome, began>>
       \/ StartFails /\ Fault /\ UNCHANGED live
    /\ UNCHANGED disk

\* The identity is captured and its file linked; on any failure the child is
\* killed and reaped, though the link may already be there.
RecordNet ==
    /\ pc = "record_net"
    /\ \/ /\ pidfile' = [pidfile EXCEPT !["net"] = known["net"]]
          /\ Goto("net_socket") /\ NoFault /\ UNCHANGED live
       \/ /\ live' = [live EXCEPT !["net"] = @ \ {known["net"]}]
          /\ pidfile' \in {pidfile, [pidfile EXCEPT !["net"] = known["net"]]}
          /\ StartFails /\ Fault
    /\ UNCHANGED <<session, root, recorded>>

\* An error after a helper of this start has died is that death, noticed.
Notices == IF \A k \in Kind : known[k] \in live[k] \cup {None} THEN Fault ELSE NoFault

NetSocket ==
    /\ pc = "net_socket"
    /\ \/ known["net"] \in live["net"] /\ Goto("expose_agent") /\ NoFault
       \/ Goto("abort_net") /\ Notices
    /\ UNCHANGED <<world, disk>>

ExposeAgent ==
    /\ pc = "expose_agent"
    /\ \/ Goto("spawn_vmm") /\ NoFault
       \/ Goto("abort_net") /\ Fault
    /\ UNCHANGED <<world, disk>>

\* A slip: the failed VMM spawn returns like the failed passt spawn does.
SpawnVmmNoCleanup ==
    /\ pc = "spawn_vmm"
    /\ \/ /\ pidfile["vmm"] = None
          /\ \E i \in Fresh :
                /\ live' = [live EXCEPT !["vmm"] = @ \cup {i}]
                /\ known' = [known EXCEPT !["vmm"] = i]
          /\ pc' = "record_vmm" /\ NoFault
          /\ UNCHANGED <<cmd, ret, firstError, wasRunning, verdict, outcome, began>>
       \/ StartFails /\ Fault /\ UNCHANGED live
    /\ UNCHANGED disk

SpawnVmm ==
    /\ pc = "spawn_vmm"
    /\ \/ /\ pidfile["vmm"] = None
          /\ \E i \in Fresh :
                /\ live' = [live EXCEPT !["vmm"] = @ \cup {i}]
                /\ known' = [known EXCEPT !["vmm"] = i]
          /\ pc' = "record_vmm" /\ NoFault
          /\ UNCHANGED <<cmd, ret, firstError, wasRunning, verdict, outcome, began>>
       \/ Goto("abort_net") /\ Fault /\ UNCHANGED live
    /\ UNCHANGED disk

\* A slip: the failed recording reports the error and leaves the child alone.
RecordVmmNoKill ==
    /\ pc = "record_vmm"
    /\ \/ /\ pidfile' = [pidfile EXCEPT !["vmm"] = known["vmm"]]
          /\ Goto("vmm_socket") /\ NoFault
       \/ UNCHANGED pidfile /\ Goto("abort_net") /\ Fault
    /\ UNCHANGED <<live, session, root, recorded>>

RecordVmm ==
    /\ pc = "record_vmm"
    /\ \/ /\ pidfile' = [pidfile EXCEPT !["vmm"] = known["vmm"]]
          /\ Goto("vmm_socket") /\ NoFault /\ UNCHANGED live
       \/ /\ live' = [live EXCEPT !["vmm"] = @ \ {known["vmm"]}]
          /\ pidfile' \in {pidfile, [pidfile EXCEPT !["vmm"] = known["vmm"]]}
          /\ known' = [known EXCEPT !["vmm"] = None]
          /\ pc' = "abort_net" /\ Fault
          /\ UNCHANGED <<cmd, ret, firstError, wasRunning, verdict, outcome, began>>
    /\ UNCHANGED <<session, root, recorded>>

VmmSocket ==
    /\ pc = "vmm_socket"
    /\ \/ known["vmm"] \in live["vmm"] /\ Goto("healthy") /\ NoFault
       \/ Goto("abort_vmm") /\ Notices
    /\ UNCHANGED <<world, disk>>

\* cleanup_failed_start: each helper this start spawned is terminated and, if
\* that worked, its file removed; first_error remembers what did not.
AbortVmm ==
    /\ pc = "abort_vmm"
    /\ pc' = "abort_net"
    /\ \/ /\ known["vmm"] \notin live["vmm"]
          /\ pidfile' = [pidfile EXCEPT !["vmm"] = None]
          /\ UNCHANGED firstError /\ NoFault
       \/ /\ pidfile' = pidfile \/ (/\ known["vmm"] \notin live["vmm"]
                                    /\ pidfile' = [pidfile EXCEPT !["vmm"] = None])
          /\ firstError' = TRUE /\ Fault
    /\ UNCHANGED <<live, session, root, recorded>>
    /\ UNCHANGED <<cmd, ret, known, wasRunning, verdict, outcome, began>>

AbortNet ==
    /\ pc = "abort_net"
    /\ \/ /\ known["net"] \notin live["net"]
          /\ pidfile' = [pidfile EXCEPT !["net"] = None]
          /\ \/ ~firstError /\ CallClear("abort") /\ NoFault
             \/ firstError /\ StartFails /\ NoFault
             \/ StartFails /\ Fault
       \/ StartFails /\ Fault /\ UNCHANGED pidfile
    /\ UNCHANGED <<live, session, root, recorded>>
-----------------------------------------------------------------------------
(* The guest answers only while its VMM runs.                              *)

Healthy ==
    /\ pc = "healthy"
    /\ \/ live["vmm"] # {} /\ Goto("configure") /\ NoFault
       \/ CallStop("boot_failed") /\ Notices
    /\ UNCHANGED <<world, disk>>

Configure ==
    /\ pc = "configure"
    /\ \/ live["vmm"] # {} /\ StartSucceeds /\ NoFault
       \/ CallStop("boot_failed") /\ Notices
    /\ UNCHANGED <<world, disk>>

\* open of a running machine; a refused session leaves the machine running.
Reconfigure ==
    /\ pc = "reconfigure"
    /\ \/ live["vmm"] # {} /\ Finish("ok") /\ NoFault
       \/ Finish("err") /\ Fault
    /\ UNCHANGED <<world, disk>>
-----------------------------------------------------------------------------
(* Vmm::stop, after the guest was asked to power off.                      *)

StopOwned ==
    /\ pc = "stop_owned"
    /\ \/ Owned /\ Goto("vmm_inspect") /\ NoFault
       \/ ~Owned /\ StopReturns(FALSE) /\ NoFault
       \/ StopReturns(FALSE) /\ Fault
    /\ UNCHANGED <<world, disk>>

VmmInspect ==
    /\ pc = "vmm_inspect"
    /\ \/ Inspect("vmm") = "missing" /\ CallNet("stop") /\ NoFault /\ UNCHANGED pidfile
       \/ /\ Inspect("vmm") = "stale"
          /\ pidfile' = [pidfile EXCEPT !["vmm"] = None]
          /\ \/ CallNet("stop") /\ NoFault
             \/ StopReturns(FALSE) /\ Fault
       \/ /\ Inspect("vmm") = "running"
          /\ known' = [known EXCEPT !["vmm"] = pidfile["vmm"]] /\ pc' = "vmm_wait"
          /\ UNCHANGED <<cmd, ret, firstError, wasRunning, verdict, outcome, began>>
          /\ NoFault /\ UNCHANGED pidfile
       \/ StopReturns(FALSE) /\ Fault /\ UNCHANGED pidfile
    /\ UNCHANGED <<live, session, root, recorded>>

\* Power button, then vm.shutdown, then TERM and KILL, each with a deadline;
\* a slip is to wait for the guest without one.
VmmWaitForever ==
    /\ pc = "vmm_wait"
    /\ \/ known["vmm"] \notin live["vmm"] /\ Goto("vmm_forget") /\ NoFault
       \/ StopReturns(FALSE) /\ Fault /\ known["vmm"] \notin live["vmm"]
    /\ UNCHANGED <<world, disk>>

VmmWait ==
    /\ pc = "vmm_wait"
    /\ \/ known["vmm"] \notin live["vmm"] /\ Goto("vmm_forget") /\ NoFault
       \/ /\ firstError' = TRUE /\ pc' = "vmm_forget" /\ Fault
          /\ UNCHANGED <<cmd, ret, known, wasRunning, verdict, outcome, began>>
       \/ StopReturns(FALSE) /\ Fault
    /\ UNCHANGED <<world, disk>>

VmmForget ==
    /\ pc = "vmm_forget"
    /\ \/ known["vmm"] \in live["vmm"] /\ CallNet("stop") /\ NoFault /\ UNCHANGED pidfile
       \/ /\ known["vmm"] \notin live["vmm"]
          /\ pidfile' = [pidfile EXCEPT !["vmm"] = None]
          /\ \/ CallNet("stop") /\ NoFault
             \/ StopReturns(FALSE) /\ Fault
       \/ StopReturns(FALSE) /\ Fault /\ UNCHANGED pidfile
    /\ UNCHANGED <<live, session, root, recorded>>

NetInspect ==
    /\ pc = "net_inspect"
    /\ \/ Inspect("net") = "missing" /\ NetReturns(TRUE) /\ NoFault /\ UNCHANGED pidfile
       \/ /\ Inspect("net") = "stale"
          /\ pidfile' = [pidfile EXCEPT !["net"] = None]
          /\ \/ NetReturns(TRUE) /\ NoFault
             \/ NetReturns(FALSE) /\ Fault
       \/ /\ Inspect("net") = "running"
          /\ known' = [known EXCEPT !["net"] = pidfile["net"]] /\ pc' = "net_wait"
          /\ UNCHANGED <<cmd, ret, firstError, wasRunning, verdict, outcome, began>>
          /\ NoFault /\ UNCHANGED pidfile
       \/ NetReturns(FALSE) /\ Fault /\ UNCHANGED pidfile
    /\ UNCHANGED <<live, session, root, recorded>>

NetWait ==
    /\ pc = "net_wait"
    /\ \/ /\ known["net"] \notin live["net"]
          /\ pidfile' = [pidfile EXCEPT !["net"] = None]
          /\ \/ NetReturns(TRUE) /\ NoFault
             \/ NetReturns(FALSE) /\ Fault
       \/ NetReturns(FALSE) /\ Fault /\ UNCHANGED pidfile
    /\ UNCHANGED <<live, session, root, recorded>>
-----------------------------------------------------------------------------
(* clear_session: only the owner marker is asked for, so a session left    *)
(* half cleared is cleared again; a slip is to ask for the whole layout.   *)

ClearOwnedStrict ==
    /\ pc = "clear_owned"
    /\ \/ LayoutHolds /\ Goto("clear_remove") /\ NoFault
       \/ ~LayoutHolds /\ ClearReturns(FALSE) /\ NoFault
    /\ UNCHANGED <<world, disk>>

ClearOwned ==
    /\ pc = "clear_owned"
    /\ \/ Owned /\ Goto("clear_remove") /\ NoFault
       \/ ~Owned /\ ClearReturns(FALSE) /\ NoFault
       \/ ClearReturns(FALSE) /\ Fault
    /\ UNCHANGED <<world, disk>>

\* One entry of the session directory disappears, in directory order, which
\* the code does not choose; the directory itself goes last.
UnlinkSession ==
    \/ \E k \in Kind : /\ pidfile[k] # None
                       /\ pidfile' = [pidfile EXCEPT ![k] = None]
                       /\ UNCHANGED session
    \/ session = "ready" /\ session' = "bare" /\ UNCHANGED pidfile
    \/ /\ session = "bare" /\ pidfile = Nobody
       /\ session' = "gone" /\ UNCHANGED pidfile

ClearRemove ==
    /\ pc = "clear_remove"
    /\ \/ UnlinkSession /\ NoFault /\ UNCHANGED control
       \/ session = "gone" /\ Goto("clear_mkdir") /\ NoFault /\ UNCHANGED <<pidfile, session>>
       \/ ClearReturns(FALSE) /\ Fault /\ UNCHANGED <<pidfile, session>>
    /\ UNCHANGED <<live, root, recorded>>

ClearMkdir ==
    /\ pc = "clear_mkdir"
    /\ \/ session' = "bare" /\ Goto("clear_marker") /\ NoFault
       \/ session' \in {session, "bare"} /\ ClearReturns(FALSE) /\ Fault
    /\ UNCHANGED <<live, pidfile, root, recorded>>

ClearMarker ==
    /\ pc = "clear_marker"
    /\ \/ session' = "ready" /\ ClearReturns(TRUE) /\ NoFault
       \/ session' \in {session, "ready"} /\ ClearReturns(FALSE) /\ Fault
    /\ UNCHANGED <<live, pidfile, root, recorded>>
-----------------------------------------------------------------------------
(* The rest of publish and rm.                                             *)

\* Whatever became of the export, a machine that was running is started again.
Published(v) ==
    \/ /\ wasRunning
       /\ verdict' = v /\ pc' = "start_record"
       /\ UNCHANGED <<cmd, ret, known, firstError, wasRunning, outcome, began>>
    \/ ~wasRunning /\ Finish(v)

\* publish_environment refuses a directory whose layout is not intact before
\* it opens environment.raw; skopeo, umoci or the registry may fail after.
PublishLayout ==
    /\ pc = "publish_layout"
    /\ \/ LayoutHolds /\ Goto("publish_read")
       \/ ~LayoutHolds /\ Published("err")
    /\ NoFault /\ UNCHANGED <<world, disk>>

PublishRead ==
    /\ pc = "publish_read"
    /\ \E v \in {"ok", "err"} : Published(v)
    /\ NoFault /\ UNCHANGED <<world, disk>>

\* The guest reports a clean tree, or a dirty one, or the request fails; a
\* machine booted only for the question is stopped, whatever comes of it.
WorkspaceStatus ==
    /\ pc = "workspace_status"
    /\ \E v \in {"ok", "err"} :
          /\ v = "ok" => live["vmm"] # {}
          /\ verdict' = v
    /\ \/ wasRunning /\ pc' = "workspace_verdict" /\ UNCHANGED <<ret, known, firstError>>
       \/ ~wasRunning /\ pc' = "stop_owned" /\ ret' = [ret EXCEPT !.stop = "recheck"]
                      /\ known' = Nobody /\ firstError' = FALSE
    /\ UNCHANGED <<cmd, wasRunning, outcome, began>>
    /\ NoFault /\ UNCHANGED <<world, disk>>

WorkspaceVerdict ==
    /\ pc = "workspace_verdict"
    /\ IF verdict = "ok" THEN Goto("remove_check") ELSE Finish("err")
    /\ NoFault /\ UNCHANGED <<world, disk>>

\* The status is read again; remove_storage stops whatever helper is left.
RemoveCheck ==
    /\ pc = "remove_check"
    /\ IF Status = "running" THEN CallStop("remove") ELSE CallStop("storage")
    /\ NoFault /\ UNCHANGED <<world, disk>>

RemoveOwned ==
    /\ pc = "remove_owned"
    /\ \/ Owned /\ Goto("remove_tree") /\ NoFault
       \/ ~Owned /\ Finish("err") /\ NoFault
       \/ Finish("err") /\ Fault
    /\ UNCHANGED <<world, disk>>

\* remove_dir_all(root), entry by entry in an order the code does not choose.
UnlinkTree ==
    \/ UnlinkSession /\ UNCHANGED root
    \/ root = "whole" /\ root' = "stripped" /\ UNCHANGED <<pidfile, session>>
    \/ root \in {"whole", "stripped"} /\ root' = "disowned" /\ UNCHANGED <<pidfile, session>>
    \/ root = "disowned" /\ session = "gone" /\ root' = "gone" /\ UNCHANGED <<pidfile, session>>

RemoveTree ==
    /\ pc = "remove_tree"
    /\ \/ UnlinkTree /\ NoFault /\ UNCHANGED control
       \/ root = "gone" /\ Goto("remove_save") /\ NoFault /\ UNCHANGED <<pidfile, session, root>>
       \/ Finish("err") /\ Fault /\ UNCHANGED <<pidfile, session, root>>
    /\ UNCHANGED <<live, recorded>>

\* save can fail after its rename, when only the directory sync is missing.
RemoveSave ==
    /\ pc = "remove_save"
    /\ \/ recorded' = FALSE /\ Finish("ok") /\ NoFault
       \/ recorded' \in BOOLEAN /\ Finish("err") /\ Fault
    /\ UNCHANGED <<live, pidfile, session, root>>
-----------------------------------------------------------------------------
(* The environment.                                                        *)

\* A helper exits: by itself, because its guest powered off or panicked or its one
\* client left (passt --one-off), or by a signal, the command's own included.  One
\* that a start has spawned and still counts on is a failure of that start; in
\* cleanup_failed_start the start terminates its helpers itself.
HelperExit(k) ==
    /\ \E i \in live[k] :
          /\ live' = [live EXCEPT ![k] = @ \ {i}]
          /\ IF pc \in Boot \ Abort /\ known[k] = i THEN Fault ELSE NoFault
    /\ UNCHANGED disk /\ UNCHANGED control

\* SIGINT, SIGTERM, SIGHUP or SIGQUIT ends the CLI process wherever they are
\* not blocked; SIGKILL ends it anywhere.  Helpers have their own session.
Interrupt ==
    /\ cmd # "none"
    /\ pc \in Masked => Uncatchable
    /\ Finish("killed")
    /\ UNCHANGED <<world, disk, faults>>

HostReboot ==
    /\ live' = [k \in Kind |-> {}]
    /\ Finish("killed")
    /\ UNCHANGED <<disk, faults>>
-----------------------------------------------------------------------------
Init ==
    /\ live = [k \in Kind |-> {}]
    /\ pidfile = Nobody /\ session = "ready" /\ root = "whole" /\ recorded = TRUE
    /\ cmd = "none" /\ pc = "idle"
    /\ ret = NoReturn /\ known = Nobody /\ firstError = FALSE
    /\ wasRunning = FALSE /\ verdict = "none"
    /\ outcome = "none" /\ began = "none" /\ faults = 0

Commands ==
    \/ StartCommand \/ OpenCommand \/ StopCommand \/ PublishCommand
    \/ RemoveCommand \/ StatusFails

StartSteps ==
    \/ StartRecord \/ InspectPair \/ ForgetStale
    \/ SpawnNet \/ RecordNet \/ NetSocket \/ ExposeAgent
    \/ SpawnVmm \/ RecordVmm \/ VmmSocket
    \/ AbortVmm \/ AbortNet \/ Healthy \/ Configure \/ Reconfigure

StopSteps ==
    \/ StopOwned \/ VmmInspect \/ VmmWait \/ VmmForget \/ NetInspect \/ NetWait
    \/ ClearOwned \/ ClearRemove \/ ClearMkdir \/ ClearMarker

RemoveSteps ==
    \/ PublishLayout \/ PublishRead \/ WorkspaceStatus \/ WorkspaceVerdict \/ RemoveCheck
    \/ RemoveOwned \/ RemoveTree \/ RemoveSave

CommandStep == Commands \/ StartSteps \/ StopSteps \/ RemoveSteps

Next ==
    \/ \E c \in Command : Begin(c)
    \/ CommandStep
    \/ \E k \in Kind : HelperExit(k)
    \/ Interrupt
    \/ HostReboot

Spec == Init /\ [][Next]_vars

\* A CLI process that is not killed is scheduled; nothing is assumed of the
\* helpers, the guest, the user or the host.
FairSpec == Spec /\ WF_vars(CommandStep)
-----------------------------------------------------------------------------
(* Properties.                                                             *)

TypeOK ==
    /\ live \in [Kind -> SUBSET Identity]
    /\ pidfile \in [Kind -> Identity \cup {None}]
    /\ session \in {"ready", "bare", "gone"}
    /\ root \in {"whole", "stripped", "disowned", "gone"}
    /\ recorded \in BOOLEAN
    /\ cmd \in Command \cup {"none"}
    /\ pc \in Step \cup {"idle"}
    /\ ret \in [stop : StopReturn \cup {"none"}, net : NetReturn \cup {"none"},
                clear : ClearReturn \cup {"none"}]
    /\ known \in [Kind -> Identity \cup {None}]
    /\ firstError \in BOOLEAN
    /\ wasRunning \in BOOLEAN
    /\ verdict \in {"none", "ok", "err"}
    /\ outcome \in {"none", "ok", "err", "killed"}
    /\ began \in {"none", "running", "degraded", "stopped"}
    /\ faults \in 0 .. 2
    /\ session = "gone" => pidfile = Nobody

\* The step at which a helper runs before its pid file names it.
Recording(k) == IF k = "vmm" THEN "record_vmm" ELSE "record_net"

\* Every helper that runs can be found again: its pid file names it, except
\* in the window between spawn(2) and the link, where signals are blocked and
\* the command itself holds the child (process.rs, spawn_managed).
HelpersRecorded ==
    \A k \in Kind : \A i \in live[k] :
        pidfile[k] = i \/ (pc = Recording(k) /\ known[k] = i)

\* Who has the disk images open: the hypervisors, publish's export, rm.
Users == live["vmm"]
         \cup (IF pc = "publish_read" THEN {"publisher"} ELSE {})
         \cup (IF pc = "remove_tree" THEN {"remover"} ELSE {})

\* The disk images never have two users: no second VMM, no export of a disk
\* a VMM writes, no removal under a VMM (vmm.rs start, machine.rs publish).
ExclusiveDisks == \A a, b \in Users : a = b

Lease == INSTANCE DiskLease WITH
    Hypervisor <- Identity, Exporter <- "publisher", Remover <- "remover",
    users <- Users, destroyed <- (root # "whole")

\* The machine implements the lease of its disks: users follow one another
\* only through a moment with none, and nothing boots or exports the disks of
\* a tree whose removal has begun.
LeaseSpec == Lease!Spec

\* The only handle of a running helper, its pid file, is never lost: no step
\* of stop, start, rm or their cleanups drops or replaces it while the
\* process it names lives (the comment of storage.rs, remove_machine).
RecordedUntilDead ==
    [][\A k \in Kind : pidfile[k] \in live[k] /\ pidfile'[k] # pidfile[k]
                          => pidfile[k] \notin live'[k]]_vars

\* While a recorded helper runs the directory layout is intact, so the layout
\* check at the head of start can never refuse to repair a one-sided pair.
RunningMeansLayout == (\E k \in Kind : Inspect(k) = "running") => LayoutHolds

\* Once rm has begun to unlink the tree neither helper runs.
DamagedMeansOff == root # "whole" => \A k \in Kind : live[k] = {}

\* state.json forgets a machine only after its directory is gone.
RecordOutlivesStorage == root # "gone" => recorded

Ends(c) == cmd = c /\ cmd' = "none" /\ outcome' \in {"ok", "err"}

\* "stop always cleans both": a stop that reports success leaves no helper,
\* no pid file and a usable session directory, and a stop that meets no new
\* failure succeeds whatever earlier crashes have left behind.
StopCleans ==
    [][Ends("stop") =>
        /\ outcome' = "ok" => /\ \A k \in Kind : live'[k] = {}
                              /\ pidfile' = Nobody /\ session' = "ready"
        /\ faults' = 0 /\ Owned => outcome' = "ok"]_vars

\* "the next start repairs the pair": a start of a degraded machine that
\* meets no new failure ends with both helpers running.
StartRepairs ==
    [][Ends("start") /\ began = "degraded" /\ faults' = 0
        => outcome' = "ok" /\ Status' = "running"]_vars

\* One thing going wrong, at whatever step, never leaves a helper of a failed
\* start behind: not the helper it went wrong with, nor one that was well and
\* has to be terminated (vmm.rs cleanup_failed_start, machine.rs start_record).
FailedStartCleans ==
    [][Ends("start") /\ outcome' = "err" /\ began = "stopped" /\ faults' <= 1
        => \A k \in Kind : live'[k] = {}]_vars

\* publish gives a running machine back running, also when the export fails.
PublishRestores ==
    [][Ends("publish") /\ began = "running" /\ faults' = 0
        => Status' = "running"]_vars

\* The state lock is always released again: a guest that ignores the power button
\* and a helper that ignores SIGTERM delay a command, they do not hold it up
\* (vmm.rs stop, terminate).
LockReleased == []<>(pc = "idle")

\* docs/architecture.md: "Stale process files and a surviving helper are
\* handled during the next lifecycle operation."
StaleFilesHandled ==
    [][Ends("start") /\ faults' = 0 => \A k \in Kind : Inspect(k)' # "stale"]_vars

\* storage.rs, assert_domain_layout: "removal only needs the root ownership
\* proof so a partially damaged machine remains removable".
DamagedRemainsRemovable ==
    [][Ends("remove_force") /\ faults' = 0 => outcome' = "ok"]_vars
=============================================================================

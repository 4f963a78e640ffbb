----------------------- MODULE MachineLifecycleProofs -----------------------
(***************************************************************************)
(* Theorems about MachineLifecycle, for any set of helper identities.      *)
(*                                                                         *)
(* One inductive invariant, IInv, carries all of them.  It has three       *)
(* parts: the types; DiskSound, which speaks of the directory and of       *)
(* state.json only; and Orderly, which says what the place a command has   *)
(* reached guarantees about pid files, locals and the directory.  The      *)
(* steps of the module are taken group by group, and each of the           *)
(* procedures stop, stop_network and clear_session is dealt with once, by  *)
(* a lemma about its call and one about its return.                        *)
(*                                                                         *)
(* A second invariant, HelpersRecorded, needs the assumption that nothing  *)
(* ends a command while its signals are blocked (~Uncatchable); from it    *)
(* follow the exclusive use of the disks and the refinement of DiskLease.  *)
(*                                                                         *)
(* The properties of the step that ends a command rest on five more        *)
(* invariants, of what the command under way has reached: StartingOK and   *)
(* SpawnedOK for all of them, StopSound, RevivalSound and ColdSound for    *)
(* the stop, the repairing starts and publishes, and the cold start.       *)
(***************************************************************************)
EXTENDS MachineLifecycle, TLAPS

(***************************************************************************)
(* The inductive invariant.                                                *)
(***************************************************************************)

ControlTyped ==
    /\ cmd \in Command \cup {"none"}
    /\ pc \in Step \cup {"idle"}
    /\ ret \in [stop : StopReturn \cup {"none"}, net : NetReturn \cup {"none"},
                clear : ClearReturn \cup {"none"}]
    /\ known \in [Kind -> Identity \cup {None}]
    /\ firstError \in BOOLEAN
    /\ wasRunning \in BOOLEAN
    /\ verdict \in {"none", "ok", "err"}
    /\ outcome \in {"none", "ok", "err", "killed"}
    /\ began \in {"none", "running", "degraded", "stopped"}

DiskTyped ==
    /\ live \in [Kind -> SUBSET Identity]
    /\ pidfile \in [Kind -> Identity \cup {None}]
    /\ session \in {"ready", "bare", "gone"}
    /\ root \in {"whole", "stripped", "disowned", "gone"}
    /\ recorded \in BOOLEAN
    /\ faults \in 0 .. 2
    /\ session = "gone" => pidfile = Nobody

DiskSound == DiskTyped /\ RunningMeansLayout /\ RecordOutlivesStorage

\* The pid file of k names no running process.
Dead(k) == pidfile[k] \notin live[k]

\* A boot is under way: at its own steps, or in a procedure it has called.
Booting ==
    \/ pc \in Boot
    \/ pc \in Net /\ ret.net = "start"
    \/ pc \in Clear /\ ret.clear = "start"
    \/ /\ ret.stop = "repair"
       /\ \/ pc \in Stop
          \/ pc \in Net /\ ret.net = "stop"
          \/ pc \in Clear /\ ret.clear = "stop"

\* What assert_domain_layout found at the head of a boot stays so.
BootIntact ==
    /\ Booting => root = "whole"
    /\ pc \in Boot => session = "ready"

\* The identity a step acts on is the one its pid file records.
HandlesHeld ==
    /\ pc \in {"vmm_wait", "vmm_forget", "vmm_socket", "abort_vmm"}
         => pidfile["vmm"] = known["vmm"]
    /\ pc \in {"net_wait", "net_socket", "expose_agent", "spawn_vmm",
               "record_vmm", "vmm_socket", "abort_vmm", "abort_net"}
         => pidfile["net"] = known["net"]
    /\ \A k \in Kind : pc = Recording(k) => pidfile[k] = None

\* Where a recorded helper must be dead already.
VmmQuiet ==
    \/ pc \in {"forget_stale", "spawn_net", "record_net", "net_socket", "expose_agent",
               "spawn_vmm", "publish_layout", "publish_read"}
    \/ pc \in Clear \cup Removal
    \/ pc \in Net /\ ret.net = "start"
    \/ pc \in Net \cup {"vmm_forget", "abort_net"} /\ ~firstError

NetQuiet == pc \in Clear \cup Removal \cup {"spawn_net"}

Quiet ==
    /\ VmmQuiet => Dead("vmm")
    /\ NetQuiet => Dead("net")

Orderly == BootIntact /\ HandlesHeld /\ Quiet /\ (pc = "remove_save" => root = "gone")

IInv == TypeOK /\ Orderly /\ DiskSound

\* The types are those of the control and those of the disk.
LEMMA Typing == TypeOK <=> ControlTyped /\ DiskTyped
BY DEF TypeOK, ControlTyped, DiskTyped

\* The same of the next state.
LEMMA TypingNext == TypeOK' <=> ControlTyped' /\ DiskTyped'
BY DEF TypeOK, ControlTyped, DiskTyped

(***************************************************************************)
(* The types of the control variables.                                     *)
(***************************************************************************)

\* Goto keeps the types of the control variables.
LEMMA GotoTyped == ASSUME ControlTyped, NEW l \in Step, Goto(l) PROVE ControlTyped'
BY DEF ControlTyped, Goto

\* The end of a command, however it ends, leaves well-typed control variables.
LEMMA FinishTyped ==
    ASSUME NEW o \in {"none", "ok", "err", "killed"}, Finish(o) PROVE ControlTyped'
BY DEF ControlTyped, Finish, NoReturn, Nobody

\* Calling Vmm::stop keeps the types of the control variables.
LEMMA CallStopTyped ==
    ASSUME ControlTyped, NEW back \in StopReturn, CallStop(back) PROVE ControlTyped'
<1>1. "stop_owned" \in Step
    BY DEF Step, Stop
<1>. QED
    BY <1>1 DEF ControlTyped, CallStop, Nobody

\* Calling stop_network keeps the types of the control variables.
LEMMA CallNetTyped ==
    ASSUME ControlTyped, NEW back \in NetReturn, CallNet(back) PROVE ControlTyped'
<1>1. "net_inspect" \in Step
    BY DEF Step, Net
<1>. QED
    BY <1>1 DEF ControlTyped, CallNet

\* Calling clear_session keeps the types of the control variables.
LEMMA CallClearTyped ==
    ASSUME ControlTyped, NEW back \in ClearReturn, CallClear(back) PROVE ControlTyped'
<1>1. "clear_owned" \in Step
    BY DEF Step, Clear
<1>. QED
    BY <1>1 DEF ControlTyped, CallClear, Nobody

\* So does the return from Vmm::stop to any of its callers.
LEMMA StopReturnsTyped ==
    ASSUME ControlTyped, NEW ok \in BOOLEAN, StopReturns(ok) PROVE ControlTyped'
BY GotoTyped, FinishTyped, CallStopTyped, CallClearTyped
   DEF StopReturns, StartFails, StopReturn, ClearReturn, Step, Removal

\* So does the return from clear_session.
LEMMA ClearReturnsTyped ==
    ASSUME ControlTyped, NEW ok \in BOOLEAN, ClearReturns(ok) PROVE ControlTyped'
BY GotoTyped, FinishTyped, StopReturnsTyped DEF ClearReturns, StartFails, Step, Boot

\* So does the return from stop_network.
LEMMA NetReturnsTyped ==
    ASSUME ControlTyped, NEW ok \in BOOLEAN, NetReturns(ok) PROVE ControlTyped'
BY FinishTyped, StopReturnsTyped, CallClearTyped DEF NetReturns, StartFails, ClearReturn

\* The names of places the module uses are steps.
LEMMA StepNames ==
    /\ Boot \cup Stop \cup Net \cup Clear \cup Removal \subseteq Step
    /\ {"status", "start_record", "reconfigure", "publish_layout", "publish_read",
        "workspace_status", "workspace_verdict", "remove_check"} \subseteq Step
BY DEF Step

\* Every step keeps the types of the control variables.
LEMMA ControlStep == ASSUME TypeOK, ControlTyped, [Next]_vars PROVE ControlTyped'
<1>1. CASE \E c \in Command : Begin(c)
    BY <1>1, StepNames DEF Begin, ControlTyped, locals
<1>2. CASE Commands
    <2>0. Status \in {"running", "degraded", "stopped"}
        BY DEF Status
    <2>1. CASE StartCommand
        BY <2>0, <2>1, StepNames, FinishTyped DEF StartCommand, Enter, ControlTyped
    <2>2. CASE OpenCommand
        BY <2>2, StepNames, GotoTyped DEF OpenCommand
    <2>3. CASE StopCommand
        BY <2>3, CallStopTyped DEF StopCommand, StopReturn
    <2>4. CASE PublishCommand
        BY <2>0, <2>4, StepNames DEF PublishCommand, ControlTyped, Stop, StopReturn,
           Nobody
    <2>5. CASE RemoveCommand
        BY <2>5, StepNames DEF RemoveCommand, ControlTyped
    <2>6. CASE StatusFails
        BY <2>6, FinishTyped DEF StatusFails
    <2>. QED
        BY <1>2, <2>1, <2>2, <2>3, <2>4, <2>5, <2>6 DEF Commands
<1>3. CASE StartSteps
    <2>. USE StepNames, GotoTyped, FinishTyped DEF StartFails, Boot
    <2>1. CASE StartRecord
        BY <2>1 DEF StartRecord
    <2>2. CASE InspectPair
        BY <2>2, CallStopTyped, CallNetTyped DEF InspectPair, StopReturn, NetReturn
    <2>3. CASE ForgetStale
        BY <2>3, CallNetTyped DEF ForgetStale, NetReturn
    <2>4. CASE SpawnNet
        BY <2>4 DEF SpawnNet, ControlTyped, Fresh, Kind
    <2>5. CASE RecordNet
        BY <2>5 DEF RecordNet
    <2>6. CASE NetSocket
        BY <2>6 DEF NetSocket
    <2>7. CASE ExposeAgent
        BY <2>7 DEF ExposeAgent
    <2>8. CASE SpawnVmm
        BY <2>8 DEF SpawnVmm, ControlTyped, Fresh, Kind
    <2>9. CASE RecordVmm
        BY <2>9 DEF RecordVmm, ControlTyped, Kind
    <2>10. CASE VmmSocket
        BY <2>10 DEF VmmSocket
    <2>11. CASE AbortVmm
        <3>1. pc' = "abort_net" /\ firstError' \in BOOLEAN
            BY <2>11 DEF AbortVmm, ControlTyped
        <3>2. UNCHANGED <<cmd, ret, known, wasRunning, verdict, outcome, began>>
            BY <2>11 DEF AbortVmm
        <3>. QED
            BY <3>1, <3>2 DEF ControlTyped
    <2>12. CASE AbortNet
        BY <2>12, CallClearTyped DEF AbortNet, ClearReturn
    <2>13. CASE Healthy
        BY <2>13, CallStopTyped DEF Healthy, StopReturn
    <2>14. CASE Configure
        <3>1. CASE StartSucceeds
            <4>1. verdict \in {"none", "ok", "err"}
                BY DEF ControlTyped
            <4>. QED
                BY <3>1, <4>1 DEF StartSucceeds
        <3>2. CASE CallStop("boot_failed")
            BY <3>2, CallStopTyped DEF StopReturn
        <3>. QED
            BY <2>14, <3>1, <3>2 DEF Configure
    <2>15. CASE Reconfigure
        BY <2>15 DEF Reconfigure
    <2>. QED
        BY <1>3, <2>1, <2>2, <2>3, <2>4, <2>5, <2>6, <2>7, <2>8, <2>9, <2>10, <2>11,
           <2>12, <2>13, <2>14, <2>15 DEF StartSteps
<1>4. CASE StopSteps
    <2>. USE StepNames, GotoTyped, StopReturnsTyped, NetReturnsTyped, ClearReturnsTyped
    <2>1. CASE StopOwned
        BY <2>1 DEF StopOwned, Stop
    <2>2. CASE VmmInspect
        BY <2>2, CallNetTyped DEF VmmInspect, NetReturn, ControlTyped, Stop, Kind,
           TypeOK
    <2>3. CASE VmmWait
        BY <2>3 DEF VmmWait, ControlTyped, Stop
    <2>4. CASE VmmForget
        BY <2>4, CallNetTyped DEF VmmForget, NetReturn
    <2>5. CASE NetInspect
        BY <2>5 DEF NetInspect, ControlTyped, Net, Kind, TypeOK
    <2>6. CASE NetWait
        BY <2>6 DEF NetWait
    <2>7. CASE ClearOwned
        BY <2>7 DEF ClearOwned, Clear
    <2>8. CASE ClearRemove
        BY <2>8 DEF ClearRemove, Clear, control, ControlTyped
    <2>9. CASE ClearMkdir
        BY <2>9 DEF ClearMkdir, Clear
    <2>10. CASE ClearMarker
        BY <2>10 DEF ClearMarker
    <2>. QED
        BY <1>4, <2>1, <2>2, <2>3, <2>4, <2>5, <2>6, <2>7, <2>8, <2>9, <2>10 DEF
           StopSteps
<1>5. CASE RemoveSteps
    <2>. USE StepNames, GotoTyped, FinishTyped
    <2>1. CASE PublishLayout
        BY <2>1 DEF PublishLayout, Published, ControlTyped
    <2>2. CASE PublishRead
        BY <2>2 DEF PublishRead, Published, ControlTyped
    <2>3. CASE WorkspaceStatus
        BY <2>3 DEF WorkspaceStatus, ControlTyped, Stop, StopReturn, Nobody
    <2>4. CASE WorkspaceVerdict
        BY <2>4 DEF WorkspaceVerdict
    <2>5. CASE RemoveCheck
        BY <2>5, CallStopTyped DEF RemoveCheck, StopReturn
    <2>6. CASE RemoveOwned
        BY <2>6 DEF RemoveOwned, Removal
    <2>7. CASE RemoveTree
        BY <2>7 DEF RemoveTree, Removal, control, ControlTyped
    <2>8. CASE RemoveSave
        BY <2>8 DEF RemoveSave
    <2>. QED
        BY <1>5, <2>1, <2>2, <2>3, <2>4, <2>5, <2>6, <2>7, <2>8 DEF RemoveSteps
<1>6. CASE \E k \in Kind : HelperExit(k)
    BY <1>6 DEF HelperExit, control, ControlTyped
<1>7. CASE Interrupt \/ HostReboot
    BY <1>7, FinishTyped DEF Interrupt, HostReboot
<1>8. CASE UNCHANGED vars
    BY <1>8 DEF vars, ControlTyped
<1>. QED
    BY <1>1, <1>2, <1>3, <1>4, <1>5, <1>6, <1>7, <1>8 DEF Next, CommandStep

(***************************************************************************)
(* Orderly across a call, a return and the end of a command.               *)
(***************************************************************************)

USE DEF BootIntact, Booting, HandlesHeld, Recording, Kind, Quiet, VmmQuiet, NetQuiet,
        Boot, Stop, Net, Clear, Removal

\* Places of which Orderly says nothing.
Free ==
    pc \notin Boot \cup Stop \cup Net \cup Clear \cup Removal
              \cup {"publish_layout", "publish_read"}

\* At a free place Orderly asks for nothing.
LEMMA FreeIsOrderly == Free' => Orderly'
BY DEF Free, Orderly

\* A command that ends leaves a free place.
LEMMA FinishFree == ASSUME NEW o, Finish(o) PROVE Free'
BY DEF Finish, Free

\* A failed Vmm::stop leads every caller to a free place.
LEMMA StopFails == StopReturns(FALSE) => Free'
BY FinishFree DEF StopReturns, StartFails, Goto, Free

\* A failed clear_session leads every caller to a free place.
LEMMA ClearFails == ClearReturns(FALSE) => Free'
BY FinishFree, StopFails DEF ClearReturns, StartFails

\* A failed stop_network leads every caller to a free place.
LEMMA NetFails == NetReturns(FALSE) => Free'
BY FinishFree, StopFails DEF NetReturns, StartFails

\* Vmm::stop may be called anywhere; repairing a pair needs the intact layout.
LEMMA CallStopOrderly ==
    ASSUME NEW back, CallStop(back), back = "repair" => root' = "whole"
    PROVE  Orderly'
BY DEF CallStop, Orderly

\* stop_network is entered in order if the VMM is dead or its failure is noted.
LEMMA CallNetOrderly ==
    ASSUME NEW back, TypeOK, CallNet(back),
           back = "start" \/ ret.stop = "repair" => root' = "whole",
           back = "start" \/ ~firstError => Dead("vmm")'
    PROVE  Orderly'
BY DEF TypeOK, CallNet, Orderly

\* clear_session is entered in order if both recorded helpers are dead.
LEMMA CallClearOrderly ==
    ASSUME NEW back, TypeOK, CallClear(back),
           back = "start" => root' = "whole",
           back = "stop" /\ ret.stop = "repair" => root' = "whole",
           Dead("vmm")', Dead("net")'
    PROVE  Orderly'
BY DEF TypeOK, CallClear, Orderly

\* A successful Vmm::stop hands both helpers over dead.
LEMMA StopReturnsOrderly ==
    ASSUME TypeOK, NEW ok \in BOOLEAN, StopReturns(ok),
           ret.stop = "repair" => root' = "whole",
           ok => Dead("vmm")' /\ Dead("net")'
    PROVE  Orderly'
<1>1. CASE ~ok
    BY <1>1, StopFails, FreeIsOrderly
<1>2. CASE ok
    <2>1. ASSUME NEW o, Finish(o) PROVE Orderly'
        BY <2>1, FinishFree, FreeIsOrderly
    <2>2. ASSUME CallStop("storage") PROVE Orderly'
        BY <2>2, CallStopOrderly
    <2>3. ASSUME ret.stop = "repair", CallClear("start") PROVE Orderly'
        BY <1>2, <2>3, CallClearOrderly
    <2>4. ASSUME NEW l \in {"publish_layout", "workspace_verdict", "remove_owned"}, Goto(l)
          PROVE  Orderly'
        BY <1>2, <2>4 DEF Goto, Orderly
    <2>. QED
        BY <1>2, <2>1, <2>2, <2>3, <2>4 DEF StopReturns, StartFails
<1>. QED
    BY <1>1, <1>2

\* A successful clear_session hands over dead helpers and a fresh session.
LEMMA ClearReturnsOrderly ==
    ASSUME TypeOK, NEW ok \in BOOLEAN, ClearReturns(ok),
           ret.clear = "start" => root' = "whole",
           ret.clear = "stop" /\ ret.stop = "repair" => root' = "whole",
           ok => Dead("vmm")' /\ Dead("net")' /\ session' = "ready"
    PROVE  Orderly'
<1>1. ASSUME NEW o, Finish(o) PROVE Orderly'
    BY <1>1, FinishFree, FreeIsOrderly
<1>2. ASSUME ok, ret.clear = "start", Goto("spawn_net") PROVE Orderly'
    BY <1>2 DEF Goto, Orderly
<1>3. ASSUME ret.clear = "stop", StopReturns(ok) PROVE Orderly'
    BY <1>3, StopReturnsOrderly
<1>. QED
    BY <1>1, <1>2, <1>3 DEF ClearReturns, StartFails

\* A successful stop_network hands passt over dead.
LEMMA NetReturnsOrderly ==
    ASSUME TypeOK, NEW ok \in BOOLEAN, NetReturns(ok),
           ret.net = "start" => root' = "whole",
           ret.net = "stop" /\ ret.stop = "repair" => root' = "whole",
           ok /\ (ret.net = "start" \/ ~firstError) => Dead("vmm")',
           ok => Dead("net")'
    PROVE  Orderly'
<1>1. CASE ~ok
    BY <1>1, NetFails, FreeIsOrderly
<1>2. ASSUME ok, ret.net = "start", CallClear("start") PROVE Orderly'
    BY <1>2, CallClearOrderly
<1>3. ASSUME ok, ret.net = "stop", ~firstError, CallClear("stop") PROVE Orderly'
    BY <1>3, CallClearOrderly
<1>4. ASSUME ret.net = "stop", StopReturns(FALSE) PROVE Orderly'
    BY <1>4, StopFails, FreeIsOrderly
<1>. QED
    BY <1>1, <1>2, <1>3, <1>4 DEF NetReturns

(***************************************************************************)
(* DiskSound and Orderly across the steps.                                 *)
(***************************************************************************)

\* The count of faults stays within its bound.
LEMMA FaultCounted == ASSUME TypeOK, Fault \/ NoFault PROVE faults' \in 0 .. 2
BY DEF TypeOK, Fault, NoFault

\* Processes that exit do not disturb the directory.
LEMMA Undisturbed ==
    ASSUME DiskSound, UNCHANGED disk, live' \in [Kind -> SUBSET Identity],
           \A k \in Kind : live'[k] \subseteq live[k], faults' \in 0 .. 2
    PROVE  DiskSound'
BY DEF DiskSound, DiskTyped, RunningMeansLayout, RecordOutlivesStorage, Inspect,
   LayoutHolds, disk

\* A step that changes neither processes nor files keeps DiskSound.
LEMMA Untouched ==
    ASSUME DiskSound, UNCHANGED world, UNCHANGED disk, faults' \in 0 .. 2
    PROVE  DiskSound'
BY DEF DiskSound, DiskTyped, RunningMeansLayout, RecordOutlivesStorage, Inspect,
   LayoutHolds, disk, world

\* The pid file of a helper may go, whatever became of the helper.
LEMMA Forgotten ==
    ASSUME DiskSound, NEW k \in Kind, pidfile' = [pidfile EXCEPT ![k] = None],
           UNCHANGED <<live, session, root, recorded>>, faults' \in 0 .. 2
    PROVE  DiskSound' /\ Dead(k)' /\ \A j \in Kind : Dead(j) => Dead(j)'
BY IdentityAssumption DEF DiskSound, DiskTyped, RunningMeansLayout,
   RecordOutlivesStorage, Inspect, LayoutHolds, Nobody, Dead

\* Reading the status and choosing what to do keeps the invariant.
LEMMA CommandsPreserve ==
    ASSUME TypeOK, DiskSound, Orderly, Commands
    PROVE  Orderly' /\ DiskSound'
<1>0. DiskSound'
    <2>1. UNCHANGED world /\ UNCHANGED disk
        BY DEF Commands, StartCommand, OpenCommand, StopCommand, PublishCommand,
           RemoveCommand, StatusFails
    <2>2. Fault \/ NoFault
        BY DEF Commands, StartCommand, OpenCommand, StopCommand, PublishCommand,
           RemoveCommand, StatusFails
    <2>. QED
        BY <2>1, <2>2, Untouched, FaultCounted
<1>1. CASE StartCommand \/ OpenCommand \/ RemoveCommand
    <2>1. Free'
        BY <1>1, FinishFree DEF StartCommand, OpenCommand, RemoveCommand, Enter, Goto,
           Free
    <2>. QED
        BY <1>0, <2>1, FreeIsOrderly
<1>2. CASE StopCommand
    BY <1>0, <1>2, CallStopOrderly DEF StopCommand
<1>3. CASE PublishCommand
    <2>1. Status = "stopped" => Dead("vmm")
        BY IdentityAssumption DEF Status, Inspect, Dead, TypeOK
    <2>. QED
        BY <1>0, <1>3, <2>1 DEF PublishCommand, world, disk, Orderly, Dead, TypeOK
<1>4. CASE StatusFails
    BY <1>0, <1>4, FinishFree, FreeIsOrderly DEF StatusFails
<1>. QED
    BY <1>1, <1>2, <1>3, <1>4 DEF Commands

\* Every step of start_record and Vmm::start keeps the invariant.
LEMMA StartPreserves ==
    ASSUME TypeOK, DiskSound, Orderly, StartSteps
    PROVE  Orderly' /\ DiskSound'
<1>0. ASSUME StartFails PROVE Orderly'
    BY <1>0, FinishFree, FreeIsOrderly DEF StartFails
<1>a. ASSUME NEW l \in {"inspect", "healthy", "configure"}, Goto(l), root' = "whole",
   session' = "ready"
      PROVE Orderly'
    BY <1>a DEF Goto, Orderly
<1>1. CASE StartRecord
    <2>1. DiskSound'
        BY <1>1, Untouched, FaultCounted DEF StartRecord
    <2>. QED
        BY <1>1, <1>0, <1>a, <2>1 DEF StartRecord, LayoutHolds, disk
<1>2. CASE InspectPair
    <2>1. DiskSound'
        BY <1>2, Untouched, FaultCounted DEF InspectPair
    <2>2. root' = "whole" /\ session' = "ready"
        BY <1>2 DEF InspectPair, disk, Orderly
    <2>3. ASSUME Inspect("vmm") = "missing", CallNet("start") PROVE Orderly'
        <3>1. Dead("vmm")'
            BY <2>3, <1>2, IdentityAssumption DEF InspectPair, Inspect, Dead, disk,
               world, TypeOK
        <3>. QED
            BY <2>3, <2>2, <3>1, CallNetOrderly
    <2>4. ASSUME Inspect("vmm") = "stale", Goto("forget_stale") PROVE Orderly'
        <3>1. Dead("vmm")'
            BY <2>4, <1>2 DEF InspectPair, Inspect, Dead, disk, world
        <3>. QED
            BY <2>4, <2>2, <3>1 DEF Goto, Orderly
    <2>. QED
        BY <1>2, <1>0, <1>a, <2>1, <2>2, <2>3, <2>4, CallStopOrderly DEF InspectPair
<1>3. CASE ForgetStale
    <2>1. root' = "whole" /\ Dead("vmm")
        BY <1>3 DEF ForgetStale, Orderly
    <2>2. CASE pidfile' = [pidfile EXCEPT !["vmm"] = None]
        <3>1. DiskSound' /\ Dead("vmm")'
            BY <1>3, <2>2, Forgotten, FaultCounted DEF ForgetStale
        <3>. QED
            BY <1>3, <1>0, <2>1, <3>1, CallNetOrderly DEF ForgetStale
    <2>3. CASE UNCHANGED pidfile /\ StartFails
        <3>1. DiskSound'
            BY <1>3, <2>3, Untouched, FaultCounted DEF ForgetStale, world, disk
        <3>. QED
            BY <2>3, <1>0, <3>1
    <2>. QED
        BY <1>3, <2>2, <2>3 DEF ForgetStale
<1>4. CASE SpawnNet
    <2>0. root = "whole" /\ session = "ready" /\ Dead("vmm") /\ Dead("net")
        BY <1>4 DEF SpawnNet, Orderly
    <2>1. ASSUME NEW i \in Fresh, pidfile["net"] = None,
                 live' = [live EXCEPT !["net"] = @ \cup {i}],
                 known' = [known EXCEPT !["net"] = i], pc' = "record_net", NoFault,
                 UNCHANGED disk,
                 UNCHANGED <<cmd, ret, firstError, wasRunning, verdict, outcome, began>>
          PROVE  Orderly' /\ DiskSound'
        <3>1. i \in Identity /\ \A k \in Kind : pidfile[k] # i
            BY <2>1 DEF Fresh
        <3>2. live' \in [Kind -> SUBSET Identity] /\ live'["vmm"] = live["vmm"]
            BY <2>1, <3>1 DEF TypeOK
        <3>3. DiskSound'
            BY <2>1, <3>1, <3>2, <2>0, FaultCounted DEF DiskSound, DiskTyped,
               RunningMeansLayout, LayoutHolds, RecordOutlivesStorage, disk, NoFault
        <3>4. Orderly'
            BY <2>0, <2>1, <3>2 DEF Orderly, disk, Dead
        <3>. QED
            BY <3>3, <3>4
    <2>2. CASE StartFails /\ Fault /\ UNCHANGED live /\ UNCHANGED disk
        BY <2>2, <1>0, Untouched, FaultCounted DEF world
    <2>. QED
        BY <1>4, <2>1, <2>2 DEF SpawnNet
<1>5. CASE RecordNet
    <2>0. root = "whole" /\ session = "ready" /\ Dead("vmm")
        BY <1>5 DEF RecordNet, Orderly
    <2>1. /\ pidfile' \in [Kind -> Identity \cup {None}]
          /\ pidfile'["vmm"] = pidfile["vmm"]
          /\ live' \in [Kind -> SUBSET Identity]
          /\ live'["vmm"] = live["vmm"]
        BY <1>5 DEF RecordNet, TypeOK
    <2>2. DiskSound'
        BY <1>5, <2>0, <2>1, FaultCounted DEF RecordNet, DiskSound, DiskTyped,
           RunningMeansLayout, LayoutHolds, RecordOutlivesStorage
    <2>3. CASE /\ pidfile' = [pidfile EXCEPT !["net"] = known["net"]]
               /\ Goto("net_socket")
               /\ UNCHANGED live
        BY <2>0, <2>2, <2>3, <1>5 DEF TypeOK, RecordNet, Goto, Orderly, Dead
    <2>. QED
        BY <1>5, <1>0, <2>2, <2>3 DEF RecordNet
<1>6. CASE NetSocket
    <2>0. UNCHANGED world /\ UNCHANGED disk /\ faults' \in 0 .. 2
        BY <1>6, FaultCounted DEF NetSocket, Notices
    <2>1. DiskSound'
        BY <2>0, Untouched
    <2>. QED
        BY <1>6, <2>0, <2>1 DEF NetSocket, Goto, Orderly, Dead, world, disk
<1>7. CASE ExposeAgent
    <2>0. UNCHANGED world /\ UNCHANGED disk /\ faults' \in 0 .. 2
        BY <1>7, FaultCounted DEF ExposeAgent
    <2>1. DiskSound'
        BY <2>0, Untouched
    <2>. QED
        BY <1>7, <2>0, <2>1 DEF ExposeAgent, Goto, Orderly, Dead, world, disk
<1>8. CASE SpawnVmm
    <2>0. /\ root = "whole"
          /\ session = "ready"
          /\ Dead("vmm")
          /\ pidfile["net"] = known["net"]
        BY <1>8 DEF SpawnVmm, Orderly
    <2>1. ASSUME NEW i \in Fresh, pidfile["vmm"] = None,
                 live' = [live EXCEPT !["vmm"] = @ \cup {i}],
                 known' = [known EXCEPT !["vmm"] = i], pc' = "record_vmm", NoFault,
                 UNCHANGED disk,
                 UNCHANGED <<cmd, ret, firstError, wasRunning, verdict, outcome, began>>
          PROVE  Orderly' /\ DiskSound'
        <3>1. i \in Identity /\ \A k \in Kind : pidfile[k] # i
            BY <2>1 DEF Fresh
        <3>2. live' \in [Kind -> SUBSET Identity] /\ known'["net"] = known["net"]
            BY <2>1, <3>1 DEF TypeOK
        <3>3. DiskSound'
            BY <2>1, <3>1, <3>2, <2>0, FaultCounted DEF DiskSound, DiskTyped,
               RunningMeansLayout, LayoutHolds, RecordOutlivesStorage, disk, NoFault
        <3>4. Orderly'
            BY <2>0, <2>1, <3>2 DEF Orderly, disk, Dead
        <3>. QED
            BY <3>3, <3>4
    <2>2. CASE Goto("abort_net") /\ Fault /\ UNCHANGED live /\ UNCHANGED disk
        <3>1. DiskSound'
            BY <2>2, Untouched, FaultCounted DEF world
        <3>. QED
            BY <3>1, <2>0, <2>2, <1>8 DEF Goto, Orderly, disk, Dead
    <2>. QED
        BY <1>8, <2>1, <2>2 DEF SpawnVmm
<1>9. CASE RecordVmm
    <2>0. /\ root = "whole"
          /\ session = "ready"
          /\ pidfile["net"] = known["net"]
          /\ pidfile["vmm"] = None
        BY <1>9 DEF RecordVmm, Orderly
    <2>1. /\ pidfile' \in [Kind -> Identity \cup {None}]
          /\ pidfile'["net"] = pidfile["net"]
          /\ live' \in [Kind -> SUBSET Identity]
          /\ known'["net"] = known["net"]
        BY <1>9 DEF RecordVmm, TypeOK, Goto
    <2>2. DiskSound'
        BY <1>9, <2>0, <2>1, FaultCounted DEF RecordVmm, DiskSound, DiskTyped,
           RunningMeansLayout, LayoutHolds, RecordOutlivesStorage
    <2>3. CASE pidfile' = [pidfile EXCEPT !["vmm"] = known["vmm"]] /\ Goto("vmm_socket")
        BY <2>0, <2>1, <2>2, <2>3, <1>9 DEF TypeOK, RecordVmm, Goto, Orderly
    <2>4. CASE pc' = "abort_net" /\ live' = [live EXCEPT !["vmm"] = @ \ {known["vmm"]}]
               /\ pidfile' \in {pidfile, [pidfile EXCEPT !["vmm"] = known["vmm"]]}
        <3>1. Dead("vmm")'
            BY <2>4, <2>0, IdentityAssumption DEF Dead, TypeOK
        <3>. QED
            BY <2>0, <2>1, <2>2, <2>4, <1>9, <3>1 DEF RecordVmm, Orderly
    <2>. QED
        BY <1>9, <2>3, <2>4 DEF RecordVmm
<1>10. CASE VmmSocket
    <2>0. UNCHANGED world /\ UNCHANGED disk /\ faults' \in 0 .. 2
        BY <1>10, FaultCounted DEF VmmSocket, Notices
    <2>1. DiskSound'
        BY <2>0, Untouched
    <2>. QED
        BY <1>10, <2>0, <2>1 DEF VmmSocket, Goto, Orderly, Dead, world, disk
<1>11. CASE AbortVmm
    <2>0. /\ root = "whole"
          /\ session = "ready"
          /\ pidfile["net"] = known["net"]
          /\ pidfile["vmm"] = known["vmm"]
        BY <1>11 DEF AbortVmm, Orderly
    <2>1. /\ pidfile'["net"] = pidfile["net"]
          /\ DiskSound'
          /\ firstError' \/ Dead("vmm")'
        <3>1. CASE UNCHANGED pidfile /\ firstError'
            BY <1>11, <3>1, Untouched, FaultCounted DEF AbortVmm, world, disk
        <3>2. CASE pidfile' = [pidfile EXCEPT !["vmm"] = None]
            BY <1>11, <3>2, Forgotten, FaultCounted DEF AbortVmm
        <3>. QED
            BY <1>11, <3>1, <3>2 DEF AbortVmm
    <2>. QED
        BY <1>11, <2>0, <2>1 DEF AbortVmm, Orderly
<1>12. CASE AbortNet
    <2>0. /\ root' = "whole"
          /\ pidfile["net"] = known["net"]
          /\ firstError \/ Dead("vmm")
        BY <1>12 DEF AbortNet, Orderly
    <2>1. CASE UNCHANGED pidfile /\ StartFails
        BY <1>12, <2>1, <1>0, Untouched, FaultCounted DEF AbortNet, world, disk
    <2>2. CASE pidfile' = [pidfile EXCEPT !["net"] = None]
        <3>1. DiskSound' /\ Dead("net")' /\ (firstError \/ Dead("vmm")')
            BY <1>12, <2>0, <2>2, Forgotten, FaultCounted DEF AbortNet
        <3>2. ASSUME ~firstError, CallClear("abort") PROVE Orderly'
            BY <3>1, <3>2, CallClearOrderly
        <3>. QED
            BY <1>12, <1>0, <3>1, <3>2 DEF AbortNet
    <2>. QED
        BY <1>12, <2>1, <2>2 DEF AbortNet
<1>13. CASE Healthy \/ Configure \/ Reconfigure
    <2>0. UNCHANGED world /\ UNCHANGED disk /\ faults' \in 0 .. 2
        BY <1>13, FaultCounted DEF Healthy, Configure, Reconfigure, Notices
    <2>1. DiskSound'
        BY <2>0, Untouched
    <2>2. CASE Healthy
        <3>1. root = "whole" /\ session = "ready"
            BY <2>2 DEF Healthy, Orderly
        <3>. QED
            BY <2>0, <2>1, <2>2, <3>1, <1>a, CallStopOrderly DEF Healthy, disk
    <2>3. ASSUME StartSucceeds PROVE Orderly'
        <3>1. Free'
            BY <2>3, FinishFree DEF StartSucceeds, Goto, Free
        <3>. QED
            BY <3>1, FreeIsOrderly
    <2>. QED
        BY <1>13, <2>1, <2>2, <2>3, CallStopOrderly, FinishFree, FreeIsOrderly DEF
           Configure, Reconfigure
<1>. QED
    BY <1>1, <1>2, <1>3, <1>4, <1>5, <1>6, <1>7, <1>8, <1>9, <1>10, <1>11, <1>12,
       <1>13 DEF StartSteps

\* Every step of Vmm::stop, stop_network and clear_session keeps the invariant.
LEMMA StopPreserves ==
    ASSUME TypeOK, DiskSound, Orderly, StopSteps
    PROVE  Orderly' /\ DiskSound'
<1>0. ASSUME ret.stop = "repair" PROVE pc \in Stop => root = "whole"
    BY <1>0 DEF Orderly
<1>00. /\ pc \in Net /\ ret.net = "start" => root = "whole"
       /\ pc \in Net /\ ret.net = "stop" /\ ret.stop = "repair" => root = "whole"
       /\ pc \in Clear /\ ret.clear = "start" => root = "whole"
       /\ pc \in Clear /\ ret.clear = "stop" /\ ret.stop = "repair" => root = "whole"
    BY DEF Orderly
<1>a. ASSUME StopReturns(FALSE) \/ ClearReturns(FALSE) \/ NetReturns(FALSE)
      PROVE  Orderly'
    BY <1>a, StopFails, ClearFails, NetFails, FreeIsOrderly
<1>1. CASE StopOwned
    <2>0. DiskSound'
        BY <1>1, Untouched, FaultCounted DEF StopOwned
    <2>1. ASSUME Goto("vmm_inspect") PROVE Orderly'
        BY <2>1, <1>1, <1>0 DEF StopOwned, disk, Goto, Orderly
    <2>. QED
        BY <1>1, <1>a, <2>0, <2>1 DEF StopOwned
<1>2. CASE VmmInspect
    <2>0. ret.stop = "repair" => root' = "whole"
        BY <1>0, <1>2 DEF VmmInspect
    <2>1. CASE UNCHANGED pidfile
        <3>0. DiskSound'
            BY <1>2, <2>1, Untouched, FaultCounted DEF VmmInspect, world, disk
        <3>1. ASSUME Inspect("vmm") = "missing", CallNet("stop") PROVE Orderly'
            <4>1. Dead("vmm")'
                BY <3>1, <2>1, <1>2, IdentityAssumption DEF VmmInspect, Inspect, Dead,
                   TypeOK
            <4>. QED
                BY <3>1, <4>1, <2>0, CallNetOrderly
        <3>2. ASSUME known' = [known EXCEPT !["vmm"] = pidfile["vmm"]],
                     pc' = "vmm_wait",
                     UNCHANGED <<cmd, ret, firstError, wasRunning, verdict, outcome, began>>
              PROVE Orderly'
            BY <3>2, <2>0, <2>1 DEF TypeOK, Orderly
        <3>3. Inspect("vmm") = "stale" => Dead("vmm")
            BY DEF Inspect, Dead
        <3>4. ASSUME Inspect("vmm") = "stale", CallNet("stop") PROVE Orderly'
            <4>1. Dead("vmm")'
                BY <3>3, <3>4, <2>1, <1>2 DEF VmmInspect, Dead
            <4>. QED
                BY <3>4, <4>1, <2>0, CallNetOrderly
        <3>. QED
            BY <1>2, <1>a, <3>0, <3>1, <3>2, <3>4 DEF VmmInspect
    <2>2. CASE /\ pidfile' = [pidfile EXCEPT !["vmm"] = None]
               /\ CallNet("stop") \/ StopReturns(FALSE)
        <3>1. DiskSound' /\ Dead("vmm")'
            BY <1>2, <2>2, Forgotten, FaultCounted DEF VmmInspect
        <3>. QED
            BY <2>2, <3>1, <1>a, <2>0, CallNetOrderly
    <2>. QED
        BY <1>2, <2>1, <2>2 DEF VmmInspect
<1>3. CASE VmmWait
    <2>0. DiskSound' /\ UNCHANGED disk /\ UNCHANGED world
        BY <1>3, Untouched, FaultCounted DEF VmmWait
    <2>1. CASE known["vmm"] \notin live["vmm"] /\ Goto("vmm_forget")
        BY <1>3, <2>0, <2>1, <1>0 DEF VmmWait, Goto, disk, world, Dead, Orderly
    <2>2. CASE firstError' = TRUE /\ pc' = "vmm_forget" /\ UNCHANGED <<cmd, ret,
       known, wasRunning, verdict, outcome, began>>
        BY <1>3, <2>0, <2>2, <1>0 DEF VmmWait, disk, Orderly
    <2>. QED
        BY <1>3, <1>a, <2>0, <2>1, <2>2 DEF VmmWait
<1>4. CASE VmmForget
    <2>0. /\ ret.stop = "repair" => root' = "whole"
          /\ pidfile["vmm"] = known["vmm"]
          /\ firstError \/ Dead("vmm")
        BY <1>0, <1>4 DEF VmmForget, Orderly
    <2>1. CASE UNCHANGED pidfile
        <3>0. DiskSound'
            BY <1>4, <2>1, Untouched, FaultCounted DEF VmmForget, world, disk
        <3>1. ASSUME CallNet("stop") PROVE Orderly'
            BY <1>4, <3>1, <2>0, <2>1, CallNetOrderly DEF VmmForget, Dead
        <3>. QED
            BY <1>4, <1>a, <3>0, <3>1 DEF VmmForget
    <2>2. CASE /\ pidfile' = [pidfile EXCEPT !["vmm"] = None]
               /\ CallNet("stop") \/ StopReturns(FALSE)
        <3>1. DiskSound' /\ Dead("vmm")'
            BY <1>4, <2>2, Forgotten, FaultCounted DEF VmmForget
        <3>. QED
            BY <2>2, <3>1, <1>a, <2>0, CallNetOrderly
    <2>. QED
        BY <1>4, <2>1, <2>2 DEF VmmForget
<1>5. CASE NetInspect
    <2>0. /\ ret.net = "start" => root' = "whole"
          /\ ret.net = "stop" /\ ret.stop = "repair" => root' = "whole"
          /\ ret.net = "start" \/ ~firstError => Dead("vmm")
        BY <1>0, <1>00, <1>5 DEF NetInspect, Orderly
    <2>1. CASE UNCHANGED pidfile
        <3>0. DiskSound' /\ (Dead("vmm") => Dead("vmm")')
            BY <1>5, <2>1, Untouched, FaultCounted DEF NetInspect, world, disk, Dead
        <3>1. ASSUME NetReturns(TRUE), Inspect("net") \in {"missing", "stale"}
              PROVE  Orderly'
            <4>1. Dead("net")'
                BY <3>1, <2>1, <1>5, IdentityAssumption DEF NetInspect, Inspect, Dead,
                   TypeOK
            <4>. QED
                BY <3>0, <3>1, <4>1, <2>0, NetReturnsOrderly
        <3>2. ASSUME known' = [known EXCEPT !["net"] = pidfile["net"]],
                     pc' = "net_wait",
                     UNCHANGED <<cmd, ret, firstError, wasRunning, verdict, outcome, began>>
              PROVE Orderly'
            BY <3>0, <3>2, <2>0, <2>1 DEF TypeOK, Orderly
        <3>. QED
            BY <1>5, <1>a, <3>0, <3>1, <3>2 DEF NetInspect
    <2>2. CASE /\ pidfile' = [pidfile EXCEPT !["net"] = None]
               /\ NetReturns(TRUE) \/ NetReturns(FALSE)
        <3>1. DiskSound' /\ Dead("net")' /\ (Dead("vmm") => Dead("vmm")')
            BY <1>5, <2>2, Forgotten, FaultCounted DEF NetInspect
        <3>. QED
            BY <2>2, <3>1, <1>a, <2>0, NetReturnsOrderly
    <2>. QED
        BY <1>5, <2>1, <2>2 DEF NetInspect
<1>6. CASE NetWait
    <2>0. /\ ret.net = "start" => root' = "whole"
          /\ ret.net = "stop" /\ ret.stop = "repair" => root' = "whole"
          /\ ret.net = "start" \/ ~firstError => Dead("vmm")
        BY <1>0, <1>00, <1>6 DEF NetWait, Orderly
    <2>1. CASE UNCHANGED pidfile /\ NetReturns(FALSE)
        BY <1>6, <1>a, <2>1, Untouched, FaultCounted DEF NetWait, world, disk
    <2>2. CASE /\ pidfile' = [pidfile EXCEPT !["net"] = None]
               /\ NetReturns(TRUE) \/ NetReturns(FALSE)
        <3>1. DiskSound' /\ Dead("net")' /\ (Dead("vmm") => Dead("vmm")')
            BY <1>6, <2>2, Forgotten, FaultCounted DEF NetWait
        <3>. QED
            BY <2>2, <3>1, <1>a, <2>0, NetReturnsOrderly
    <2>. QED
        BY <1>6, <2>1, <2>2 DEF NetWait
<1>7. CASE ClearOwned \/ ClearRemove \/ ClearMkdir \/ ClearMarker
    <2>0. pc \in Clear /\ UNCHANGED <<live, root, recorded>>
        BY <1>7 DEF ClearOwned, ClearRemove, ClearMkdir, ClearMarker, world, disk
    <2>1. Dead("vmm") /\ Dead("net")
        BY <2>0 DEF Orderly
    <2>2. DiskSound' /\ Dead("vmm")' /\ Dead("net")'
        <3>1. faults' \in 0 .. 2
            BY <1>7, FaultCounted DEF ClearOwned, ClearRemove, ClearMkdir, ClearMarker
        <3>2. CASE UNCHANGED pidfile
            <4>1. /\ session' \in {"ready", "bare", "gone"}
                  /\ session' = "gone" => pidfile = Nobody
                BY <1>7, <3>2 DEF ClearOwned, ClearRemove, ClearMkdir, ClearMarker,
                   UnlinkSession, disk, DiskSound, DiskTyped
            <4>. QED
                BY <2>0, <2>1, <3>1, <3>2, <4>1 DEF DiskSound, DiskTyped,
                   RunningMeansLayout, RecordOutlivesStorage, Inspect, Dead
        <3>3. ASSUME NEW k \in Kind, pidfile' = [pidfile EXCEPT ![k] = None],
           UNCHANGED session
              PROVE DiskSound' /\ Dead("vmm")' /\ Dead("net")'
            BY <2>0, <2>1, <3>1, <3>3, Forgotten
        <3>. QED
            BY <1>7, <3>2, <3>3 DEF ClearOwned, ClearRemove, ClearMkdir, ClearMarker,
               UnlinkSession, disk
    <2>3. ASSUME NEW l \in {"clear_remove", "clear_mkdir", "clear_marker"}, Goto(l)
          PROVE  Orderly'
        BY <2>3, <2>0, <2>2, <1>0, <1>00 DEF Goto, Orderly
    <2>4. ASSUME UNCHANGED control PROVE Orderly'
        BY <2>4, <2>0, <2>2, <1>0, <1>00 DEF control, Orderly
    <2>5. ASSUME ClearReturns(TRUE), session' = "ready" PROVE Orderly'
        BY <2>5, <2>0, <2>2, <1>0, <1>00, ClearReturnsOrderly
    <2>. QED
        BY <1>7, <1>a, <2>2, <2>3, <2>4, <2>5 DEF ClearOwned, ClearRemove, ClearMkdir,
           ClearMarker
<1>. QED
    BY <1>1, <1>2, <1>3, <1>4, <1>5, <1>6, <1>7 DEF StopSteps

\* Every further step of publish and rm keeps the invariant.
LEMMA RemovePreserves ==
    ASSUME TypeOK, DiskSound, Orderly, RemoveSteps
    PROVE  Orderly' /\ DiskSound'
<1>a. ASSUME NEW o, Finish(o) PROVE Orderly'
    BY <1>a, FinishFree, FreeIsOrderly
<1>b. ASSUME NEW v, Published(v) PROVE Orderly'
    <2>1. Free'
        BY <1>b, FinishFree DEF Published, Free
    <2>. QED
        BY <2>1, FreeIsOrderly
<1>1. CASE PublishLayout \/ PublishRead
    <2>0. UNCHANGED world /\ UNCHANGED disk /\ Dead("vmm")
        BY <1>1 DEF PublishLayout, PublishRead, Orderly
    <2>1. DiskSound'
        BY <1>1, <2>0, Untouched, FaultCounted DEF PublishLayout, PublishRead
    <2>2. ASSUME Goto("publish_read") PROVE Orderly'
        BY <2>2, <2>0 DEF Goto, world, disk, Orderly, Dead
    <2>. QED
        BY <1>1, <1>b, <2>1, <2>2 DEF PublishLayout, PublishRead
<1>2. CASE WorkspaceStatus
    <2>0. DiskSound'
        BY <1>2, Untouched, FaultCounted DEF WorkspaceStatus
    <2>. QED
        BY <1>2, <2>0 DEF WorkspaceStatus, Orderly, TypeOK
<1>3. CASE WorkspaceVerdict
    <2>0. DiskSound'
        BY <1>3, Untouched, FaultCounted DEF WorkspaceVerdict
    <2>1. Free'
        BY <1>3, FinishFree DEF WorkspaceVerdict, Goto, Free
    <2>. QED
        BY <2>0, <2>1, FreeIsOrderly
<1>4. CASE RemoveCheck
    BY <1>4, Untouched, FaultCounted, CallStopOrderly DEF RemoveCheck
<1>5. CASE RemoveOwned
    <2>0. DiskSound' /\ UNCHANGED world /\ UNCHANGED disk /\ Dead("vmm") /\ Dead("net")
        BY <1>5, Untouched, FaultCounted DEF RemoveOwned, Orderly
    <2>1. ASSUME Goto("remove_tree") PROVE Orderly'
        BY <2>1, <2>0 DEF Goto, world, disk, Orderly, Dead
    <2>. QED
        BY <1>5, <1>a, <2>0, <2>1 DEF RemoveOwned
<1>6. CASE RemoveTree
    <2>0. /\ Dead("vmm")
          /\ Dead("net")
          /\ UNCHANGED <<live, recorded>>
          /\ pc = "remove_tree"
        BY <1>6 DEF RemoveTree, Orderly
    <2>1. faults' \in 0 .. 2
        BY <1>6, FaultCounted DEF RemoveTree
    <2>2. ASSUME UNCHANGED pidfile PROVE DiskSound'
        <3>1. /\ session' \in {"ready", "bare", "gone"}
              /\ session' = "gone" => pidfile = Nobody
              /\ root' \in {"whole", "stripped", "disowned", "gone"}
              /\ root' # "gone" => root # "gone"
            BY <1>6, <2>2 DEF RemoveTree, UnlinkTree, UnlinkSession, DiskSound,
               DiskTyped
        <3>2. DiskTyped' /\ RecordOutlivesStorage'
            BY <2>0, <2>1, <2>2, <3>1 DEF DiskSound, DiskTyped, RecordOutlivesStorage
        <3>3. RunningMeansLayout'
            BY <2>0, <2>2 DEF RunningMeansLayout, Inspect, Dead
        <3>. QED
            BY <3>2, <3>3 DEF DiskSound
    <2>3. ASSUME NEW k \in Kind, pidfile' = [pidfile EXCEPT ![k] = None], UNCHANGED
       <<session, root>>
          PROVE DiskSound' /\ Dead("vmm")' /\ Dead("net")'
        BY <2>0, <2>1, <2>3, Forgotten
    <2>4. DiskSound' /\ Dead("vmm")' /\ Dead("net")'
        <3>1. UNCHANGED pidfile => Dead("vmm")' /\ Dead("net")'
            BY <2>0 DEF Dead
        <3>. QED
            BY <1>6, <2>2, <2>3, <3>1 DEF RemoveTree, UnlinkTree, UnlinkSession
    <2>5. ASSUME UNCHANGED control PROVE Orderly'
        BY <2>5, <2>0, <2>4 DEF control, Orderly
    <2>6. ASSUME root' = "gone", Goto("remove_save") PROVE Orderly'
        BY <2>6, <2>0, <2>4 DEF Goto, Orderly
    <2>. QED
        BY <1>6, <1>a, <2>4, <2>5, <2>6 DEF RemoveTree
<1>7. CASE RemoveSave
    <2>0. root = "gone" /\ recorded' \in BOOLEAN /\ UNCHANGED <<live, pidfile,
       session, root>>
        BY <1>7 DEF RemoveSave, Orderly
    <2>1. DiskSound'
        BY <1>7, <2>0, FaultCounted DEF RemoveSave, DiskSound, DiskTyped,
           RunningMeansLayout, RecordOutlivesStorage, Inspect, LayoutHolds
    <2>. QED
        BY <1>7, <1>a, <2>1 DEF RemoveSave
<1>. QED
    BY <1>1, <1>2, <1>3, <1>4, <1>5, <1>6, <1>7 DEF RemoveSteps

\* A new command, an exit, a signal and a reboot keep the invariant.
LEMMA EnvironmentPreserves ==
    ASSUME TypeOK, DiskSound, Orderly,
           \/ \E c \in Command : Begin(c)
           \/ \E k \in Kind : HelperExit(k)
           \/ Interrupt \/ HostReboot \/ UNCHANGED vars
    PROVE  Orderly' /\ DiskSound'
<1>1. CASE \E c \in Command : Begin(c)
    <2>1. DiskSound'
        BY <1>1, Untouched DEF Begin
    <2>2. Free'
        BY <1>1 DEF Begin, Free
    <2>. QED
        BY <2>1, <2>2, FreeIsOrderly
<1>2. CASE \E k \in Kind : HelperExit(k)
    <2>1. /\ live' \in [Kind -> SUBSET Identity]
          /\ \A k \in Kind : live'[k] \subseteq live[k]
          /\ UNCHANGED disk /\ UNCHANGED control /\ faults' \in 0 .. 2
        BY <1>2, FaultCounted DEF HelperExit, TypeOK
    <2>2. DiskSound'
        BY <2>1, Undisturbed
    <2>3. Orderly'
        BY <2>1 DEF control, disk, Orderly, Dead
    <2>. QED
        BY <2>2, <2>3
<1>3. CASE Interrupt \/ HostReboot
    <2>1. DiskSound'
        BY <1>3, Untouched, Undisturbed DEF Interrupt, HostReboot, TypeOK
    <2>. QED
        BY <1>3, <2>1, FinishFree, FreeIsOrderly DEF Interrupt, HostReboot
<1>4. CASE UNCHANGED vars
    <2>1. DiskSound'
        BY <1>4, Untouched DEF vars, world, disk, TypeOK
    <2>. QED
        BY <1>4, <2>1 DEF vars, Orderly, Dead
<1>. QED
    BY <1>1, <1>2, <1>3, <1>4

HIDE DEF BootIntact, Booting, HandlesHeld, Recording, Kind, Quiet, VmmQuiet, NetQuiet,
         Boot, Stop, Net, Clear, Removal

(***************************************************************************)
(* The invariant and what follows from it for every Uncatchable.           *)
(***************************************************************************)

\* The invariant holds initially.
LEMMA IInvInit == Init => IInv
<1> SUFFICES ASSUME Init PROVE IInv
    OBVIOUS
<1>1. TypeOK
    <2>1. ControlTyped
        BY DEF Init, ControlTyped, Nobody, NoReturn
    <2>2. DiskTyped
        BY DEF Init, DiskTyped, Nobody
    <2>. QED
        BY <2>1, <2>2, Typing
<1>2. Orderly
    BY DEF Init, Orderly, BootIntact, Booting, HandlesHeld, Recording, Kind, Quiet,
       VmmQuiet, NetQuiet, Boot, Stop, Net, Clear, Removal
<1>3. DiskSound
    BY <1>1, Typing DEF Init, DiskSound, RunningMeansLayout, RecordOutlivesStorage,
       LayoutHolds
<1>. QED
    BY <1>1, <1>2, <1>3 DEF IInv

\* The invariant is inductive.
LEMMA IInvStep == IInv /\ [Next]_vars => IInv'
<1> SUFFICES ASSUME IInv, [Next]_vars PROVE IInv'
    OBVIOUS
<1>0. TypeOK /\ DiskSound /\ Orderly /\ ControlTyped
    BY Typing DEF IInv
<1>1. ControlTyped'
    BY <1>0, ControlStep
<1>2. Orderly' /\ DiskSound'
    BY <1>0, CommandsPreserve, StartPreserves, StopPreserves, RemovePreserves,
       EnvironmentPreserves
    DEF Next, CommandStep
<1>. QED
    BY <1>1, <1>2, TypingNext DEF IInv, DiskSound

\* The inductive invariant holds of every behaviour.
THEOREM Invariance == Spec => []IInv
BY IInvInit, IInvStep, PTL DEF Spec

\* Every variable keeps its type, and a session directory that is gone holds no
\* pid file.
THEOREM TypeCorrect == Spec => []TypeOK
<1>1. IInv => TypeOK
    BY DEF IInv
<1>. QED
    BY <1>1, Invariance, PTL

\* While a recorded helper runs the layout is intact: the check at the head of
\* start never stands in the way of repairing a one-sided pair.
THEOREM LayoutKept == Spec => []RunningMeansLayout
<1>1. IInv => RunningMeansLayout
    BY DEF IInv, DiskSound
<1>. QED
    BY <1>1, Invariance, PTL

\* state.json forgets a machine only after its directory is gone.
THEOREM RecordKept == Spec => []RecordOutlivesStorage
<1>1. IInv => RecordOutlivesStorage
    BY DEF IInv, DiskSound
<1>. QED
    BY <1>1, Invariance, PTL

\* A step that drops or replaces a pid file does so after its process has died.
LEMMA HandleStep ==
    ASSUME IInv, [Next]_vars, NEW k \in Kind, pidfile[k] \in live[k],
           pidfile'[k] # pidfile[k]
    PROVE  pidfile[k] \notin live'[k]
<1>0. TypeOK /\ DiskSound /\ Orderly
    BY DEF IInv
<1>1. CASE \E c \in Command : Begin(c)
    BY <1>1 DEF Begin, disk
<1>2. CASE Commands
    BY <1>2 DEF Commands, StartCommand, OpenCommand, StopCommand, PublishCommand,
       RemoveCommand, StatusFails, disk
<1>3. CASE StartSteps
    <2>1. CASE ForgetStale
        BY <1>0, <2>1 DEF ForgetStale, TypeOK, Kind, Orderly, Quiet, VmmQuiet, Dead
    <2>2. CASE RecordNet \/ RecordVmm
        BY <1>0, <2>2, IdentityAssumption DEF RecordNet, RecordVmm, TypeOK, Kind,
           Orderly, HandlesHeld, Recording
    <2>3. CASE AbortVmm \/ AbortNet
        BY <1>0, <2>3 DEF AbortVmm, AbortNet, TypeOK, Kind, Orderly, HandlesHeld
    <2>. QED
        BY <1>3, <2>1, <2>2, <2>3 DEF StartSteps, StartRecord, InspectPair, SpawnNet,
           NetSocket, ExposeAgent,
           SpawnVmm, VmmSocket, Healthy, Configure, Reconfigure, disk
<1>4. CASE StopSteps
    <2>1. CASE VmmInspect \/ NetInspect
        BY <1>0, <2>1 DEF VmmInspect, NetInspect, TypeOK, Kind, Inspect
    <2>2. CASE VmmForget \/ NetWait
        BY <1>0, <2>2 DEF VmmForget, NetWait, TypeOK, Kind, Orderly, HandlesHeld
    <2>3. CASE ClearRemove
        BY <1>0, <2>3 DEF ClearRemove, Kind, Orderly, Quiet, VmmQuiet, NetQuiet,
           Clear, Dead
    <2>. QED
        BY <1>4, <2>1, <2>2, <2>3 DEF StopSteps, StopOwned, VmmWait, ClearOwned,
           ClearMkdir, ClearMarker, disk
<1>5. CASE RemoveSteps
    <2>1. CASE RemoveTree
        BY <1>0, <2>1 DEF RemoveTree, Kind, Orderly, Quiet, VmmQuiet, NetQuiet,
           Removal, Dead
    <2>. QED
        BY <1>5, <2>1 DEF RemoveSteps, PublishLayout, PublishRead, WorkspaceStatus,
           WorkspaceVerdict,
           RemoveCheck, RemoveOwned, RemoveSave, disk
<1>6. CASE (\E j \in Kind : HelperExit(j)) \/ Interrupt \/ HostReboot \/ UNCHANGED vars
    BY <1>6 DEF HelperExit, Interrupt, HostReboot, vars, disk
<1>. QED
    BY <1>1, <1>2, <1>3, <1>4, <1>5, <1>6 DEF Next, CommandStep

\* The pid file of a running helper is never lost, not even when SIGKILL may
\* end a command at its masked steps.
THEOREM HandleKept == Spec => RecordedUntilDead
<1>1. IInv /\ [Next]_vars =>
        [\A k \in Kind : pidfile[k] \in live[k] /\ pidfile'[k] # pidfile[k]
                          => pidfile[k] \notin live'[k]]_vars
    BY HandleStep
<1>. QED
    BY <1>1, Invariance, PTL DEF Spec, RecordedUntilDead

\* Nothing runs initially.
LEMMA RecordedInit == Init => HelpersRecorded
BY DEF Init, HelpersRecorded

\* Where nothing is being recorded a dead handle means that nothing runs.
LEMMA NothingRuns ==
    ASSUME TypeOK, HelpersRecorded, NEW k \in Kind, Dead(k), pc # Recording(k)
    PROVE  live[k] = {}
BY DEF TypeOK, HelpersRecorded, Dead

\* A step that is not cut short while signals are blocked loses no helper.
LEMMA RecordedStep ==
    ASSUME ~Uncatchable, IInv, HelpersRecorded, [Next]_vars
    PROVE  HelpersRecorded'
<1>0. TypeOK /\ DiskSound /\ Orderly
    BY DEF IInv
<1>1. ASSUME \A k \in Kind : live'[k] \subseteq live[k], \A k \in Kind : pc #
   Recording(k)
      PROVE  HelpersRecorded'
    <2>1. SUFFICES ASSUME NEW k \in Kind, NEW i \in live'[k] PROVE pidfile'[k] = i
        BY DEF HelpersRecorded
    <2>2. pidfile[k] = i
        BY <1>1 DEF HelpersRecorded
    <2>. QED
        BY <1>1, <2>1, <2>2, HandleStep
<1>2. CASE \E c \in Command : Begin(c)
    BY <1>1, <1>2 DEF Begin, Kind, Recording, world
<1>3. CASE Commands
    BY <1>1, <1>3 DEF Commands, StartCommand, OpenCommand, StopCommand,
       PublishCommand, RemoveCommand,
       StatusFails, Kind, Recording, world
<1>4. CASE StartSteps
    <2>1. CASE SpawnNet
        <3>1. ASSUME NEW i, pidfile["net"] = None, live' = [live EXCEPT !["net"] = @
           \cup {i}],
                     known' = [known EXCEPT !["net"] = i], pc' = "record_net"
              PROVE  HelpersRecorded'
            <4>1. live["net"] = {}
                BY <2>1, <3>1, NothingRuns, <1>0, IdentityAssumption DEF Dead, TypeOK,
                   Kind, SpawnNet, Recording
            <4>2. /\ live'["net"] = {i}
                  /\ known'["net"] = i
                  /\ live'["vmm"] = live["vmm"]
                  /\ pidfile' = pidfile
                BY <1>0, <2>1, <3>1, <4>1 DEF TypeOK, Kind, SpawnNet, disk
            <4>. QED
                BY <2>1, <3>1, <4>2 DEF HelpersRecorded, Kind, Recording, SpawnNet
        <3>. QED
            BY <1>1, <2>1, <3>1 DEF SpawnNet, Kind, Recording
    <2>2. CASE SpawnVmm
        <3>1. ASSUME NEW i, pidfile["vmm"] = None, live' = [live EXCEPT !["vmm"] = @
           \cup {i}],
                     known' = [known EXCEPT !["vmm"] = i], pc' = "record_vmm"
              PROVE  HelpersRecorded'
            <4>1. live["vmm"] = {}
                BY <2>2, <3>1, NothingRuns, <1>0, IdentityAssumption DEF Dead, TypeOK,
                   Kind, SpawnVmm, Recording
            <4>2. /\ live'["vmm"] = {i}
                  /\ known'["vmm"] = i
                  /\ live'["net"] = live["net"]
                  /\ pidfile' = pidfile
                BY <1>0, <2>2, <3>1, <4>1 DEF TypeOK, Kind, SpawnVmm, disk
            <4>. QED
                BY <2>2, <3>1, <4>2 DEF HelpersRecorded, Kind, Recording, SpawnVmm
        <3>. QED
            BY <1>1, <2>2, <3>1 DEF SpawnVmm, Kind, Recording
    <2>3. CASE RecordNet
        <3>1. pidfile["net"] = None /\ \A i \in live["net"] : i = known["net"]
            BY <1>0, <2>3, IdentityAssumption
            DEF RecordNet, HelpersRecorded, Orderly, HandlesHeld, Recording, Kind,
               TypeOK
        <3>2. \A i \in live'["net"] : pidfile'["net"] = i
            BY <1>0, <2>3, <3>1 DEF RecordNet, TypeOK, Kind
        <3>3. \A i \in live'["vmm"] : pidfile'["vmm"] = i
            BY <1>0, <2>3 DEF RecordNet, TypeOK, Kind, HelpersRecorded, Recording
        <3>. QED
            BY <3>2, <3>3 DEF HelpersRecorded, Kind
    <2>4. CASE RecordVmm
        <3>1. pidfile["vmm"] = None /\ \A i \in live["vmm"] : i = known["vmm"]
            BY <1>0, <2>4, IdentityAssumption
            DEF RecordVmm, HelpersRecorded, Orderly, HandlesHeld, Recording, Kind,
               TypeOK
        <3>2. \A i \in live'["vmm"] : pidfile'["vmm"] = i
            BY <1>0, <2>4, <3>1 DEF RecordVmm, TypeOK, Kind
        <3>3. \A i \in live'["net"] : pidfile'["net"] = i
            BY <1>0, <2>4 DEF RecordVmm, TypeOK, Kind, HelpersRecorded, Recording
        <3>. QED
            BY <3>2, <3>3 DEF HelpersRecorded, Kind
    <2>. QED
        BY <1>1, <1>4, <2>1, <2>2, <2>3, <2>4 DEF StartSteps, StartRecord,
           InspectPair, ForgetStale, NetSocket,
           ExposeAgent, VmmSocket, AbortVmm, AbortNet, Healthy, Configure,
              Reconfigure, Kind, Recording, world
<1>5. CASE StopSteps
    BY <1>1, <1>5 DEF StopSteps, StopOwned, VmmInspect, VmmWait, VmmForget,
       NetInspect, NetWait,
       ClearOwned, ClearRemove, ClearMkdir, ClearMarker, Kind, Recording, world
<1>6. CASE RemoveSteps
    BY <1>1, <1>6 DEF RemoveSteps, PublishLayout, PublishRead, WorkspaceStatus,
       WorkspaceVerdict, RemoveCheck,
       RemoveOwned, RemoveTree, RemoveSave, Kind, Recording, world
<1>7. CASE \E k \in Kind : HelperExit(k)
    BY <1>0, <1>7 DEF HelperExit, HelpersRecorded, Recording, control, disk, TypeOK
<1>8. CASE Interrupt
    BY <1>1, <1>8 DEF Interrupt, Masked, Kind, Recording, world
<1>9. CASE HostReboot
    BY <1>9 DEF HostReboot, HelpersRecorded
<1>10. CASE UNCHANGED vars
    BY <1>10 DEF vars, HelpersRecorded, Recording
<1>. QED
    BY <1>2, <1>3, <1>4, <1>5, <1>6, <1>7, <1>8, <1>9, <1>10 DEF Next, CommandStep

\* If nothing ends a command at its masked steps, every running helper can be
\* found by its pid file, or is held by the command that spawned it.
THEOREM HelpersFound == ~Uncatchable => (Spec => []HelpersRecorded)
<1> SUFFICES ASSUME ~Uncatchable PROVE Spec => []HelpersRecorded
    OBVIOUS
<1>1. IInv /\ HelpersRecorded /\ [Next]_vars => HelpersRecorded'
    BY RecordedStep
<1>. QED
    BY <1>1, RecordedInit, Invariance, PTL DEF Spec

\* With every helper on record the disks have one user.
LEMMA Exclusion ==
    ASSUME IInv, HelpersRecorded
    PROVE  ExclusiveDisks /\ DamagedMeansOff
<1>0. TypeOK /\ DiskSound /\ Orderly
    BY DEF IInv
<1>1. \A i, j \in live["vmm"] : i = j
    BY <1>0, IdentityAssumption DEF HelpersRecorded, Kind, Orderly, HandlesHeld,
       Recording, TypeOK
<1>2. pc \in {"publish_read", "remove_tree"} => live["vmm"] = {}
    <2>1. pc \in {"publish_read", "remove_tree"} => Dead("vmm") /\ pc # Recording("vmm")
        BY <1>0 DEF Orderly, Quiet, VmmQuiet, Removal, Recording
    <2>. QED
        BY <1>0, <2>1, NothingRuns DEF Kind
<1>3. ExclusiveDisks
    BY <1>1, <1>2 DEF ExclusiveDisks, Users
<1>4. DamagedMeansOff
    <2>1. SUFFICES ASSUME root # "whole", NEW k \in Kind PROVE live[k] = {}
        BY DEF DamagedMeansOff
    <2>2. Dead(k)
        BY <1>0, <2>1, IdentityAssumption DEF DiskSound, RunningMeansLayout,
           LayoutHolds, Inspect, Dead, TypeOK
    <2>3. pc # Recording(k)
        BY <1>0, <2>1 DEF Orderly, BootIntact, Booting, Boot, Recording
    <2>. QED
        BY <1>0, <2>2, <2>3, NothingRuns
<1>. QED
    BY <1>3, <1>4

\* The disks never have two users, and nothing runs once rm has begun to unlink
\* the tree.
THEOREM Exclusive == ~Uncatchable => (Spec => [](ExclusiveDisks /\ DamagedMeansOff))
<1> SUFFICES ASSUME ~Uncatchable PROVE Spec => [](ExclusiveDisks /\ DamagedMeansOff)
    OBVIOUS
<1>1. IInv /\ HelpersRecorded => ExclusiveDisks /\ DamagedMeansOff
    BY Exclusion
<1>2. Spec => []HelpersRecorded
    BY HelpersFound
<1>. QED
    BY <1>1, <1>2, Invariance, PTL

(***************************************************************************)
(* The lease of the disks.                                                 *)
(***************************************************************************)

\* Publish or rm has the disks.
Sharing == pc \in {"publish_read", "remove_tree"}

\* A command that ends neither exports nor removes.
LEMMA FinishSolo == ASSUME NEW o, Finish(o) PROVE ~Sharing'
BY DEF Finish, Sharing

\* Nor does a caller a procedure returns to.
LEMMA ReturnsSolo ==
    ASSUME NEW ok \in BOOLEAN, StopReturns(ok) \/ ClearReturns(ok) \/ NetReturns(ok)
    PROVE  ~Sharing'
<1>1. StopReturns(ok) => ~Sharing'
    BY FinishSolo DEF StopReturns, StartFails, Goto, CallClear, CallStop, Sharing
<1>2. StopReturns(FALSE) => ~Sharing'
    BY FinishSolo DEF StopReturns, StartFails, Goto, CallClear, CallStop, Sharing
<1>3. ClearReturns(ok) => ~Sharing'
    BY FinishSolo, <1>1 DEF ClearReturns, StartFails, Goto, Sharing
<1>4. NetReturns(ok) => ~Sharing'
    BY FinishSolo, <1>2 DEF NetReturns, StartFails, CallClear, Sharing
<1>. QED
    BY <1>1, <1>3, <1>4

\* A step that concerns neither the VMM nor the export nor the removal stutters.
LEMMA SameLease ==
    ASSUME live'["vmm"] = live["vmm"], root' = root, ~Sharing, ~Sharing'
    PROVE  UNCHANGED Lease!leaseVars
BY DEF Sharing, Users, Lease!leaseVars

\* Every step of the machine acquires, releases or erases its disks, or stutters.
LEMMA LeaseStep ==
    ASSUME IInv, HelpersRecorded, [Next]_vars
    PROVE  [Lease!Next]_(Lease!leaseVars)
<1> USE DEF Lease!Next, Lease!Acquire, Lease!Release, Lease!Erase, Lease!User
<1>0. TypeOK /\ DiskSound /\ Orderly
    BY DEF IInv
<1>1. ASSUME pc # Recording("vmm"), Dead("vmm") PROVE live["vmm"] = {}
    BY <1>0, <1>1, NothingRuns DEF Kind
<1>2. Sharing => live["vmm"] = {}
    BY <1>0, <1>1 DEF Orderly, Quiet, VmmQuiet, Sharing, Removal, Recording
<1>3. CASE \E c \in Command : Begin(c)
    BY <1>3, SameLease DEF Begin, Sharing, world, disk
<1>4. CASE Commands
    BY <1>4, SameLease, FinishSolo DEF Commands, StartCommand, OpenCommand,
       StopCommand, PublishCommand,
       RemoveCommand, StatusFails, Enter, Goto, CallStop, Sharing, world, disk
<1>5. CASE StartSteps
    <2>1. CASE SpawnNet \/ RecordNet
        BY <1>0, <2>1, SameLease, FinishSolo DEF SpawnNet, RecordNet, TypeOK, Kind,
           StartFails, Goto, Sharing, disk
    <2>2. CASE SpawnVmm
        <3>1. live["vmm"] = {} /\ root = "whole"
            BY <1>0, <1>1, <2>2 DEF SpawnVmm, Orderly, Quiet, VmmQuiet, Recording,
               BootIntact, Booting, Boot
        <3>2. ASSUME NEW i \in Identity, live' = [live EXCEPT !["vmm"] = @ \cup {i}],
           pc' = "record_vmm"
              PROVE  Lease!Next
            <4>1. Users = {} /\ Users' = {i} /\ root' = root
                BY <1>0, <2>2, <3>1, <3>2 DEF SpawnVmm, Users, TypeOK, Kind, disk
            <4>. QED
                BY <4>1, <3>1
        <3>3. CASE Goto("abort_net") /\ UNCHANGED live
            BY <2>2, <3>3, SameLease DEF SpawnVmm, Goto, Sharing, disk
        <3>. QED
            BY <2>2, <3>2, <3>3 DEF SpawnVmm, Fresh
    <2>3. CASE RecordVmm
        <3>1. \A i \in live["vmm"] : i = known["vmm"]
            BY <1>0, <2>3, IdentityAssumption DEF RecordVmm, HelpersRecorded, Orderly,
               HandlesHeld, Recording, Kind, TypeOK
        <3>2. CASE UNCHANGED live
            BY <2>3, <3>2, SameLease DEF RecordVmm, Goto, Sharing
        <3>3. CASE /\ live' = [live EXCEPT !["vmm"] = @ \ {known["vmm"]}]
                   /\ pc' = "abort_net"
            <4>1. Users' = {} /\ root' = root
                BY <1>0, <2>3, <3>1, <3>3 DEF RecordVmm, Users, TypeOK, Kind
            <4>. QED
                BY <4>1
        <3>. QED
            BY <2>3, <3>2, <3>3 DEF RecordVmm
    <2>4. StartSucceeds => ~Sharing'
        BY FinishSolo DEF StartSucceeds, Goto, Sharing
    <2>. QED
        BY <1>5, <2>1, <2>2, <2>3, <2>4, SameLease, FinishSolo
        DEF StartSteps, StartRecord, InspectPair, ForgetStale, NetSocket, ExposeAgent,
           VmmSocket, AbortVmm,
            AbortNet, Healthy, Configure, Reconfigure, StartFails, Goto, CallStop,
               CallNet, CallClear, Sharing, world, disk
<1>6. CASE StopSteps
    BY <1>6, SameLease, ReturnsSolo
    DEF StopSteps, StopOwned, VmmInspect, VmmWait, VmmForget, NetInspect, NetWait,
       ClearOwned, ClearRemove,
        ClearMkdir, ClearMarker, Goto, CallNet, Sharing, world, disk, control
<1>7. CASE RemoveSteps
    <2>1. CASE PublishLayout
        <3>1. CASE LayoutHolds /\ Goto("publish_read")
            <4>1. live["vmm"] = {}
                BY <1>0, <1>1, <2>1 DEF PublishLayout, Orderly, Quiet, VmmQuiet,
                   Recording
            <4>2. Users = {} /\ Users' = {"publisher"} /\ root = "whole" /\ root' = root
                BY <2>1, <3>1, <4>1 DEF PublishLayout, Goto, LayoutHolds, Users,
                   world, disk
            <4>. QED
                BY <4>2
        <3>2. CASE Published("err")
            BY <2>1, <3>2, SameLease, FinishSolo DEF PublishLayout, Published,
               Sharing, world, disk
        <3>. QED
            BY <2>1, <3>1, <3>2 DEF PublishLayout
    <2>2. CASE PublishRead
        <3>1. live'["vmm"] = {} /\ root' = root
            BY <1>2, <2>2 DEF PublishRead, Sharing, world, disk
        <3>2. ~Sharing'
            BY <2>2, FinishSolo DEF PublishRead, Published, Sharing
        <3>3. Users' = {}
            BY <3>1, <3>2 DEF Users, Sharing
        <3>. QED
            BY <3>1, <3>3
    <2>3. CASE RemoveOwned
        <3>1. CASE Goto("remove_tree")
            <4>1. live["vmm"] = {}
                BY <1>0, <1>1, <2>3 DEF RemoveOwned, Orderly, Quiet, VmmQuiet,
                   Recording, Removal
            <4>2. Users = {} /\ Users' = {"remover"} /\ root' = root
                BY <2>3, <3>1, <4>1 DEF RemoveOwned, Goto, Users, world, disk
            <4>. QED
                BY <4>2
        <3>2. CASE Finish("err")
            BY <2>3, <3>2, SameLease, FinishSolo DEF RemoveOwned, Sharing, world, disk
        <3>. QED
            BY <2>3, <3>1, <3>2 DEF RemoveOwned
    <2>4. CASE RemoveTree
        <3>1. live'["vmm"] = {} /\ Users = {"remover"}
            BY <1>2, <2>4 DEF RemoveTree, Sharing, Users
        <3>2. CASE UnlinkTree /\ UNCHANGED control
            <4>1. Users' = {"remover"} /\ (root' = root \/ root' # "whole")
                BY <2>4, <3>1, <3>2 DEF RemoveTree, UnlinkTree, control, Users
            <4>. QED
                BY <3>1, <4>1 DEF Lease!leaseVars
        <3>3. CASE root' = root /\ (Goto("remove_save") \/ Finish("err"))
            <4>1. Users' = {}
                BY <3>1, <3>3, FinishSolo DEF Users, Goto, Sharing
            <4>. QED
                BY <3>3, <4>1
        <3>. QED
            BY <2>4, <3>2, <3>3 DEF RemoveTree
    <2>. QED
        BY <1>7, <2>1, <2>2, <2>3, <2>4, SameLease, FinishSolo
        DEF RemoveSteps, WorkspaceStatus, WorkspaceVerdict, RemoveCheck, RemoveSave,
           Goto, CallStop, Sharing, world, disk
<1>8. CASE \E k \in Kind : HelperExit(k)
    <2>1. ASSUME NEW k \in Kind, NEW i \in live[k], live' = [live EXCEPT ![k] = @ \ {i}]
          PROVE  [Lease!Next]_(Lease!leaseVars)
        <3>0. UNCHANGED pc /\ UNCHANGED root
            BY <1>8 DEF HelperExit, control, disk
        <3>1. CASE k = "net"
            BY <1>0, <2>1, <3>0, <3>1 DEF TypeOK, Kind, Users, Lease!leaseVars
        <3>2. CASE k = "vmm"
            <4>1. \A j \in live["vmm"] : j = i
                BY <1>0, <2>1, <3>2, IdentityAssumption DEF HelpersRecorded, Kind,
                   Orderly, HandlesHeld, Recording, TypeOK
            <4>2. Users' = {}
                BY <1>0, <1>2, <2>1, <3>0, <3>2, <4>1 DEF Users, Sharing, TypeOK, Kind
            <4>. QED
                BY <3>0, <4>2
        <3>. QED
            BY <3>1, <3>2 DEF Kind
    <2>. QED
        BY <1>8, <2>1 DEF HelperExit
<1>9. CASE Interrupt
    <2>1. live'["vmm"] = live["vmm"] /\ root' = root /\ ~Sharing'
        BY <1>9, FinishSolo DEF Interrupt, world, disk
    <2>2. CASE Sharing
        <3>1. Users' = {}
            BY <1>2, <2>1, <2>2 DEF Users, Sharing
        <3>. QED
            BY <2>1, <3>1
    <2>. QED
        BY <2>1, <2>2, SameLease
<1>10. CASE HostReboot
    <2>1. Users' = {} /\ root' = root
        BY <1>10, FinishSolo DEF HostReboot, Users, Sharing, disk, Kind
    <2>. QED
        BY <2>1
<1>11. CASE UNCHANGED vars
    BY <1>11 DEF vars, Users, Lease!leaseVars
<1>. QED
    BY <1>3, <1>4, <1>5, <1>6, <1>7, <1>8, <1>9, <1>10, <1>11 DEF Next, CommandStep

\* The machine implements the lease of its disks.
THEOREM LeaseImplemented == ~Uncatchable => (Spec => LeaseSpec)
<1> SUFFICES ASSUME ~Uncatchable PROVE Spec => LeaseSpec
    OBVIOUS
<1>1. Init => Lease!Init
    BY DEF Init, Lease!Init, Users, Kind
<1>2. IInv /\ HelpersRecorded /\ [Next]_vars => [Lease!Next]_(Lease!leaseVars)
    BY LeaseStep
<1>3. Spec => []HelpersRecorded
    BY HelpersFound
<1>. QED
    BY <1>1, <1>2, <1>3, Invariance, PTL DEF Spec, LeaseSpec, Lease!Spec

(***************************************************************************)
(* What a command promises: StopCleans, StartRepairs, PublishRestores and  *)
(* FailedStartCleans.  Each is a property of the step that ends a command, *)
(* and follows from what is known at every step before it about the        *)
(* procedures under way, the helpers spawned and the failures counted.     *)
(***************************************************************************)

\* Vmm::stop is under way for r: at its own steps, or in a procedure it has called.
Stopping(r) ==
    /\ ret.stop = r
    /\ \/ pc \in Stop
       \/ pc \in Net /\ ret.net = "stop"
       \/ pc \in Clear /\ ret.clear = "stop"

\* The session directory has been removed and is made anew.
Emptied == {"clear_mkdir", "clear_marker"}

\* What a command begins with, and goes on with until something fails.
StartingOK ==
    /\ cmd = "none" <=> pc = "idle"
    /\ pc \in {"idle", "status"} => began = "none" /\ ~firstError
    /\ cmd = "none" \/ faults = 0 => ~firstError

\* The helpers a boot has spawned run, or have been counted.
SpawnedOK ==
    /\ pc \in {"idle", "status", "start_record", "inspect", "forget_stale", "spawn_net",
               "publish_layout", "publish_read"} \cup Clear
         => known = Nobody
    /\ faults = 0 /\ pc \in Boot =>
         /\ pc \notin {"abort_vmm", "abort_net"}
         /\ \A k \in Kind : known[k] \in live[k] \cup {None}

\* A stop is nothing but Vmm::stop.
StopSound ==
    cmd = "stop" =>
        /\ pc = "status" \/ Stopping("stop")
        /\ pc \in Emptied => pidfile = Nobody

\* A degraded machine that is started, and a running one that is published.
Reviving == (cmd = "start" /\ began = "degraded") \/ (cmd = "publish" /\ began = "running")

\* Where it is as long as nothing has failed, and what it has by then.
RevivalAt ==
    /\ \/ pc = "start_record" /\ LayoutHolds /\ Status # "running"
       \/ Booting
       \/ cmd = "publish" /\ root = "whole" /\ Stopping("publish")
       \/ /\ cmd = "publish" /\ pc \in {"publish_layout", "publish_read"}
          /\ LayoutHolds /\ pidfile = Nobody
    /\ cmd = "publish" => wasRunning
    /\ cmd = "publish" /\ pc \in Emptied => pidfile = Nobody
    /\ pc = "inspect" => Status # "running"
    /\ pc \in {"record_net", "net_socket", "expose_agent", "spawn_vmm", "record_vmm"}
         => known["net"] # None
    /\ pc = "record_vmm" => known["vmm"] # None
    /\ pc \in {"vmm_socket", "healthy", "configure"} =>
         \A k \in Kind : known[k] # None /\ pidfile[k] = known[k]

RevivalSound == Reviving /\ faults = 0 => RevivalAt

\* The start of a machine that was off.
ColdStart == cmd = "start" /\ began = "stopped"

\* Where it is, and what runs there or has been counted.
ColdAt ==
    /\ \/ pc \in {"start_record"} \cup Boot
       \/ pc \in Net /\ ret.net = "start"
       \/ pc \in Clear /\ ret.clear \in {"start", "abort"}
       \/ Stopping("boot_failed") /\ root = "whole"
    /\ pc \in {"start_record", "inspect", "forget_stale", "spawn_net"}
       \/ (pc \in Net /\ ret.net = "start") => \A k \in Kind : live[k] = {}
    /\ pc \in {"record_net", "net_socket", "expose_agent", "spawn_vmm"} => live["vmm"] = {}
    /\ pc \in {"abort_vmm", "abort_net"} \cup Stop \/ (pc \in Net /\ ret.net = "stop")
         => faults # 0
    /\ pc = "abort_net" => faults = 2 \/ live["vmm"] = {}
    /\ firstError => faults = 2

ColdSound == ColdStart => ColdAt

\* A failure is counted, twice at the most.
LEMMA Counting ==
    ASSUME TypeOK
    PROVE  /\ faults \in {0, 1, 2}
           /\ NoFault => faults' = faults
           /\ Fault => faults' # 0 /\ (faults # 0 => faults' = 2)
           /\ Fault \/ NoFault => (faults # 0 => faults' # 0) /\ (faults = 2 => faults' = 2)
BY DEF TypeOK, Fault, NoFault

\* A step within a command counts what fails, and stays with the command or ends it.
LEMMA Within ==
    ASSUME TypeOK, StartingOK, [Next]_vars
    PROVE  \/ cmd' = "none"
           \/ pc = "idle" /\ pc' = "status" /\ began' = "none"
           \/ cmd' = cmd /\ (Fault \/ NoFault) /\ (pc = "status" \/ began' = began)
<1>1. CASE \E c \in Command : Begin(c)
    BY <1>1 DEF Begin, StartingOK
<1>2. CASE Commands
    BY <1>2 DEF Commands, StartCommand, OpenCommand, StopCommand, PublishCommand,
       RemoveCommand, StatusFails, Finish, Enter, Goto, CallStop
<1>3. CASE StartSteps
    BY <1>3 DEF StartSteps, StartRecord, InspectPair, ForgetStale, SpawnNet, RecordNet,
       NetSocket, ExposeAgent, SpawnVmm, RecordVmm, VmmSocket, AbortVmm, AbortNet,
       Healthy, Configure, Reconfigure, Notices, StartSucceeds, StartFails, Finish, Goto,
       CallStop, CallNet, CallClear
<1>4. ASSUME NEW ok \in BOOLEAN,
             StopReturns(ok) \/ NetReturns(ok) \/ ClearReturns(ok)
      PROVE  cmd' = "none" \/ (cmd' = cmd /\ began' = began)
    BY <1>4 DEF StopReturns, NetReturns, ClearReturns, StartFails, Finish, Goto, CallStop,
       CallClear
<1>5. CASE StopSteps
    BY <1>4, <1>5 DEF StopSteps, StopOwned, VmmInspect, VmmWait, VmmForget, NetInspect,
       NetWait, ClearOwned, ClearRemove, ClearMkdir, ClearMarker, Goto, CallNet, control
<1>6. CASE RemoveSteps
    BY <1>6 DEF RemoveSteps, PublishLayout, PublishRead, WorkspaceStatus,
       WorkspaceVerdict, RemoveCheck, RemoveOwned, RemoveTree, RemoveSave, Published,
       Finish, Goto, CallStop, control
<1>7. CASE (\E k \in Kind : HelperExit(k)) \/ Interrupt \/ HostReboot \/ UNCHANGED vars
    BY <1>7 DEF HelperExit, Interrupt, HostReboot, Finish, control, vars, NoFault
<1>. QED
    BY <1>1, <1>2, <1>3, <1>5, <1>6, <1>7 DEF Next, CommandStep

\* The procedures return with nothing spawned.
LEMMA ReturnsSpawned ==
    ASSUME NEW ok \in BOOLEAN, StopReturns(ok) \/ NetReturns(ok) \/ ClearReturns(ok),
           ok => NetReturns(ok) \/ known = Nobody
    PROVE  SpawnedOK'
BY DEF StopReturns, NetReturns, ClearReturns, StartFails, Finish, Goto, CallStop,
   CallClear, SpawnedOK, Nobody, Clear, Boot

\* Every step keeps what a command begins with, until something fails.
LEMMA StartingStep ==
    ASSUME IInv, StartingOK, [Next]_vars
    PROVE  StartingOK'
<1>0. TypeOK /\ DiskSound /\ Orderly
    BY DEF IInv
<1>1. CASE \E c \in Command : Begin(c)
    BY <1>1 DEF StartingOK, Command, locals, Begin
<1>2. CASE Commands
    <2>1. CASE StartCommand
        BY <2>1 DEF StartingOK, StartCommand, Finish, Enter
    <2>2. CASE OpenCommand
        BY <2>2 DEF StartingOK, OpenCommand, Goto
    <2>3. CASE StopCommand
        BY <2>3 DEF StartingOK, StopCommand, CallStop
    <2>4. CASE PublishCommand
        BY <2>4 DEF StartingOK, PublishCommand
    <2>5. CASE RemoveCommand
        BY <2>5 DEF StartingOK, RemoveCommand
    <2>6. CASE StatusFails
        BY <2>6 DEF StartingOK, StatusFails, Finish
    <2>. QED
        BY <1>2, <2>1, <2>2, <2>3, <2>4, <2>5, <2>6 DEF Commands
<1>3. CASE StartSteps
    <2>1. CASE StartRecord
        BY <1>0, <2>1, Counting DEF StartingOK, StartRecord, Goto, StartFails, Finish
    <2>2. CASE InspectPair
        BY <1>0, <2>2, Counting DEF StartingOK, InspectPair, Goto, CallStop, CallNet,
           StartFails, Finish
    <2>3. CASE ForgetStale
        BY <1>0, <2>3, Counting DEF StartingOK, ForgetStale, CallNet, StartFails, Finish
    <2>4. CASE SpawnNet
        BY <1>0, <2>4, Counting DEF StartingOK, SpawnNet, StartFails, Finish
    <2>5. CASE RecordNet
        BY <1>0, <2>5, Counting DEF StartingOK, RecordNet, Goto, StartFails, Finish
    <2>6. CASE NetSocket
        BY <1>0, <2>6, Counting DEF StartingOK, NetSocket, Goto, Notices
    <2>7. CASE ExposeAgent
        BY <1>0, <2>7, Counting DEF StartingOK, ExposeAgent, Goto
    <2>8. CASE SpawnVmm
        BY <1>0, <2>8, Counting DEF StartingOK, SpawnVmm, Goto
    <2>9. CASE RecordVmm
        BY <1>0, <2>9, Counting DEF StartingOK, RecordVmm, Goto
    <2>10. CASE VmmSocket
        BY <1>0, <2>10, Counting DEF StartingOK, VmmSocket, Goto, Notices
    <2>11. CASE AbortVmm
        BY <1>0, <2>11, Counting DEF StartingOK, AbortVmm
    <2>12. CASE AbortNet
        BY <2>12 DEF StartingOK, AbortNet, CallClear, StartFails, Finish
    <2>13. CASE Healthy
        BY <1>0, <2>13, Counting DEF StartingOK, Healthy, Goto, CallStop
    <2>14. CASE Configure
        BY <1>0, <2>14, Counting DEF StartingOK, Configure, StartSucceeds, CallStop,
           Finish, Goto
    <2>15. CASE Reconfigure
        BY <2>15 DEF StartingOK, Reconfigure, Finish
    <2>. QED
        BY <1>3, <2>1, <2>2, <2>3, <2>4, <2>5, <2>6, <2>7, <2>8, <2>9, <2>10, <2>11,
           <2>12, <2>13, <2>14, <2>15 DEF StartSteps
<1>4. CASE StopSteps
    <2>1. CASE StopOwned
        BY <1>0, <2>1, Counting DEF StartingOK, StopOwned, Goto, StopReturns, StartFails,
           Finish
    <2>2. CASE VmmInspect
        BY <1>0, <2>2, Counting DEF StartingOK, VmmInspect, CallNet, StopReturns,
           StartFails, Finish, Goto
    <2>3. CASE VmmWait
        BY <1>0, <2>3, Counting DEF StartingOK, VmmWait, Goto, StopReturns, StartFails,
           Finish
    <2>4. CASE VmmForget
        BY <1>0, <2>4, Counting DEF StartingOK, VmmForget, CallNet, StopReturns,
           StartFails, Finish, Goto
    <2>5. CASE NetInspect
        BY <1>0, <2>5, Counting DEF StartingOK, NetInspect, NetReturns, CallClear,
           StartFails, StopReturns, Finish, Goto
    <2>6. CASE NetWait
        BY <1>0, <2>6, Counting DEF StartingOK, NetWait, NetReturns, CallClear,
           StartFails, StopReturns, Finish, Goto
    <2>7. CASE ClearOwned
        BY <1>0, <2>7, Counting DEF StartingOK, ClearOwned, Goto, ClearReturns,
           StartFails, StopReturns, Finish
    <2>8. CASE ClearRemove
        BY <1>0, <2>8, Counting DEF StartingOK, ClearRemove, control, Goto, ClearReturns,
           StartFails, StopReturns, Finish
    <2>9. CASE ClearMkdir
        BY <1>0, <2>9, Counting DEF StartingOK, ClearMkdir, Goto, ClearReturns,
           StartFails, StopReturns, Finish
    <2>10. CASE ClearMarker
        BY <1>0, <2>10, Counting DEF StartingOK, ClearMarker, ClearReturns, Goto,
           StartFails, StopReturns, Finish, CallClear, CallStop
    <2>. QED
        BY <1>4, <2>1, <2>2, <2>3, <2>4, <2>5, <2>6, <2>7, <2>8, <2>9, <2>10 DEF StopSteps
<1>5. CASE RemoveSteps
    <2>1. CASE PublishLayout
        BY <1>0, <2>1, Counting DEF StartingOK, PublishLayout, Goto, Published, Finish
    <2>2. CASE PublishRead
        BY <1>0, <2>2, Counting DEF StartingOK, PublishRead, Published, Finish
    <2>3. CASE WorkspaceStatus
        BY <1>0, <2>3, Counting DEF StartingOK, WorkspaceStatus
    <2>4. CASE WorkspaceVerdict
        BY <1>0, <2>4, Counting DEF StartingOK, WorkspaceVerdict, Goto, Finish
    <2>5. CASE RemoveCheck
        BY <2>5 DEF StartingOK, RemoveCheck, CallStop
    <2>6. CASE RemoveOwned
        BY <1>0, <2>6, Counting DEF StartingOK, RemoveOwned, Goto, Finish
    <2>7. CASE RemoveTree
        BY <1>0, <2>7, Counting DEF StartingOK, RemoveTree, control, Goto, Finish
    <2>8. CASE RemoveSave
        BY <2>8 DEF StartingOK, RemoveSave, Finish
    <2>. QED
        BY <1>5, <2>1, <2>2, <2>3, <2>4, <2>5, <2>6, <2>7, <2>8 DEF RemoveSteps
<1>6. CASE \E k \in Kind : HelperExit(k)
    BY <1>0, <1>6, Counting DEF StartingOK, HelperExit, control
<1>7. CASE Interrupt \/ HostReboot
    BY <1>7 DEF StartingOK, Interrupt, HostReboot, Finish
<1>8. CASE UNCHANGED vars
    BY <1>8 DEF vars, StartingOK
<1>. QED
    BY <1>1, <1>2, <1>3, <1>4, <1>5, <1>6, <1>7, <1>8 DEF Next, CommandStep

\* Every step keeps what is known of the helpers that a boot has spawned.
LEMMA SpawnedStep ==
    ASSUME IInv, StartingOK, SpawnedOK, [Next]_vars
    PROVE  SpawnedOK'
<1>0. TypeOK /\ DiskSound /\ Orderly
    BY DEF IInv
<1>1. CASE \E c \in Command : Begin(c)
    BY <1>1 DEF SpawnedOK, Begin, Nobody, locals
<1>2. CASE Commands
    <2>1. CASE StartCommand
        BY <2>1 DEF SpawnedOK, StartCommand, Nobody, Finish, Enter
    <2>2. CASE OpenCommand
        BY <2>2 DEF SpawnedOK, OpenCommand, Nobody, Goto
    <2>3. CASE StopCommand
        BY <2>3 DEF SpawnedOK, StopCommand, Nobody, CallStop
    <2>4. CASE PublishCommand
        BY <2>4 DEF SpawnedOK, PublishCommand, Nobody
    <2>5. CASE RemoveCommand
        BY <2>5 DEF SpawnedOK, RemoveCommand, Nobody
    <2>6. CASE StatusFails
        BY <1>0, <2>6, Counting DEF SpawnedOK, StatusFails, Finish
    <2>. QED
        BY <1>2, <2>1, <2>2, <2>3, <2>4, <2>5, <2>6 DEF Commands
<1>3. CASE StartSteps
    <2>1. CASE StartRecord
        BY <2>1 DEF SpawnedOK, StartRecord, Nobody, Goto, StartFails,
           Finish
    <2>2. CASE InspectPair
        BY <2>2 DEF SpawnedOK, InspectPair, Nobody, Goto, CallStop,
           CallNet, StartFails, Finish
    <2>3. CASE ForgetStale
        BY <2>3 DEF SpawnedOK, ForgetStale, Nobody, CallNet, StartFails,
           Finish
    <2>4. CASE SpawnNet
        BY <1>0, <2>4 DEF SpawnedOK, TypeOK, SpawnNet, Clear, Nobody,
           StartFails, Finish
    <2>5. CASE RecordNet
        BY <1>0, <2>5, Counting DEF SpawnedOK, RecordNet, Clear, Boot, Goto, StartFails,
           Finish
    <2>6. CASE NetSocket
        BY <1>0, <2>6, Counting DEF SpawnedOK, NetSocket, Clear, Boot, Goto, Notices,
           world
    <2>7. CASE ExposeAgent
        BY <1>0, <2>7, Counting DEF SpawnedOK, ExposeAgent, Clear, Boot, Goto, world
    <2>8. CASE SpawnVmm
        BY <1>0, <2>8, Counting DEF SpawnedOK, TypeOK, SpawnVmm, Clear, Boot, Goto
    <2>9. CASE RecordVmm
        BY <1>0, <2>9, Counting DEF SpawnedOK, RecordVmm, Clear, Boot, Goto
    <2>10. CASE VmmSocket
        BY <1>0, <2>10, Counting DEF SpawnedOK, VmmSocket, Clear, Boot, Goto, Notices,
           world
    <2>11. CASE AbortVmm
        BY <1>0, <2>11, Counting DEF SpawnedOK, AbortVmm, Clear, Boot
    <2>12. CASE AbortNet
        BY <2>12 DEF SpawnedOK, AbortNet, Nobody, CallClear, StartFails,
           Finish
    <2>13. CASE Healthy
        BY <1>0, <2>13, Counting DEF SpawnedOK, Healthy, Clear, Boot, Goto, CallStop,
           world
    <2>14. CASE Configure
        BY <2>14 DEF SpawnedOK, Configure, Clear, Boot, StartSucceeds,
           CallStop, Finish, Goto
    <2>15. CASE Reconfigure
        BY <2>15 DEF SpawnedOK, Reconfigure, Nobody, Finish
    <2>. QED
        BY <1>3, <2>1, <2>2, <2>3, <2>4, <2>5, <2>6, <2>7, <2>8, <2>9, <2>10, <2>11,
           <2>12, <2>13, <2>14, <2>15 DEF StartSteps
<1>4. CASE StopSteps
    <2>1. CASE StopOwned
        BY <2>1, ReturnsSpawned DEF SpawnedOK, StopOwned, Clear, Boot,
           Goto
    <2>2. CASE VmmInspect
        BY <2>2, ReturnsSpawned DEF SpawnedOK, VmmInspect, Clear, Boot,
           CallNet
    <2>3. CASE VmmWait
        BY <2>3, ReturnsSpawned DEF SpawnedOK, VmmWait, Clear, Boot, Goto
    <2>4. CASE VmmForget
        BY <2>4, ReturnsSpawned DEF SpawnedOK, VmmForget, Clear, Boot,
           CallNet
    <2>5. CASE NetInspect
        BY <2>5, ReturnsSpawned DEF SpawnedOK, NetInspect, Clear, Boot
    <2>6. CASE NetWait
        BY <2>6, ReturnsSpawned DEF NetWait
    <2>7. CASE ClearOwned
        BY <2>7, ReturnsSpawned DEF SpawnedOK, ClearOwned, Clear, Nobody,
           Goto
    <2>8. CASE ClearRemove
        BY <2>8, ReturnsSpawned DEF SpawnedOK, ClearRemove, Clear, Nobody,
           control, Goto
    <2>9. CASE ClearMkdir
        BY <2>9, ReturnsSpawned DEF SpawnedOK, ClearMkdir, Clear, Nobody,
           Goto
    <2>10. CASE ClearMarker
        BY <2>10, ReturnsSpawned DEF SpawnedOK, ClearMarker, Clear
    <2>. QED
        BY <1>4, <2>1, <2>2, <2>3, <2>4, <2>5, <2>6, <2>7, <2>8, <2>9, <2>10 DEF StopSteps
<1>5. CASE RemoveSteps
    <2>1. CASE PublishLayout
        BY <2>1 DEF SpawnedOK, PublishLayout, Nobody, Goto, Published,
           Finish
    <2>2. CASE PublishRead
        BY <2>2 DEF SpawnedOK, PublishRead, Nobody, Published, Finish
    <2>3. CASE WorkspaceStatus
        BY <2>3 DEF SpawnedOK, WorkspaceStatus, Clear, Boot
    <2>4. CASE WorkspaceVerdict
        BY <2>4 DEF SpawnedOK, WorkspaceVerdict, Clear, Boot, Goto, Finish
    <2>5. CASE RemoveCheck
        BY <2>5 DEF SpawnedOK, RemoveCheck, Nobody, CallStop
    <2>6. CASE RemoveOwned
        BY <2>6 DEF SpawnedOK, RemoveOwned, Clear, Boot, Goto, Finish
    <2>7. CASE RemoveTree
        BY <2>7 DEF SpawnedOK, RemoveTree, Clear, Boot, control, Goto,
           Finish
    <2>8. CASE RemoveSave
        BY <2>8 DEF SpawnedOK, RemoveSave, Nobody, Finish
    <2>. QED
        BY <1>5, <2>1, <2>2, <2>3, <2>4, <2>5, <2>6, <2>7, <2>8 DEF RemoveSteps
<1>6. CASE \E k \in Kind : HelperExit(k)
    BY <1>0, <1>6, Counting DEF SpawnedOK, HelperExit, TypeOK, control, Abort
<1>7. CASE Interrupt \/ HostReboot
    BY <1>7 DEF SpawnedOK, Interrupt, HostReboot, Nobody, Finish
<1>8. CASE UNCHANGED vars
    BY <1>8 DEF vars, SpawnedOK
<1>. QED
    BY <1>1, <1>2, <1>3, <1>4, <1>5, <1>6, <1>7, <1>8 DEF Next, CommandStep

\* A stop stays within Vmm::stop, which empties the session before it makes it anew.
LEMMA StopStep ==
    ASSUME IInv, StartingOK, StopSound, [Next]_vars
    PROVE  StopSound'
<1>0. TypeOK /\ DiskSound /\ Orderly
    BY DEF IInv
<1>1. CASE \E c \in Command : Begin(c)
    BY <1>1 DEF StopSound, Begin, Emptied
<1>2. CASE Commands
    <2>1. CASE StartCommand
        BY <2>1 DEF StopSound, StartCommand, Finish, Enter
    <2>2. CASE OpenCommand
        BY <2>2 DEF StopSound, OpenCommand, Goto
    <2>3. CASE StopCommand
        BY <2>3 DEF StopSound, StopCommand, Stopping, Emptied, CallStop, Stop
    <2>4. CASE PublishCommand
        BY <2>4 DEF StopSound, PublishCommand
    <2>5. CASE RemoveCommand
        BY <2>5 DEF StopSound, RemoveCommand
    <2>6. CASE StatusFails
        BY <2>6 DEF StopSound, StatusFails, Finish
    <2>. QED
        BY <1>2, <2>1, <2>2, <2>3, <2>4, <2>5, <2>6 DEF Commands
<1>3. CASE StartSteps
    <2>1. CASE StartRecord
        BY <2>1 DEF StopSound, StartRecord, Stopping, Goto, StartFails, Stop, Net,
           Clear, Finish
    <2>2. CASE InspectPair
        BY <2>2 DEF StopSound, InspectPair, Stopping, Goto, CallStop, CallNet,
           StartFails, Stop, Net, Clear, Finish
    <2>3. CASE ForgetStale
        BY <2>3 DEF StopSound, ForgetStale, Stopping, CallNet, StartFails, Stop,
           Net, Clear, Finish
    <2>4. CASE SpawnNet
        BY <2>4 DEF StopSound, SpawnNet, Stopping, StartFails, Stop, Net, Clear,
           Finish
    <2>5. CASE RecordNet
        BY <2>5 DEF StopSound, RecordNet, Stopping, Goto, StartFails, Stop, Net,
           Clear, Finish
    <2>6. CASE NetSocket
        BY <2>6 DEF StopSound, NetSocket, Stopping, Goto, Stop, Net, Clear
    <2>7. CASE ExposeAgent
        BY <2>7 DEF StopSound, ExposeAgent, Stopping, Goto, Stop, Net, Clear
    <2>8. CASE SpawnVmm
        BY <2>8 DEF StopSound, SpawnVmm, Stopping, Goto, Stop, Net, Clear
    <2>9. CASE RecordVmm
        BY <2>9 DEF StopSound, RecordVmm, Stopping, Goto, Stop, Net, Clear
    <2>10. CASE VmmSocket
        BY <2>10 DEF StopSound, VmmSocket, Stopping, Goto, Stop, Net, Clear
    <2>11. CASE AbortVmm
        BY <2>11 DEF StopSound, AbortVmm, Stopping, Stop, Net, Clear
    <2>12. CASE AbortNet
        BY <2>12 DEF StopSound, AbortNet, Stopping, CallClear, StartFails, Stop,
           Net, Clear, Finish
    <2>13. CASE Healthy
        BY <2>13 DEF StopSound, Healthy, Stopping, Goto, CallStop, Stop, Net, Clear
    <2>14. CASE Configure
        BY <2>14 DEF StopSound, Configure, Stopping, StartSucceeds, CallStop, Stop,
           Net, Clear, Finish, Goto
    <2>15. CASE Reconfigure
        BY <2>15 DEF StopSound, Reconfigure, Finish
    <2>. QED
        BY <1>3, <2>1, <2>2, <2>3, <2>4, <2>5, <2>6, <2>7, <2>8, <2>9, <2>10, <2>11,
           <2>12, <2>13, <2>14, <2>15 DEF StartSteps
<1>4. CASE StopSteps
    <2>1. CASE StopOwned
        BY <2>1 DEF StopSound, StopOwned, Stopping, Emptied, Goto, StopReturns,
           Stop, StartFails, Finish
    <2>2. CASE VmmInspect
        BY <1>0, <2>2 DEF StopSound, TypeOK, VmmInspect, Stopping, Emptied, CallNet,
           StopReturns, Stop, Net, StartFails, Finish, Goto
    <2>3. CASE VmmWait
        BY <2>3 DEF StopSound, VmmWait, Stopping, Emptied, Goto, StopReturns, Stop,
           StartFails, Finish
    <2>4. CASE VmmForget
        BY <1>0, <2>4 DEF StopSound, TypeOK, VmmForget, Stopping, Emptied, CallNet,
           StopReturns, Net, StartFails, Finish, Goto
    <2>5. CASE NetInspect
        BY <1>0, <2>5 DEF StopSound, TypeOK, NetInspect, Stopping, Emptied, NetReturns,
           Stop, Net, Clear, CallClear, StartFails, StopReturns, Finish, Goto
    <2>6. CASE NetWait
        BY <1>0, <2>6 DEF StopSound, TypeOK, NetWait, Stopping, Emptied, NetReturns, Stop,
           Clear, CallClear, StartFails, StopReturns, Finish, Goto
    <2>7. CASE ClearOwned
        BY <2>7 DEF StopSound, ClearOwned, Stopping, Emptied, Goto, ClearReturns,
           Stop, Net, Clear, StartFails, StopReturns, Finish
    <2>8. CASE ClearRemove
        BY <1>0, <2>8 DEF StopSound, TypeOK, ClearRemove, Stopping, Emptied, control,
           Goto, ClearReturns, Stop, Net, Clear, StartFails, StopReturns, Finish
    <2>9. CASE ClearMkdir
        BY <2>9 DEF StopSound, ClearMkdir, Stopping, Emptied, Goto, ClearReturns,
           Stop, Net, Clear, StartFails, StopReturns, Finish
    <2>10. CASE ClearMarker
        BY <2>10 DEF StopSound, ClearMarker, Stopping, ClearReturns, Stop, Net,
           Goto, StartFails, StopReturns, Finish, CallClear, CallStop
    <2>. QED
        BY <1>4, <2>1, <2>2, <2>3, <2>4, <2>5, <2>6, <2>7, <2>8, <2>9, <2>10 DEF StopSteps
<1>5. CASE RemoveSteps
    <2>1. CASE PublishLayout
        BY <2>1 DEF StopSound, PublishLayout, Stopping, Goto, Published, Stop, Net,
           Clear, Finish
    <2>2. CASE PublishRead
        BY <2>2 DEF StopSound, PublishRead, Stopping, Published, Stop, Net, Clear,
           Finish
    <2>3. CASE WorkspaceStatus
        BY <2>3 DEF StopSound, WorkspaceStatus, Stopping, Stop, Net, Clear
    <2>4. CASE WorkspaceVerdict
        BY <2>4 DEF StopSound, WorkspaceVerdict, Stopping, Goto, Finish, Stop, Net,
           Clear
    <2>5. CASE RemoveCheck
        BY <2>5 DEF StopSound, RemoveCheck, Stopping, CallStop, Stop, Net, Clear
    <2>6. CASE RemoveOwned
        BY <2>6 DEF StopSound, RemoveOwned, Stopping, Goto, Finish, Stop, Net, Clear
    <2>7. CASE RemoveTree
        BY <2>7 DEF StopSound, RemoveTree, Stopping, control, Goto, Finish, Stop,
           Net, Clear
    <2>8. CASE RemoveSave
        BY <2>8 DEF StopSound, RemoveSave, Finish
    <2>. QED
        BY <1>5, <2>1, <2>2, <2>3, <2>4, <2>5, <2>6, <2>7, <2>8 DEF RemoveSteps
<1>6. CASE \E k \in Kind : HelperExit(k)
    BY <1>6 DEF StopSound, HelperExit, Stopping, disk, control
<1>7. CASE Interrupt \/ HostReboot
    BY <1>7 DEF StopSound, Interrupt, HostReboot, Finish
<1>8. CASE UNCHANGED vars
    BY <1>8 DEF vars, StopSound, Stopping
<1>. QED
    BY <1>1, <1>2, <1>3, <1>4, <1>5, <1>6, <1>7, <1>8 DEF Next, CommandStep

\* While nothing fails a revival goes on: every step leads to the next one.
LEMMA RevivalStep ==
    ASSUME IInv, StartingOK, SpawnedOK, RevivalSound, [Next]_vars
    PROVE  RevivalSound'
<1>0. TypeOK /\ DiskSound /\ Orderly
    BY DEF IInv
<1>. SUFFICES ASSUME Reviving', faults' = 0 PROVE RevivalAt'
    BY DEF RevivalSound
<1>r. pc = "status" \/ (Reviving /\ faults = 0 /\ RevivalAt)
    BY <1>0, Within, Counting DEF Reviving, RevivalSound
<1>1. CASE \E c \in Command : Begin(c)
    BY <1>1 DEF Reviving, StartingOK, Begin
<1>2. CASE Commands
    <2>1. CASE StartCommand
        <3>1. Status = "degraded" => LayoutHolds
            BY <1>0 DEF Status, DiskSound, RunningMeansLayout
        <3>2. Status' = Status /\ (LayoutHolds => LayoutHolds')
            BY <2>1 DEF StartCommand, Status, Inspect, LayoutHolds, world, disk
        <3>3. cmd' = "start" /\ pc' = "start_record" /\ began' = Status
            BY <2>1 DEF StartCommand, Reviving, Enter, Finish
        <3>. QED
            BY <3>1, <3>2, <3>3 DEF RevivalAt, Reviving
    <2>2. CASE OpenCommand
        BY <2>2 DEF Reviving, OpenCommand, Goto
    <2>3. CASE StopCommand
        BY <2>3 DEF Reviving, StopCommand, CallStop
    <2>4. CASE PublishCommand
        <3>1. Status = "running" => LayoutHolds
            BY <1>0 DEF Status, DiskSound, RunningMeansLayout, Kind
        <3>2. /\ cmd' = "publish" /\ began' = Status /\ began' = "running" /\ wasRunning'
              /\ pc' = "stop_owned" /\ ret' = [ret EXCEPT !.stop = "publish"]
              /\ root' = root
            BY <2>4 DEF PublishCommand, Reviving, disk
        <3>3. ret'.stop = "publish"
            BY <3>2
        <3>. QED
            BY <3>1, <3>2, <3>3 DEF RevivalAt, Emptied, Stopping, Stop, LayoutHolds
    <2>5. CASE RemoveCommand
        BY <2>5 DEF Reviving, RemoveCommand
    <2>6. CASE StatusFails
        BY <1>0, <2>6, Counting DEF StatusFails
    <2>. QED
        BY <1>2, <2>1, <2>2, <2>3, <2>4, <2>5, <2>6 DEF Commands
<1>3. CASE StartSteps
    <2>1. CASE StartRecord
        BY <1>0, <1>r, <2>1, Counting DEF RevivalAt, StartRecord, Status, Booting,
           Stopping, Emptied, Clear, Boot, Goto, world, disk, Inspect, Net, Stop
    <2>2. CASE InspectPair
        BY <1>0, <1>r, <2>2, Counting DEF RevivalAt, TypeOK, InspectPair, Booting,
           Emptied, Boot, Goto, CallStop, CallNet, Net, Stop
    <2>3. CASE ForgetStale
        BY <1>0, <1>r, <2>3, Counting DEF RevivalAt, TypeOK, ForgetStale, Booting,
           Emptied, CallNet, Net
    <2>4. CASE SpawnNet
        BY <1>0, <1>r, <2>4, Counting DEF RevivalAt, SpawnedOK, SpawnNet, Booting, Nobody,
           Emptied, Kind, Boot, Fresh
    <2>5. CASE RecordNet
        BY <1>0, <1>r, <2>5, Counting DEF RevivalAt, RecordNet, Booting, Emptied, Boot,
           Goto
    <2>6. CASE NetSocket
        BY <1>r, <2>6 DEF RevivalAt, NetSocket, Booting, Emptied, Boot,
           Goto
    <2>7. CASE ExposeAgent
        BY <1>r, <2>7 DEF RevivalAt, ExposeAgent, Booting, Emptied, Boot,
           Goto
    <2>8. CASE SpawnVmm
        BY <1>0, <1>r, <2>8, Counting DEF RevivalAt, TypeOK, SpawnVmm, Booting, Emptied,
           Kind, Boot, Fresh
    <2>9. CASE RecordVmm
        <3>1. /\ pidfile' = [pidfile EXCEPT !["vmm"] = known["vmm"]]
              /\ pc' = "vmm_socket" /\ known' = known /\ cmd' = cmd
              /\ wasRunning' = wasRunning
            BY <1>0, <2>9, Counting DEF RecordVmm, Goto
        <3>2. pidfile["net"] = known["net"]
            BY <1>0, <2>9 DEF RecordVmm, Orderly, HandlesHeld
        <3>3. \A k \in Kind : pidfile'[k] = known'[k]
            BY <1>0, <3>1, <3>2 DEF TypeOK, Kind
        <3>4. cmd = "publish" => wasRunning
            BY <1>r, <2>9 DEF RecordVmm, RevivalAt
        <3>5. known["net"] # None /\ known["vmm"] # None
            BY <1>r, <2>9 DEF RecordVmm, RevivalAt
        <3>. QED
            BY <3>1, <3>3, <3>4, <3>5 DEF RevivalAt, Booting, Boot, Kind, Emptied
    <2>10. CASE VmmSocket
        BY <1>r, <2>10 DEF RevivalAt, VmmSocket, Booting, Emptied, Boot,
           Goto, disk
    <2>11. CASE AbortVmm
        BY <1>r, <2>11 DEF SpawnedOK, AbortVmm, Boot
    <2>12. CASE AbortNet
        BY <1>r, <2>12 DEF SpawnedOK, AbortNet, Boot
    <2>13. CASE Healthy
        BY <1>0, <1>r, <2>13, Counting DEF RevivalAt, SpawnedOK, Healthy, Booting,
           Emptied, Boot, Goto, Notices, disk
    <2>14. CASE Configure
        BY <1>0, <1>r, <2>14, Counting DEF Reviving, SpawnedOK, Configure, Boot,
           StartSucceeds, Notices, Finish
    <2>15. CASE Reconfigure
        BY <2>15 DEF Reviving, Reconfigure, Finish
    <2>. QED
        BY <1>3, <2>1, <2>2, <2>3, <2>4, <2>5, <2>6, <2>7, <2>8, <2>9, <2>10, <2>11,
           <2>12, <2>13, <2>14, <2>15 DEF StartSteps
<1>4. CASE StopSteps
    <2>1. CASE StopOwned
        BY <1>r, <2>1 DEF RevivalAt, Reviving, StopOwned, Booting,
           Stopping, Emptied, Clear, Boot, Goto, StopReturns, disk, Net, Stop, StartFails,
           Finish
    <2>2. CASE VmmInspect
        BY <1>0, <1>r, <2>2, Counting DEF RevivalAt, TypeOK, VmmInspect, Booting,
           Stopping, Emptied, Clear, Boot, CallNet, Net, Stop
    <2>3. CASE VmmWait
        BY <1>0, <1>r, <2>3, Counting DEF RevivalAt, VmmWait, Booting, Stopping, Emptied,
           Clear, Boot, Goto, disk, Net, Stop
    <2>4. CASE VmmForget
        BY <1>0, <1>r, <2>4, Counting DEF RevivalAt, TypeOK, VmmForget, Booting, Stopping,
           Emptied, Clear, Boot, CallNet, Net
    <2>5. CASE NetInspect
        BY <1>0, <1>r, <2>5, Counting DEF RevivalAt, TypeOK, StartingOK, NetInspect,
           Booting, Stopping, Emptied, Clear, Boot, NetReturns, Net, Stop, CallClear
    <2>6. CASE NetWait
        BY <1>0, <1>r, <2>6, Counting DEF RevivalAt, TypeOK, StartingOK, NetWait, Booting,
           Stopping, Emptied, Clear, Boot, NetReturns, CallClear
    <2>7. CASE ClearOwned
        BY <1>r, <2>7 DEF RevivalAt, Reviving, ClearOwned, Booting,
           Stopping, Emptied, Clear, Boot, Goto, ClearReturns, disk, Net, Stop,
           StartFails, StopReturns, Finish
    <2>8. CASE ClearRemove
        BY <1>0, <1>r, <2>8, Counting DEF RevivalAt, TypeOK, ClearRemove, Booting,
           Stopping, Nobody, Clear, Boot, UnlinkSession, control, Goto, Net, Stop
    <2>9. CASE ClearMkdir
        BY <1>0, <1>r, <2>9, Counting DEF RevivalAt, ClearMkdir, Booting, Stopping,
           Emptied, Clear, Boot, Goto, Net, Stop
    <2>10. CASE ClearMarker
        BY <1>0, <1>r, <2>10, Counting DEF RevivalAt, TypeOK, ClearMarker, LayoutHolds,
           Booting, Stopping, Emptied, Clear, Boot, ClearReturns, Net, Stop, Goto,
           StopReturns, CallClear
    <2>. QED
        BY <1>4, <2>1, <2>2, <2>3, <2>4, <2>5, <2>6, <2>7, <2>8, <2>9, <2>10 DEF StopSteps
<1>5. CASE RemoveSteps
    <2>1. CASE PublishLayout
        BY <1>r, <2>1 DEF RevivalAt, PublishLayout, LayoutHolds, Booting,
           Stopping, Clear, Boot, Goto, disk, Net, Stop
    <2>2. CASE PublishRead
        BY <1>r, <2>2 DEF RevivalAt, PublishRead, LayoutHolds, Status,
           Booting, Stopping, Nobody, Kind, Clear, Boot, Published, disk, Inspect, Net,
           Stop
    <2>3. CASE WorkspaceStatus
        BY <1>r, <2>3 DEF RevivalAt, WorkspaceStatus, Booting, Stopping,
           Clear, Boot, Net, Stop
    <2>4. CASE WorkspaceVerdict
        BY <1>r, <2>4 DEF RevivalAt, WorkspaceVerdict, Booting, Stopping,
           Clear, Boot, Net, Stop
    <2>5. CASE RemoveCheck
        BY <1>r, <2>5 DEF RevivalAt, RemoveCheck, Booting, Stopping,
           Clear, Boot, Net, Stop
    <2>6. CASE RemoveOwned
        BY <1>r, <2>6 DEF RevivalAt, RemoveOwned, Booting, Stopping,
           Clear, Boot, Net, Stop
    <2>7. CASE RemoveTree
        BY <1>r, <2>7 DEF RevivalAt, RemoveTree, Booting, Stopping, Clear,
           Boot, Net, Stop
    <2>8. CASE RemoveSave
        BY <2>8 DEF Reviving, RemoveSave, Finish
    <2>. QED
        BY <1>5, <2>1, <2>2, <2>3, <2>4, <2>5, <2>6, <2>7, <2>8 DEF RemoveSteps
<1>6. CASE \E k \in Kind : HelperExit(k)
    BY <1>r, <1>6 DEF RevivalAt, Reviving, StartingOK, HelperExit,
       LayoutHolds, Status, Booting, Stopping, disk, control, Inspect
<1>7. CASE Interrupt \/ HostReboot
    BY <1>7 DEF Reviving, Interrupt, HostReboot, Finish
<1>8. CASE UNCHANGED vars
    BY <1>r, <1>8 DEF vars, RevivalAt, Reviving, StartingOK, LayoutHolds,
       Status, Booting, Stopping, Inspect
<1>. QED
    BY <1>1, <1>2, <1>3, <1>4, <1>5, <1>6, <1>7, <1>8 DEF Next, CommandStep

\* Whatever a failed start still has to clean up is known, and what failed is counted.
LEMMA ColdStep ==
    ASSUME IInv, HelpersRecorded, StartingOK, SpawnedOK, ColdSound, [Next]_vars
    PROVE  ColdSound'
<1>0. TypeOK /\ DiskSound /\ Orderly
    BY DEF IInv
<1>. SUFFICES ASSUME ColdStart' PROVE ColdAt'
    BY DEF ColdSound
<1>r. pc = "status" \/ (ColdStart /\ ColdAt)
    BY <1>0, Within DEF ColdStart, ColdSound
<1>1. CASE \E c \in Command : Begin(c)
    BY <1>1 DEF ColdStart, StartingOK, Begin
<1>2. CASE Commands
    <2>1. CASE StartCommand
        <3>1. Status' = Status /\ pc' = "start_record" /\ Status = "stopped" /\ live' = live
            BY <2>1 DEF StartCommand, Enter, Finish, ColdStart, Status, Inspect, world,
               disk
        <3>2. \A k \in Kind : Dead(k)
            BY <1>0, <3>1, IdentityAssumption DEF Status, Inspect, Dead, TypeOK
        <3>3. \A k \in Kind : live[k] = {}
            BY <1>0, <3>2, <2>1, NothingRuns DEF StartCommand, Recording
        <3>4. ~firstError'
            BY <2>1 DEF StartCommand, StartingOK, Enter, Finish
        <3>. QED
            BY <3>1, <3>3, <3>4 DEF ColdAt, Stop, Net
    <2>2. CASE OpenCommand
        BY <2>2 DEF ColdStart, OpenCommand, Goto
    <2>3. CASE StopCommand
        BY <2>3 DEF ColdStart, StopCommand, CallStop
    <2>4. CASE PublishCommand
        BY <2>4 DEF ColdStart, PublishCommand
    <2>5. CASE RemoveCommand
        BY <2>5 DEF ColdStart, RemoveCommand
    <2>6. CASE StatusFails
        BY <2>6 DEF ColdStart, StatusFails, Finish
    <2>. QED
        BY <1>2, <2>1, <2>2, <2>3, <2>4, <2>5, <2>6 DEF Commands
<1>3. CASE StartSteps
    <2>1. CASE StartRecord
        BY <1>0, <1>r, <2>1, Counting DEF ColdAt, ColdStart, StartRecord, Boot, Net, Stop,
           Goto, StartFails, world, Finish
    <2>2. CASE InspectPair
        BY <1>0, <1>r, <2>2, Counting DEF ColdAt, ColdStart, TypeOK, InspectPair, Boot,
           Net, Kind, Stop, Goto, Inspect, CallNet, StartFails, world, Finish
    <2>3. CASE ForgetStale
        BY <1>0, <1>r, <2>3, Counting DEF ColdAt, ColdStart, TypeOK, ForgetStale, Net,
           Stop, CallNet, StartFails, Finish
    <2>4. CASE SpawnNet
        BY <1>0, <1>r, <2>4, Counting DEF ColdAt, ColdStart, TypeOK, SpawnNet, Boot, Net,
           Kind, Stop, StartFails, Finish
    <2>5. CASE RecordNet
        BY <1>0, <1>r, <2>5, Counting DEF ColdAt, ColdStart, RecordNet, Boot, Net, Stop,
           Goto, StartFails, Finish
    <2>6. CASE NetSocket
        BY <1>0, <1>r, <2>6, Counting DEF ColdAt, SpawnedOK, NetSocket, Boot, Net, Stop,
           Goto, Notices, world
    <2>7. CASE ExposeAgent
        BY <1>0, <1>r, <2>7, Counting DEF ColdAt, ExposeAgent, Boot, Net, Stop, Goto,
           world
    <2>8. CASE SpawnVmm
        <3>1. CASE pc' = "record_vmm"
            BY <1>0, <1>r, <2>8, <3>1, Counting DEF SpawnVmm, ColdAt, Boot, Stop, Net,
               Goto
        <3>2. CASE Goto("abort_net") /\ Fault /\ live' = live
            BY <1>0, <1>r, <2>8, <3>2, Counting DEF SpawnVmm, ColdAt, Boot, Net, Goto
        <3>. QED
            BY <2>8, <3>1, <3>2 DEF SpawnVmm
    <2>9. CASE RecordVmm
        <3>1. CASE Goto("vmm_socket")
            BY <1>0, <1>r, <2>9, <3>1, Counting DEF RecordVmm, ColdAt, Boot, Stop, Net,
               Goto
        <3>2. CASE pc' = "abort_net"
            <4>1. pidfile["vmm"] = None /\ \A i \in live["vmm"] : i = known["vmm"]
                BY <1>0, <2>9, IdentityAssumption DEF RecordVmm, HelpersRecorded, Orderly,
                   HandlesHeld, Recording, Kind, TypeOK
            <4>2. live'["vmm"] = {}
                BY <1>0, <2>9, <3>2, <4>1 DEF RecordVmm, TypeOK, Kind, Goto
            <4>. QED
                BY <1>0, <1>r, <2>9, <3>2, <4>2, Counting DEF RecordVmm, ColdAt, Boot,
                   Net, Goto
        <3>. QED
            BY <2>9, <3>1, <3>2 DEF RecordVmm
    <2>10. CASE VmmSocket
        BY <1>0, <1>r, <2>10, Counting DEF ColdAt, SpawnedOK, VmmSocket, Boot, Net, Stop,
           Goto, Notices
    <2>11. CASE AbortVmm
        <3>1. faults # 0 /\ pc' = "abort_net" /\ live' = live
            BY <1>r, <2>11 DEF AbortVmm, ColdAt
        <3>2. known["vmm"] \notin live["vmm"] => live["vmm"] = {}
            BY <1>0, <2>11, NothingRuns DEF AbortVmm, Orderly, HandlesHeld, Dead, Kind,
               Recording
        <3>3. CASE NoFault
            BY <1>0, <1>r, <2>11, <3>1, <3>2, <3>3, Counting DEF AbortVmm, ColdAt, Boot,
               Net
        <3>4. CASE Fault
            BY <1>0, <2>11, <3>1, <3>4, Counting DEF ColdAt, Boot, Net
        <3>. QED
            BY <2>11, <3>3, <3>4 DEF AbortVmm
    <2>12. CASE AbortNet
        BY <1>0, <1>r, <2>12, Counting DEF ColdAt, ColdStart, TypeOK, AbortNet, Net,
           Clear, CallClear, StartFails, Finish
    <2>13. CASE Healthy
        <3>1. root' = "whole"
            BY <1>0, <2>13 DEF Healthy, disk, Orderly, BootIntact, Booting, Boot
        <3>2. Notices => faults' # 0
            BY <1>0, <2>13, Counting DEF Notices, Healthy, SpawnedOK, Boot
        <3>3. CASE CallStop("boot_failed") /\ Notices
            <4>1. pc' = "stop_owned" /\ ret'.stop = "boot_failed" /\ firstError' = FALSE
                BY <3>3 DEF CallStop
            <4>. QED
                BY <3>1, <3>2, <3>3, <4>1 DEF ColdAt, Stopping, Stop, Net
        <3>. QED
            BY <1>0, <1>r, <2>13, <3>3, Counting DEF Healthy, ColdAt, Goto, Boot, Stop,
               Net
    <2>14. CASE Configure
        <3>1. root' = "whole"
            BY <1>0, <2>14 DEF Configure, disk, Orderly, BootIntact, Booting, Boot
        <3>2. Notices => faults' # 0
            BY <1>0, <2>14, Counting DEF Notices, Configure, SpawnedOK, Boot
        <3>3. CASE CallStop("boot_failed") /\ Notices
            <4>1. pc' = "stop_owned" /\ ret'.stop = "boot_failed" /\ firstError' = FALSE
                BY <3>3 DEF CallStop
            <4>. QED
                BY <3>1, <3>2, <3>3, <4>1 DEF ColdAt, Stopping, Stop, Net
        <3>. QED
            BY <1>r, <2>14, <3>3 DEF Configure, ColdStart, StartSucceeds,
               Finish
    <2>15. CASE Reconfigure
        BY <2>15 DEF ColdStart, Reconfigure, Finish
    <2>. QED
        BY <1>3, <2>1, <2>2, <2>3, <2>4, <2>5, <2>6, <2>7, <2>8, <2>9, <2>10, <2>11,
           <2>12, <2>13, <2>14, <2>15 DEF StartSteps
<1>4. CASE StopSteps
    <2>1. CASE StopOwned
        BY <1>0, <1>r, <2>1, Counting DEF ColdAt, ColdStart, StopOwned, Boot, Net, Clear,
           Stopping, Stop, Goto, StopReturns, disk, StartFails, Finish
    <2>2. CASE VmmInspect
        BY <1>0, <1>r, <2>2, Counting DEF ColdAt, ColdStart, TypeOK, VmmInspect, Boot,
           Net, Clear, Stopping, Stop, CallNet, StopReturns, StartFails, Finish
    <2>3. CASE VmmWait
        BY <1>0, <1>r, <2>3, Counting DEF ColdAt, ColdStart, VmmWait, Boot, Net, Clear,
           Stopping, Stop, Goto, StopReturns, disk, StartFails, Finish
    <2>4. CASE VmmForget
        BY <1>0, <1>r, <2>4, Counting DEF ColdAt, ColdStart, TypeOK, VmmForget, Boot, Net,
           Clear, Stopping, CallNet, StopReturns, StartFails, Finish
    <2>5. CASE NetInspect
        BY <1>0, <1>r, <2>5, Counting DEF ColdAt, ColdStart, TypeOK, NetInspect, Boot,
           Net, Clear, Stopping, Stop, NetReturns, CallClear, StartFails, StopReturns,
           Finish
    <2>6. CASE NetWait
        BY <1>0, <1>r, <2>6, Counting DEF ColdAt, ColdStart, TypeOK, NetWait, Boot, Clear,
           Stopping, Stop, NetReturns, CallClear, StartFails, StopReturns, Finish
    <2>7. CASE ClearOwned
        BY <1>0, <1>r, <2>7, Counting DEF ColdAt, ColdStart, ClearOwned, Boot, Net, Clear,
           Stopping, Stop, Goto, ClearReturns, disk, StartFails, StopReturns, Finish
    <2>8. CASE ClearRemove
        BY <1>0, <1>r, <2>8, Counting DEF ColdAt, ColdStart, ClearRemove, Boot, Net,
           Clear, Stopping, Stop, control, Goto, ClearReturns, StartFails, StopReturns,
           Finish
    <2>9. CASE ClearMkdir
        BY <1>0, <1>r, <2>9, Counting DEF ColdAt, ColdStart, ClearMkdir, Boot, Net, Clear,
           Stopping, Stop, Goto, ClearReturns, StartFails, StopReturns, Finish
    <2>10. CASE ClearMarker
        <3>1. \A k \in Kind : live[k] = {}
            BY <1>0, <2>10, NothingRuns DEF ClearMarker, Orderly, Quiet, VmmQuiet,
               NetQuiet, Clear, Kind, Recording
        <3>2. live' = live /\ Clear \cap (Net \cup Stop \cup Boot) = {} /\ pc \in Clear
            BY <2>10 DEF ClearMarker, Clear, Net, Stop, Boot
        <3>3. CASE Goto("spawn_net")
            BY <1>0, <1>r, <2>10, <3>1, <3>2, <3>3, Counting DEF ColdAt, ClearMarker,
               Goto, Boot, Stop, Net
        <3>. QED
            BY <1>r, <2>10, <3>2, <3>3 DEF ColdAt, ColdStart, Stopping, ClearMarker,
               ClearReturns, StopReturns, StartFails, Finish
    <2>. QED
        BY <1>4, <2>1, <2>2, <2>3, <2>4, <2>5, <2>6, <2>7, <2>8, <2>9, <2>10 DEF StopSteps
<1>5. CASE RemoveSteps
    <2>1. CASE PublishLayout
        BY <1>r, <2>1 DEF ColdAt, PublishLayout, Boot, Net, Clear,
           Stopping, Stop
    <2>2. CASE PublishRead
        BY <1>r, <2>2 DEF ColdAt, PublishRead, Boot, Net, Clear, Stopping,
           Stop
    <2>3. CASE WorkspaceStatus
        BY <1>r, <2>3 DEF ColdAt, WorkspaceStatus, Boot, Net, Clear,
           Stopping, Stop
    <2>4. CASE WorkspaceVerdict
        BY <1>r, <2>4 DEF ColdAt, WorkspaceVerdict, Boot, Net, Clear,
           Stopping, Stop
    <2>5. CASE RemoveCheck
        BY <1>r, <2>5 DEF ColdAt, RemoveCheck, Boot, Net, Clear, Stopping,
           Stop
    <2>6. CASE RemoveOwned
        BY <1>r, <2>6 DEF ColdAt, RemoveOwned, Boot, Net, Clear, Stopping,
           Stop
    <2>7. CASE RemoveTree
        BY <1>r, <2>7 DEF ColdAt, RemoveTree, Boot, Net, Clear, Stopping,
           Stop
    <2>8. CASE RemoveSave
        BY <1>r, <2>8 DEF ColdAt, RemoveSave, Boot, Net, Clear, Stopping,
           Stop
    <2>. QED
        BY <1>5, <2>1, <2>2, <2>3, <2>4, <2>5, <2>6, <2>7, <2>8 DEF RemoveSteps
<1>6. CASE \E k \in Kind : HelperExit(k)
    BY <1>0, <1>r, <1>6, Counting DEF ColdAt, ColdStart, StartingOK, HelperExit, Stopping,
       disk, control
<1>7. CASE Interrupt \/ HostReboot
    BY <1>7 DEF ColdStart, Interrupt, HostReboot, Finish
<1>8. CASE UNCHANGED vars
    BY <1>r, <1>8 DEF vars, ColdAt, ColdStart, StartingOK, Stopping
<1>. QED
    BY <1>1, <1>2, <1>3, <1>4, <1>5, <1>6, <1>7, <1>8 DEF Next, CommandStep

\* What a stop has done when it ends.
LEMMA StopEnds ==
    ASSUME IInv, HelpersRecorded, StartingOK, StopSound, Ends("stop"), [Next]_vars
    PROVE  /\ outcome' = "ok" => /\ \A k \in Kind : live'[k] = {}
                               /\ pidfile' = Nobody /\ session' = "ready"
           /\ faults' = 0 /\ Owned => outcome' = "ok"
<1>0. TypeOK /\ DiskSound /\ Orderly
    BY DEF IInv
<1>e. /\ cmd = "stop" /\ cmd' = "none" /\ outcome' \in {"ok", "err"} /\ pc # "idle"
      /\ pc = "status" \/ Stopping("stop")
      /\ pc \in Emptied => pidfile = Nobody
    BY DEF Ends, StopSound, StartingOK
<1>1. CASE \E c \in Command : Begin(c)
    BY <1>1, <1>e DEF Begin
<1>2. CASE Commands
    <2>1. CASE StartCommand
        BY <2>1, <1>e DEF StartCommand
    <2>2. CASE OpenCommand
        BY <2>2, <1>e DEF OpenCommand
    <2>3. CASE StopCommand
        BY <2>3, <1>e DEF StopCommand, CallStop
    <2>4. CASE PublishCommand
        BY <2>4, <1>e DEF PublishCommand
    <2>5. CASE RemoveCommand
        BY <2>5, <1>e DEF RemoveCommand
    <2>6. CASE StatusFails
        BY <1>0, <2>6, Counting DEF StatusFails, Finish
    <2>. QED
        BY <1>2, <2>1, <2>2, <2>3, <2>4, <2>5, <2>6 DEF Commands
<1>3. CASE StartSteps
    <2>1. CASE StartRecord
        BY <2>1, <1>e DEF Stopping, StartRecord, Stop, Net, Clear
    <2>2. CASE InspectPair
        BY <2>2, <1>e DEF Stopping, InspectPair, Stop, Net, Clear
    <2>3. CASE ForgetStale
        BY <2>3, <1>e DEF Stopping, ForgetStale, Stop, Net, Clear
    <2>4. CASE SpawnNet
        BY <2>4, <1>e DEF Stopping, SpawnNet, Stop, Net, Clear
    <2>5. CASE RecordNet
        BY <2>5, <1>e DEF Stopping, RecordNet, Stop, Net, Clear
    <2>6. CASE NetSocket
        BY <2>6, <1>e DEF NetSocket, Goto
    <2>7. CASE ExposeAgent
        BY <2>7, <1>e DEF Stopping, ExposeAgent, Stop, Net, Clear
    <2>8. CASE SpawnVmm
        BY <2>8, <1>e DEF Stopping, SpawnVmm, Stop, Net, Clear
    <2>9. CASE RecordVmm
        BY <2>9, <1>e DEF RecordVmm, Goto
    <2>10. CASE VmmSocket
        BY <2>10, <1>e DEF VmmSocket, Goto
    <2>11. CASE AbortVmm
        BY <2>11, <1>e DEF AbortVmm
    <2>12. CASE AbortNet
        BY <2>12, <1>e DEF Stopping, AbortNet, Stop, Net, Clear
    <2>13. CASE Healthy
        BY <2>13, <1>e DEF Stopping, Healthy, Stop, Net, Clear
    <2>14. CASE Configure
        BY <2>14, <1>e DEF Stopping, Configure, Stop, Net, Clear
    <2>15. CASE Reconfigure
        BY <2>15, <1>e DEF Stopping, Reconfigure, Stop, Net, Clear
    <2>. QED
        BY <1>3, <2>1, <2>2, <2>3, <2>4, <2>5, <2>6, <2>7, <2>8, <2>9, <2>10, <2>11,
           <2>12, <2>13, <2>14, <2>15 DEF StartSteps
<1>4. CASE StopSteps
    <2>1. CASE StopOwned
        BY <1>0, <2>1, <1>e, Counting DEF StopOwned, Goto, StopReturns, StartFails, Finish
    <2>2. CASE VmmInspect
        BY <1>0, <2>2, <1>e, Counting DEF VmmInspect, CallNet, StopReturns, StartFails,
           Finish, Goto
    <2>3. CASE VmmWait
        BY <1>0, <2>3, <1>e, Counting DEF VmmWait, Goto, StopReturns, StartFails, Finish
    <2>4. CASE VmmForget
        BY <1>0, <2>4, <1>e, Counting DEF VmmForget, CallNet, StopReturns, StartFails,
           Finish, Goto
    <2>5. CASE NetInspect
        BY <1>0, <2>5, <1>e, Counting DEF Stopping, StartingOK, NetInspect, NetReturns,
           CallClear, StartFails, StopReturns, Finish
    <2>6. CASE NetWait
        BY <1>0, <2>6, <1>e, Counting DEF Stopping, StartingOK, NetWait, NetReturns,
           CallClear, StartFails, StopReturns, Finish
    <2>7. CASE ClearOwned
        BY <1>0, <2>7, <1>e, Counting DEF ClearOwned, Goto, ClearReturns, StartFails,
           StopReturns, Finish
    <2>8. CASE ClearRemove
        BY <1>0, <2>8, <1>e, Counting DEF ClearRemove, control, Goto, ClearReturns,
           StartFails, StopReturns, Finish
    <2>9. CASE ClearMkdir
        BY <1>0, <2>9, <1>e, Counting DEF ClearMkdir, Goto, ClearReturns, StartFails,
           StopReturns, Finish
    <2>10. CASE ClearMarker
        <3>1. \A k \in Kind : live[k] = {}
            BY <1>0, <2>10, NothingRuns DEF ClearMarker, Orderly, Quiet, VmmQuiet,
               NetQuiet, Clear, Kind, Recording
        <3>. QED
            BY <1>0, <1>e, <2>10, <3>1, Counting DEF Emptied, Stopping, Stop, Net,
               ClearMarker, ClearReturns, StopReturns, Finish
    <2>. QED
        BY <1>4, <2>1, <2>2, <2>3, <2>4, <2>5, <2>6, <2>7, <2>8, <2>9, <2>10 DEF StopSteps
<1>5. CASE RemoveSteps
    <2>1. CASE PublishLayout
        BY <2>1, <1>e DEF Stopping, PublishLayout, Stop, Net, Clear
    <2>2. CASE PublishRead
        BY <2>2, <1>e DEF Stopping, PublishRead, Stop, Net, Clear
    <2>3. CASE WorkspaceStatus
        BY <2>3, <1>e DEF WorkspaceStatus
    <2>4. CASE WorkspaceVerdict
        BY <2>4, <1>e DEF Stopping, WorkspaceVerdict, Stop, Net, Clear
    <2>5. CASE RemoveCheck
        BY <2>5, <1>e DEF Stopping, RemoveCheck, Stop, Net, Clear
    <2>6. CASE RemoveOwned
        BY <2>6, <1>e DEF Stopping, RemoveOwned, Stop, Net, Clear
    <2>7. CASE RemoveTree
        BY <2>7, <1>e DEF Stopping, RemoveTree, Stop, Net, Clear
    <2>8. CASE RemoveSave
        BY <2>8, <1>e DEF Stopping, RemoveSave, Stop, Net, Clear
    <2>. QED
        BY <1>5, <2>1, <2>2, <2>3, <2>4, <2>5, <2>6, <2>7, <2>8 DEF RemoveSteps
<1>6. CASE \E k \in Kind : HelperExit(k)
    BY <1>6, <1>e DEF HelperExit, control
<1>7. CASE Interrupt \/ HostReboot
    BY <1>7, <1>e DEF Interrupt, HostReboot, Finish
<1>8. CASE UNCHANGED vars
    BY <1>8, <1>e DEF vars
<1>. QED
    BY <1>1, <1>2, <1>3, <1>4, <1>5, <1>6, <1>7, <1>8 DEF Next, CommandStep

\* A revival in which nothing failed ends at the last step of its boot.
LEMMA RevivalEnds ==
    ASSUME IInv, StartingOK, SpawnedOK, RevivalSound, Reviving,
           cmd' = "none", outcome' \in {"ok", "err"}, faults' = 0, [Next]_vars
    PROVE  Status' = "running" /\ (cmd = "start" => outcome' = "ok")
<1>0. TypeOK /\ DiskSound /\ Orderly
    BY DEF IInv
<1>e. pc \notin {"idle", "status"} /\ (faults = 0 => RevivalAt)
    BY DEF Reviving, StartingOK, RevivalSound
<1>1. CASE \E c \in Command : Begin(c)
    BY <1>1 DEF Begin
<1>2. CASE Commands
    <2>1. CASE StartCommand
        BY <2>1, <1>e DEF StartCommand
    <2>2. CASE OpenCommand
        BY <2>2, <1>e DEF OpenCommand
    <2>3. CASE StopCommand
        BY <2>3, <1>e DEF StopCommand
    <2>4. CASE PublishCommand
        BY <2>4 DEF PublishCommand
    <2>5. CASE RemoveCommand
        BY <2>5 DEF RemoveCommand
    <2>6. CASE StatusFails
        BY <1>0, <2>6, Counting DEF StatusFails
    <2>. QED
        BY <1>2, <2>1, <2>2, <2>3, <2>4, <2>5, <2>6 DEF Commands
<1>3. CASE StartSteps
    <2>1. CASE StartRecord
        BY <1>0, <2>1, <1>e, Counting DEF RevivalAt, StartingOK, StartRecord, Booting,
           Stopping, Clear, Boot, Goto, Net, Stop
    <2>2. CASE InspectPair
        BY <1>0, <2>2, Counting DEF StartingOK, InspectPair, Goto, CallStop, CallNet
    <2>3. CASE ForgetStale
        BY <1>0, <2>3, Counting DEF Reviving, ForgetStale, CallNet
    <2>4. CASE SpawnNet
        BY <1>0, <2>4, Counting DEF StartingOK, SpawnNet
    <2>5. CASE RecordNet
        BY <1>0, <2>5, Counting DEF Reviving, RecordNet, Goto
    <2>6. CASE NetSocket
        BY <2>6 DEF Reviving, NetSocket, Goto
    <2>7. CASE ExposeAgent
        BY <2>7 DEF Reviving, ExposeAgent, Goto
    <2>8. CASE SpawnVmm
        BY <1>0, <2>8, Counting DEF Reviving, SpawnVmm
    <2>9. CASE RecordVmm
        BY <2>9 DEF Reviving, RecordVmm, Goto
    <2>10. CASE VmmSocket
        BY <2>10 DEF Reviving, VmmSocket, Goto
    <2>11. CASE AbortVmm
        BY <2>11 DEF Reviving, AbortVmm
    <2>12. CASE AbortNet
        BY <1>0, <2>12, Counting DEF SpawnedOK, AbortNet, Boot
    <2>13. CASE Healthy
        BY <2>13 DEF StartingOK, Healthy, Goto, CallStop
    <2>14. CASE Configure
        BY <1>0, <2>14, <1>e, Counting DEF RevivalAt, StartingOK, SpawnedOK, Configure,
           Status, Boot, StartSucceeds, CallStop, world, disk, Inspect, Finish
    <2>15. CASE Reconfigure
        BY <1>0, <2>15, <1>e, Counting DEF RevivalAt, Reconfigure, Booting, Stopping,
           Clear, Boot, Net, Stop
    <2>. QED
        BY <1>3, <2>1, <2>2, <2>3, <2>4, <2>5, <2>6, <2>7, <2>8, <2>9, <2>10, <2>11,
           <2>12, <2>13, <2>14, <2>15 DEF StartSteps
<1>4. CASE StopSteps
    <2>1. CASE StopOwned
        <3>1. Owned
            BY <1>0, <1>e, <2>1, Counting DEF StopOwned, RevivalAt, Orderly, BootIntact,
               Owned
        <3>. QED
            BY <1>0, <2>1, <3>1, Counting DEF StopOwned, StartingOK, Goto, Goto
    <2>2. CASE VmmInspect
        BY <1>0, <2>2, Counting DEF StartingOK, VmmInspect, CallNet
    <2>3. CASE VmmWait
        BY <1>0, <2>3, Counting DEF Reviving, VmmWait, Goto
    <2>4. CASE VmmForget
        BY <1>0, <2>4, Counting DEF StartingOK, VmmForget, CallNet
    <2>5. CASE NetInspect
        BY <1>0, <2>5, Counting DEF StartingOK, NetInspect, NetReturns, CallClear
    <2>6. CASE NetWait
        BY <1>0, <2>6, Counting DEF StartingOK, NetWait, NetReturns, CallClear
    <2>7. CASE ClearOwned
        <3>1. Owned
            BY <1>0, <1>e, <2>7, Counting DEF ClearOwned, RevivalAt, Orderly, BootIntact,
               Owned
        <3>. QED
            BY <1>0, <2>7, <3>1, Counting DEF ClearOwned, StartingOK, Goto, Goto
    <2>8. CASE ClearRemove
        BY <1>0, <2>8, Counting DEF Reviving, ClearRemove, control, Goto
    <2>9. CASE ClearMkdir
        BY <1>0, <2>9, Counting DEF StartingOK, ClearMkdir, Goto
    <2>10. CASE ClearMarker
        BY <1>0, <2>10, <1>e, Counting DEF RevivalAt, StartingOK, ClearMarker, Booting,
           Stopping, Boot, ClearReturns, Net, Stop, Goto, StopReturns, CallClear
    <2>. QED
        BY <1>4, <2>1, <2>2, <2>3, <2>4, <2>5, <2>6, <2>7, <2>8, <2>9, <2>10 DEF StopSteps
<1>5. CASE RemoveSteps
    <2>1. CASE PublishLayout
        BY <1>0, <2>1, <1>e, Counting DEF RevivalAt, PublishLayout, Booting, Clear, Boot,
           Goto, Published, Net, Stop
    <2>2. CASE PublishRead
        BY <1>0, <2>2, <1>e, Counting DEF RevivalAt, PublishRead, Booting, Clear, Boot,
           Published, Net, Stop
    <2>3. CASE WorkspaceStatus
        BY <2>3 DEF StartingOK, WorkspaceStatus
    <2>4. CASE WorkspaceVerdict
        BY <1>0, <2>4, <1>e, Counting DEF RevivalAt, WorkspaceVerdict, Booting, Stopping,
           Clear, Boot, Net, Stop
    <2>5. CASE RemoveCheck
        BY <2>5 DEF Reviving, RemoveCheck, CallStop
    <2>6. CASE RemoveOwned
        BY <1>0, <2>6, <1>e, Counting DEF RevivalAt, RemoveOwned, Booting, Stopping,
           Clear, Boot, Net, Stop
    <2>7. CASE RemoveTree
        BY <1>0, <2>7, Counting DEF Reviving, RemoveTree, control, Goto
    <2>8. CASE RemoveSave
        BY <1>0, <2>8, <1>e, Counting DEF RevivalAt, RemoveSave, Booting, Stopping, Clear,
           Boot, Net, Stop
    <2>. QED
        BY <1>5, <2>1, <2>2, <2>3, <2>4, <2>5, <2>6, <2>7, <2>8 DEF RemoveSteps
<1>6. CASE \E k \in Kind : HelperExit(k)
    BY <1>6, <1>e DEF StartingOK, HelperExit, control
<1>7. CASE Interrupt \/ HostReboot
    BY <1>7 DEF Interrupt, HostReboot, Finish
<1>8. CASE UNCHANGED vars
    BY <1>8, <1>e DEF vars, StartingOK
<1>. QED
    BY <1>1, <1>2, <1>3, <1>4, <1>5, <1>6, <1>7, <1>8 DEF Next, CommandStep

\* A start that fails once ends with nothing running.
LEMMA ColdEnds ==
    ASSUME IInv, HelpersRecorded, StartingOK, SpawnedOK, ColdSound, ColdStart,
           cmd' = "none", outcome' = "err", faults' # 2, [Next]_vars
    PROVE  \A k \in Kind : live'[k] = {}
<1>0. TypeOK /\ DiskSound /\ Orderly
    BY DEF IInv
<1>e. pc \notin {"idle", "status"} /\ ColdAt
    BY DEF ColdStart, StartingOK, ColdSound
<1>1. CASE \E c \in Command : Begin(c)
    BY <1>1 DEF Begin
<1>2. CASE Commands
    <2>1. CASE StartCommand
        BY <2>1, <1>e DEF StartCommand
    <2>2. CASE OpenCommand
        BY <2>2, <1>e DEF OpenCommand
    <2>3. CASE StopCommand
        BY <2>3, <1>e DEF StopCommand
    <2>4. CASE PublishCommand
        BY <2>4 DEF PublishCommand
    <2>5. CASE RemoveCommand
        BY <2>5 DEF RemoveCommand
    <2>6. CASE StatusFails
        BY <1>0, <2>6, <1>e, Counting DEF ColdAt, StatusFails, Boot, Net, Clear, Stopping
    <2>. QED
        BY <1>2, <2>1, <2>2, <2>3, <2>4, <2>5, <2>6 DEF Commands
<1>3. CASE StartSteps
    <2>1. CASE StartRecord
        BY <2>1, <1>e DEF ColdAt, StartRecord, world
    <2>2. CASE InspectPair
        BY <2>2, <1>e DEF ColdAt, InspectPair, world
    <2>3. CASE ForgetStale
        BY <2>3, <1>e DEF ColdAt, ForgetStale
    <2>4. CASE SpawnNet
        BY <2>4, <1>e DEF ColdAt, StartingOK, SpawnNet
    <2>5. CASE RecordNet
        <3>1. pidfile["net"] = None /\ \A i \in live["net"] : i = known["net"]
            BY <1>0, <2>5, IdentityAssumption DEF RecordNet, HelpersRecorded, Orderly,
               HandlesHeld, Recording, Kind, TypeOK
        <3>2. live["vmm"] = {} /\ live' = [live EXCEPT !["net"] = @ \ {known["net"]}]
            BY <1>e, <2>5 DEF RecordNet, ColdAt, Goto, StartingOK
        <3>. QED
            BY <1>0, <3>1, <3>2 DEF TypeOK, Kind
    <2>6. CASE NetSocket
        BY <2>6 DEF StartingOK, NetSocket, Goto
    <2>7. CASE ExposeAgent
        BY <2>7 DEF ColdStart, ExposeAgent, Goto
    <2>8. CASE SpawnVmm
        BY <2>8 DEF ColdStart, SpawnVmm, Goto
    <2>9. CASE RecordVmm
        BY <2>9 DEF StartingOK, RecordVmm, Goto
    <2>10. CASE VmmSocket
        BY <2>10 DEF StartingOK, VmmSocket, Goto
    <2>11. CASE AbortVmm
        BY <2>11 DEF ColdStart, AbortVmm
    <2>12. CASE AbortNet
        BY <1>0, <2>12, <1>e, Counting DEF ColdAt, StartingOK, AbortNet, CallClear
    <2>13. CASE Healthy
        BY <2>13 DEF ColdStart, Healthy, Goto, CallStop
    <2>14. CASE Configure
        BY <2>14 DEF ColdStart, Configure, StartSucceeds, CallStop,
           Finish
    <2>15. CASE Reconfigure
        BY <2>15, <1>e DEF ColdAt, Reconfigure, Boot, Net, Clear,
           Stopping, Stop
    <2>. QED
        BY <1>3, <2>1, <2>2, <2>3, <2>4, <2>5, <2>6, <2>7, <2>8, <2>9, <2>10, <2>11,
           <2>12, <2>13, <2>14, <2>15 DEF StartSteps
<1>4. CASE StopSteps
    <2>1. CASE StopOwned
        BY <1>0, <2>1, <1>e, Counting DEF ColdAt, StartingOK, StopOwned, Boot, Net, Clear,
           Stopping, Owned, Goto
    <2>2. CASE VmmInspect
        BY <1>0, <2>2, <1>e, Counting DEF ColdAt, StartingOK, VmmInspect, Boot, Clear,
           Stopping, CallNet
    <2>3. CASE VmmWait
        BY <1>0, <2>3, <1>e, Counting DEF ColdAt, StartingOK, VmmWait, Boot, Net, Clear,
           Stopping, Goto
    <2>4. CASE VmmForget
        BY <1>0, <2>4, <1>e, Counting DEF ColdAt, StartingOK, VmmForget, Stop, CallNet
    <2>5. CASE NetInspect
        BY <1>0, <2>5, <1>e, Counting DEF ColdAt, StartingOK, NetInspect, Net, NetReturns,
           CallClear
    <2>6. CASE NetWait
        BY <1>0, <2>6, <1>e, Counting DEF ColdAt, StartingOK, NetWait, Net, NetReturns,
           CallClear
    <2>7. CASE ClearOwned
        <3>1. \A k \in Kind : live[k] = {}
            BY <1>0, <2>7, NothingRuns DEF ClearOwned, Orderly, Quiet, VmmQuiet, NetQuiet,
               Clear, Kind, Recording
        <3>2. live' = live
            BY <2>7 DEF ClearOwned, world
        <3>. QED
            BY <3>1, <3>2
    <2>8. CASE ClearRemove
        <3>1. \A k \in Kind : live[k] = {}
            BY <1>0, <2>8, NothingRuns DEF ClearRemove, Orderly, Quiet, VmmQuiet,
               NetQuiet, Clear, Kind, Recording
        <3>2. live' = live
            BY <2>8 DEF ClearRemove
        <3>. QED
            BY <3>1, <3>2
    <2>9. CASE ClearMkdir
        <3>1. \A k \in Kind : live[k] = {}
            BY <1>0, <2>9, NothingRuns DEF ClearMkdir, Orderly, Quiet, VmmQuiet, NetQuiet,
               Clear, Kind, Recording
        <3>2. live' = live
            BY <2>9 DEF ClearMkdir
        <3>. QED
            BY <3>1, <3>2
    <2>10. CASE ClearMarker
        <3>1. \A k \in Kind : live[k] = {}
            BY <1>0, <2>10, NothingRuns DEF ClearMarker, Orderly, Quiet, VmmQuiet,
               NetQuiet, Clear, Kind, Recording
        <3>2. live' = live
            BY <2>10 DEF ClearMarker
        <3>. QED
            BY <3>1, <3>2
    <2>. QED
        BY <1>4, <2>1, <2>2, <2>3, <2>4, <2>5, <2>6, <2>7, <2>8, <2>9, <2>10 DEF StopSteps
<1>5. CASE RemoveSteps
    <2>1. CASE PublishLayout
        BY <2>1, <1>e DEF ColdAt, PublishLayout, Boot, Net, Clear,
           Stopping, Stop
    <2>2. CASE PublishRead
        BY <2>2, <1>e DEF ColdAt, PublishRead, Boot, Net, Clear, Stopping,
           Stop
    <2>3. CASE WorkspaceStatus
        BY <2>3 DEF ColdStart, WorkspaceStatus
    <2>4. CASE WorkspaceVerdict
        BY <2>4, <1>e DEF ColdAt, WorkspaceVerdict, Boot, Net, Clear,
           Stopping, Stop
    <2>5. CASE RemoveCheck
        BY <2>5, <1>e DEF ColdAt, RemoveCheck, Boot, Net, Clear, Stopping,
           Stop
    <2>6. CASE RemoveOwned
        BY <2>6, <1>e DEF ColdAt, RemoveOwned, Boot, Net, Clear, Stopping,
           Stop
    <2>7. CASE RemoveTree
        BY <2>7, <1>e DEF ColdAt, RemoveTree, Boot, Net, Clear, Stopping,
           Stop
    <2>8. CASE RemoveSave
        BY <2>8, <1>e DEF ColdAt, RemoveSave, Boot, Net, Clear, Stopping,
           Stop
    <2>. QED
        BY <1>5, <2>1, <2>2, <2>3, <2>4, <2>5, <2>6, <2>7, <2>8 DEF RemoveSteps
<1>6. CASE \E k \in Kind : HelperExit(k)
    BY <1>6 DEF ColdStart, HelperExit, control
<1>7. CASE Interrupt \/ HostReboot
    BY <1>7 DEF Interrupt, HostReboot, Finish
<1>8. CASE UNCHANGED vars
    BY <1>8, <1>e DEF vars, StartingOK
<1>. QED
    BY <1>1, <1>2, <1>3, <1>4, <1>5, <1>6, <1>7, <1>8 DEF Next, CommandStep

\* What a command has come to, in every reachable state.
LEMMA Progress ==
    Spec => [](IInv /\ StartingOK /\ SpawnedOK /\ StopSound /\ RevivalSound)
<1>1. Init => StartingOK /\ SpawnedOK /\ StopSound /\ RevivalSound
    BY DEF Init, StartingOK, SpawnedOK, StopSound, RevivalSound, Reviving, Nobody
<1>. QED
    BY <1>1, Invariance, StartingStep, SpawnedStep, StopStep, RevivalStep, PTL DEF Spec

\* "stop always cleans both": a stop that succeeds leaves no helper, no pid file
\* and a usable session, and it fails only if something fails while it runs.
THEOREM StopsClean == ~Uncatchable => (Spec => StopCleans)
<1> SUFFICES ASSUME ~Uncatchable PROVE Spec => StopCleans
    OBVIOUS
<1>1. IInv /\ HelpersRecorded /\ StartingOK /\ StopSound /\ [Next]_vars =>
        [Ends("stop") =>
            /\ outcome' = "ok" => /\ \A k \in Kind : live'[k] = {}
                                  /\ pidfile' = Nobody /\ session' = "ready"
            /\ faults' = 0 /\ Owned => outcome' = "ok"]_vars
    BY StopEnds
<1>. QED
    BY <1>1, Progress, HelpersFound, PTL DEF Spec, StopCleans

\* "the next start repairs the pair": whatever a degraded machine lacks, its start
\* succeeds and leaves both helpers running, unless something fails meanwhile.
THEOREM StartsRepair == Spec => StartRepairs
<1>1. IInv /\ StartingOK /\ SpawnedOK /\ RevivalSound /\ [Next]_vars =>
        [Ends("start") /\ began = "degraded" /\ faults' = 0
            => outcome' = "ok" /\ Status' = "running"]_vars
    BY RevivalEnds DEF Ends, Reviving
<1>. QED
    BY <1>1, Progress, PTL DEF Spec, StartRepairs

\* A machine that ran is running again when its publish ends, also if the export failed.
THEOREM PublishesRestore == Spec => PublishRestores
<1>1. IInv /\ StartingOK /\ SpawnedOK /\ RevivalSound /\ [Next]_vars =>
        [Ends("publish") /\ began = "running" /\ faults' = 0 => Status' = "running"]_vars
    BY RevivalEnds DEF Ends, Reviving
<1>. QED
    BY <1>1, Progress, PTL DEF Spec, PublishRestores

\* One thing that goes wrong, wherever it does, leaves no helper of a failed start.
THEOREM FailedStartsClean == ~Uncatchable => (Spec => FailedStartCleans)
<1> SUFFICES ASSUME ~Uncatchable PROVE Spec => FailedStartCleans
    OBVIOUS
<1>1. Init => ColdSound
    BY DEF Init, ColdSound, ColdStart
<1>2. IInv /\ HelpersRecorded /\ StartingOK /\ SpawnedOK /\ ColdSound /\ [Next]_vars =>
        [Ends("start") /\ outcome' = "err" /\ began = "stopped" /\ faults' <= 1
            => \A k \in Kind : live'[k] = {}]_vars
    BY ColdEnds DEF Ends, ColdStart
<1>. QED
    BY <1>1, <1>2, Progress, HelpersFound, ColdStep, PTL DEF Spec, FailedStartCleans
=============================================================================

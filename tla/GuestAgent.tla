------------------------------ MODULE GuestAgent ------------------------------
(***************************************************************************)
(* The life of a guest: it boots (GuestBoot), and as long as it serves its *)
(* handlers run commands and its reaper collects what they leave behind    *)
(* (GuestCommands).  Whatever ends the service ends every process.         *)
(***************************************************************************)
EXTENDS GuestCommands

CONSTANTS MaxFaults   \* of GuestBoot

ASSUME FaultAssumption == MaxFaults \in Nat

VARIABLES vm, step, account, temp, policy, sudo, shim, mounted, reaping, faults, excused

Boot == INSTANCE GuestBoot

booting == <<vm, step, account, temp, policy, sudo, shim, mounted, reaping, faults, excused>>
agentVars == <<vars, booting>>

AgentInit == Init /\ Boot!Init

\* Bounds.  Commands do not depend on the environment's disk, so that they are
\* tried in guests that came up without a failure on a bare image, and the
\* user's other doings there come between commands.
Sampled == faults = 0 /\ account = "home" /\ ~sudo /\ shim = "link"
Quiet == vars = <<[p \in Pid |-> None], {}, <<[h \in Handler |-> "idle"],
                  [h \in Handler |-> None], [h \in Handler |-> "none"]>>,
                  <<"look", Agent>>, {}>>

\* A new kernel knows no process, and a new agent no command.
Forgotten ==
    /\ proc' = [p \in Pid |-> None] /\ tracked' = {} /\ recycled' = {}
    /\ pc' = [h \in Handler |-> "idle"] /\ pid' = [h \in Handler |-> None]
    /\ result' = [h \in Handler |-> "none"] /\ rpc' = "look" /\ eye' = Agent

Serving(A) == vm = "serving" /\ Sampled /\ A /\ UNCHANGED booting

AgentNext ==
    \/ Serving(KernelNext \/ \E h \in Handler : HandlerNext(h))
    \/ reaping /\ Serving(ReaperNext)
    \/ Boot!BootNext /\ UNCHANGED vars
    \/ Boot!User /\ Quiet /\ UNCHANGED vars
    \/ (Boot!PowerOn \/ Boot!Reboot \/ Boot!ServeFails \/ Boot!PowerCut) /\ Forgotten

AgentSpec == AgentInit /\ [][AgentNext]_agentVars

\* The fairness of both: PID 1, the kernel and the agent's threads go on.
AgentFairSpec ==
    /\ AgentSpec
    /\ WF_agentVars(Boot!BootNext /\ UNCHANGED vars)
    /\ WF_agentVars(Boot!Reboot /\ Forgotten)
    /\ WF_agentVars(reaping /\ Serving(ReaperNext))
    /\ \A h \in Handler : WF_agentVars(Serving(Ends(h)))
    /\ \A h \in Handler \ Terminal : WF_agentVars(Serving(Watch(h)))

-----------------------------------------------------------------------------
(* Properties, with those of GuestCommands. *)

\* A boot fails for a reason, which an earlier boot is not (GuestBoot).
FailsForAReason == Boot!FailsForAReason

=============================================================================

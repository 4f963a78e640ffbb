--------------------------- MODULE GuestAgentProofs ---------------------------
(***************************************************************************)
(* Theorems about GuestAgent, for any number of handlers, pids and         *)
(* failures, and about GuestExec, for any amount of input and output and   *)
(* buffers of any size.  The first part is about the commands of a guest:  *)
(* nobody takes the status of a child that is awaited, and signals reach   *)
(* their own command only.  The second is about its boots, which fail only *)
(* for a reason.  The third is about one command: with a terminal, no      *)
(* output is lost before the exit status and no frame is garbled; captured *)
(* by run_captured, what is answered is what was printed.                  *)
(***************************************************************************)
EXTENDS GuestAgent, GuestExec, FiniteSetTheorems, TLAPS

(* Commands. *)

\* The conjuncts of TypeOK, and what they need to be inductive: a guard is of a
\* pid, and the reaper looks at no registered one, recycled pids apart.
KernelOK ==
    /\ proc \in [Pid -> Process \cup {None}]
    /\ recycled \subseteq Pid
HandlersOK ==
    /\ pc \in [Handler -> {"idle", "watch", "hup", "wait", "drop", "done"}]
    /\ pid \in [Handler -> Pid \cup {None}]
    /\ result \in [Handler -> {"none", "status", "lost", "foreign"}]
    /\ \A h \in Handler : pc[h] = "idle" => result[h] = "none"
    /\ \A h \in Held : pid[h] \in Pid
GuardsOK ==
    /\ tracked \subseteq Pid
    /\ \A p \in tracked : \E h \in Held : pid[h] = p
    /\ \A h \in Held : pid[h] \in tracked \cup recycled
ReaperOK ==
    /\ rpc \in {"look", "stat", "wait"} /\ eye \in Agent .. MaxPid
    /\ rpc # "look" => eye \in Pid /\ (eye \in tracked => eye \in recycled)

\* Two guards of one pid: it was handed out twice.
GuardsApart ==
    \A g, h \in Held : g # h /\ pid[g] = pid[h] => pid[h] \in recycled

\* Nobody has collected the child of a handler that awaits it.
Awaits(h) == pc[h] \in {"watch", "hup", "wait"} /\ pid[h] \notin recycled
ChildrenSound ==
    \A h \in Handler : Awaits(h) =>
        /\ IsChild(pid[h])
        /\ proc[pid[h]].group = pid[h] /\ proc[pid[h]].for = h

\* SignalsStayInGroup, until the child is collected.
GroupsSound ==
    \A h \in Handler : Awaits(h) =>
        \A p \in Pid : Exists(p) /\ proc[p].group = pid[h] => proc[p].for = h

CommandsInv ==
    /\ KernelOK /\ HandlersOK /\ GuardsOK /\ ReaperOK /\ GuardsApart
    /\ ChildrenSound /\ GroupsSound /\ StatusesAreNotStolen

\* A process forks: the child may lead a group of its own, and takes a number
\* that neither a process nor a group has.
LEMMA ForkHolds == ASSUME CommandsInv, NEW p \in Pid, Fork(p) PROVE CommandsInv'
  <1>1. KernelOK'
    BY DEF CommandsInv, KernelOK, Process, Fork, Exists, Free, Recycles
  <1>2. HandlersOK'
    BY DEF CommandsInv, HandlersOK, Held, Fork, handlers
  <1>3. GuardsOK'
    BY DEF CommandsInv, Held, GuardsOK, Fork, Recycles, handlers
  <1>4. ReaperOK'
    BY DEF CommandsInv, ReaperOK, Fork, Recycles, reaper
  <1>5. GuardsApart'
    BY DEF CommandsInv, Held, GuardsApart, Fork, Recycles, handlers
  <1>6. ChildrenSound'
    BY DEF CommandsInv, ChildrenSound, Awaits, IsChild, Exists, Fork, Free, Recycles,
           handlers
  <1>7. GroupsSound'
    BY DEF CommandsInv, ChildrenSound, Awaits, IsChild, Exists, GroupsSound, Fork,
           Free, Recycles, handlers
  <1>8. StatusesAreNotStolen'
    BY DEF CommandsInv, StatusesAreNotStolen, Fork, Recycles, handlers
  <1> QED
    BY <1>1, <1>2, <1>3, <1>4, <1>5, <1>6, <1>7, <1>8 DEF CommandsInv

\* A process ends, and stays a zombie of its number and group.
LEMMA ExitHolds == ASSUME CommandsInv, NEW p \in Pid, Exit(p) PROVE CommandsInv'
  <1>1. KernelOK'
    BY DEF CommandsInv, KernelOK, Process, Held, Exit, Exists, handlers
  <1>2. HandlersOK'
    BY DEF CommandsInv, HandlersOK, Held, Exit, handlers
  <1>3. GuardsOK'
    BY DEF CommandsInv, Held, GuardsOK, Exit, handlers
  <1>4. ReaperOK'
    BY DEF CommandsInv, ReaperOK, Exit, reaper
  <1>5. GuardsApart'
    BY DEF CommandsInv, Held, GuardsApart, Exit, handlers
  <1>6. ChildrenSound'
    <2>1. \A q \in Pid : Exists(q) => /\ proc'[q] \in Process
                                      /\ proc'[q].parent \in {proc[q].parent, Agent}
                                      /\ proc'[q].group = proc[q].group
                                      /\ proc'[q].for = proc[q].for
      BY DEF CommandsInv, KernelOK, Exit, Exists, Process
    <2>2. \A q \in Pid : IsChild(q) => IsChild(q)'
      BY <2>1, NoneAssumption DEF IsChild, Exists
    <2>3. UNCHANGED <<pc, pid, recycled>> /\ \A h \in Handler : Awaits(h) => pid[h] \in Pid
      BY DEF CommandsInv, HandlersOK, Held, Awaits, Exit, handlers
    <2> QED BY <2>1, <2>2, <2>3 DEF CommandsInv, ChildrenSound, Awaits, IsChild
  <1>7. GroupsSound'
    BY DEF CommandsInv, Awaits, Exists, GroupsSound, Exit, handlers
  <1>8. StatusesAreNotStolen'
    BY DEF CommandsInv, StatusesAreNotStolen, Exit, handlers
  <1> QED
    BY <1>1, <1>2, <1>3, <1>4, <1>5, <1>6, <1>7, <1>8 DEF CommandsInv

\* A parent collects its child, which is nobody the agent awaits.
LEMMA ParentWaitsHolds ==
    ASSUME CommandsInv, NEW p \in Pid, ParentWaits(p) PROVE CommandsInv'
  <1>1. KernelOK'
    BY DEF CommandsInv, KernelOK, ParentWaits
  <1>2. HandlersOK'
    BY DEF CommandsInv, HandlersOK, Held, ParentWaits, handlers
  <1>3. GuardsOK'
    BY DEF CommandsInv, Held, GuardsOK, ParentWaits, handlers
  <1>4. ReaperOK'
    BY DEF CommandsInv, ReaperOK, ParentWaits, reaper
  <1>5. GuardsApart'
    BY DEF CommandsInv, Held, GuardsApart, ParentWaits, handlers
  <1>6. ChildrenSound'
    BY DEF CommandsInv, ChildrenSound, Awaits, IsChild, Exists, ParentWaits, handlers
  <1>7. GroupsSound'
    BY DEF CommandsInv, Awaits, Exists, GroupsSound, ParentWaits, handlers
  <1>8. StatusesAreNotStolen'
    BY DEF CommandsInv, StatusesAreNotStolen, ParentWaits, handlers
  <1> QED
    BY <1>1, <1>2, <1>3, <1>4, <1>5, <1>6, <1>7, <1>8 DEF CommandsInv

\* spawn: the number of the new child is no guard's, or it is recycled.
LEMMA SpawnHolds == ASSUME CommandsInv, NEW h \in Handler, Spawn(h) PROVE CommandsInv'
  <1>1. KernelOK'
    <2>1. PICK p \in Free : proc' = [proc EXCEPT ![p] = Leader(h, p)] /\ Recycles(p)
      BY DEF Spawn
    <2>2. p \in Pid /\ Leader(h, p) \in Process
      BY <2>1 DEF Free, Leader, Process
    <2> QED BY <2>1, <2>2 DEF CommandsInv, KernelOK, Recycles
  <1>2. HandlersOK'
    BY DEF CommandsInv, HandlersOK, Held, Spawn, Free, Goto
  <1>3. GuardsOK'
    <2>1. PICK p \in Free : /\ tracked' = tracked \cup {p}
                            /\ pid' = [pid EXCEPT ![h] = p] /\ Recycles(p)
      BY DEF Spawn
    <2>2. p \in Pid /\ pid'[h] = p
      BY <2>1 DEF CommandsInv, HandlersOK, Free
    <2>3. Held' = Held \cup {h} /\ h \notin Held
      BY DEF CommandsInv, HandlersOK, Held, Spawn, Goto
    <2>4. \A g \in Held : pid'[g] = pid[g]
      BY <2>1, <2>3
    <2>5. recycled \subseteq recycled'
      BY <2>1 DEF Recycles
    <2> QED BY <2>1, <2>2, <2>3, <2>4, <2>5 DEF CommandsInv, GuardsOK
  <1>4. ReaperOK'
    BY DEF CommandsInv, ReaperOK, Spawn, Recycles, reaper
  <1>5. GuardsApart'
    BY DEF CommandsInv, HandlersOK, Held, ChildrenSound, Awaits, IsChild, GuardsApart,
           Spawn, Free, Recycles, Goto
  <1>6. ChildrenSound'
    BY NoneAssumption DEF CommandsInv, KernelOK, Process, HandlersOK, ChildrenSound,
                          Awaits, IsChild, Exists, Spawn, Free, Leader, Recycles, Goto
  <1>7. GroupsSound'
    BY DEF CommandsInv, HandlersOK, ChildrenSound, Awaits, IsChild, Exists,
           GroupsSound, Spawn, Free, Leader, Recycles, Goto
  <1>8. StatusesAreNotStolen'
    BY DEF CommandsInv, HandlersOK, StatusesAreNotStolen, Spawn, Recycles
  <1> QED
    BY <1>1, <1>2, <1>3, <1>4, <1>5, <1>6, <1>7, <1>8 DEF CommandsInv

\* waitid with WNOWAIT: the child of a handler that awaits it is there.
LEMMA WatchHolds == ASSUME CommandsInv, NEW h \in Handler, Watch(h) PROVE CommandsInv'
  <1>1. KernelOK'
    BY DEF CommandsInv, KernelOK, Watch
  <1>2. HandlersOK'
    BY DEF CommandsInv, HandlersOK, Held, Watch, Goto
  <1>3. GuardsOK'
    <2>1. Held' = Held /\ UNCHANGED <<tracked, pid, recycled>>
      BY DEF CommandsInv, HandlersOK, Held, Watch, Goto
    <2> QED BY <2>1 DEF CommandsInv, GuardsOK
  <1>4. ReaperOK'
    BY DEF CommandsInv, ReaperOK, Watch, reaper
  <1>5. GuardsApart'
    BY DEF CommandsInv, HandlersOK, Held, GuardsApart, Watch, Goto
  <1>6. ChildrenSound'
    BY DEF CommandsInv, HandlersOK, ChildrenSound, Awaits, IsChild, Exists, Watch,
           Goto
  <1>7. GroupsSound'
    BY DEF CommandsInv, HandlersOK, Awaits, Exists, GroupsSound, Watch, Goto
  <1>8. StatusesAreNotStolen'
    BY DEF CommandsInv, HandlersOK, ChildrenSound, Awaits, StatusesAreNotStolen, Watch
  <1> QED
    BY <1>1, <1>2, <1>3, <1>4, <1>5, <1>6, <1>7, <1>8 DEF CommandsInv

\* The host closes the connection.
LEMMA HostClosesHolds ==
    ASSUME CommandsInv, NEW h \in Handler, HostCloses(h) PROVE CommandsInv'
  <1>1. KernelOK'
    BY DEF CommandsInv, KernelOK, HostCloses
  <1>2. HandlersOK'
    BY DEF CommandsInv, HandlersOK, Held, HostCloses, Goto
  <1>3. GuardsOK'
    BY DEF CommandsInv, Held, GuardsOK, HostCloses, Goto
  <1>4. ReaperOK'
    BY DEF CommandsInv, ReaperOK, HostCloses, reaper
  <1>5. GuardsApart'
    BY DEF CommandsInv, Held, GuardsApart, HostCloses, Goto
  <1>6. ChildrenSound'
    BY DEF CommandsInv, ChildrenSound, Awaits, IsChild, Exists, HostCloses, Goto
  <1>7. GroupsSound'
    BY DEF CommandsInv, Awaits, Exists, GroupsSound, HostCloses, Goto
  <1>8. StatusesAreNotStolen'
    BY DEF CommandsInv, StatusesAreNotStolen, HostCloses
  <1> QED
    BY <1>1, <1>2, <1>3, <1>4, <1>5, <1>6, <1>7, <1>8 DEF CommandsInv

\* A relay fails: its handler awaits the child no more.
LEMMA RelayFailsHolds ==
    ASSUME CommandsInv, NEW h \in Handler, RelayFails(h) PROVE CommandsInv'
  <1>1. KernelOK'
    BY DEF CommandsInv, KernelOK, RelayFails
  <1>2. HandlersOK'
    BY DEF CommandsInv, HandlersOK, Held, RelayFails, Goto
  <1>3. GuardsOK'
    BY DEF CommandsInv, Held, GuardsOK, RelayFails, Goto
  <1>4. ReaperOK'
    BY DEF CommandsInv, ReaperOK, RelayFails, reaper
  <1>5. GuardsApart'
    BY DEF CommandsInv, Held, GuardsApart, RelayFails, Goto
  <1>6. ChildrenSound'
    BY DEF CommandsInv, ChildrenSound, Awaits, IsChild, Exists, RelayFails, Goto
  <1>7. GroupsSound'
    BY DEF CommandsInv, Awaits, Exists, GroupsSound, RelayFails, Goto
  <1>8. StatusesAreNotStolen'
    BY DEF CommandsInv, StatusesAreNotStolen, RelayFails
  <1> QED
    BY <1>1, <1>2, <1>3, <1>4, <1>5, <1>6, <1>7, <1>8 DEF CommandsInv

\* kill(-pid, SIGHUP).
LEMMA HupHolds == ASSUME CommandsInv, NEW h \in Handler, Hup(h) PROVE CommandsInv'
  <1>1. KernelOK'
    BY DEF CommandsInv, KernelOK, Hup
  <1>2. HandlersOK'
    BY DEF CommandsInv, HandlersOK, Held, Hup, Goto
  <1>3. GuardsOK'
    BY DEF CommandsInv, Held, GuardsOK, Hup, Goto
  <1>4. ReaperOK'
    BY DEF CommandsInv, ReaperOK, Hup, reaper
  <1>5. GuardsApart'
    BY DEF CommandsInv, Held, GuardsApart, Hup, Goto
  <1>6. ChildrenSound'
    BY DEF CommandsInv, ChildrenSound, Awaits, IsChild, Exists, Hup, Goto
  <1>7. GroupsSound'
    BY DEF CommandsInv, Awaits, Exists, GroupsSound, Hup, Goto
  <1>8. StatusesAreNotStolen'
    BY DEF CommandsInv, StatusesAreNotStolen, Hup
  <1> QED
    BY <1>1, <1>2, <1>3, <1>4, <1>5, <1>6, <1>7, <1>8 DEF CommandsInv

\* Child::wait: the status is that of the handler's own child.
LEMMA WaitHolds == ASSUME CommandsInv, NEW h \in Handler, Wait(h) PROVE CommandsInv'
  <1>1. KernelOK'
    BY DEF CommandsInv, KernelOK, Wait
  <1>2. HandlersOK'
    BY DEF CommandsInv, HandlersOK, Held, Wait, Goto
  <1>3. GuardsOK'
    BY DEF CommandsInv, Held, GuardsOK, Wait, Goto
  <1>4. ReaperOK'
    BY DEF CommandsInv, ReaperOK, Wait, reaper
  <1>5. GuardsApart'
    BY DEF CommandsInv, Held, GuardsApart, Wait, Goto
  <1>6. ChildrenSound'
    BY DEF CommandsInv, KernelOK, Process, HandlersOK, Held, ReaperOK, GuardsOK,
           ChildrenSound, Awaits, IsChild, Exists, Wait, Goto
  <1>7. GroupsSound'
    <2>1. UNCHANGED <<pid, recycled>> /\ \A g \in Handler : Awaits(g)' => Awaits(g)
      BY DEF Awaits, Wait, Goto
    <2>2. \A p \in Pid : Exists(p)' => Exists(p) /\ proc'[p] = proc[p]
      BY DEF CommandsInv, KernelOK, Exists, Wait
    <2> QED BY <2>1, <2>2 DEF CommandsInv, GroupsSound
  <1>8. StatusesAreNotStolen'
    BY DEF CommandsInv, HandlersOK, ChildrenSound, Awaits, StatusesAreNotStolen, Wait
  <1> QED
    BY <1>1, <1>2, <1>3, <1>4, <1>5, <1>6, <1>7, <1>8 DEF CommandsInv

\* ChildGuard is dropped: no other guard has this number, recycled ones apart.
LEMMA DropHolds == ASSUME CommandsInv, NEW h \in Handler, Drop(h) PROVE CommandsInv'
  <1>1. KernelOK'
    BY DEF CommandsInv, KernelOK, Drop
  <1>2. HandlersOK'
    BY DEF CommandsInv, HandlersOK, Held, Drop, Goto
  <1>3. GuardsOK'
    <2>1. h \in Held /\ Held' = Held \ {h} /\ tracked' = tracked \ {pid[h]}
      BY DEF CommandsInv, HandlersOK, Held, Drop, Goto
    <2>2. UNCHANGED <<pid, recycled>>
      BY DEF Drop
    <2> QED BY <2>1, <2>2 DEF CommandsInv, GuardsOK, GuardsApart
  <1>4. ReaperOK'
    BY DEF CommandsInv, ReaperOK, Drop, reaper
  <1>5. GuardsApart'
    BY DEF CommandsInv, Held, GuardsApart, Drop, Goto
  <1>6. ChildrenSound'
    BY DEF CommandsInv, ChildrenSound, Awaits, IsChild, Exists, Drop, Goto
  <1>7. GroupsSound'
    BY DEF CommandsInv, Awaits, Exists, GroupsSound, Drop, Goto
  <1>8. StatusesAreNotStolen'
    BY DEF CommandsInv, StatusesAreNotStolen, Drop
  <1> QED
    BY <1>1, <1>2, <1>3, <1>4, <1>5, <1>6, <1>7, <1>8 DEF CommandsInv

\* The reaper skips the numbers that are registered.
LEMMA LookHolds == ASSUME CommandsInv, Look PROVE CommandsInv'
  <1>1. KernelOK'
    BY DEF CommandsInv, KernelOK, Look
  <1>2. HandlersOK'
    BY DEF CommandsInv, HandlersOK, Held, Look, handlers
  <1>3. GuardsOK'
    BY DEF CommandsInv, Held, GuardsOK, Look, handlers
  <1>4. ReaperOK'
    BY PidAssumption DEF CommandsInv, Pid, Agent, ReaperOK, Look, NextPid
  <1>5. GuardsApart'
    BY DEF CommandsInv, Held, GuardsApart, Look, handlers
  <1>6. ChildrenSound'
    BY DEF CommandsInv, ChildrenSound, Awaits, IsChild, Exists, Look, handlers
  <1>7. GroupsSound'
    BY DEF CommandsInv, Awaits, Exists, GroupsSound, Look, handlers
  <1>8. StatusesAreNotStolen'
    BY DEF CommandsInv, StatusesAreNotStolen, Look, handlers
  <1> QED
    BY <1>1, <1>2, <1>3, <1>4, <1>5, <1>6, <1>7, <1>8 DEF CommandsInv

\* The reaper skips who is no child of PID 1.
LEMMA StatHolds == ASSUME CommandsInv, Stat PROVE CommandsInv'
  <1>1. KernelOK'
    BY DEF CommandsInv, KernelOK, Stat
  <1>2. HandlersOK'
    BY DEF CommandsInv, HandlersOK, Held, Stat, handlers
  <1>3. GuardsOK'
    BY DEF CommandsInv, Held, GuardsOK, Stat, handlers
  <1>4. ReaperOK'
    BY PidAssumption DEF CommandsInv, Agent, ReaperOK, Stat, NextPid
  <1>5. GuardsApart'
    BY DEF CommandsInv, Held, GuardsApart, Stat, handlers
  <1>6. ChildrenSound'
    BY DEF CommandsInv, ChildrenSound, Awaits, IsChild, Exists, Stat, handlers
  <1>7. GroupsSound'
    BY DEF CommandsInv, Awaits, Exists, GroupsSound, Stat, handlers
  <1>8. StatusesAreNotStolen'
    BY DEF CommandsInv, StatusesAreNotStolen, Stat, handlers
  <1> QED
    BY <1>1, <1>2, <1>3, <1>4, <1>5, <1>6, <1>7, <1>8 DEF CommandsInv

\* waitpid: nobody awaits whom the reaper collects, recycled numbers apart.
LEMMA ReapHolds == ASSUME CommandsInv, Reap PROVE CommandsInv'
  <1>1. KernelOK'
    BY DEF CommandsInv, KernelOK, Reap
  <1>2. HandlersOK'
    BY DEF CommandsInv, HandlersOK, Held, Reap, handlers
  <1>3. GuardsOK'
    BY DEF CommandsInv, Held, GuardsOK, Reap, handlers
  <1>4. ReaperOK'
    BY PidAssumption DEF CommandsInv, Agent, ReaperOK, Reap, NextPid
  <1>5. GuardsApart'
    BY DEF CommandsInv, Held, GuardsApart, Reap, handlers
  <1>6. ChildrenSound'
    BY DEF CommandsInv, Held, ReaperOK, GuardsOK, ChildrenSound, Awaits, IsChild,
           Exists, Reap, handlers
  <1>7. GroupsSound'
    BY DEF CommandsInv, Awaits, Exists, GroupsSound, Reap, handlers
  <1>8. StatusesAreNotStolen'
    BY DEF CommandsInv, StatusesAreNotStolen, Reap, handlers
  <1> QED
    BY <1>1, <1>2, <1>3, <1>4, <1>5, <1>6, <1>7, <1>8 DEF CommandsInv

\* Before any command there are neither processes nor guards.
LEMMA CommandsInitHolds == Init => CommandsInv
  <1> SUFFICES ASSUME Init PROVE CommandsInv
    OBVIOUS
  <1>1. KernelOK
    BY DEF Init, KernelOK
  <1>2. HandlersOK /\ Held = {}
    BY DEF Init, HandlersOK, Held
  <1>3. GuardsOK /\ GuardsApart
    BY <1>2 DEF Init, GuardsOK, GuardsApart
  <1>4. ReaperOK
    BY PidAssumption DEF Init, ReaperOK, Agent
  <1>5. ChildrenSound /\ GroupsSound
    BY DEF Init, ChildrenSound, GroupsSound, Awaits
  <1>6. StatusesAreNotStolen
    BY DEF Init, StatusesAreNotStolen
  <1> QED BY <1>1, <1>2, <1>3, <1>4, <1>5, <1>6 DEF CommandsInv

\* Every step of the kernel, of a handler and of the reaper.
LEMMA CommandsNextHolds == ASSUME CommandsInv, [Next]_vars PROVE CommandsInv'
  <1>1. CASE KernelNext
    BY <1>1, ForkHolds, ExitHolds, ParentWaitsHolds DEF KernelNext
  <1>2. ASSUME NEW h \in Handler, HandlerNext(h) PROVE CommandsInv'
    BY <1>2, SpawnHolds, WatchHolds, HostClosesHolds, RelayFailsHolds, HupHolds,
       WaitHolds, DropHolds DEF HandlerNext, Ends
  <1>3. CASE ReaperNext
    BY <1>3, LookHolds, StatHolds, ReapHolds DEF ReaperNext
  <1>4. CASE UNCHANGED vars
    <2>1. (KernelOK /\ HandlersOK /\ GuardsOK /\ ReaperOK /\ GuardsApart)'
      BY <1>4 DEF CommandsInv, vars, handlers, reaper, KernelOK, HandlersOK, GuardsOK,
                  ReaperOK, GuardsApart, Held
    <2>2. (ChildrenSound /\ GroupsSound /\ StatusesAreNotStolen)'
      BY <1>4 DEF CommandsInv, vars, handlers, ChildrenSound, GroupsSound,
                  StatusesAreNotStolen, Awaits, IsChild, Exists
    <2> QED BY <2>1, <2>2 DEF CommandsInv
  <1> QED BY <1>1, <1>2, <1>3, <1>4 DEF Next

-------------------------------------------------------------------------

\* Every step of the guest: commands run while it serves, and whatever ends the
\* service ends them all.
LEMMA CommandsStepHolds == ASSUME CommandsInv, [AgentNext]_agentVars PROVE CommandsInv'
  <1>1. CASE [Next]_vars
    BY <1>1, CommandsNextHolds
  <1>2. CASE Forgotten
    <2>1. Init'
      BY <1>2 DEF Forgotten, Init
    <2>2. (Init => CommandsInv)'
      BY CommandsInitHolds, PTL
    <2> QED BY <2>1, <2>2
  <1> QED BY <1>1, <1>2 DEF AgentNext, Next, Serving, agentVars

THEOREM CommandsInvariance == AgentSpec => []CommandsInv
  <1>1. AgentInit => CommandsInv
    BY CommandsInitHolds DEF AgentInit
  <1> QED BY <1>1, CommandsStepHolds, PTL DEF AgentSpec

\* The types, and the registered children are those of the guards that are held
\* (command.rs ChildGuard), recycled pids apart.
THEOREM CommandsTypeCorrect == AgentSpec => []TypeOK
  <1>1. CommandsInv => TypeOK
    BY DEF CommandsInv, KernelOK, HandlersOK, GuardsOK, ReaperOK, TypeOK
  <1> QED BY <1>1, CommandsInvariance, PTL

\* The reaper (reaper.rs) steals no exit status from a handler that awaits its
\* child (command.rs), unless the kernel hands out the number of a child that
\* one of them still remembers.
THEOREM StatusesKept == AgentSpec => []StatusesAreNotStolen
  <1>1. CommandsInv => StatusesAreNotStolen
    BY DEF CommandsInv
  <1> QED BY <1>1, CommandsInvariance, PTL

\* The SIGHUP of a handler (command.rs) reaches no process of another's command.
THEOREM SignalsKept == AgentSpec => []SignalsStayInGroup
  <1>1. CommandsInv => SignalsStayInGroup
    BY DEF CommandsInv, GroupsSound, Awaits, SignalsStayInGroup
  <1> QED BY <1>1, CommandsInvariance, PTL

-----------------------------------------------------------------------------
(* Boots. *)

\* What a boot has established by the time it is at a step.  PID 1 runs commands
\* of its own at four steps, and none of them comes after the reaper.
BootSound ==
    /\ reaping => vm # "booting" \/ step = "serve"
    /\ vm = "booting" /\ step = "create" => ~temp
    /\ vm = "booting" /\ step = "link" => shim = "none"

IInv == Boot!TypeOK /\ BootSound /\ Boot!FailsForAReason

-----------------------------------------------------------------------------
\* Counting failures stays within the bound.
LEMMA Bounds ==
    /\ 0 \in 0 .. MaxFaults
    /\ \A n \in 0 .. MaxFaults : n < MaxFaults => n + 1 \in 0 .. MaxFaults
  BY FaultAssumption

\* A boot starts with nothing established and no failure.
LEMMA InitHolds == AgentInit => IInv
  <1> SUFFICES ASSUME Boot!Init PROVE IInv
    BY DEF AgentInit
  <1>1. Boot!TypeOK
    BY Bounds DEF Boot!Init, Boot!TypeOK, Boot!Steps
  <1>2. BootSound /\ Boot!FailsForAReason
    BY DEF Boot!Init, BootSound, Boot!FailsForAReason
  <1> QED BY <1>1, <1>2 DEF IInv

\* A step that fails by itself excuses the panic it ends in.
LEMMA FailsHolds == IInv /\ Boot!Fails => IInv'
  <1> SUFFICES ASSUME IInv, Boot!Fails PROVE IInv'
    OBVIOUS
  <1>1. Boot!TypeOK'
    BY Bounds
    DEF IInv, Boot!TypeOK, Boot!Steps, Boot!Fails, Boot!Panic, Boot!disk
  <1>2. BootSound' /\ Boot!FailsForAReason'
    BY DEF Boot!Fails, Boot!Panic, BootSound, Boot!FailsForAReason
  <1> QED BY <1>1, <1>2 DEF IInv

\* No step of a boot that waits for a command has the reaper beside it.
LEMMA NeverLoses ==
  ASSUME IInv, vm = "booting",
         step \in {"useradd", "home", "workspace", "network"}
  PROVE  ~Boot!Loses
  BY DEF IInv, BootSound, Boot!Loses

\* A mount step leaves the disk and the reaper alone.
LEMMA MountsHolds ==
  ASSUME IInv,
         NEW s \in {"pseudo", "workspace", "session"},
         NEW next \in {"account", "session", "network"},
         Boot!Mounts(s, s, next)
  PROVE  IInv'
  <1>1. CASE Boot!Fails
    BY <1>1, FailsHolds
  <1>2. CASE ~Boot!Fails
    <2>0. /\ vm = "booting" /\ step = s /\ mounted' = mounted \cup {s}
          /\ step' = next
          /\ UNCHANGED <<vm, excused, account, temp, policy, sudo, shim, reaping, faults>>
      BY <1>2 DEF Boot!Mounts, Boot!At, Boot!Then, Boot!disk
    <2>10. /\ step' \in Boot!Steps
           /\ mounted' \subseteq {"pseudo", "workspace", "session"}
      BY <2>0 DEF IInv, Boot!TypeOK, Boot!Steps
    <2>1. Boot!TypeOK'
      BY <2>0, <2>10 DEF IInv, Boot!TypeOK
    <2>2. BootSound' /\ Boot!FailsForAReason'
      BY <2>0 DEF IInv, BootSound, Boot!FailsForAReason
    <2> QED BY <2>1, <2>2 DEF IInv
  <1> QED BY <1>1, <1>2

\* The account and the home directory of a boot.
LEMMA AccountHolds ==
  ASSUME IInv, Boot!Account \/ Boot!UserAdd \/ Boot!Home PROVE IInv'
  <1>1. CASE Boot!Fails
    BY <1>1, FailsHolds
  <1>2. CASE ~Boot!Fails
    <2> USE <1>2 DEF IInv
    <2>1. CASE Boot!Account
      <3>1. Boot!TypeOK'
        BY <2>1 DEF Boot!TypeOK, Boot!Steps, Boot!Account, Boot!At, Boot!Then, Boot!disk
      <3>2. BootSound' /\ Boot!FailsForAReason'
        BY <2>1 DEF Boot!Account, Boot!At, Boot!Then, Boot!disk, BootSound,
                    Boot!FailsForAReason
      <3> QED BY <3>1, <3>2
    <2>2. CASE Boot!UserAdd
      <3>1. ~Boot!Loses
        BY <2>2, NeverLoses DEF Boot!UserAdd, Boot!At
      <3>2. Boot!TypeOK'
        BY <2>2, <3>1 DEF Boot!TypeOK, Boot!Steps, Boot!UserAdd, Boot!At, Boot!Then
      <3>3. BootSound' /\ Boot!FailsForAReason'
        BY <2>2, <3>1 DEF Boot!UserAdd, Boot!At, Boot!Then, BootSound,
                          Boot!FailsForAReason
      <3> QED BY <3>2, <3>3
    <2>3. CASE Boot!Home
      <3>1. ~Boot!Loses
        BY <2>3, NeverLoses DEF Boot!Home, Boot!At
      <3>2. Boot!TypeOK'
        BY <2>3, <3>1 DEF Boot!TypeOK, Boot!Steps, Boot!Home, Boot!At, Boot!Then
      <3>3. BootSound' /\ Boot!FailsForAReason'
        BY <2>3, <3>1 DEF Boot!Home, Boot!At, Boot!Then, BootSound,
                          Boot!FailsForAReason
      <3> QED BY <3>2, <3>3
    <2> QED BY <2>1, <2>2, <2>3
  <1> QED BY <1>1, <1>2

\* Writing the sudo policy: the leftover is removed before a file is created,
\* so that creating one never meets it.
LEMMA PolicyHolds ==
  ASSUME IInv, Boot!Clear \/ Boot!Create \/ Boot!Rename PROVE IInv'
  <1>1. CASE Boot!Clear
    <2>1. Boot!TypeOK'
      BY <1>1 DEF IInv, Boot!TypeOK, Boot!Steps, Boot!Clear, Boot!At, Boot!Then
    <2>2. BootSound' /\ Boot!FailsForAReason'
      BY <1>1 DEF IInv, Boot!Clear, Boot!At, Boot!Then, BootSound, Boot!FailsForAReason
    <2> QED BY <2>1, <2>2 DEF IInv
  <1>2. CASE Boot!Create
    <2>1. ~temp
      BY <1>2 DEF IInv, BootSound, Boot!Create, Boot!At
    <2>2. CASE Boot!Then("rename") /\ temp' = TRUE
                 /\ UNCHANGED <<account, policy, sudo, shim, mounted, reaping, faults>>
      <3>1. Boot!TypeOK'
        BY <2>2 DEF IInv, Boot!TypeOK, Boot!Steps, Boot!Then
      <3>2. BootSound' /\ Boot!FailsForAReason'
        BY <1>2, <2>2 DEF IInv, Boot!Create, Boot!At, Boot!Then, BootSound,
                          Boot!FailsForAReason
      <3> QED BY <3>1, <3>2 DEF IInv
    <2>3. CASE /\ faults < MaxFaults /\ faults' = faults + 1
               /\ temp' \in {temp, TRUE} /\ Boot!Panic /\ excused' = TRUE
               /\ UNCHANGED <<account, policy, sudo, shim, mounted, reaping>>
      <3>1. Boot!TypeOK'
        BY <2>3, Bounds DEF IInv, Boot!TypeOK, Boot!Steps, Boot!Panic
      <3>2. BootSound' /\ Boot!FailsForAReason'
        BY <2>3 DEF Boot!Panic, BootSound, Boot!FailsForAReason
      <3> QED BY <3>1, <3>2 DEF IInv
    <2> QED BY <1>2, <2>1, <2>2, <2>3 DEF Boot!Create
  <1>3. CASE Boot!Rename /\ ~Boot!Fails
    <2>1. Boot!TypeOK'
      BY <1>3 DEF IInv, Boot!TypeOK, Boot!Steps, Boot!Rename, Boot!At, Boot!Then
    <2>2. BootSound' /\ Boot!FailsForAReason'
      BY <1>3 DEF IInv, Boot!Rename, Boot!At, Boot!Then, BootSound,
                  Boot!FailsForAReason
    <2> QED BY <2>1, <2>2 DEF IInv
  <1> QED BY <1>1, <1>2, <1>3, FailsHolds

\* The sudo shim: what is neither absent nor a link stops the boot, and is the
\* reason that FailsForAReason allows.
LEMMA SudoHolds ==
  ASSUME IInv, Boot!Sudo \/ Boot!Link PROVE IInv'
  <1>1. CASE Boot!Sudo /\ ~Boot!Fails
    <2>1. Boot!TypeOK'
      BY <1>1 DEF IInv, Boot!TypeOK, Boot!Steps, Boot!Sudo, Boot!At, Boot!Then,
                  Boot!Panic, Boot!disk
    <2>2. BootSound' /\ Boot!FailsForAReason'
      BY <1>1 DEF IInv, Boot!Sudo, Boot!At, Boot!Then, Boot!Panic, Boot!disk, BootSound,
                  Boot!FailsForAReason
    <2> QED BY <2>1, <2>2 DEF IInv
  <1>2. CASE Boot!Link /\ ~Boot!Fails
    <2>1. shim = "none"
      BY <1>2 DEF IInv, BootSound, Boot!Link, Boot!At
    <2>2. Boot!TypeOK'
      BY <1>2, <2>1 DEF IInv, Boot!TypeOK, Boot!Steps, Boot!Link, Boot!At, Boot!Then
    <2>3. BootSound' /\ Boot!FailsForAReason'
      BY <1>2, <2>1 DEF IInv, Boot!Link, Boot!At, Boot!Then, BootSound,
                        Boot!FailsForAReason
    <2> QED BY <2>2, <2>3 DEF IInv
  <1> QED BY <1>1, <1>2, FailsHolds

\* The last steps of a boot: the network, the reaper, and service.
LEMMA ServiceHolds ==
  ASSUME IInv, Boot!Network \/ Boot!Reaper \/ Boot!Serve PROVE IInv'
  <1>1. CASE Boot!Network /\ ~Boot!Fails
    <2>1. ~Boot!Loses
      BY <1>1, NeverLoses DEF Boot!Network, Boot!At
    <2>2. Boot!TypeOK'
      BY <1>1, <2>1 DEF IInv, Boot!TypeOK, Boot!Steps, Boot!Network, Boot!At, Boot!Then,
                        Boot!disk
    <2>3. BootSound' /\ Boot!FailsForAReason'
      BY <1>1, <2>1 DEF IInv, Boot!Network, Boot!At, Boot!Then, Boot!disk, BootSound,
                        Boot!FailsForAReason
    <2> QED BY <2>2, <2>3 DEF IInv
  <1>2. CASE Boot!Reaper /\ ~Boot!Fails
    <2>1. Boot!TypeOK'
      BY <1>2 DEF IInv, Boot!TypeOK, Boot!Steps, Boot!Reaper, Boot!At, Boot!Then, Boot!disk
    <2>2. BootSound' /\ Boot!FailsForAReason'
      BY <1>2 DEF IInv, Boot!Reaper, Boot!At, Boot!Then, Boot!disk, BootSound,
                  Boot!FailsForAReason
    <2> QED BY <2>1, <2>2 DEF IInv
  <1>3. CASE Boot!Serve /\ ~Boot!Fails
    <2>1. Boot!TypeOK'
      BY <1>3 DEF IInv, Boot!TypeOK, Boot!Steps, Boot!Serve, Boot!At, Boot!disk
    <2>2. BootSound' /\ Boot!FailsForAReason'
      BY <1>3 DEF IInv, Boot!Serve, Boot!At, Boot!disk, BootSound, Boot!FailsForAReason
    <2> QED BY <2>1, <2>2 DEF IInv
  <1> QED BY <1>1, <1>2, <1>3, FailsHolds

\* Every step of a boot.
LEMMA BootHolds == ASSUME IInv, Boot!BootNext PROVE IInv'
  <1>1. CASE Boot!Pseudo
    BY <1>1, MountsHolds DEF Boot!Pseudo
  <1>2. CASE Boot!Workspace
    <2>1. ~(Boot!At("workspace") /\ Boot!Loses)
      BY NeverLoses DEF Boot!At
    <2> QED BY <1>2, <2>1, MountsHolds DEF Boot!Workspace
  <1>3. CASE Boot!Session
    BY <1>3, MountsHolds DEF Boot!Session
  <1> QED
    BY <1>1, <1>2, <1>3, AccountHolds, PolicyHolds, SudoHolds, ServiceHolds
    DEF Boot!BootNext

\* Power, the kernel and the user: a boot starts anew.
LEMMA WorldHolds ==
  ASSUME IInv,
         \/ Boot!PowerOn \/ Boot!Reboot \/ Boot!ServeFails \/ Boot!PowerCut \/ Boot!User
  PROVE  IInv'
  <1>1. CASE Boot!ServeFails
    BY <1>1, FailsHolds DEF Boot!ServeFails
  <1>2. CASE Boot!PowerOn \/ Boot!Reboot \/ Boot!PowerCut
    <2>0. vm' \in {"off", "booting"} /\ Boot!Fresh /\ UNCHANGED <<Boot!disk, faults>>
      BY <1>2 DEF Boot!PowerOn, Boot!Reboot, Boot!PowerCut
    <2>10. UNCHANGED <<account, temp, policy, sudo, shim>>
      BY <2>0 DEF Boot!disk
    <2>11. /\ step' \in Boot!Steps
           /\ mounted' \subseteq {"pseudo", "workspace", "session"}
           /\ reaping' \in BOOLEAN /\ excused' \in BOOLEAN
      BY <2>0 DEF Boot!Fresh, Boot!Steps
    <2>1. Boot!TypeOK'
      BY <2>0, <2>10, <2>11 DEF IInv, Boot!TypeOK
    <2>2. BootSound' /\ Boot!FailsForAReason'
      BY <1>2 DEF Boot!PowerOn, Boot!Reboot, Boot!PowerCut, Boot!Fresh, BootSound,
                  Boot!FailsForAReason
    <2> QED BY <2>1, <2>2 DEF IInv
  <1>3. CASE Boot!User
    <2>1. Boot!TypeOK'
      BY <1>3, ZenonT(60) DEF IInv, Boot!TypeOK, Boot!User
    <2>2. BootSound' /\ Boot!FailsForAReason'
      BY <1>3 DEF IInv, Boot!User, BootSound, Boot!FailsForAReason
    <2> QED BY <2>1, <2>2 DEF IInv
  <1> QED BY <1>1, <1>2, <1>3

\* What does not touch the boot keeps its invariant.
LEMMA ElseHolds == IInv /\ UNCHANGED booting => IInv'
  BY DEF IInv, BootSound, Boot!TypeOK, Boot!FailsForAReason, booting

\* Every step of the guest.
LEMMA StepHolds == IInv /\ [AgentNext]_agentVars => IInv'
  <1> SUFFICES ASSUME IInv, [AgentNext]_agentVars PROVE IInv'
    OBVIOUS
  <1>1. CASE \/ Serving(KernelNext \/ \E h \in Handler : HandlerNext(h))
             \/ reaping /\ Serving(ReaperNext)
    BY <1>1, ElseHolds DEF Serving
  <1>2. CASE UNCHANGED agentVars
    BY <1>2, ElseHolds DEF agentVars
  <1> QED BY <1>1, <1>2, BootHolds, WorldHolds DEF AgentNext

THEOREM Invariance == AgentSpec => []IInv
  <1> QED BY InitHolds, StepHolds, PTL DEF AgentSpec

-----------------------------------------------------------------------------
\* The types of a boot (lib.rs initialize, main.rs run), in every guest.
THEOREM BootTypeCorrect == AgentSpec => []Boot!TypeOK
  <1>1. IInv => Boot!TypeOK
    BY DEF IInv
  <1> QED BY <1>1, Invariance, PTL

\* What earlier boots did, finished or cut off, keeps no guest from booting
\* (lib.rs write_private, account.rs), and the agent's own reaper takes no status
\* from the commands of the boot (main.rs run), however many steps fail.
THEOREM BootsForAReason == AgentSpec => []FailsForAReason
  <1>1. IInv => FailsForAReason
    BY DEF IInv, FailsForAReason
  <1> QED BY <1>1, Invariance, PTL

-----------------------------------------------------------------------------
(* A command, with a terminal or captured: GuestExec. *)

\* How many items of a queue are x.
Number(s, x) == Cardinality({i \in 1 .. Len(s) : s[i] = x})

\* What the queues of a terminal hold, and the pipes of a captured command.
Parts == Relay!Kind \X {"header", "payload"}
Frames == {"ready", "shell", "job", "exit"}
Chunks == {"shell", "job"}
Sources == {"command", "helper"}

\* The conjuncts of Relay!TypeOK; that no more is printed than was written is
\* part of OutputOK.
HostTyped ==
    /\ host \in {"request", "answer", "loop", "print", "over"}
    /\ returned \in {"none", "status", "err", "killed"}
    /\ thread \in [Relay!Writer -> Relay!Idle \cup {"lock", "header", "payload"}]
    /\ sending \in [Relay!Writer -> Relay!Kind \cup {"none"}]
    /\ lock \in Relay!Writer \cup {"none"}
    /\ broken \in BOOLEAN /\ screen \in Nat
    /\ typed \in 0 .. MaxTyped /\ signals \in 0 .. MaxSignals
    /\ \A w \in Relay!Writer : thread[w] \in {"header", "payload"} <=> lock = w
StreamsTyped ==
    /\ up \in Seq(Parts) /\ Len(up) <= SocketSize
    /\ down \in Seq(Frames) /\ Len(down) <= SocketSize
RelayTyped ==
    /\ relay \in Relay!Over \cup {"spawn", "ready", "check", "poll", "read_pty",
                                   "write_host", "read_host", "read_payload", "write_pty",
                                   "hang_up", "reap", "drain", "drain_host", "exit"}
    /\ seen \subseteq {"pty", "host"} /\ frame \in Relay!Kind \cup {"none"}
    /\ chunk \in {"none", "shell", "job"} /\ deadline \in {"none", "set", "passed"}
    /\ cut \in BOOLEAN
GuestTyped ==
    /\ keys \in 0 .. PtySize /\ text \in Seq(Chunks) /\ Len(text) <= PtySize
    /\ shell \in {"none", "running", "zombie", "reaped"}
    /\ job \in BOOLEAN /\ hungUp \in BOOLEAN /\ wrote \in 0 .. MaxWrites

\* Output of the shell on its way to the terminal.
Underway ==
    Number(text, "shell") + (IF chunk = "shell" THEN 1 ELSE 0) + Number(down, "shell")

\* Nothing of it is lost as long as the relay goes on; when the exit frame is
\* due, what is left in the PTY is not the shell's.
OutputOK ==
    /\ chunk # "none" => relay \in {"write_host", "drain_host", "dead"}
    /\ relay \in {"write_host", "drain_host"} => chunk # "none"
    /\ screen + Underway <= wrote
    /\ relay \notin {"failed", "dead"} => screen + Underway = wrote
    /\ relay \in {"drain", "drain_host", "exit", "done"} => shell = "reaped"
    /\ relay \in {"exit", "done"} => cut \/ Number(text, "shell") = 0

\* The first frame to the host is ExecReady, the last one tells the exit status.
AnswersOK ==
    /\ host = "request" => relay = "none"
    /\ relay \in {"none", "spawn", "ready", "refused"} => down = <<>>
    /\ host = "answer" =>
         /\ relay # "none"
         /\ down = <<>> => relay \in {"spawn", "ready", "refused", "dead"}
         /\ down # <<>> => down[1] = "ready"
    /\ \A i \in 1 .. Len(down) : down[i] = "exit" => i = Len(down) /\ relay = "done"
    /\ Relay!HostOpen /\ relay = "done" => down # <<>> /\ down[Len(down)] = "exit"
    /\ returned = "status" => relay = "done" /\ down = <<>>

ThreadsOK ==
    /\ host \in {"request", "answer"} => \A w \in Relay!Writer : thread[w] = "off"
    /\ \A w \in Relay!Writer :
         thread[w] \in {"lock", "header", "payload"} => sending[w] # "none"

\* The header of a frame of this kind is written, and its payload is not.
Begun(kind) == \E w \in Relay!Writer : thread[w] = "payload" /\ sending[w] = kind
NoneBegun == \A w \in Relay!Writer : thread[w] # "payload"

\* The stream to the guest: every header is followed by its payload, and every
\* payload by a header.
FramesOK ==
    /\ \A i \in 1 .. Len(up) : up[i][2] = "header" =>
         /\ i < Len(up) => up[i + 1] = <<up[i][1], "payload">>
         /\ i = Len(up) => Begun(up[i][1])
    /\ \A i \in 1 .. Len(up) : up[i][2] = "payload" =>
         /\ i < Len(up) => up[i + 1][2] = "header"
         /\ i = Len(up) => NoneBegun

\* And the relay reads what comes next, a header or the payload of its frame.
ReadingOK ==
    /\ relay = "read_payload" =>
         /\ up = <<>> => Begun(frame)
         /\ up # <<>> => up[1] = <<frame, "payload">>
    /\ relay # "read_payload" =>
         /\ up = <<>> => NoneBegun
         /\ up # <<>> => up[1][2] = "header"
    /\ relay \in {"read_pty", "write_host", "read_host"} /\ "host" \in seen => up # <<>>
    /\ relay \notin {"hang_up", "reap"}

\* A host that is there has no relay that failed, but for input that nobody reads.
RelayOK ==
    /\ Relay!HostOpen /\ Relay!GuestOpen => FramesOK /\ ReadingOK
    /\ relay = "write_pty" => frame = "stdin"
    /\ Relay!HostOpen /\ relay = "failed" => frame = "stdin" /\ ~Relay!SlaveOpen

RelayInv ==
    /\ HostTyped /\ StreamsTyped /\ RelayTyped /\ GuestTyped
    /\ OutputOK /\ AnswersOK /\ ThreadsOK /\ RelayOK
    /\ OutputBeforeStatus /\ FailuresHaveReasons

\* Where a captured command is.
ChildOK ==
    /\ handler \in {"none", "spawn"} => child = "none"
    /\ handler \in {"mark", "join"} \/ done => child = "reaped"
    /\ \A s \in Capture!Stream :
         /\ reader[s] # "off" => child # "none"
         /\ reader[s] = "over" => child # "running"
    /\ verdict \in {"clean", "dirty"} =>
         /\ child = "reaped" /\ exceeded = {}
         /\ \A s \in Capture!Stream : reader[s] = "over"

\* What it wrote is kept or still in its pipe, unless there was too much of it; a
\* reader that is over has left none there, unless it ran out of time.
Kept(s) ==
    /\ own[s] <= bytes[s]
    /\ s \notin exceeded => written[s] = own[s] + Number(pipe[s], "command")
    /\ s \in late => bytes[s] > 0
    /\ reader[s] = "over" => s \in late \/ Number(pipe[s], "command") = 0
KeptOK == \A s \in Capture!Stream : Kept(s)

NothingKept == verdict = "clean" => bytes["stdout"] = 0

CaptureInv == Capture!TypeOK /\ ChildOK /\ KeptOK /\ NothingKept

ExecInv == RelayInv /\ CaptureInv

\* Counting the items of a queue: of an empty one,
LEMMA NumberEmpty == \A x : Number(<<>>, x) = 0
  BY FS_EmptySet DEF Number

\* of any one,
LEMMA NumberType ==
    ASSUME NEW S, NEW s \in Seq(S), NEW x
    PROVE  /\ Number(s, x) \in Nat /\ IsFiniteSet({i \in 1 .. Len(s) : s[i] = x})
  <1>1. IsFiniteSet(1 .. Len(s))
    BY FS_Interval
  <1>2. {i \in 1 .. Len(s) : s[i] = x} \subseteq 1 .. Len(s)
    OBVIOUS
  <1>3. IsFiniteSet({i \in 1 .. Len(s) : s[i] = x})
    BY <1>1, <1>2, FS_Subset
  <1> QED BY <1>3, FS_CardinalityType DEF Number

\* of one that an item joins,
LEMMA NumberAppend ==
    ASSUME NEW S, NEW s \in Seq(S), NEW e \in S, NEW x
    PROVE  Number(Append(s, e), x) = Number(s, x) + IF e = x THEN 1 ELSE 0
  <1> DEFINE before == {i \in 1 .. Len(s) : s[i] = x}
             after == {i \in 1 .. Len(Append(s, e)) : Append(s, e)[i] = x}
  <1>1. IsFiniteSet(before) /\ Cardinality(before) \in Nat
    BY NumberType DEF Number
  <1>2. CASE e = x
    <2>1. after = before \cup {Len(s) + 1} /\ Len(s) + 1 \notin before
      BY <1>2
    <2> QED BY <1>1, <1>2, <2>1, FS_AddElement DEF Number
  <1>3. CASE e # x
    <2>1. after = before
      BY <1>3
    <2>2. Number(Append(s, e), x) = Number(s, x)
      BY <2>1 DEF Number
    <2>3. Number(s, x) \in Nat
      BY NumberType
    <2> QED BY <1>3, <2>2, <2>3
  <1> QED BY <1>2, <1>3

\* and of one that an item leaves.
LEMMA NumberTail ==
    ASSUME NEW S, NEW s \in Seq(S), s # <<>>, NEW x
    PROVE  Number(s, x) = Number(Tail(s), x) + IF Head(s) = x THEN 1 ELSE 0
  <1> DEFINE before == {i \in 1 .. Len(s) : s[i] = x}
             after == {i \in 1 .. Len(Tail(s)) : Tail(s)[i] = x}
             moved == before \ {1}
             shift == [i \in after |-> i + 1]
  <1>1. IsFiniteSet(before) /\ Cardinality(before) \in Nat
    BY NumberType DEF Number
  <1>2. Tail(s) \in Seq(S) /\ Len(s) \in Nat \ {0} /\ Head(s) = s[1]
        /\ Len(Tail(s)) = Len(s) - 1 /\ \A i \in 1 .. Len(s) - 1 : Tail(s)[i] = s[i + 1]
    OBVIOUS
  <1>3. IsFiniteSet(after) /\ Cardinality(after) \in Nat
    BY <1>2, NumberType DEF Number
  <1>4. shift \in Bijection(after, moved)
    <2>1. \A i \in after : i + 1 \in moved
      BY <1>2
    <2>2. \A j \in moved : j - 1 \in after /\ (j - 1) + 1 = j
      BY <1>2
    <2>3. \A i, j \in after : i + 1 = j + 1 => i = j
      OBVIOUS
    <2> HIDE DEF after, moved
    <2>4. shift \in [after -> moved]
      BY <2>1
    <2>5. \A j \in moved : shift[j - 1] = j
      BY <2>2
    <2>6. \A i, j \in after : shift[i] = shift[j] => i = j
      BY <2>3
    <2> QED BY <2>2, <2>4, <2>5, <2>6 DEF Bijection, Injection, Surjection, IsInjective
  <1>5. Cardinality(moved) = Cardinality(after)
    BY <1>3, <1>4, FS_Bijection DEF ExistsBijection
  <1>6. Cardinality(moved) = IF 1 \in before THEN Cardinality(before) - 1
                                             ELSE Cardinality(before)
    BY <1>1, FS_RemoveElement
  <1>7. 1 \in before <=> Head(s) = x
    BY <1>2
  <1> HIDE DEF before, after, moved
  <1>8. Number(s, x) = Cardinality(before) /\ Number(Tail(s), x) = Cardinality(after)
    BY DEF Number, before, after
  <1> QED BY <1>1, <1>3, <1>5, <1>6, <1>7, <1>8

\* A queue, with its first item gone, and with one more.
IsQueue(s, S) ==
    /\ Len(s) \in Nat
    /\ (s = <<>> <=> Len(s) = 0)
    /\ s # <<>> =>
         /\ Tail(s) \in Seq(S) /\ Len(Tail(s)) = Len(s) - 1
         /\ (Tail(s) = <<>> <=> Len(s) = 1)
         /\ Head(s) = s[1] /\ Head(s) \in S
         /\ \A i \in 1 .. Len(s) - 1 : Tail(s)[i] = s[i + 1]
    /\ \A e \in S :
         /\ Append(s, e) \in Seq(S) /\ Len(Append(s, e)) = Len(s) + 1
         /\ Append(s, e) # <<>> /\ Append(s, e)[Len(s) + 1] = e
         /\ \A i \in 1 .. Len(s) : Append(s, e)[i] = s[i]

\* The queues of the model are of this kind.
LEMMA Queue == ASSUME NEW S, NEW s \in Seq(S) PROVE IsQueue(s, S)
  <1>1. \A t \in Seq(S) : Len(t) \in Nat /\ (t = <<>> <=> Len(t) = 0)
    OBVIOUS
  <1>2. ASSUME s # <<>>
        PROVE  /\ Tail(s) \in Seq(S) /\ Len(Tail(s)) = Len(s) - 1
               /\ Head(s) = s[1] /\ Head(s) \in S
               /\ \A i \in 1 .. Len(s) - 1 : Tail(s)[i] = s[i + 1]
    BY <1>2
  <1>3. ASSUME s # <<>> PROVE Tail(s) = <<>> <=> Len(s) = 1
    <2>1. /\ Len(Tail(s)) = Len(s) - 1 /\ Len(s) \in Nat
          /\ Tail(s) = <<>> <=> Len(Tail(s)) = 0
      BY <1>1, <1>2, <1>3
    <2> HIDE <1>3
    <2> QED BY ONLY <2>1
  <1>4. \A e \in S :
          /\ Append(s, e) \in Seq(S) /\ Len(Append(s, e)) = Len(s) + 1
          /\ Append(s, e) # <<>> /\ Append(s, e)[Len(s) + 1] = e
          /\ \A i \in 1 .. Len(s) : Append(s, e)[i] = s[i]
    OBVIOUS
  <1> QED BY <1>1, <1>2, <1>3, <1>4, Zenon DEF IsQueue

\* What a queue holds of x.
Holds(s, S, x) ==
    /\ Number(s, x) \in Nat
    /\ s = <<>> => Number(s, x) = 0
    /\ s # <<>> =>
         /\ Number(Tail(s), x) \in Nat
         /\ Number(s, x) = Number(Tail(s), x) + IF Head(s) = x THEN 1 ELSE 0
    /\ \A e \in S : Number(Append(s, e), x) = Number(s, x) + IF e = x THEN 1 ELSE 0

\* And this is how their items are counted.
LEMMA Counting == ASSUME NEW S, NEW s \in Seq(S), NEW x PROVE Holds(s, S, x)
  <1>1. Number(s, x) \in Nat
    BY NumberType
  <1>2. s = <<>> => Number(s, x) = 0
    BY NumberEmpty
  <1>3. ASSUME s # <<>> PROVE Tail(s) \in Seq(S)
    BY <1>3
  <1>4. ASSUME s # <<>>
        PROVE  /\ Number(Tail(s), x) \in Nat
               /\ Number(s, x) = Number(Tail(s), x) + IF Head(s) = x THEN 1 ELSE 0
    BY <1>3, <1>4, NumberType, NumberTail
  <1>5. \A e \in S : Number(Append(s, e), x) = Number(s, x) + IF e = x THEN 1 ELSE 0
    BY NumberAppend
  <1> QED BY <1>1, <1>2, <1>4, <1>5, Zenon DEF Holds

\* The parts of frames to the guest.
LEMMA UpQueue == StreamsTyped => IsQueue(up, Parts)
  BY Queue, Zenon DEF StreamsTyped

\* The frames to the host.
LEMMA DownQueue == StreamsTyped => IsQueue(down, Frames) /\ Holds(down, Frames, "shell")
  BY Queue, Counting, Zenon DEF StreamsTyped

\* The output in the PTY.
LEMMA TextQueue == GuestTyped => IsQueue(text, Chunks) /\ Holds(text, Chunks, "shell")
  BY Queue, Counting, Zenon DEF GuestTyped

\* A frame is written to the host, unless the host has gone.
LEMMA FrameSent ==
    ASSUME StreamsTyped, NEW what \in Frames, NEW next, Relay!ToHost(what, next)
    PROVE  \/ /\ Relay!HostOpen /\ relay' = next /\ hungUp' = hungUp
              /\ down' # <<>> /\ Len(down') = Len(down) + 1 /\ down'[Len(down')] = what
              /\ down'[1] = IF down = <<>> THEN what ELSE down[1]
              /\ \A i \in 1 .. Len(down) : down'[i] = down[i]
              /\ Number(down', "shell")
                   = Number(down, "shell") + IF what = "shell" THEN 1 ELSE 0
           \/ ~Relay!HostOpen /\ relay' = "failed" /\ down' = down
  <1>1. IsQueue(down, Frames) /\ Holds(down, Frames, "shell")
    BY DownQueue
  <1>2. CASE /\ Relay!HostOpen /\ Len(down) < SocketSize
             /\ down' = Append(down, what) /\ relay' = next /\ hungUp' = hungUp
    <2>1. /\ down' # <<>> /\ Len(down') = Len(down) + 1 /\ down'[Len(down) + 1] = what
          /\ \A i \in 1 .. Len(down) : down'[i] = down[i]
      BY <1>1, <1>2
    <2>2. Number(down', "shell") = Number(down, "shell") + IF what = "shell" THEN 1 ELSE 0
      BY <1>1, <1>2 DEF Holds
    <2>3. Len(down) \in Nat /\ (down = <<>> <=> Len(down) = 0)
      BY <1>1
    <2>4. down'[1] = IF down = <<>> THEN what ELSE down[1]
      <3> HIDE <1>2
      <3> QED BY <2>1, <2>3
    <2> QED BY <1>2, <2>1, <2>2, <2>4
  <1>3. CASE ~Relay!HostOpen /\ Relay!Fail /\ down' = down
    BY <1>3 DEF Relay!Fail, Relay!Goto
  <1> QED BY <1>2, <1>3 DEF Relay!ToHost, Relay!Goto

\* A frame is read by the host.
LEMMA FrameTaken ==
    ASSUME StreamsTyped, down # <<>>, down' = Tail(down)
    PROVE  /\ Head(down) = down[1] /\ down[1] \in Frames
           /\ Len(down) \in Nat \ {0} /\ Len(down') = Len(down) - 1
           /\ (down' = <<>> <=> Len(down) = 1)
           /\ \A i \in 1 .. Len(down) - 1 : down'[i] = down[i + 1]
           /\ Number(down, "shell")
                = Number(down', "shell") + IF down[1] = "shell" THEN 1 ELSE 0
           /\ Number(down', "shell") \in Nat
  <1>1. IsQueue(down, Frames) /\ Holds(down, Frames, "shell")
    BY DownQueue
  <1>2. Len(down) # 0
    BY <1>1
  <1> QED BY <1>1, <1>2 DEF IsQueue, Holds

\* Output is read from the PTY.
LEMMA TextTaken ==
    ASSUME GuestTyped, text # <<>>, text' = Tail(text)
    PROVE  /\ Head(text) \in Chunks /\ text' \in Seq(Chunks) /\ Len(text') <= PtySize
           /\ Number(text, "shell")
                = Number(text', "shell") + IF Head(text) = "shell" THEN 1 ELSE 0
           /\ Number(text', "shell") \in Nat
  <1>1. IsQueue(text, Chunks) /\ Holds(text, Chunks, "shell")
    BY TextQueue
  <1>2. Len(text') = Len(text) - 1 /\ Len(text) \in Nat /\ Len(text) <= PtySize
    BY <1>1 DEF GuestTyped
  <1>3. Len(text') <= PtySize
    <2> HIDE <1>1
    <2> QED BY <1>2, RelayAssumption
  <1> QED BY <1>1, <1>3 DEF IsQueue, Holds

\* Output is written to it.
LEMMA TextAdded ==
    ASSUME GuestTyped, NEW e \in Chunks, Len(text) < PtySize, text' = Append(text, e)
    PROVE  /\ text' \in Seq(Chunks) /\ Len(text') <= PtySize
           /\ Number(text', "shell") = Number(text, "shell") + IF e = "shell" THEN 1 ELSE 0
  <1>1. IsQueue(text, Chunks) /\ Holds(text, Chunks, "shell")
    BY TextQueue
  <1>2. Len(text') = Len(text) + 1 /\ Len(text) \in Nat
    BY <1>1
  <1>3. Len(text') <= PtySize
    BY <1>2, RelayAssumption
  <1> QED BY <1>1, <1>3 DEF IsQueue, Holds

-----------------------------------------------------------------------------
(* The terminal. *)

\* A terminal that nobody has asked for.
LEMMA RelayInit == Relay!Init => RelayInv
  <1> SUFFICES ASSUME Relay!Init PROVE RelayInv
    OBVIOUS
  <1>1. HostTyped
    <2>1. typed \in 0 .. MaxTyped /\ signals \in 0 .. MaxSignals /\ screen \in Nat
      BY RelayAssumption DEF Relay!Init
    <2>2. thread \in [Relay!Writer -> Relay!Idle] /\ sending \in [Relay!Writer -> {"none"}]
      BY DEF Relay!Init, Relay!Idle
    <2>3. \A w \in Relay!Writer : thread[w] \in {"header", "payload"} <=> lock = w
      BY DEF Relay!Init, Relay!Writer
    <2>4. /\ thread \in [Relay!Writer -> Relay!Idle \cup {"lock", "header", "payload"}]
          /\ sending \in [Relay!Writer -> Relay!Kind \cup {"none"}]
      BY <2>2
    <2> QED BY <2>1, <2>3, <2>4 DEF Relay!Init, HostTyped
  <1>2. StreamsTyped
    BY RelayAssumption DEF Relay!Init, StreamsTyped
  <1>3. RelayTyped
    BY DEF Relay!Init, RelayTyped, Relay!Over
  <1>8. GuestTyped
    <2>1. text \in Seq(Chunks) /\ Len(text) = 0
      BY DEF Relay!Init
    <2>2. keys = 0 /\ wrote = 0
      BY DEF Relay!Init
    <2>3. 0 \in 0 .. PtySize /\ 0 \in 0 .. MaxWrites /\ 0 <= PtySize
      BY RelayAssumption
    <2> QED BY <2>1, <2>2, <2>3 DEF Relay!Init, GuestTyped
  <1>4. OutputOK
    BY NumberEmpty DEF Relay!Init, OutputOK, Underway
  <1>5. AnswersOK /\ ThreadsOK
    BY DEF Relay!Init, AnswersOK, ThreadsOK
  <1>6. RelayOK
    BY DEF Relay!Init, RelayOK, FramesOK, ReadingOK, NoneBegun
  <1>7. OutputBeforeStatus /\ FailuresHaveReasons
    BY DEF Relay!Init, OutputBeforeStatus, FailuresHaveReasons,
       Relay!OutputBeforeStatus, Relay!FailuresHaveReasons
  <1> QED BY <1>1, <1>2, <1>3, <1>4, <1>5, <1>6, <1>7, <1>8 DEF RelayInv

\* What every step of a terminal keeps.  First its types, part by part.
LEMMA HostTypedStep ==
    ASSUME RelayInv, [Relay!Next]_Relay!relayAll
    PROVE  HostTyped'
  <1>1. CASE \/ Relay!Request \/ Relay!Ready \/ Relay!Receive
    BY <1>1 DEF Relay!Request, Relay!Ready, Relay!Receive, Relay!Return, Relay!writers,
       RelayInv, HostTyped, ThreadsOK, Relay!Idle, Relay!Writer
  <1>2. CASE \/ Relay!Printed \/ Relay!ReadFails \/ Relay!KillHost
    BY <1>2 DEF Relay!Printed, Relay!ReadFails, Relay!KillHost, Relay!Return,
       Relay!writers, RelayInv, HostTyped, Relay!Idle, Relay!Writer
  <1>3. CASE \/ Relay!Type \/ Relay!Signal
    BY <1>3, RelayAssumption DEF Relay!Type, Relay!Signal, Relay!Step, Relay!hostVars,
       RelayInv, HostTyped, Relay!Kind, Relay!Idle
  <1>4. ASSUME NEW w \in Relay!Writer, Relay!Lock(w) PROVE HostTyped'
    BY <1>4 DEF Relay!Lock, Relay!Step, Relay!hostVars, RelayInv, HostTyped,
       Relay!Writer
  <1>5. ASSUME NEW w \in Relay!Writer, Relay!Write(w) PROVE HostTyped'
    BY <1>5 DEF Relay!Write, Relay!Step, Relay!Sent, Relay!hostVars, RelayInv,
       HostTyped, Relay!Idle, Relay!Writer
  <1>6. CASE \/ Relay!Spawn \/ Relay!ExecReady \/ Relay!Check \/ Relay!Poll
             \/ Relay!ReadPty \/ Relay!WriteHost \/ Relay!ReadHeader
             \/ Relay!ReadPayload \/ Relay!WritePty \/ Relay!HangUp \/ Relay!Reap
             \/ Relay!Drain \/ Relay!DrainHost \/ Relay!SendExit
    BY <1>6 DEF Relay!Spawn, Relay!ExecReady, Relay!Check, Relay!Poll, Relay!ReadPty,
       Relay!WriteHost, Relay!ReadHeader, Relay!ReadPayload, Relay!WritePty,
       Relay!HangUp, Relay!Reap, Relay!Drain, Relay!DrainHost, Relay!SendExit,
       Relay!hostVars, Relay!writers, RelayInv, HostTyped
  <1>7. CASE \/ Relay!Tick \/ Relay!ShellReads \/ Relay!ShellWrites \/ Relay!ShellEnds
             \/ Relay!JobStarts \/ Relay!JobWrites \/ Relay!JobEnds \/ Relay!PowerCut
    BY <1>7 DEF Relay!Tick, Relay!ShellReads, Relay!ShellWrites, Relay!ShellEnds,
       Relay!JobStarts, Relay!JobWrites, Relay!JobEnds, Relay!PowerCut, Relay!hostVars,
       Relay!writers, RelayInv, HostTyped
  <1>8. CASE UNCHANGED Relay!relayAll
    BY <1>8 DEF Relay!relayAll, Relay!hostVars, Relay!writers, RelayInv, HostTyped
  <1> QED
    BY <1>1, <1>2, <1>3, <1>4, <1>5, <1>6, <1>7, <1>8 DEF Relay!Next, Relay!HostNext,
       Relay!RelayNext, Relay!World, Relay!Writes

\* The types of the connection.
LEMMA StreamsTypedStep ==
    ASSUME RelayInv, [Relay!Next]_Relay!relayAll
    PROVE  StreamsTyped'
  <1>1. CASE Relay!Request
    BY <1>1 DEF Relay!Request, RelayInv, StreamsTyped
  <1>2. CASE Relay!Ready
    BY <1>2, RelayAssumption DEF Relay!Ready, RelayInv, StreamsTyped
  <1>3. CASE Relay!Receive
    BY <1>3, RelayAssumption DEF Relay!Receive, RelayInv, StreamsTyped
  <1>4. CASE \/ Relay!Printed \/ Relay!ReadFails \/ Relay!KillHost
    BY <1>4 DEF Relay!Printed, Relay!ReadFails, Relay!KillHost, RelayInv, StreamsTyped
  <1>5. CASE \/ Relay!Type \/ Relay!Signal
    BY <1>5 DEF Relay!Type, Relay!Signal, RelayInv, StreamsTyped
  <1>6. ASSUME NEW w \in Relay!Writer, Relay!Lock(w) PROVE StreamsTyped'
    BY <1>6 DEF Relay!Lock, RelayInv, StreamsTyped
  <1>7. ASSUME NEW w \in Relay!Writer, Relay!Write(w) PROVE StreamsTyped'
    <2>1. <<sending[w], thread[w]>> \in Parts
      BY <1>7 DEF RelayInv, HostTyped, ThreadsOK, Parts, Relay!Write
    <2>2. down' = down
      BY <1>7 DEF Relay!Write
    <2>3. CASE up' = Append(up, <<sending[w], thread[w]>>) /\ Len(up) < SocketSize
      BY <2>1, <2>2, <2>3, RelayAssumption DEF RelayInv, StreamsTyped
    <2>4. CASE up' = up
      BY <2>2, <2>4 DEF RelayInv, StreamsTyped
    <2> QED BY <1>7, <2>3, <2>4 DEF Relay!Write
  <1>8. CASE \/ Relay!Spawn \/ Relay!ExecReady \/ Relay!Check
    BY <1>8, RelayAssumption DEF Relay!Spawn, Relay!ExecReady, Relay!Check, Relay!Goto,
       Relay!ToHost, RelayInv, StreamsTyped, Frames
  <1>9. CASE \/ Relay!Poll \/ Relay!ReadPty \/ Relay!ReadHeader
    BY <1>9, RelayAssumption DEF Relay!Poll, Relay!ReadPty, Relay!ReadHeader, RelayInv,
       StreamsTyped
  <1>10. CASE Relay!WriteHost
    <2>1. chunk \in Frames
      BY <1>10 DEF Relay!WriteHost, RelayInv, RelayTyped, OutputOK, Frames
    <2> QED
      BY <1>10, <2>1, RelayAssumption DEF Relay!WriteHost, Relay!ToHost, RelayInv,
         StreamsTyped
  <1>11. CASE Relay!ReadPayload
    <2>1. down' = down
      BY <1>11 DEF Relay!ReadPayload
    <2>2. CASE up # <<>> /\ up' = Tail(up)
      BY <2>1, <2>2, RelayAssumption DEF RelayInv, StreamsTyped
    <2>3. CASE up' = up
      BY <2>1, <2>3 DEF RelayInv, StreamsTyped
    <2> QED BY <1>11, <2>2, <2>3 DEF Relay!ReadPayload
  <1>12. CASE \/ Relay!WritePty \/ Relay!HangUp \/ Relay!Reap \/ Relay!Drain
              \/ Relay!SendExit
    BY <1>12, RelayAssumption DEF Relay!WritePty, Relay!HangUp, Relay!Reap, Relay!Drain,
       Relay!SendExit, Relay!ToHost, RelayInv, StreamsTyped, Frames
  <1>13. CASE Relay!DrainHost
    <2>1. chunk \in Frames
      BY <1>13 DEF Relay!DrainHost, RelayInv, RelayTyped, OutputOK, Frames
    <2> QED
      BY <1>13, <2>1, RelayAssumption DEF Relay!DrainHost, Relay!ToHost, RelayInv,
         StreamsTyped
  <1>14. CASE \/ Relay!Tick \/ Relay!ShellReads \/ Relay!ShellWrites \/ Relay!ShellEnds
              \/ Relay!JobStarts \/ Relay!JobWrites \/ Relay!JobEnds \/ Relay!PowerCut
    BY <1>14 DEF Relay!Tick, Relay!ShellReads, Relay!ShellWrites, Relay!ShellEnds,
       Relay!JobStarts, Relay!JobWrites, Relay!JobEnds, Relay!PowerCut, RelayInv,
       StreamsTyped
  <1>15. CASE UNCHANGED Relay!relayAll
    BY <1>15 DEF Relay!relayAll, RelayInv, StreamsTyped
  <1> QED
    BY <1>1, <1>2, <1>3, <1>4, <1>5, <1>6, <1>7, <1>8, <1>9, <1>10, <1>11, <1>12, <1>13,
       <1>14, <1>15 DEF Relay!Next, Relay!HostNext, Relay!RelayNext, Relay!World,
       Relay!Writes

\* The types of the relay.
LEMMA RelayTypedStep ==
    ASSUME RelayInv, [Relay!Next]_Relay!relayAll
    PROVE  RelayTyped'
  <1>1. CASE Relay!Request
    BY <1>1 DEF Relay!Request, RelayInv, RelayTyped
  <1>2. CASE \/ Relay!Ready \/ Relay!Receive \/ Relay!Printed \/ Relay!ReadFails
             \/ Relay!KillHost
    BY <1>2 DEF Relay!Ready, Relay!Receive, Relay!Printed, Relay!ReadFails,
       Relay!KillHost, Relay!relayVars, RelayInv, RelayTyped
  <1>3. CASE \/ Relay!Type \/ Relay!Signal
    BY <1>3 DEF Relay!Type, Relay!Signal, Relay!relayVars, RelayInv, RelayTyped
  <1>4. ASSUME NEW w \in Relay!Writer, Relay!Lock(w) PROVE RelayTyped'
    BY <1>4 DEF Relay!Lock, Relay!relayVars, RelayInv, RelayTyped
  <1>5. ASSUME NEW w \in Relay!Writer, Relay!Write(w) PROVE RelayTyped'
    BY <1>5 DEF Relay!Write, Relay!relayVars, RelayInv, RelayTyped
  <1>6. CASE \/ Relay!Spawn \/ Relay!ExecReady \/ Relay!Check \/ Relay!Poll
    BY <1>6 DEF Relay!Spawn, Relay!ExecReady, Relay!Check, Relay!Poll, Relay!Goto,
       Relay!ToHost, Relay!Fail, RelayInv, RelayTyped, Relay!Over
  <1>7. CASE \/ Relay!WriteHost \/ Relay!ReadPayload \/ Relay!WritePty
    BY <1>7 DEF Relay!WriteHost, Relay!ReadPayload, Relay!WritePty, Relay!Goto,
       Relay!ToHost, Relay!Fail, Relay!Received, RelayInv, RelayTyped, Relay!Over
  <1>8. CASE \/ Relay!HangUp \/ Relay!Reap \/ Relay!DrainHost \/ Relay!SendExit
    BY <1>8 DEF Relay!HangUp, Relay!Reap, Relay!DrainHost, Relay!SendExit, Relay!Goto,
       Relay!ToHost, Relay!Fail, RelayInv, RelayTyped, Relay!Over
  <1>9. CASE Relay!ReadPty
    <2>1. text # <<>> /\ text' = Tail(text) => Head(text) \in Chunks
      BY TextTaken DEF RelayInv
    <2> QED BY <1>9, <2>1 DEF Relay!ReadPty, Relay!Goto, RelayInv, RelayTyped, Chunks
  <1>10. CASE Relay!ReadHeader
    <2>1. up # <<>> => Head(up)[1] \in Relay!Kind
      BY UpQueue DEF RelayInv, IsQueue, Parts
    <2> QED BY <1>10, <2>1 DEF Relay!ReadHeader, Relay!Goto, RelayInv, RelayTyped
  <1>11. CASE Relay!Drain
    <2>1. text # <<>> /\ text' = Tail(text) => Head(text) \in Chunks
      BY TextTaken DEF RelayInv
    <2>2. cut' \in BOOLEAN
      BY <1>11 DEF Relay!Drain, RelayInv, RelayTyped
    <2> QED BY <1>11, <2>1, <2>2 DEF Relay!Drain, Relay!Goto, RelayInv, RelayTyped, Chunks
  <1>12. CASE \/ Relay!Tick \/ Relay!ShellReads
    BY <1>12 DEF Relay!Tick, Relay!ShellReads, Relay!relayVars, RelayInv, RelayTyped
  <1>13. CASE \/ Relay!ShellWrites \/ Relay!ShellEnds
    BY <1>13 DEF Relay!ShellWrites, Relay!ShellEnds, Relay!relayVars, RelayInv,
       RelayTyped
  <1>14. CASE \/ Relay!JobStarts \/ Relay!JobWrites
    BY <1>14 DEF Relay!JobStarts, Relay!JobWrites, Relay!relayVars, RelayInv, RelayTyped
  <1>15. CASE \/ Relay!JobEnds \/ Relay!PowerCut
    BY <1>15 DEF Relay!JobEnds, Relay!PowerCut, Relay!Goto, Relay!relayVars, RelayInv,
       RelayTyped, Relay!Over
  <1>16. CASE UNCHANGED Relay!relayAll
    BY <1>16 DEF Relay!relayAll, Relay!relayVars, RelayInv, RelayTyped
  <1> QED
    BY <1>1, <1>2, <1>3, <1>4, <1>5, <1>6, <1>7, <1>8, <1>9, <1>10, <1>11, <1>12, <1>13,
       <1>14, <1>15, <1>16 DEF Relay!Next, Relay!HostNext, Relay!RelayNext, Relay!World,
       Relay!Writes

\* The types of the PTY and the processes in the guest.
LEMMA GuestTypedStep ==
    ASSUME RelayInv, [Relay!Next]_Relay!relayAll
    PROVE  GuestTyped'
  <1>1. CASE \/ Relay!Request \/ Relay!Ready \/ Relay!Receive \/ Relay!Printed
             \/ Relay!ReadFails \/ Relay!KillHost
    BY <1>1 DEF Relay!Request, Relay!Ready, Relay!Receive, Relay!Printed,
       Relay!ReadFails, Relay!KillHost, Relay!guest, RelayInv, GuestTyped
  <1>2. CASE \/ Relay!Type \/ Relay!Signal
    BY <1>2 DEF Relay!Type, Relay!Signal, Relay!guest, RelayInv, GuestTyped
  <1>3. ASSUME NEW w \in Relay!Writer, Relay!Lock(w) PROVE GuestTyped'
    BY <1>3 DEF Relay!Lock, Relay!guest, RelayInv, GuestTyped
  <1>4. ASSUME NEW w \in Relay!Writer, Relay!Write(w) PROVE GuestTyped'
    BY <1>4 DEF Relay!Write, Relay!guest, RelayInv, GuestTyped
  <1>5. CASE \/ Relay!Spawn \/ Relay!ExecReady \/ Relay!Check \/ Relay!Poll
             \/ Relay!WriteHost \/ Relay!ReadHeader \/ Relay!ReadPayload \/ Relay!HangUp
             \/ Relay!Reap \/ Relay!DrainHost \/ Relay!SendExit
    BY <1>5 DEF Relay!Spawn, Relay!ExecReady, Relay!Check, Relay!Poll, Relay!WriteHost,
       Relay!ReadHeader, Relay!ReadPayload, Relay!HangUp, Relay!Reap, Relay!DrainHost,
       Relay!SendExit, Relay!ToHost, Relay!Fail, Relay!guest, RelayInv, GuestTyped
  <1>6. CASE Relay!ReadPty
    <2>1. text # <<>> /\ text' = Tail(text) =>
            text' \in Seq(Chunks) /\ Len(text') <= PtySize
      BY TextTaken DEF RelayInv
    <2> QED BY <1>6, <2>1 DEF Relay!ReadPty, RelayInv, GuestTyped
  <1>7. CASE Relay!WritePty
    <2>1. hungUp' \in BOOLEAN
      BY <1>7 DEF Relay!WritePty, Relay!Fail, RelayInv, GuestTyped
    <2>2. keys' \in 0 .. PtySize
      BY <1>7, RelayAssumption DEF Relay!WritePty, RelayInv, GuestTyped
    <2> QED BY <1>7, <2>1, <2>2 DEF Relay!WritePty, RelayInv, GuestTyped
  <1>8. CASE Relay!Drain
    <2>1. text # <<>> /\ text' = Tail(text) =>
            text' \in Seq(Chunks) /\ Len(text') <= PtySize
      BY TextTaken DEF RelayInv
    <2> QED BY <1>8, <2>1 DEF Relay!Drain, RelayInv, GuestTyped
  <1>9. CASE \/ Relay!Tick \/ Relay!ShellReads
    BY <1>9, RelayAssumption DEF Relay!Tick, Relay!ShellReads, Relay!guest, RelayInv,
       GuestTyped
  <1>10. CASE \/ Relay!ShellWrites \/ Relay!ShellEnds
    BY <1>10, RelayAssumption DEF Relay!ShellWrites, Relay!ShellEnds, RelayInv,
       GuestTyped, Chunks
  <1>11. CASE Relay!JobStarts
    BY <1>11 DEF Relay!JobStarts, RelayInv, GuestTyped
  <1>12. CASE Relay!JobWrites
    BY <1>12, RelayAssumption DEF Relay!JobWrites, RelayInv, GuestTyped, Chunks
  <1>13. CASE Relay!JobEnds
    BY <1>13 DEF Relay!JobEnds, RelayInv, GuestTyped
  <1>14. CASE Relay!PowerCut
    <2>1. text' \in Seq(Chunks) /\ Len(text') <= PtySize /\ keys' \in 0 .. PtySize
      BY <1>14, RelayAssumption DEF Relay!PowerCut
    <2> QED BY <1>14, <2>1 DEF Relay!PowerCut, RelayInv, GuestTyped
  <1>15. CASE UNCHANGED Relay!relayAll
    BY <1>15 DEF Relay!relayAll, Relay!guest, RelayInv, GuestTyped
  <1> QED
    BY <1>1, <1>2, <1>3, <1>4, <1>5, <1>6, <1>7, <1>8, <1>9, <1>10, <1>11, <1>12, <1>13,
       <1>14, <1>15 DEF Relay!Next, Relay!HostNext, Relay!RelayNext, Relay!World,
       Relay!Writes

\* No step loses output of the shell, or lets the exit frame overtake it.
LEMMA OutputStep ==
    ASSUME RelayInv, [Relay!Next]_Relay!relayAll
    PROVE  OutputOK'
  <1>1. CASE \/ Relay!Request \/ Relay!Printed \/ Relay!ReadFails \/ Relay!KillHost
    BY <1>1 DEF Relay!Request, Relay!Printed, Relay!ReadFails,
       Relay!KillHost, Relay!guest, Relay!relayVars, RelayInv, OutputOK, Underway
  <1>2. CASE Relay!Ready
    <2>0. Number(text, "shell") \in Nat /\ Number(down, "shell") \in Nat
      BY DownQueue, TextQueue DEF RelayInv, Holds
    <2>1. down # <<>> /\ down' = Tail(down) /\ down[1] = "ready"
      BY <1>2 DEF Relay!Ready, RelayInv, AnswersOK
    <2>2. Number(down', "shell") = Number(down, "shell")
      BY <2>0, <2>1, FrameTaken DEF RelayInv
    <2> QED
      BY <1>2, <2>0, <2>2 DEF Relay!Ready, Relay!relayVars, Relay!guest, RelayInv,
         OutputOK, Underway
  <1>3. CASE Relay!Receive
    <2>0. Number(text, "shell") \in Nat /\ Number(down, "shell") \in Nat
      BY DownQueue, TextQueue DEF RelayInv, Holds
    <2>1. /\ Head(down) = down[1]
          /\ Number(down, "shell")
               = Number(down', "shell") + IF down[1] = "shell" THEN 1 ELSE 0
          /\ Number(down', "shell") \in Nat
      BY <1>3, FrameTaken DEF Relay!Receive, RelayInv
    <2>2. screen' = screen + IF down[1] = "shell" THEN 1 ELSE 0
      BY <1>3, <2>1 DEF Relay!Receive, RelayInv, HostTyped
    <2>3. screen' + Number(down', "shell") = screen + Number(down, "shell")
      BY <2>0, <2>1, <2>2 DEF RelayInv, HostTyped
    <2>4. text' = text /\ chunk' = chunk
      BY <1>3 DEF Relay!Receive, Relay!relayVars, Relay!guest
    <2>5. screen' + Underway' = screen + Underway
      BY <2>0, <2>1, <2>2, <2>3, <2>4 DEF Underway, RelayInv, HostTyped
    <2> QED
      BY <1>3, <2>4, <2>5 DEF Relay!Receive, Relay!relayVars, Relay!guest, RelayInv,
         OutputOK
  <1>4. CASE \/ Relay!Type \/ Relay!Signal
    BY <1>4 DEF Relay!Type, Relay!Signal, Relay!hostVars,
       Relay!relayVars, Relay!guest, RelayInv, OutputOK, Underway
  <1>5. ASSUME NEW w \in Relay!Writer, Relay!Lock(w) PROVE OutputOK'
    BY <1>5 DEF Relay!Lock, Relay!hostVars, Relay!relayVars,
       Relay!guest, RelayInv, OutputOK, Underway
  <1>6. ASSUME NEW w \in Relay!Writer, Relay!Write(w) PROVE OutputOK'
    BY <1>6 DEF Relay!Write, Relay!hostVars, Relay!relayVars,
       Relay!guest, RelayInv, OutputOK, Underway
  <1>7. CASE \/ Relay!Spawn \/ Relay!Check \/ Relay!Poll \/ Relay!ReadHeader
             \/ Relay!ReadPayload \/ Relay!WritePty \/ Relay!HangUp \/ Relay!Reap
    BY <1>7 DEF Relay!Spawn, Relay!Check, Relay!Poll,
       Relay!ReadHeader, Relay!ReadPayload, Relay!WritePty, Relay!HangUp, Relay!Reap,
       Relay!Goto, Relay!Received, Relay!Fail, Relay!hostVars, Relay!guest, RelayInv,
       OutputOK, Underway
  <1>8. CASE Relay!ExecReady
    <2>0. Number(text, "shell") \in Nat /\ Number(down, "shell") \in Nat
      BY DownQueue, TextQueue DEF RelayInv, Holds
    <2>1. chunk = "none" /\ "ready" \in Frames
      BY <1>8 DEF Relay!ExecReady, RelayInv, OutputOK, Frames
    <2>2. "ready" \in Frames /\ Relay!ToHost("ready", "check")
      BY <1>8, <2>1 DEF Relay!ExecReady
    <2>3. \/ /\ Relay!HostOpen /\ relay' = "check"
             /\ Number(down', "shell")
                  = Number(down, "shell") + IF "ready" = "shell" THEN 1 ELSE 0
          \/ ~Relay!HostOpen /\ relay' = "failed" /\ down' = down
      BY <2>2, FrameSent DEF RelayInv
    <2>4. /\ chunk' = "none" /\ text' = text /\ screen' = screen /\ wrote' = wrote
          /\ shell' = shell /\ cut' = cut
      BY <1>8, <2>1 DEF Relay!ExecReady, Relay!hostVars
    <2>5. screen \in Nat /\ wrote \in Nat
      BY DEF RelayInv, HostTyped, GuestTyped
    <2>6. relay = "ready" /\ relay' \in {"check", "failed"}
      BY <1>8, <2>3 DEF Relay!ExecReady
    <2>7. CASE chunk = "shell"
      BY <2>0, <2>1, <2>3, <2>4, <2>5, <2>6, <2>7
    <2>8. CASE chunk # "shell"
      BY <2>0, <2>1, <2>3, <2>4, <2>5, <2>6, <2>8 DEF RelayInv, OutputOK, Underway
    <2> QED BY <2>7, <2>8
  <1>9. CASE Relay!ReadPty
    <2>0. Number(text, "shell") \in Nat /\ Number(down, "shell") \in Nat
      BY DownQueue, TextQueue DEF RelayInv, Holds
    <2>1. /\ chunk = "none" /\ screen' = screen /\ wrote' = wrote
          /\ down' = down /\ shell' = shell
      BY <1>9 DEF Relay!ReadPty, Relay!hostVars, RelayInv, OutputOK
    <2>2. CASE "pty" \in seen /\ text # <<>>
      <3>1. text # <<>> /\ text' = Tail(text) /\ chunk' = Head(text)
        BY <1>9, <2>2 DEF Relay!ReadPty
      <3>2. /\ Head(text) \in Chunks /\ Number(text', "shell") \in Nat
            /\ Number(text, "shell")
                 = Number(text', "shell") + IF Head(text) = "shell" THEN 1 ELSE 0
        BY <3>1, TextTaken DEF RelayInv
      <3>3. Underway' = Underway
        BY <2>0, <2>1, <3>1, <3>2 DEF Underway
      <3>4. chunk' # "none"
        BY <3>1, <3>2 DEF Chunks
      <3> QED BY <1>9, <2>1, <2>2, <3>3, <3>4 DEF Relay!ReadPty, Relay!Goto, RelayInv,
                 OutputOK
    <2>3. CASE ~("pty" \in seen /\ text # <<>>)
      <3>1. text' = text /\ chunk' = chunk
        BY <1>9, <2>3 DEF Relay!ReadPty
      <3>2. text = <<>> => Number(text, "shell") = 0
        BY TextQueue DEF RelayInv, Holds
      <3> QED BY <1>9, <2>1, <2>3, <3>1, <3>2 DEF Relay!ReadPty, Relay!Goto, RelayInv,
                 OutputOK, Underway
    <2> QED BY <2>2, <2>3
  <1>10. CASE Relay!WriteHost
    <2>0. Number(text, "shell") \in Nat /\ Number(down, "shell") \in Nat
      BY DownQueue, TextQueue DEF RelayInv, Holds
    <2>1. chunk # "none" /\ chunk \in Frames
      BY <1>10 DEF Relay!WriteHost, RelayInv, RelayTyped, OutputOK, Frames
    <2>2. chunk \in Frames /\ Relay!ToHost(chunk, "read_host")
      BY <1>10, <2>1 DEF Relay!WriteHost
    <2>3. \/ /\ Relay!HostOpen /\ relay' = "read_host"
             /\ Number(down', "shell")
                  = Number(down, "shell") + IF chunk = "shell" THEN 1 ELSE 0
          \/ ~Relay!HostOpen /\ relay' = "failed" /\ down' = down
      BY <2>2, FrameSent DEF RelayInv
    <2>4. /\ chunk' = "none" /\ text' = text /\ screen' = screen /\ wrote' = wrote
          /\ shell' = shell /\ cut' = cut
      BY <1>10, <2>1 DEF Relay!WriteHost, Relay!hostVars
    <2>5. screen \in Nat /\ wrote \in Nat
      BY DEF RelayInv, HostTyped, GuestTyped
    <2>6. relay = "write_host" /\ relay' \in {"read_host", "failed"}
      BY <1>10, <2>3 DEF Relay!WriteHost
    <2>7. CASE chunk = "shell"
      BY <2>0, <2>1, <2>3, <2>4, <2>5, <2>6, <2>7 DEF RelayInv, OutputOK, Underway
    <2>8. CASE chunk # "shell"
      BY <2>0, <2>1, <2>3, <2>4, <2>5, <2>6, <2>8 DEF RelayInv, OutputOK, Underway
    <2> QED BY <2>7, <2>8
  <1>11. CASE Relay!Drain
    <2>0. Number(text, "shell") \in Nat /\ Number(down, "shell") \in Nat
      BY DownQueue, TextQueue DEF RelayInv, Holds
    <2>1. /\ chunk = "none" /\ screen' = screen /\ wrote' = wrote
          /\ down' = down /\ shell' = shell
      BY <1>11 DEF Relay!Drain, Relay!hostVars, RelayInv, OutputOK
    <2>2. CASE ~(deadline = "passed" \/ text = <<>>)
      <3>1. text # <<>> /\ text' = Tail(text) /\ chunk' = Head(text)
        BY <1>11, <2>2 DEF Relay!Drain
      <3>2. /\ Head(text) \in Chunks /\ Number(text', "shell") \in Nat
            /\ Number(text, "shell")
                 = Number(text', "shell") + IF Head(text) = "shell" THEN 1 ELSE 0
        BY <3>1, TextTaken DEF RelayInv
      <3>3. Underway' = Underway
        BY <2>0, <2>1, <3>1, <3>2 DEF Underway
      <3>4. chunk' # "none"
        BY <3>1, <3>2 DEF Chunks
      <3> QED BY <1>11, <2>1, <2>2, <3>3, <3>4 DEF Relay!Drain, Relay!Goto, RelayInv,
                 OutputOK
    <2>3. CASE ~(~(deadline = "passed" \/ text = <<>>))
      <3>1. text' = text /\ chunk' = chunk
        BY <1>11, <2>3 DEF Relay!Drain
      <3>2. text = <<>> => Number(text, "shell") = 0
        BY TextQueue DEF RelayInv, Holds
      <3> QED BY <1>11, <2>1, <2>3, <3>1, <3>2 DEF Relay!Drain, Relay!Goto, RelayInv,
                 OutputOK, Underway
    <2> QED BY <2>2, <2>3
  <1>12. CASE Relay!DrainHost
    <2>0. Number(text, "shell") \in Nat /\ Number(down, "shell") \in Nat
      BY DownQueue, TextQueue DEF RelayInv, Holds
    <2>1. chunk # "none" /\ chunk \in Frames
      BY <1>12 DEF Relay!DrainHost, RelayInv, RelayTyped, OutputOK, Frames
    <2>2. chunk \in Frames /\ Relay!ToHost(chunk, "drain")
      BY <1>12, <2>1 DEF Relay!DrainHost
    <2>3. \/ /\ Relay!HostOpen /\ relay' = "drain"
             /\ Number(down', "shell")
                  = Number(down, "shell") + IF chunk = "shell" THEN 1 ELSE 0
          \/ ~Relay!HostOpen /\ relay' = "failed" /\ down' = down
      BY <2>2, FrameSent DEF RelayInv
    <2>4. /\ chunk' = "none" /\ text' = text /\ screen' = screen /\ wrote' = wrote
          /\ shell' = shell /\ cut' = cut
      BY <1>12, <2>1 DEF Relay!DrainHost, Relay!hostVars
    <2>5. screen \in Nat /\ wrote \in Nat
      BY DEF RelayInv, HostTyped, GuestTyped
    <2>6. relay = "drain_host" /\ relay' \in {"drain", "failed"}
      BY <1>12, <2>3 DEF Relay!DrainHost
    <2>7. CASE chunk = "shell"
      BY <2>0, <2>1, <2>3, <2>4, <2>5, <2>6, <2>7 DEF RelayInv, OutputOK, Underway
    <2>8. CASE chunk # "shell"
      BY <2>0, <2>1, <2>3, <2>4, <2>5, <2>6, <2>8 DEF RelayInv, OutputOK, Underway
    <2> QED BY <2>7, <2>8
  <1>13. CASE Relay!SendExit
    <2>0. Number(text, "shell") \in Nat /\ Number(down, "shell") \in Nat
      BY DownQueue, TextQueue DEF RelayInv, Holds
    <2>1. chunk = "none" /\ "exit" \in Frames
      BY <1>13 DEF Relay!SendExit, RelayInv, OutputOK, Frames
    <2>2. "exit" \in Frames /\ Relay!ToHost("exit", "done")
      BY <1>13, <2>1 DEF Relay!SendExit
    <2>3. \/ /\ Relay!HostOpen /\ relay' = "done"
             /\ Number(down', "shell")
                  = Number(down, "shell") + IF "exit" = "shell" THEN 1 ELSE 0
          \/ ~Relay!HostOpen /\ relay' = "failed" /\ down' = down
      BY <2>2, FrameSent DEF RelayInv
    <2>4. /\ chunk' = "none" /\ text' = text /\ screen' = screen /\ wrote' = wrote
          /\ shell' = shell /\ cut' = cut
      BY <1>13, <2>1 DEF Relay!SendExit, Relay!hostVars
    <2>5. screen \in Nat /\ wrote \in Nat
      BY DEF RelayInv, HostTyped, GuestTyped
    <2>6. relay = "exit" /\ relay' \in {"done", "failed"}
      BY <1>13, <2>3 DEF Relay!SendExit
    <2>7. CASE chunk = "shell"
      BY <2>0, <2>1, <2>3, <2>4, <2>5, <2>6, <2>7
    <2>8. CASE chunk # "shell"
      BY <2>0, <2>1, <2>3, <2>4, <2>5, <2>6, <2>8 DEF RelayInv, OutputOK, Underway
    <2> QED BY <2>7, <2>8
  <1>14. CASE \/ Relay!Tick \/ Relay!ShellReads \/ Relay!ShellEnds \/ Relay!JobStarts
              \/ Relay!JobEnds
    BY <1>14 DEF Relay!Tick, Relay!ShellReads, Relay!ShellEnds,
       Relay!JobStarts, Relay!JobEnds, Relay!hostVars, Relay!guest, Relay!relayVars,
       RelayInv, OutputOK, Underway
  <1>15. CASE Relay!ShellWrites
    <2>0. Number(text, "shell") \in Nat /\ Number(down, "shell") \in Nat
      BY DownQueue, TextQueue DEF RelayInv, Holds
    <2>1. Number(text', "shell")
            = Number(text, "shell") + IF "shell" = "shell" THEN 1 ELSE 0
      <3>1. "shell" \in Chunks /\ Len(text) < PtySize /\ text' = Append(text, "shell")
        BY <1>15 DEF Relay!ShellWrites, Chunks
      <3> QED BY <3>1, TextAdded DEF RelayInv
    <2>2. /\ wrote' = wrote + IF "shell" = "shell" THEN 1 ELSE 0
          /\ screen' = screen /\ chunk' = chunk /\ down' = down /\ relay' = relay
          /\ shell' = shell /\ cut' = cut /\ relay \notin {"failed", "dead", "done"}
      BY <1>15 DEF Relay!ShellWrites, Relay!hostVars, Relay!relayVars, Relay!GuestOpen
    <2>3. screen \in Nat /\ wrote \in Nat
      BY DEF RelayInv, HostTyped, GuestTyped
    <2>4. relay = "exit" => FALSE
      BY <1>15 DEF Relay!ShellWrites, RelayInv, OutputOK
    <2> QED BY <2>0, <2>1, <2>2, <2>3, <2>4 DEF RelayInv, OutputOK, Underway
  <1>16. CASE Relay!JobWrites
    <2>0. Number(text, "shell") \in Nat /\ Number(down, "shell") \in Nat
      BY DownQueue, TextQueue DEF RelayInv, Holds
    <2>1. Number(text', "shell") = Number(text, "shell") + IF "job" = "shell" THEN 1 ELSE 0
      <3>1. "job" \in Chunks /\ Len(text) < PtySize /\ text' = Append(text, "job")
        BY <1>16 DEF Relay!JobWrites, Chunks
      <3> QED BY <3>1, TextAdded DEF RelayInv
    <2>2. /\ wrote' = wrote + IF "job" = "shell" THEN 1 ELSE 0
          /\ screen' = screen /\ chunk' = chunk /\ down' = down /\ relay' = relay
          /\ shell' = shell /\ cut' = cut /\ relay \notin {"failed", "dead", "done"}
      BY <1>16 DEF Relay!JobWrites, Relay!hostVars, Relay!relayVars, RelayInv,
         GuestTyped, Relay!GuestOpen
    <2>3. screen \in Nat /\ wrote \in Nat
      BY DEF RelayInv, HostTyped, GuestTyped
    <2>4. relay = "exit" => TRUE
      BY <1>16
    <2> QED BY <2>0, <2>1, <2>2, <2>3, <2>4 DEF RelayInv, OutputOK, Underway
  <1>17. CASE Relay!PowerCut
    <2>0. Number(text, "shell") \in Nat /\ Number(down, "shell") \in Nat
      BY DownQueue, TextQueue DEF RelayInv, Holds
    <2>1. Number(text', "shell") = 0
      BY <1>17, NumberEmpty DEF Relay!PowerCut
    <2> QED
      BY <1>17, <2>0, <2>1 DEF Relay!PowerCut, Relay!Goto, Relay!hostVars, RelayInv,
         HostTyped, GuestTyped, OutputOK, Underway
  <1>18. CASE UNCHANGED Relay!relayAll
    BY <1>18 DEF Relay!relayAll, Relay!hostVars, Relay!relayVars,
       Relay!guest, RelayInv, OutputOK, Underway
  <1> QED
    BY <1>1, <1>2, <1>3, <1>4, <1>5, <1>6, <1>7, <1>8, <1>9, <1>10, <1>11, <1>12, <1>13,
       <1>14, <1>15, <1>16, <1>17, <1>18 DEF Relay!Next, Relay!HostNext,
       Relay!RelayNext, Relay!World, Relay!Writes

\* ExecReady stays the first frame to the host, and the exit status the last one.
LEMMA AnswersStep ==
    ASSUME RelayInv, [Relay!Next]_Relay!relayAll
    PROVE  AnswersOK'
  <1>1. CASE \/ Relay!Request \/ Relay!Printed \/ Relay!ReadFails \/ Relay!KillHost
    BY <1>1 DEF Relay!Request, Relay!Printed, Relay!ReadFails, Relay!KillHost,
       Relay!Return, Relay!relayVars, RelayInv, AnswersOK, Relay!HostOpen
  <1>2. CASE Relay!Ready
    <2>1. /\ down # <<>> /\ down' = Tail(down)
          /\ Len(down) \in Nat \ {0} /\ Len(down') = Len(down) - 1
          /\ (down' = <<>> <=> Len(down) = 1)
          /\ \A i \in 1 .. Len(down) - 1 : down'[i] = down[i + 1]
      BY <1>2, FrameTaken DEF Relay!Ready, RelayInv
    <2>2. /\ relay' = relay /\ host = "answer" /\ host' = "loop"
          /\ returned' = returned /\ AnswersOK
      BY <1>2 DEF Relay!Ready, Relay!relayVars, RelayInv
    <2>3. down[1] = "ready"
      BY <2>1, <2>2 DEF AnswersOK
    <2>5. relay' \notin {"none", "spawn", "ready", "refused"} /\ returned' # "status"
      BY <2>1, <2>2 DEF AnswersOK
    <2>6. ASSUME NEW i \in 1 .. Len(down'), down'[i] = "exit"
          PROVE  i = Len(down') /\ relay' = "done"
      <3>1. i + 1 \in 1 .. Len(down) /\ down[i + 1] = "exit"
        BY <2>1, <2>6
      <3>2. i + 1 = Len(down) /\ relay = "done"
        BY <2>2, <3>1 DEF AnswersOK
      <3>3. Len(down) \in Nat /\ Len(down') = Len(down) - 1
        BY <2>1
      <3>4. i = Len(down')
        BY <3>2, <3>3, <2>6
      <3> QED BY <2>2, <3>2, <3>4
    <2>7. ASSUME relay' = "done" PROVE down' # <<>> /\ down'[Len(down')] = "exit"
      <3>1. down[Len(down)] = "exit"
        BY <2>2, <2>7 DEF AnswersOK, Relay!HostOpen
      <3>2. Len(down) # 1 /\ Len(down') \in 1 .. Len(down) - 1
        BY <2>1, <2>3, <3>1
      <3> QED BY <2>1, <3>1, <3>2
    <2> QED BY <2>2, <2>5, <2>6, <2>7 DEF AnswersOK
  <1>3. CASE Relay!Receive
    <2>1. /\ down # <<>> /\ Head(down) = down[1]
          /\ Len(down) \in Nat \ {0} /\ Len(down') = Len(down) - 1
          /\ (down' = <<>> <=> Len(down) = 1)
          /\ \A i \in 1 .. Len(down) - 1 : down'[i] = down[i + 1]
      BY <1>3, FrameTaken DEF Relay!Receive, RelayInv
    <2>2. relay' = relay /\ host = "loop" /\ AnswersOK
      BY <1>3 DEF Relay!Receive, Relay!relayVars, RelayInv
    <2>3. CASE down[1] = "exit"
      <3>1. 1 = Len(down) /\ relay = "done"
        BY <2>1, <2>2, <2>3 DEF AnswersOK
      <3>2. host' = "over" /\ down' = <<>> /\ Len(down') = 0
        BY <1>3, <2>1, <2>3, <3>1 DEF Relay!Receive, Relay!Return
      <3> QED BY <2>2, <3>1, <3>2 DEF AnswersOK, Relay!HostOpen
    <2>4. CASE down[1] # "exit"
      <3>1. /\ host' = "print" /\ returned' # "status"
            /\ relay' \notin {"none", "spawn", "ready", "refused"}
        BY <1>3, <2>1, <2>2, <2>4 DEF Relay!Receive, AnswersOK
      <3>2. ASSUME NEW i \in 1 .. Len(down'), down'[i] = "exit"
            PROVE  i = Len(down') /\ relay' = "done"
        <4>1. i + 1 \in 1 .. Len(down) /\ down[i + 1] = "exit"
          BY <2>1, <3>2
        <4>2. i + 1 = Len(down) /\ relay = "done"
          BY <2>2, <4>1 DEF AnswersOK
        <4> QED BY <2>1, <2>2, <4>2
      <3>3. ASSUME relay' = "done" PROVE down' # <<>> /\ down'[Len(down')] = "exit"
        <4>1. down[Len(down)] = "exit"
          BY <2>2, <3>3 DEF AnswersOK, Relay!HostOpen
        <4>2. Len(down) # 1 /\ Len(down') \in 1 .. Len(down) - 1
          BY <2>1, <2>4, <4>1
        <4> QED BY <2>1, <4>1, <4>2
      <3> QED BY <3>1, <3>2, <3>3 DEF AnswersOK
    <2> QED BY <2>3, <2>4
  <1>4. CASE \/ Relay!Type \/ Relay!Signal
    BY <1>4 DEF Relay!Type, Relay!Signal, Relay!hostVars, Relay!relayVars,
       RelayInv, AnswersOK, Relay!HostOpen
  <1>5. ASSUME NEW w \in Relay!Writer, Relay!Lock(w) PROVE AnswersOK'
    BY <1>5 DEF Relay!Lock, Relay!hostVars, Relay!relayVars, RelayInv,
       AnswersOK, Relay!HostOpen
  <1>6. ASSUME NEW w \in Relay!Writer, Relay!Write(w) PROVE AnswersOK'
    BY <1>6 DEF Relay!Write, Relay!hostVars, Relay!relayVars, RelayInv,
       AnswersOK, Relay!HostOpen
  <1>7. CASE \/ Relay!Spawn \/ Relay!ExecReady \/ Relay!Check \/ Relay!Poll
             \/ Relay!ReadPty \/ Relay!ReadHeader \/ Relay!ReadPayload \/ Relay!WritePty
             \/ Relay!HangUp \/ Relay!Reap \/ Relay!Drain
    BY <1>7 DEF Relay!Spawn, Relay!ExecReady, Relay!Check, Relay!Poll,
       Relay!ReadPty, Relay!ReadHeader, Relay!ReadPayload, Relay!WritePty, Relay!HangUp,
       Relay!Reap, Relay!Drain, Relay!Goto, Relay!ToHost, Relay!Fail, Relay!Received,
       Relay!hostVars, RelayInv, AnswersOK, Relay!HostOpen
  <1>8. CASE Relay!WriteHost
    <2>1. chunk \in Frames /\ chunk # "exit"
      BY <1>8 DEF Relay!WriteHost, RelayInv, RelayTyped, OutputOK, Frames
    <2>2. \/ /\ Relay!HostOpen /\ relay' = "read_host"
             /\ down' # <<>> /\ Len(down') = Len(down) + 1 /\ down'[Len(down')] = chunk
             /\ down'[1] = IF down = <<>> THEN chunk ELSE down[1]
             /\ \A i \in 1 .. Len(down) : down'[i] = down[i]
          \/ ~Relay!HostOpen /\ relay' = "failed" /\ down' = down
      BY <1>8, <2>1, FrameSent DEF Relay!WriteHost, RelayInv
    <2>3. /\ host' = host /\ returned' = returned /\ Len(down) \in Nat
          /\ relay \notin {"none", "spawn", "ready", "refused", "dead", "done"}
      BY <1>8 DEF Relay!WriteHost, Relay!hostVars
    <2> QED BY <2>1, <2>2, <2>3 DEF RelayInv, AnswersOK
  <1>9. CASE Relay!DrainHost
    <2>1. chunk \in Frames /\ chunk # "exit"
      BY <1>9 DEF Relay!DrainHost, RelayInv, RelayTyped, OutputOK, Frames
    <2>2. \/ /\ Relay!HostOpen /\ relay' = "drain"
             /\ down' # <<>> /\ Len(down') = Len(down) + 1 /\ down'[Len(down')] = chunk
             /\ down'[1] = IF down = <<>> THEN chunk ELSE down[1]
             /\ \A i \in 1 .. Len(down) : down'[i] = down[i]
          \/ ~Relay!HostOpen /\ relay' = "failed" /\ down' = down
      BY <1>9, <2>1, FrameSent DEF Relay!DrainHost, RelayInv
    <2>3. /\ host' = host /\ returned' = returned /\ Len(down) \in Nat
          /\ relay \notin {"none", "spawn", "ready", "refused", "dead", "done"}
      BY <1>9 DEF Relay!DrainHost, Relay!hostVars
    <2> QED BY <2>1, <2>2, <2>3 DEF RelayInv, AnswersOK
  <1>10. CASE Relay!SendExit
    <2>1. "exit" \in Frames
      BY <1>10 DEF Frames
    <2>2. \/ /\ Relay!HostOpen /\ relay' = "done"
             /\ down' # <<>> /\ Len(down') = Len(down) + 1 /\ down'[Len(down')] = "exit"
             /\ down'[1] = IF down = <<>> THEN "exit" ELSE down[1]
             /\ \A i \in 1 .. Len(down) : down'[i] = down[i]
          \/ ~Relay!HostOpen /\ relay' = "failed" /\ down' = down
      BY <1>10, <2>1, FrameSent DEF Relay!SendExit, RelayInv
    <2>3. /\ host' = host /\ returned' = returned /\ Len(down) \in Nat
          /\ relay \notin {"none", "spawn", "ready", "refused", "dead", "done"}
      BY <1>10 DEF Relay!SendExit, Relay!hostVars
    <2> QED BY <2>1, <2>2, <2>3 DEF RelayInv, AnswersOK
  <1>11. CASE \/ Relay!Tick \/ Relay!ShellReads \/ Relay!ShellWrites \/ Relay!ShellEnds
              \/ Relay!JobStarts \/ Relay!JobWrites \/ Relay!JobEnds \/ Relay!PowerCut
    BY <1>11 DEF Relay!Tick, Relay!ShellReads, Relay!ShellWrites, Relay!ShellEnds,
       Relay!JobStarts, Relay!JobWrites, Relay!JobEnds, Relay!PowerCut, Relay!Goto,
       Relay!hostVars, Relay!relayVars, RelayInv, AnswersOK, Relay!GuestOpen,
       Relay!HostOpen
  <1>12. CASE UNCHANGED Relay!relayAll
    BY <1>12 DEF Relay!relayAll, Relay!hostVars, Relay!relayVars, RelayInv,
       AnswersOK, Relay!HostOpen
  <1> QED
    BY <1>1, <1>2, <1>3, <1>4, <1>5, <1>6, <1>7, <1>8, <1>9, <1>10, <1>11, <1>12
       DEF Relay!Next, Relay!HostNext, Relay!RelayNext, Relay!World, Relay!Writes

\* A thread that waits for the mutex has something to send.
LEMMA ThreadsStep ==
    ASSUME RelayInv, [Relay!Next]_Relay!relayAll
    PROVE  ThreadsOK'
  <1>1. CASE \/ Relay!Request \/ Relay!Ready \/ Relay!Receive \/ Relay!Printed
             \/ Relay!ReadFails \/ Relay!KillHost
    BY <1>1 DEF Relay!Request, Relay!Ready, Relay!Receive, Relay!Printed,
       Relay!ReadFails, Relay!KillHost, Relay!Return, Relay!writers, RelayInv, ThreadsOK
  <1>2. CASE \/ Relay!Type \/ Relay!Signal
    BY <1>2 DEF Relay!Type, Relay!Signal, Relay!Step, Relay!hostVars, RelayInv,
       HostTyped, ThreadsOK
  <1>3. ASSUME NEW w \in Relay!Writer, Relay!Lock(w) PROVE ThreadsOK'
    BY <1>3 DEF Relay!Lock, Relay!Step, Relay!hostVars, RelayInv, ThreadsOK
  <1>4. ASSUME NEW w \in Relay!Writer, Relay!Write(w) PROVE ThreadsOK'
    BY <1>4 DEF Relay!Write, Relay!Step, Relay!Sent, Relay!hostVars, RelayInv,
       HostTyped, ThreadsOK
  <1>5. CASE \/ Relay!Spawn \/ Relay!ExecReady \/ Relay!Check \/ Relay!Poll
             \/ Relay!ReadPty \/ Relay!WriteHost \/ Relay!ReadHeader
             \/ Relay!ReadPayload \/ Relay!WritePty \/ Relay!HangUp \/ Relay!Reap
             \/ Relay!Drain \/ Relay!DrainHost \/ Relay!SendExit
    BY <1>5 DEF Relay!Spawn, Relay!ExecReady, Relay!Check, Relay!Poll, Relay!ReadPty,
       Relay!WriteHost, Relay!ReadHeader, Relay!ReadPayload, Relay!WritePty,
       Relay!HangUp, Relay!Reap, Relay!Drain, Relay!DrainHost, Relay!SendExit,
       Relay!hostVars, Relay!writers, RelayInv, ThreadsOK
  <1>6. CASE \/ Relay!Tick \/ Relay!ShellReads \/ Relay!ShellWrites \/ Relay!ShellEnds
             \/ Relay!JobStarts \/ Relay!JobWrites \/ Relay!JobEnds \/ Relay!PowerCut
    BY <1>6 DEF Relay!Tick, Relay!ShellReads, Relay!ShellWrites, Relay!ShellEnds,
       Relay!JobStarts, Relay!JobWrites, Relay!JobEnds, Relay!PowerCut, Relay!hostVars,
       Relay!writers, RelayInv, ThreadsOK
  <1>7. CASE UNCHANGED Relay!relayAll
    BY <1>7 DEF Relay!relayAll, Relay!hostVars, Relay!writers, RelayInv, ThreadsOK
  <1> QED
    BY <1>1, <1>2, <1>3, <1>4, <1>5, <1>6, <1>7 DEF Relay!Next, Relay!HostNext,
       Relay!RelayNext, Relay!World, Relay!Writes

\* A part of a frame is read by the relay: what is left is in order.
LEMMA PartTaken ==
    ASSUME StreamsTyped, up # <<>>, up' = Tail(up)
    PROVE  /\ Len(up) \in Nat \ {0} /\ Len(up') = Len(up) - 1
           /\ (up' = <<>> <=> Len(up) = 1)
           /\ Head(up) = up[1] /\ up[1] \in Parts
           /\ \A i \in 1 .. Len(up) - 1 : up'[i] = up[i + 1]
  <1>1. IsQueue(up, Parts)
    BY UpQueue
  <1>2. Len(up) # 0
    BY <1>1
  <1> QED BY <1>1, <1>2 DEF IsQueue

\* What is left of the stream is still framed.
LEMMA FramesLeft ==
    ASSUME StreamsTyped, FramesOK, up # <<>>, up' = Tail(up), UNCHANGED <<thread, sending>>
    PROVE  FramesOK'
  <1>1. /\ Len(up) \in Nat \ {0} /\ Len(up') = Len(up) - 1
        /\ \A i \in 1 .. Len(up) - 1 : up'[i] = up[i + 1]
    BY PartTaken
  <1>2. ASSUME NEW i \in 1 .. Len(up')
        PROVE  /\ i + 1 \in 1 .. Len(up) /\ up'[i] = up[i + 1] /\ i \in Nat
               /\ i < Len(up') => i + 1 < Len(up) /\ up'[i + 1] = up[(i + 1) + 1]
               /\ i = Len(up') => i + 1 = Len(up)
    <2>1. i \in Nat /\ i \in 1 .. Len(up) - 1
      BY <1>1, <1>2
    <2>2. up'[i] = up[i + 1]
      BY <1>1, <2>1
    <2>3. i < Len(up') => i + 1 < Len(up) /\ up'[i + 1] = up[(i + 1) + 1]
      <3>1. i < Len(up') => i + 1 \in 1 .. Len(up) - 1
        BY <1>1, <2>1
      <3> QED BY <1>1, <3>1
    <2>4. i + 1 \in 1 .. Len(up) /\ (i = Len(up') => i + 1 = Len(up))
      <3>1. Len(up) \in Nat /\ Len(up') = Len(up) - 1
        BY <1>1
      <3> QED BY ONLY <2>1, <3>1
    <2> QED BY <2>1, <2>2, <2>3, <2>4
  <1>3. ASSUME NEW i \in 1 .. Len(up'), up'[i][2] = "header"
        PROVE  /\ i < Len(up') => up'[i + 1] = <<up'[i][1], "payload">>
               /\ i = Len(up') => Begun(up[i][1])'
    <2>1. up[i + 1][2] = "header"
      BY <1>2, <1>3
    <2>2. /\ i + 1 < Len(up) => up[(i + 1) + 1] = <<up[i + 1][1], "payload">>
          /\ i + 1 = Len(up) => Begun(up[i + 1][1])
      BY <1>2, <2>1 DEF FramesOK
    <2> QED BY <1>2, <2>2 DEF Begun
  <1>4. ASSUME NEW i \in 1 .. Len(up'), up'[i][2] = "payload"
        PROVE  /\ i < Len(up') => up'[i + 1][2] = "header"
               /\ i = Len(up') => NoneBegun'
    <2>1. up[i + 1][2] = "payload"
      BY <1>2, <1>4
    <2>2. /\ i + 1 < Len(up) => up[(i + 1) + 1][2] = "header"
          /\ i + 1 = Len(up) => NoneBegun
      BY <1>2, <2>1 DEF FramesOK
    <2> QED BY <1>2, <2>2 DEF NoneBegun
  <1> QED BY <1>3, <1>4 DEF FramesOK

\* A part is written by a thread: then the other thread is not writing.
LEMMA PartAdded ==
    ASSUME StreamsTyped, NEW e \in Parts, up' = Append(up, e)
    PROVE  /\ Len(up) \in Nat /\ (up = <<>> <=> Len(up) = 0)
           /\ up' # <<>> /\ Len(up') = Len(up) + 1 /\ up'[Len(up) + 1] = e
           /\ \A i \in 1 .. Len(up) : up'[i] = up[i]
  BY UpQueue

\* The mutex: no other thread is in the middle of a frame.
LEMMA OneWriter ==
    ASSUME HostTyped, NEW w \in Relay!Writer, thread[w] \in {"header", "payload"}
    PROVE  \A v \in Relay!Writer : v # w => thread[v] \notin {"header", "payload"}
  BY DEF HostTyped

\* A header is written where no payload is due.
LEMMA HeaderAdded ==
    ASSUME RelayInv, FramesOK, ReadingOK, NEW w \in Relay!Writer, thread[w] = "header",
           up' = Append(up, <<sending[w], "header">>), sending' = sending,
           thread' = [thread EXCEPT ![w] = "payload"],
           relay' = relay, frame' = frame, seen' = seen
    PROVE  FramesOK' /\ ReadingOK'
  <1>1. NoneBegun /\ (\A kind : ~Begun(kind))
    BY OneWriter DEF RelayInv, Begun, NoneBegun
  <1>2. Begun(sending[w])' /\ <<sending[w], "header">> \in Parts
    BY DEF Begun, Parts, RelayInv, HostTyped, ThreadsOK
  <1>3. /\ Len(up) \in Nat /\ (up = <<>> <=> Len(up) = 0)
        /\ up' # <<>> /\ Len(up') = Len(up) + 1
        /\ up'[Len(up) + 1] = <<sending[w], "header">>
        /\ \A i \in 1 .. Len(up) : up'[i] = up[i]
    BY <1>2, PartAdded
  <1>4. \A i \in 1 .. Len(up) : i = Len(up) => up[i][2] # "header"
    BY <1>1 DEF FramesOK
  <1>5. ASSUME NEW i \in 1 .. Len(up'), up'[i][2] = "header"
        PROVE  /\ i < Len(up') => up'[i + 1] = <<up'[i][1], "payload">>
               /\ i = Len(up') => Begun(up[i][1])'
    <2>1. CASE i \in 1 .. Len(up)
      <3>1. up'[i] = up[i] /\ i # Len(up)
        BY <1>3, <1>4, <1>5, <2>1
      <3>2. i < Len(up) /\ i + 1 \in 1 .. Len(up) /\ i # Len(up')
        BY <1>3, <2>1, <3>1
      <3>3. up[i + 1] = <<up[i][1], "payload">>
        BY <1>5, <2>1, <3>1, <3>2 DEF FramesOK
      <3> QED BY <1>3, <3>1, <3>2, <3>3
    <2>2. CASE i = Len(up) + 1
      BY <1>2, <1>3, <2>2
    <2> QED BY <1>3, <2>1, <2>2
  <1>6. ASSUME NEW i \in 1 .. Len(up'), up'[i][2] = "payload"
        PROVE  /\ i < Len(up') => up'[i + 1][2] = "header"
               /\ i = Len(up') => NoneBegun'
    <2>1. i \in 1 .. Len(up) /\ i # Len(up')
      BY <1>3, <1>6
    <2>2. CASE i = Len(up)
      BY <1>3, <2>1, <2>2
    <2>3. CASE i # Len(up)
      <3>1. i < Len(up) /\ i + 1 \in 1 .. Len(up)
        BY <1>3, <2>1, <2>3
      <3>2. up[i + 1][2] = "header"
        BY <1>3, <1>6, <2>1, <3>1 DEF FramesOK
      <3> QED BY <1>3, <2>1, <3>1, <3>2
    <2> QED BY <2>2, <2>3
  <1>7. up = <<>> => up'[1] = <<sending[w], "header">>
    BY <1>3
  <1>8. up # <<>> => up'[1] = up[1]
    <2>1. up # <<>> => 1 \in 1 .. Len(up)
      BY <1>3
    <2> QED BY <1>3, <2>1
  <1>9. ReadingOK'
    BY <1>1, <1>3, <1>7, <1>8 DEF ReadingOK
  <1> QED BY <1>5, <1>6, <1>9 DEF FramesOK

\* A payload is written after its own header.
LEMMA PayloadAdded ==
    ASSUME RelayInv, FramesOK, ReadingOK, NEW w \in Relay!Writer, thread[w] = "payload",
           up' = Append(up, <<sending[w], "payload">>),
           thread' = [thread EXCEPT ![w] = "read"],
           relay' = relay, frame' = frame, seen' = seen
    PROVE  FramesOK' /\ ReadingOK'
  <1>1. ~NoneBegun /\ (\A kind : Begun(kind) => kind = sending[w])
    BY OneWriter DEF RelayInv, Begun, NoneBegun
  <1>2. NoneBegun'
    BY OneWriter DEF NoneBegun, RelayInv, HostTyped
  <1>10. <<sending[w], "payload">> \in Parts
    BY DEF Parts, RelayInv, HostTyped, ThreadsOK
  <1>3. /\ Len(up) \in Nat /\ (up = <<>> <=> Len(up) = 0)
        /\ up' # <<>> /\ Len(up') = Len(up) + 1
        /\ up'[Len(up) + 1] = <<sending[w], "payload">>
        /\ \A i \in 1 .. Len(up) : up'[i] = up[i]
    BY <1>10, PartAdded
  <1>4. \A i \in 1 .. Len(up) : i = Len(up) => up[i][2] # "payload"
    BY <1>1 DEF FramesOK
  <1>5. ASSUME NEW i \in 1 .. Len(up'), up'[i][2] = "header"
        PROVE  /\ i < Len(up') => up'[i + 1] = <<up'[i][1], "payload">>
               /\ i = Len(up') => Begun(up[i][1])'
    <2>1. i \in 1 .. Len(up) /\ i # Len(up') /\ up'[i] = up[i]
      BY <1>3, <1>5
    <2>2. CASE i = Len(up)
      <3>1. up[i][1] = sending[w]
        BY <1>1, <1>5, <2>1, <2>2 DEF FramesOK
      <3> QED BY <1>3, <2>1, <2>2, <3>1
    <2>3. CASE i # Len(up)
      <3>1. i < Len(up) /\ i + 1 \in 1 .. Len(up)
        BY <1>3, <2>1, <2>3
      <3>2. up[i + 1] = <<up[i][1], "payload">>
        BY <1>5, <2>1, <3>1 DEF FramesOK
      <3> QED BY <1>3, <2>1, <3>1, <3>2
    <2> QED BY <2>2, <2>3
  <1>6. ASSUME NEW i \in 1 .. Len(up'), up'[i][2] = "payload"
        PROVE  i < Len(up') => up'[i + 1][2] = "header"
    <2>1. CASE i \in 1 .. Len(up)
      <3>1. up'[i] = up[i] /\ i # Len(up)
        BY <1>3, <1>4, <1>6, <2>1
      <3>2. i < Len(up) /\ i + 1 \in 1 .. Len(up)
        BY <1>3, <2>1, <3>1
      <3>3. up[i + 1][2] = "header"
        BY <1>6, <2>1, <3>1, <3>2 DEF FramesOK
      <3> QED BY <1>3, <3>2, <3>3
    <2>2. CASE i = Len(up) + 1
      BY <1>3, <2>2
    <2> QED BY <1>3, <2>1, <2>2
  <1>7. up = <<>> => up'[1] = <<sending[w], "payload">>
    BY <1>3
  <1>8. up # <<>> => up'[1] = up[1]
    <2>1. up # <<>> => 1 \in 1 .. Len(up)
      BY <1>3
    <2> QED BY <1>3, <2>1
  <1>9. ReadingOK'
    BY <1>1, <1>3, <1>7, <1>8 DEF ReadingOK
  <1> QED BY <1>2, <1>5, <1>6, <1>9 DEF FramesOK

\* A step of the world or of the host that leaves the stream and the relay alone,
\* and no header without its payload where there was none.
LEMMA RelayUntouched ==
    ASSUME RelayOK, UNCHANGED <<up, relay, seen, frame>>,
           Relay!HostOpen' =>
             /\ Relay!HostOpen
             /\ \A w \in Relay!Writer :
                  /\ (thread'[w] = "payload") <=> (thread[w] = "payload")
                  /\ thread[w] = "payload" => sending'[w] = sending[w],
           Relay!GuestOpen \/ (Relay!SlaveOpen' => Relay!SlaveOpen)
    PROVE  RelayOK'
  <1>1. Relay!GuestOpen' <=> Relay!GuestOpen
    BY DEF Relay!GuestOpen
  <1>2. ASSUME Relay!HostOpen'
        PROVE  (NoneBegun' <=> NoneBegun) /\ \A k : Begun(k)' <=> Begun(k)
    BY <1>2 DEF NoneBegun, Begun
  <1>3. ASSUME Relay!HostOpen', Relay!GuestOpen' PROVE FramesOK'
    BY <1>1, <1>2, <1>3 DEF RelayOK, FramesOK
  <1>4. ASSUME Relay!HostOpen', Relay!GuestOpen' PROVE ReadingOK'
    BY <1>1, <1>2, <1>4 DEF RelayOK, ReadingOK
  <1>5. ASSUME Relay!HostOpen', relay' = "failed"
        PROVE  frame' = "stdin" /\ ~Relay!SlaveOpen'
    BY <1>5 DEF RelayOK, Relay!GuestOpen
  <1> QED BY <1>3, <1>4, <1>5 DEF RelayOK

\* What the two threads write is read as they wrote it, whatever comes between.
LEMMA RelayStep ==
    ASSUME RelayInv, [Relay!Next]_Relay!relayAll
    PROVE  RelayOK'
  <1>1. CASE Relay!Request
    BY <1>1 DEF Relay!Request, Relay!writers, RelayInv, RelayOK, FramesOK, ReadingOK,
       Begun, NoneBegun, Relay!HostOpen, Relay!GuestOpen
  <1>2. CASE Relay!Ready
    <2>1. \A w \in Relay!Writer : thread[w] # "payload" /\ thread'[w] # "payload"
      BY <1>2 DEF Relay!Ready, RelayInv, ThreadsOK
    <2> QED
      BY <1>2, <2>1, RelayUntouched DEF Relay!Ready, Relay!relayVars, Relay!guest,
         RelayInv, Relay!HostOpen, Relay!SlaveOpen
  <1>3. CASE \/ Relay!Receive \/ Relay!Printed
    BY <1>3, RelayUntouched DEF Relay!Receive, Relay!Printed, Relay!Return,
       Relay!writers, Relay!relayVars, Relay!guest, RelayInv, Relay!HostOpen,
       Relay!SlaveOpen
  <1>4. CASE \/ Relay!ReadFails \/ Relay!KillHost
    BY <1>4, RelayUntouched DEF Relay!ReadFails, Relay!KillHost, Relay!Return,
       Relay!relayVars, Relay!guest, RelayInv, Relay!HostOpen, Relay!SlaveOpen
  <1>5. CASE Relay!Type
    <2>1. \A w \in Relay!Writer :
            /\ (thread'[w] = "payload") <=> (thread[w] = "payload")
            /\ thread[w] = "payload" => sending'[w] = sending[w]
      BY <1>5 DEF Relay!Type, Relay!Step, RelayInv, HostTyped
    <2> QED
      BY <1>5, <2>1, RelayUntouched DEF Relay!Type, Relay!hostVars, Relay!relayVars,
         Relay!guest, RelayInv, Relay!HostOpen, Relay!SlaveOpen
  <1>6. CASE Relay!Signal
    <2>1. \A w \in Relay!Writer :
            /\ (thread'[w] = "payload") <=> (thread[w] = "payload")
            /\ thread[w] = "payload" => sending'[w] = sending[w]
      BY <1>6 DEF Relay!Signal, Relay!Step, RelayInv, HostTyped
    <2> QED
      BY <1>6, <2>1, RelayUntouched DEF Relay!Signal, Relay!hostVars, Relay!relayVars,
         Relay!guest, RelayInv, Relay!HostOpen, Relay!SlaveOpen
  <1>7. ASSUME NEW w \in Relay!Writer, Relay!Lock(w) PROVE RelayOK'
    <2>1. \A v \in Relay!Writer :
            /\ (thread'[v] = "payload") <=> (thread[v] = "payload")
            /\ thread[v] = "payload" => sending'[v] = sending[v]
      BY <1>7 DEF Relay!Lock, Relay!Step, RelayInv, HostTyped
    <2> QED
      BY <1>7, <2>1, RelayUntouched DEF Relay!Lock, Relay!hostVars, Relay!relayVars,
         Relay!guest, RelayInv, Relay!HostOpen, Relay!SlaveOpen
  <1>8. ASSUME NEW w \in Relay!Writer, Relay!Write(w) PROVE RelayOK'
    <2>1. /\ host' = host /\ relay' = relay /\ frame' = frame /\ seen' = seen
          /\ shell' = shell /\ job' = job
      BY <1>8 DEF Relay!Write, Relay!hostVars, Relay!relayVars, Relay!guest
    <2>2. CASE Relay!HostOpen /\ Relay!GuestOpen
      <3>1. FramesOK /\ ReadingOK
        BY <2>2 DEF RelayInv, RelayOK
      <3>2. ASSUME thread[w] = "header" PROVE FramesOK' /\ ReadingOK'
        <4>1. /\ up' = Append(up, <<sending[w], "header">>) /\ sending' = sending
              /\ thread' = [thread EXCEPT ![w] = "payload"]
          BY <1>8, <2>2, <3>2 DEF Relay!Write, Relay!Step
        <4> QED BY <1>8, <2>1, <3>1, <3>2, <4>1, HeaderAdded
      <3>3. ASSUME thread[w] = "payload" PROVE FramesOK' /\ ReadingOK'
        <4>1. /\ up' = Append(up, <<sending[w], "payload">>)
              /\ thread' = [thread EXCEPT ![w] = "read"]
          BY <1>8, <2>2, <3>3 DEF Relay!Write, Relay!Sent, Relay!Step
        <4> QED BY <1>8, <2>1, <3>1, <3>3, <4>1, PayloadAdded
      <3>4. FramesOK' /\ ReadingOK'
        BY <1>8, <3>2, <3>3 DEF Relay!Write
      <3> QED BY <2>1, <2>2, <3>4 DEF RelayInv, RelayOK, Relay!GuestOpen
    <2>3. CASE ~(Relay!HostOpen /\ Relay!GuestOpen)
      BY <2>1, <2>3 DEF RelayInv, RelayOK, Relay!HostOpen, Relay!GuestOpen,
         Relay!SlaveOpen
    <2> QED BY <2>2, <2>3
  <1>9. CASE Relay!Spawn
    BY <1>9 DEF Relay!Spawn, Relay!Goto, Relay!hostVars, Relay!writers, RelayInv,
       RelayOK, FramesOK, ReadingOK, Begun, NoneBegun, Relay!HostOpen, Relay!GuestOpen
  <1>10. CASE Relay!ExecReady
    BY <1>10 DEF Relay!ExecReady, Relay!Goto, Relay!ToHost, Relay!Fail, Relay!hostVars,
       Relay!writers, RelayInv, RelayOK, FramesOK, ReadingOK, Begun, NoneBegun,
       Relay!HostOpen, Relay!GuestOpen
  <1>11. CASE Relay!Check
    BY <1>11 DEF Relay!Check, Relay!Goto, Relay!hostVars, Relay!writers, RelayInv,
       RelayOK, FramesOK, ReadingOK, Begun, NoneBegun, Relay!HostOpen, Relay!GuestOpen
  <1>12. CASE Relay!Poll
    <2>1. /\ host' = host /\ relay = "poll" /\ relay' = "read_pty" /\ up' = up
          /\ thread' = thread /\ sending' = sending
      BY <1>12 DEF Relay!Poll, Relay!Goto, Relay!hostVars, Relay!writers
    <2>2. Relay!HostOpen /\ "host" \in seen' => up # <<>>
      BY <1>12 DEF Relay!Poll, Relay!HostEvent
    <2>3. Relay!HostOpen => FramesOK' /\ ReadingOK'
      BY <2>1, <2>2 DEF RelayInv, RelayOK, FramesOK, ReadingOK, Begun, NoneBegun,
         Relay!GuestOpen
    <2> QED BY <2>1, <2>3 DEF RelayOK, Relay!HostOpen
  <1>13. CASE Relay!ReadPty
    BY <1>13 DEF Relay!ReadPty, Relay!Goto, Relay!hostVars, Relay!writers, RelayInv,
       RelayOK, FramesOK, ReadingOK, Begun, NoneBegun, Relay!HostOpen, Relay!GuestOpen
  <1>14. CASE Relay!WriteHost
    BY <1>14 DEF Relay!WriteHost, Relay!Goto, Relay!ToHost, Relay!Fail, Relay!hostVars,
       Relay!writers, RelayInv, RelayOK, FramesOK, ReadingOK, Begun, NoneBegun,
       Relay!HostOpen, Relay!GuestOpen
  <1>15. CASE Relay!ReadHeader
    <2>1. /\ host' = host /\ relay = "read_host" /\ seen' = {}
          /\ thread' = thread /\ sending' = sending
      BY <1>15 DEF Relay!ReadHeader, Relay!hostVars, Relay!writers
    <2>2. CASE ~Relay!HostOpen
      BY <1>15, <2>1, <2>2 DEF Relay!ReadHeader, Relay!Goto, RelayOK, Relay!HostOpen
    <2>3. CASE Relay!HostOpen
      <3>1. FramesOK /\ ReadingOK
        BY <2>1, <2>3 DEF RelayInv, RelayOK, Relay!GuestOpen
      <3>2. CASE "host" \notin seen
        BY <1>15, <2>1, <3>1, <3>2 DEF Relay!ReadHeader, Relay!Goto, RelayOK, FramesOK,
           ReadingOK, Begun, NoneBegun
      <3>3. CASE "host" \in seen
        <4>1. up # <<>> /\ up' = Tail(up)
          BY <1>15, <2>1, <3>1, <3>3 DEF Relay!ReadHeader, ReadingOK
        <4>2. /\ Len(up) \in Nat \ {0} /\ Len(up') = Len(up) - 1
              /\ (up' = <<>> <=> Len(up) = 1)
              /\ Head(up) = up[1] /\ up[1] \in Parts
              /\ \A i \in 1 .. Len(up) - 1 : up'[i] = up[i + 1]
          BY <4>1, PartTaken DEF RelayInv
        <4>3. up[1][2] = "header"
          BY <2>1, <3>1, <4>1 DEF ReadingOK
        <4>4. relay' = "read_payload" /\ frame' = up[1][1]
          BY <1>15, <3>3, <4>1, <4>2, <4>3 DEF Relay!ReadHeader, Relay!Goto
        <4>5. FramesOK'
          BY <2>1, <3>1, <4>1, FramesLeft DEF RelayInv
        <4>6. up' = <<>> => Begun(frame)'
          BY <2>1, <3>1, <4>2, <4>3, <4>4 DEF FramesOK, Begun
        <4>7. up' # <<>> => up'[1] = <<frame', "payload">>
          <5>1. up' # <<>> => 1 < Len(up) /\ up'[1] = up[1 + 1]
            BY <4>2
          <5> QED BY <3>1, <4>2, <4>3, <4>4, <5>1 DEF FramesOK
        <4> QED BY <4>4, <4>5, <4>6, <4>7 DEF RelayOK, ReadingOK
      <3> QED BY <3>2, <3>3
    <2> QED BY <2>2, <2>3
  <1>16. CASE Relay!ReadPayload
    <2>1. /\ host' = host /\ relay = "read_payload" /\ frame' = frame
          /\ thread' = thread /\ sending' = sending
      BY <1>16 DEF Relay!ReadPayload, Relay!hostVars, Relay!writers
    <2>2. /\ relay' \in {"write_pty", "check", "hang_up"}
          /\ relay' = "write_pty" => frame = "stdin"
      BY <1>16 DEF Relay!ReadPayload, Relay!Received, Relay!Goto
    <2>3. CASE ~Relay!HostOpen
      BY <2>1, <2>2, <2>3 DEF RelayOK, Relay!HostOpen
    <2>4. CASE Relay!HostOpen
      <3>1. FramesOK /\ ReadingOK
        BY <2>1, <2>4 DEF RelayInv, RelayOK, Relay!GuestOpen
      <3>2. up # <<>> /\ up' = Tail(up)
        BY <1>16, <2>4 DEF Relay!ReadPayload
      <3>3. /\ Len(up) \in Nat \ {0} /\ Len(up') = Len(up) - 1
            /\ (up' = <<>> <=> Len(up) = 1)
            /\ Head(up) = up[1] /\ up[1] \in Parts
            /\ \A i \in 1 .. Len(up) - 1 : up'[i] = up[i + 1]
        BY <3>2, PartTaken DEF RelayInv
      <3>4. up[1] = <<frame, "payload">>
        BY <2>1, <3>1, <3>2 DEF ReadingOK
      <3>5. relay' \in {"write_pty", "check"}
        BY <1>16, <3>2, <3>3, <3>4 DEF Relay!ReadPayload, Relay!Received, Relay!Goto
      <3>6. FramesOK'
        BY <2>1, <3>1, <3>2, FramesLeft DEF RelayInv
      <3>7. up' = <<>> => NoneBegun'
        BY <2>1, <3>1, <3>3, <3>4 DEF FramesOK, NoneBegun
      <3>8. up' # <<>> => up'[1][2] = "header"
        <4>1. up' # <<>> => 1 < Len(up) /\ up'[1] = up[1 + 1]
          BY <3>3
        <4> QED BY <3>1, <3>3, <3>4, <4>1 DEF FramesOK
      <3> QED BY <2>1, <2>2, <3>5, <3>6, <3>7, <3>8 DEF RelayOK, ReadingOK
    <2> QED BY <2>3, <2>4
  <1>17. CASE Relay!WritePty
    BY <1>17 DEF Relay!WritePty, Relay!Goto, Relay!Fail, Relay!hostVars, Relay!writers,
       RelayInv, RelayOK, FramesOK, ReadingOK, Begun, NoneBegun, Relay!HostOpen,
       Relay!GuestOpen, Relay!SlaveOpen
  <1>18. CASE \/ Relay!HangUp \/ Relay!Reap
    BY <1>18 DEF Relay!HangUp, Relay!Reap, Relay!Goto, Relay!hostVars, RelayInv,
       RelayOK, ReadingOK, Relay!HostOpen, Relay!GuestOpen
  <1>19. CASE Relay!Drain
    BY <1>19 DEF Relay!Drain, Relay!Goto, Relay!hostVars, Relay!writers, RelayInv,
       RelayOK, FramesOK, ReadingOK, Begun, NoneBegun, Relay!HostOpen, Relay!GuestOpen
  <1>20. CASE Relay!DrainHost
    BY <1>20 DEF Relay!DrainHost, Relay!Goto, Relay!ToHost, Relay!Fail, Relay!hostVars,
       Relay!writers, RelayInv, RelayOK, FramesOK, ReadingOK, Begun, NoneBegun,
       Relay!HostOpen, Relay!GuestOpen
  <1>21. CASE Relay!SendExit
    BY <1>21 DEF Relay!SendExit, Relay!Goto, Relay!ToHost, Relay!Fail, Relay!hostVars,
       Relay!writers, RelayOK, Relay!HostOpen, Relay!GuestOpen
  <1>22. CASE Relay!Tick
    BY <1>22, RelayUntouched DEF Relay!Tick, Relay!hostVars, Relay!writers, Relay!guest,
       RelayInv, Relay!HostOpen, Relay!SlaveOpen
  <1>23. CASE \/ Relay!ShellReads \/ Relay!ShellWrites
    BY <1>23, RelayUntouched DEF Relay!ShellReads, Relay!ShellWrites, Relay!hostVars,
       Relay!writers, Relay!relayVars, RelayInv, Relay!HostOpen
  <1>24. CASE \/ Relay!ShellEnds \/ Relay!JobEnds
    BY <1>24, RelayUntouched DEF Relay!ShellEnds, Relay!JobEnds, Relay!hostVars,
       Relay!writers, Relay!relayVars, RelayInv, Relay!HostOpen, Relay!SlaveOpen
  <1>25. CASE \/ Relay!JobStarts \/ Relay!JobWrites
    BY <1>25, RelayUntouched DEF Relay!JobStarts, Relay!JobWrites, Relay!hostVars,
       Relay!writers, Relay!relayVars, RelayInv, Relay!HostOpen
  <1>26. CASE Relay!PowerCut
    BY <1>26 DEF Relay!PowerCut, Relay!Goto, RelayOK, Relay!GuestOpen
  <1>27. CASE UNCHANGED Relay!relayAll
    BY <1>27, RelayUntouched DEF Relay!relayAll, Relay!hostVars, Relay!writers,
       Relay!relayVars, Relay!guest, RelayInv, Relay!HostOpen, Relay!SlaveOpen
  <1> QED
    BY <1>1, <1>2, <1>3, <1>4, <1>5, <1>6, <1>7, <1>8, <1>9, <1>10, <1>11, <1>12, <1>13,
       <1>14, <1>15, <1>16, <1>17, <1>18, <1>19, <1>20, <1>21, <1>22, <1>23, <1>24,
       <1>25, <1>26, <1>27 DEF Relay!Next, Relay!HostNext, Relay!RelayNext, Relay!World,
       Relay!Writes

\* A host that returns an error has a reason to.
LEMMA ReasonsStep ==
    ASSUME RelayInv, [Relay!Next]_Relay!relayAll
    PROVE  FailuresHaveReasons'
  <1>1. CASE \/ Relay!Request \/ Relay!Ready \/ Relay!Receive \/ Relay!Printed
             \/ Relay!ReadFails \/ Relay!KillHost
    BY <1>1 DEF Relay!Request, Relay!Ready, Relay!Receive, Relay!Printed,
       Relay!ReadFails, Relay!KillHost, Relay!Return, Relay!guest, Relay!relayVars,
       RelayInv, RelayOK, AnswersOK, FailuresHaveReasons, Relay!FailuresHaveReasons,
       Relay!HostOpen, Relay!GuestOpen, Relay!SlaveOpen
  <1>2. CASE \/ Relay!Type \/ Relay!Signal
    BY <1>2 DEF Relay!Type, Relay!Signal, Relay!hostVars, Relay!relayVars, Relay!guest,
       RelayInv, FailuresHaveReasons, Relay!FailuresHaveReasons, Relay!SlaveOpen
  <1>3. ASSUME NEW w \in Relay!Writer, Relay!Lock(w) PROVE FailuresHaveReasons'
    BY <1>3 DEF Relay!Lock, Relay!hostVars, Relay!relayVars, Relay!guest, RelayInv,
       FailuresHaveReasons, Relay!FailuresHaveReasons, Relay!SlaveOpen
  <1>4. ASSUME NEW w \in Relay!Writer, Relay!Write(w) PROVE FailuresHaveReasons'
    BY <1>4 DEF Relay!Write, Relay!hostVars, Relay!relayVars, Relay!guest, RelayInv,
       FailuresHaveReasons, Relay!FailuresHaveReasons, Relay!SlaveOpen
  <1>5. CASE \/ Relay!Spawn \/ Relay!ExecReady \/ Relay!Check \/ Relay!Poll
             \/ Relay!ReadPty \/ Relay!WriteHost \/ Relay!ReadHeader
             \/ Relay!ReadPayload \/ Relay!WritePty \/ Relay!HangUp \/ Relay!Reap
             \/ Relay!Drain \/ Relay!DrainHost \/ Relay!SendExit
    BY <1>5 DEF Relay!Spawn, Relay!ExecReady, Relay!Check, Relay!Poll, Relay!ReadPty,
       Relay!WriteHost, Relay!ReadHeader, Relay!ReadPayload, Relay!WritePty,
       Relay!HangUp, Relay!Reap, Relay!Drain, Relay!DrainHost, Relay!SendExit,
       Relay!hostVars, RelayInv, FailuresHaveReasons, Relay!FailuresHaveReasons
  <1>6. CASE \/ Relay!Tick \/ Relay!ShellReads \/ Relay!ShellWrites \/ Relay!ShellEnds
             \/ Relay!JobStarts \/ Relay!JobWrites \/ Relay!JobEnds \/ Relay!PowerCut
    BY <1>6 DEF Relay!Tick, Relay!ShellReads, Relay!ShellWrites, Relay!ShellEnds,
       Relay!JobStarts, Relay!JobWrites, Relay!JobEnds, Relay!PowerCut, Relay!Goto,
       Relay!hostVars, Relay!guest, Relay!relayVars, RelayInv, FailuresHaveReasons,
       Relay!FailuresHaveReasons, Relay!SlaveOpen
  <1>7. CASE UNCHANGED Relay!relayAll
    BY <1>7 DEF Relay!relayAll, Relay!hostVars, Relay!relayVars, Relay!guest, RelayInv,
       FailuresHaveReasons, Relay!FailuresHaveReasons, Relay!SlaveOpen
  <1> QED
    BY <1>1, <1>2, <1>3, <1>4, <1>5, <1>6, <1>7 DEF Relay!Next, Relay!HostNext,
       Relay!RelayNext, Relay!World, Relay!Writes

\* When the exit status has been read, nothing is underway any more.
LEMMA StatusFollows ==
    HostTyped /\ GuestTyped /\ OutputOK /\ AnswersOK => OutputBeforeStatus
  <1> SUFFICES ASSUME HostTyped, GuestTyped, OutputOK, AnswersOK, returned = "status"
               PROVE  shell = "reaped" /\ (screen = wrote \/ cut)
    BY DEF OutputBeforeStatus, Relay!OutputBeforeStatus
  <1>1. relay = "done" /\ down = <<>>
    BY DEF AnswersOK
  <1>2. Number(down, "shell") = 0 /\ chunk = "none"
    BY <1>1, NumberEmpty DEF OutputOK
  <1>3. CASE Number(text, "shell") = 0
    BY <1>1, <1>2, <1>3 DEF OutputOK, Underway, HostTyped
  <1> QED BY <1>1, <1>3 DEF OutputOK

\* Every step of a terminal.
LEMMA RelayKept == RelayInv /\ [Relay!Next]_Relay!relayAll => RelayInv'
  <1> SUFFICES ASSUME RelayInv, [Relay!Next]_Relay!relayAll PROVE RelayInv'
    OBVIOUS
  <1>1. (HostTyped /\ StreamsTyped /\ RelayTyped /\ GuestTyped)'
    BY HostTypedStep, StreamsTypedStep, RelayTypedStep, GuestTypedStep
  <1>2. (OutputOK /\ AnswersOK /\ ThreadsOK /\ RelayOK)'
    BY OutputStep, AnswersStep, ThreadsStep, RelayStep
  <1>3. (HostTyped /\ GuestTyped /\ OutputOK /\ AnswersOK => OutputBeforeStatus)'
    BY StatusFollows, PTL
  <1> QED BY <1>1, <1>2, <1>3, ReasonsStep DEF RelayInv

-----------------------------------------------------------------------------
(* A captured command. *)

\* A pipe is a queue, and what it holds of the command is counted.
LEMMA PipeQueue ==
    ASSUME Capture!TypeOK, NEW s \in Capture!Stream
    PROVE  IsQueue(pipe[s], Sources) /\ Holds(pipe[s], Sources, "command")
  <1>1. pipe[s] \in Seq(Sources)
    BY DEF Capture!TypeOK, Sources
  <1> QED BY <1>1, Queue, Counting, Zenon

\* A captured command that nobody has asked for.
LEMMA CaptureInit == Capture!Init => CaptureInv
  <1> SUFFICES ASSUME Capture!Init PROVE CaptureInv
    OBVIOUS
  <1>1. Capture!TypeOK
    <2>1. pipe \in [Capture!Stream -> Seq({"command", "helper"})]
      BY DEF Capture!Init
    <2>2. 0 \in 0 .. MaxChunks /\ 0 \in 0 .. Limit
      BY CaptureAssumption
    <2>3. /\ written \in [Capture!Stream -> 0 .. MaxChunks]
          /\ bytes \in [Capture!Stream -> 0 .. Limit]
          /\ own \in [Capture!Stream -> 0 .. Limit]
      BY <2>2 DEF Capture!Init
    <2>4. /\ reader \in [Capture!Stream -> {"off", "check", "read", "poll", "over"}]
          /\ finishBy \in [Capture!Stream -> {"none", "set", "passed"}]
      BY DEF Capture!Init
    <2> QED BY <2>1, <2>3, <2>4 DEF Capture!Init, Capture!TypeOK
  <1>2. ChildOK /\ NothingKept
    BY DEF Capture!Init, ChildOK, NothingKept
  <1>3. KeptOK
    BY NumberEmpty DEF Capture!Init, Kept, KeptOK
  <1> QED BY <1>1, <1>2, <1>3 DEF CaptureInv

\* What every step of a captured command keeps.
LEMMA CaptureTypedStep ==
    ASSUME CaptureInv, [Capture!Next]_Capture!captured
    PROVE  Capture!TypeOK'
  <1>1. CASE \/ Capture!Ask \/ Capture!Spawn \/ Capture!Wait \/ Capture!Mark
    BY <1>1 DEF Capture!Ask, Capture!Spawn, Capture!Wait, Capture!Mark, Capture!Hears,
       Capture!processes, Capture!readers, CaptureInv, Capture!TypeOK
  <1>2. CASE \/ Capture!Answer \/ Capture!ChildEnds
    BY <1>2 DEF Capture!Answer, Capture!ChildEnds, Capture!Hears, Capture!processes,
       Capture!readers, CaptureInv, Capture!TypeOK
  <1>3. ASSUME NEW s \in Capture!Stream, Capture!Check(s) PROVE Capture!TypeOK'
    BY <1>3 DEF Capture!Check, Capture!Goto, Capture!processes, CaptureInv,
       Capture!TypeOK
  <1>4. ASSUME NEW s \in Capture!Stream, Capture!Read(s) PROVE Capture!TypeOK'
    <2>1. pipe' \in [Capture!Stream -> Seq({"command", "helper"})]
      <3>1. pipe[s] # <<>> => Tail(pipe[s]) \in Seq({"command", "helper"})
        BY <1>4, PipeQueue DEF CaptureInv, IsQueue, Sources
      <3> QED BY <1>4, <3>1 DEF Capture!Read, CaptureInv, Capture!TypeOK
    <2>2. bytes' \in [Capture!Stream -> 0 .. Limit]
      <3>1. bytes[s] < Limit => bytes[s] + 1 \in 0 .. Limit
        BY <1>4, CaptureAssumption DEF CaptureInv, Capture!TypeOK
      <3> QED BY <1>4, <3>1 DEF Capture!Read, Capture!Keep, CaptureInv, Capture!TypeOK
    <2>3. own' \in [Capture!Stream -> 0 .. Limit]
      <3>1. bytes[s] < Limit => own[s] + 1 \in 0 .. Limit
        BY <1>4, CaptureAssumption DEF CaptureInv, Kept, KeptOK, Capture!TypeOK
      <3> QED BY <1>4, <3>1 DEF Capture!Read, Capture!Keep, CaptureInv, Capture!TypeOK
    <2>4. reader' \in [Capture!Stream -> {"off", "check", "read", "poll", "over"}]
      BY <1>4 DEF Capture!Read, Capture!Goto, CaptureInv, Capture!TypeOK
    <2>5. exceeded' \subseteq Capture!Stream /\ late' \subseteq Capture!Stream
      BY <1>4 DEF Capture!Read, Capture!Keep, CaptureInv, Capture!TypeOK
    <2> QED BY <1>4, <2>1, <2>2, <2>3, <2>4, <2>5 DEF Capture!Read, CaptureInv,
               Capture!TypeOK
  <1>5. ASSUME NEW s \in Capture!Stream, Capture!Poll(s) PROVE Capture!TypeOK'
    BY <1>5 DEF Capture!Poll, Capture!Goto, Capture!processes, CaptureInv,
       Capture!TypeOK
  <1>6. ASSUME NEW s \in Capture!Stream, Capture!Tick(s) PROVE Capture!TypeOK'
    BY <1>6 DEF Capture!Tick, Capture!processes, CaptureInv, Capture!TypeOK
  <1>7. CASE Capture!LeavesHelper
    BY <1>7 DEF Capture!LeavesHelper, Capture!readers, CaptureInv, Capture!TypeOK
  <1>8. CASE Capture!HelperEnds
    BY <1>8 DEF Capture!HelperEnds, Capture!readers, CaptureInv, Capture!TypeOK
  <1>9. ASSUME NEW s \in Capture!Stream, Capture!Write(s) PROVE Capture!TypeOK'
    <2>1. pipe' \in [Capture!Stream -> Seq({"command", "helper"})]
      <3>1. Append(pipe[s], "command") \in Seq({"command", "helper"})
        BY <1>9, PipeQueue DEF CaptureInv, IsQueue, Sources
      <3> QED BY <1>9, <3>1 DEF Capture!Write, CaptureInv, Capture!TypeOK
    <2>2. written[s] + 1 \in 0 .. MaxChunks
      <3>1. written["stdout"] \in Nat /\ written["stderr"] \in Nat
        BY CaptureAssumption DEF CaptureInv, Capture!TypeOK, Capture!Stream
      <3>2. written["stdout"] + written["stderr"] < MaxChunks
        BY <1>9 DEF Capture!Write, Capture!Total
      <3>3. s = "stdout" \/ s = "stderr"
        BY <1>9 DEF Capture!Stream
      <3> QED BY <3>1, <3>2, <3>3, CaptureAssumption
    <2> QED BY <1>9, <2>1, <2>2 DEF Capture!Write, Capture!readers, CaptureInv,
               Capture!TypeOK
  <1>10. ASSUME NEW s \in Capture!Stream, Capture!HelperWrites(s) PROVE Capture!TypeOK'
    BY <1>10 DEF Capture!HelperWrites, Capture!readers, CaptureInv, Capture!TypeOK
  <1>11. CASE UNCHANGED Capture!captured
    BY <1>11 DEF Capture!captured, Capture!processes, Capture!readers, CaptureInv,
       Capture!TypeOK
  <1> QED
    BY <1>1, <1>2, <1>3, <1>4, <1>5, <1>6, <1>7, <1>8, <1>9, <1>10, <1>11
       DEF Capture!Next, Capture!HandlerNext, Capture!ReaderNext, Capture!Processes

\* Its process and its handler.
LEMMA ChildStep ==
    ASSUME CaptureInv, [Capture!Next]_Capture!captured
    PROVE  ChildOK'
  <1>1. CASE \/ Capture!Ask \/ Capture!Spawn \/ Capture!Wait \/ Capture!Mark
             \/ Capture!Answer \/ Capture!ChildEnds \/ Capture!LeavesHelper
             \/ Capture!HelperEnds
    BY <1>1 DEF Capture!Ask, Capture!Spawn, Capture!Wait, Capture!Mark, Capture!Answer,
       Capture!ChildEnds, Capture!LeavesHelper, Capture!HelperEnds, Capture!Hears,
       Capture!Fits, Capture!processes, Capture!readers, CaptureInv, ChildOK
  <1>2. ASSUME NEW s \in Capture!Stream, Capture!Check(s) PROVE ChildOK'
    BY <1>2 DEF Capture!Check, Capture!Goto, Capture!processes, CaptureInv, ChildOK
  <1>3. ASSUME NEW s \in Capture!Stream, Capture!Read(s) PROVE ChildOK'
    BY <1>3 DEF Capture!Read, Capture!Goto, Capture!Open, CaptureInv, Capture!TypeOK,
       ChildOK
  <1>4. ASSUME NEW s \in Capture!Stream, Capture!Poll(s) PROVE ChildOK'
    BY <1>4 DEF Capture!Poll, Capture!Goto, Capture!processes, CaptureInv, ChildOK
  <1>5. ASSUME NEW s \in Capture!Stream, Capture!Tick(s) PROVE ChildOK'
    BY <1>5 DEF Capture!Tick, Capture!processes, CaptureInv, ChildOK
  <1>6. ASSUME NEW s \in Capture!Stream, Capture!Write(s) PROVE ChildOK'
    BY <1>6 DEF Capture!Write, Capture!readers, CaptureInv, ChildOK
  <1>7. ASSUME NEW s \in Capture!Stream, Capture!HelperWrites(s) PROVE ChildOK'
    BY <1>7 DEF Capture!HelperWrites, Capture!readers, CaptureInv, ChildOK
  <1>8. CASE UNCHANGED Capture!captured
    BY <1>8 DEF Capture!captured, Capture!processes, Capture!readers, CaptureInv,
       ChildOK
  <1> QED
    BY <1>1, <1>2, <1>3, <1>4, <1>5, <1>6, <1>7, <1>8 DEF Capture!Next,
       Capture!HandlerNext, Capture!ReaderNext, Capture!Processes

\* Its output is counted stream by stream.
LEMMA KeptStep ==
    ASSUME CaptureInv, [Capture!Next]_Capture!captured
    PROVE  KeptOK'
  <1>1. CASE \/ Capture!Ask \/ Capture!Spawn \/ Capture!Wait \/ Capture!Mark
             \/ Capture!Answer \/ Capture!ChildEnds \/ Capture!LeavesHelper
             \/ Capture!HelperEnds
    BY <1>1 DEF Capture!Ask, Capture!Spawn, Capture!Wait, Capture!Mark, Capture!Answer,
       Capture!ChildEnds, Capture!LeavesHelper, Capture!HelperEnds, Capture!processes,
       Capture!readers, CaptureInv, Kept, KeptOK
  <1>2. ASSUME NEW s \in Capture!Stream, Capture!Check(s) PROVE KeptOK'
    BY <1>2 DEF Capture!Check, Capture!Goto, Capture!processes, CaptureInv, Kept, KeptOK
  <1>3. ASSUME NEW s \in Capture!Stream, Capture!Read(s) PROVE KeptOK'
    <2> SUFFICES ASSUME NEW t \in Capture!Stream
                 PROVE  Kept(t)'
      BY DEF KeptOK
    <2> USE DEF Kept
    <2>1. Kept(t) /\ own[t] \in Nat /\ bytes[t] \in Nat /\ written[t] \in Nat
      BY DEF CaptureInv, KeptOK, Capture!TypeOK
    <2>2. CASE t # s
      <3>1. /\ own'[t] = own[t] /\ bytes'[t] = bytes[t] /\ written'[t] = written[t]
            /\ pipe'[t] = pipe[t] /\ reader'[t] = reader[t]
            /\ (t \in exceeded' <=> t \in exceeded) /\ (t \in late' <=> t \in late)
        BY <1>3, <2>2 DEF Capture!Read, Capture!Keep, Capture!Goto, CaptureInv,
           Capture!TypeOK
      <3> QED BY <2>1, <3>1
    <2>3. CASE t = s /\ pipe[s] # <<>>
      <3>1. /\ Number(Tail(pipe[s]), "command") \in Nat
            /\ Number(pipe[s], "command")
                 = Number(Tail(pipe[s]), "command")
                     + IF Head(pipe[s]) = "command" THEN 1 ELSE 0
            /\ Len(pipe[s]) \in Nat \ {0} /\ Len(Tail(pipe[s])) = Len(pipe[s]) - 1
            /\ (Tail(pipe[s]) = <<>> <=> Len(pipe[s]) = 1)
        BY <1>3, <2>3, PipeQueue DEF CaptureInv, IsQueue, Holds
      <3>2. pipe'[s] = Tail(pipe[s]) /\ written'[s] = written[s]
        BY <1>3, <2>3 DEF Capture!Read, CaptureInv, Capture!TypeOK
      <3>3. reader'[s] = "over" => s \in late' \/ Tail(pipe[s]) = <<>>
        BY <1>3, <2>3, <3>1 DEF Capture!Read, Capture!Goto, CaptureInv, Capture!TypeOK
      <3>4. Tail(pipe[s]) = <<>> => Number(Tail(pipe[s]), "command") = 0
        BY NumberEmpty
      <3>5. CASE bytes[s] < Limit
        <4>1. bytes'[s] = bytes[s] + 1 /\ exceeded' = exceeded
          BY <1>3, <2>3, <3>5 DEF Capture!Read, Capture!Keep, CaptureInv, Capture!TypeOK
        <4>2. own'[s] = own[s] + IF Head(pipe[s]) = "command" THEN 1 ELSE 0
          BY <1>3, <2>1, <2>3, <3>5 DEF Capture!Read, Capture!Keep, CaptureInv,
             Capture!TypeOK
        <4>3. IF Head(pipe[s]) = "command" THEN own'[s] = own[s] + 1 ELSE own'[s] = own[s]
          BY <2>1, <2>3, <4>2
        <4>4. own'[s] <= bytes'[s] /\ bytes'[s] > 0
          BY <2>1, <2>3, <4>1, <4>3
        <4>5. s \notin exceeded' => written'[s] = own'[s] + Number(pipe'[s], "command")
          <5> DEFINE before == Number(pipe[s], "command")
                     after == Number(Tail(pipe[s]), "command")
          <5>1. s \notin exceeded' => written[s] = own[s] + before
            BY <2>1, <2>3, <4>1
          <5>2. after \in Nat /\ (IF Head(pipe[s]) = "command" THEN before = after + 1
                                                          ELSE before = after)
            BY <3>1
          <5>3. own[s] \in Nat
            BY <2>1, <2>3
          <5> HIDE DEF before, after
          <5>4. s \notin exceeded' => written[s] = own'[s] + after
            BY <4>3, <5>1, <5>2, <5>3
          <5> QED BY <3>2, <5>4 DEF after
        <4> QED BY <2>3, <3>2, <3>3, <3>4, <4>4, <4>5
      <3>6. CASE ~(bytes[s] < Limit)
        <4>1. bytes' = bytes /\ own' = own /\ s \in exceeded'
          BY <1>3, <2>3, <3>6 DEF Capture!Read, Capture!Keep
        <4> QED BY <2>1, <2>3, <3>1, <3>2, <3>6, <3>3, <3>4, <4>1, CaptureAssumption
      <3> QED BY <3>5, <3>6
    <2>4. CASE t = s /\ pipe[s] = <<>>
      BY <1>3, <2>1, <2>4, NumberEmpty DEF Capture!Read
    <2> QED BY <2>2, <2>3, <2>4
  <1>4. ASSUME NEW s \in Capture!Stream, Capture!Poll(s) PROVE KeptOK'
    BY <1>4 DEF Capture!Poll, Capture!Goto, Capture!processes, CaptureInv, Kept, KeptOK
  <1>5. ASSUME NEW s \in Capture!Stream, Capture!Tick(s) PROVE KeptOK'
    BY <1>5 DEF Capture!Tick, Capture!processes, CaptureInv, Kept, KeptOK
  <1>6. ASSUME NEW s \in Capture!Stream, Capture!Write(s) PROVE KeptOK'
    <2> SUFFICES ASSUME NEW t \in Capture!Stream
                 PROVE  Kept(t)'
      BY DEF KeptOK
    <2> USE DEF Kept
    <2>1. Kept(t) /\ own[t] \in Nat /\ bytes[t] \in Nat /\ written[t] \in Nat
      BY DEF CaptureInv, KeptOK, Capture!TypeOK
    <2>2. CASE t # s
      <3>1. /\ own'[t] = own[t] /\ bytes'[t] = bytes[t] /\ written'[t] = written[t]
            /\ pipe'[t] = pipe[t] /\ reader'[t] = reader[t]
            /\ (t \in exceeded' <=> t \in exceeded) /\ (t \in late' <=> t \in late)
        BY <1>6, <2>2 DEF Capture!Write, Capture!readers
      <3> QED BY <2>1, <3>1
    <2>3. CASE t = s
      <3>1. "command" \in Sources /\ pipe'[s] = Append(pipe[s], "command")
        BY <1>6 DEF Capture!Write, Sources, CaptureInv, Capture!TypeOK
      <3>2. /\ Number(pipe[s], "command") \in Nat
            /\ Number(pipe'[s], "command") = Number(pipe[s], "command") + 1
        BY <1>6, <3>1, PipeQueue DEF CaptureInv, Holds
      <3>3. /\ own' = own /\ bytes' = bytes /\ exceeded' = exceeded /\ late' = late
            /\ reader' = reader /\ written'[s] = written[s] + 1 /\ reader[s] # "over"
        BY <1>6, <2>1, <2>3 DEF Capture!Write, Capture!readers, CaptureInv, ChildOK,
           Capture!TypeOK
      <3> QED BY <2>1, <2>3, <3>2, <3>3
    <2> QED BY <2>2, <2>3
  <1>7. ASSUME NEW s \in Capture!Stream, Capture!HelperWrites(s) PROVE KeptOK'
    <2> SUFFICES ASSUME NEW t \in Capture!Stream
                 PROVE  Kept(t)'
      BY DEF KeptOK
    <2> USE DEF Kept
    <2>1. Kept(t) /\ own[t] \in Nat /\ bytes[t] \in Nat /\ written[t] \in Nat
      BY DEF CaptureInv, KeptOK, Capture!TypeOK
    <2>2. CASE t # s
      <3>1. /\ own'[t] = own[t] /\ bytes'[t] = bytes[t] /\ written'[t] = written[t]
            /\ pipe'[t] = pipe[t] /\ reader'[t] = reader[t]
            /\ (t \in exceeded' <=> t \in exceeded) /\ (t \in late' <=> t \in late)
        BY <1>7, <2>2 DEF Capture!HelperWrites, Capture!readers
      <3> QED BY <2>1, <3>1
    <2>3. CASE t = s
      <3>1. "helper" \in Sources /\ pipe'[s] = Append(pipe[s], "helper")
        BY <1>7 DEF Capture!HelperWrites, Sources, CaptureInv, Capture!TypeOK
      <3>2. /\ Number(pipe[s], "command") \in Nat
            /\ Number(pipe'[s], "command") = Number(pipe[s], "command")
        BY <1>7, <3>1, PipeQueue DEF CaptureInv, Holds
      <3>3. /\ own' = own /\ bytes' = bytes /\ exceeded' = exceeded /\ late' = late
            /\ reader' = reader /\ written'[s] = written[s] /\ reader[s] # "over"
        BY <1>7, <2>1, <2>3 DEF Capture!HelperWrites, Capture!readers
      <3> QED BY <2>1, <2>3, <3>2, <3>3
    <2> QED BY <2>2, <2>3
  <1>8. CASE UNCHANGED Capture!captured
    BY <1>8 DEF Capture!captured, Capture!processes, Capture!readers, CaptureInv,
       Kept, KeptOK
  <1> QED
    BY <1>1, <1>2, <1>3, <1>4, <1>5, <1>6, <1>7, <1>8 DEF Capture!Next,
       Capture!HandlerNext, Capture!ReaderNext, Capture!Processes

\* A verdict is given on what was kept.
LEMMA NothingKeptStep ==
    ASSUME CaptureInv, [Capture!Next]_Capture!captured
    PROVE  NothingKept'
  <1>1. CASE \/ Capture!Ask \/ Capture!Spawn \/ Capture!Wait \/ Capture!Mark
             \/ Capture!Answer \/ Capture!ChildEnds \/ Capture!LeavesHelper
             \/ Capture!HelperEnds
    BY <1>1 DEF Capture!Ask, Capture!Spawn, Capture!Wait, Capture!Mark, Capture!Answer,
       Capture!ChildEnds, Capture!LeavesHelper, Capture!HelperEnds, Capture!Hears,
       Capture!readers, CaptureInv, NothingKept
  <1>2. ASSUME NEW s \in Capture!Stream, Capture!Check(s) PROVE NothingKept'
    BY <1>2 DEF Capture!Check, CaptureInv, NothingKept
  <1>3. ASSUME NEW s \in Capture!Stream, Capture!Read(s) PROVE NothingKept'
    BY <1>3 DEF Capture!Read, CaptureInv, ChildOK, NothingKept
  <1>4. ASSUME NEW s \in Capture!Stream, Capture!Poll(s) PROVE NothingKept'
    BY <1>4 DEF Capture!Poll, CaptureInv, NothingKept
  <1>5. ASSUME NEW s \in Capture!Stream, Capture!Tick(s) PROVE NothingKept'
    BY <1>5 DEF Capture!Tick, CaptureInv, NothingKept
  <1>6. ASSUME NEW s \in Capture!Stream, Capture!Write(s) PROVE NothingKept'
    BY <1>6 DEF Capture!Write, Capture!readers, CaptureInv, NothingKept
  <1>7. ASSUME NEW s \in Capture!Stream, Capture!HelperWrites(s) PROVE NothingKept'
    BY <1>7 DEF Capture!HelperWrites, Capture!readers, CaptureInv, NothingKept
  <1>8. CASE UNCHANGED Capture!captured
    BY <1>8 DEF Capture!captured, Capture!readers, CaptureInv, NothingKept
  <1> QED
    BY <1>1, <1>2, <1>3, <1>4, <1>5, <1>6, <1>7, <1>8 DEF Capture!Next,
       Capture!HandlerNext, Capture!ReaderNext, Capture!Processes

\* Every step of a captured command.
LEMMA CaptureKept == CaptureInv /\ [Capture!Next]_Capture!captured => CaptureInv'
  BY CaptureTypedStep, ChildStep, KeptStep, NothingKeptStep DEF CaptureInv

-----------------------------------------------------------------------------
(* Both. *)

\* The invariant of a request, with a terminal or without.
LEMMA ExecInvariant == ExecSpec => []ExecInv
  <1>1. ExecInit => ExecInv
    BY RelayInit, CaptureInit DEF ExecInit, ExecInv
  <1>2. ExecInv /\ [ExecNext]_execVars => ExecInv'
    <2> SUFFICES ASSUME ExecInv, [ExecNext]_execVars PROVE ExecInv'
      OBVIOUS
    <2>1. [Relay!Next]_Relay!relayAll /\ [Capture!Next]_Capture!captured
      <3>1. CASE OnTerminal(Relay!Next)
        BY <3>1 DEF OnTerminal, capture, Capture!captured, Capture!processes,
           Capture!readers
      <3>2. CASE Captured(Capture!Next)
        BY <3>2 DEF Captured, terminal, Relay!relayAll, Relay!hostVars, Relay!writers,
           Relay!relayVars, Relay!guest
      <3>3. CASE UNCHANGED execVars
        BY <3>3 DEF execVars, terminal, capture, Capture!captured, Capture!processes,
           Capture!readers, Relay!relayAll, Relay!hostVars, Relay!writers,
           Relay!relayVars, Relay!guest
      <3> QED BY <3>1, <3>2, <3>3 DEF ExecNext
    <2> QED BY <2>1, RelayKept, CaptureKept DEF ExecInv
  <1> QED BY <1>1, <1>2, PTL DEF ExecSpec

\* The types of a terminal (guest.rs interactive_exec, command.rs relay_pty), with
\* its mutex: only the thread that holds it is in the middle of a frame; and those
\* of a captured command (command.rs run_captured), which keeps no more than its
\* limit of either stream.
THEOREM ExecTypeCorrect == ExecSpec => [](Relay!TypeOK /\ Capture!TypeOK)
  <1>1. ExecInv => Relay!TypeOK /\ Capture!TypeOK
    <2> SUFFICES ASSUME ExecInv PROVE Relay!TypeOK /\ Capture!TypeOK
      OBVIOUS
    <2>1. Number(text, "shell") \in Nat /\ Number(down, "shell") \in Nat
      BY TextQueue, DownQueue DEF ExecInv, RelayInv, Holds
    <2>2. screen \in 0 .. wrote
      BY <2>1 DEF ExecInv, RelayInv, HostTyped, GuestTyped, OutputOK, Underway
    <2> QED
      BY <2>2 DEF ExecInv, RelayInv, CaptureInv, HostTyped, StreamsTyped, RelayTyped,
         GuestTyped, Parts, Frames, Chunks, Relay!TypeOK
  <1> QED BY <1>1, ExecInvariant, PTL

\* The exit status reaches the host only after the shell has ended and after all
\* that it wrote, but for what the 100 ms of drain_pty cut off (command.rs
\* relay_pty, guest.rs interactive_exec): for queues of any size and any amount of
\* output.
THEOREM OutputFirst == ExecSpec => []OutputBeforeStatus
  <1>1. ExecInv => OutputBeforeStatus
    BY DEF ExecInv, RelayInv
  <1> QED BY <1>1, ExecInvariant, PTL

\* A terminal fails for one of four reasons only: the shell was refused, the guest
\* went, the host's own output broke, or input met a PTY that nobody has open
\* (command.rs relay_pty).  However the two threads of the host take turns
\* (guest.rs interactive_exec), the relay never meets a garbled frame.
THEOREM FailuresReasoned == ExecSpec => []FailuresHaveReasons
  <1>1. ExecInv => FailuresHaveReasons
    BY DEF ExecInv, RelayInv
  <1> QED BY <1>1, ExecInvariant, PTL

\* A workspace is taken for clean only if git has ended and printed nothing
\* (machine.rs remove, command.rs run_captured), whatever helpers hold its pipes
\* and however the deadline and its output race (command.rs read_bounded).
THEOREM CleanOnly == ExecSpec => []CleanIsClean
  <1>1. ExecInv => CleanIsClean
    <2> SUFFICES ASSUME CaptureInv, verdict = "clean"
                 PROVE  child = "reaped" /\ written["stdout"] = 0
      BY DEF ExecInv, CleanIsClean, Capture!CleanIsClean
    <2>1. "stdout" \in Capture!Stream
      BY DEF Capture!Stream
    <2>2. bytes["stdout"] = 0 /\ own["stdout"] <= 0 /\ own["stdout"] \in Nat
      BY <2>1 DEF CaptureInv, NothingKept, Kept, KeptOK, Capture!TypeOK
    <2>3. child = "reaped" /\ exceeded = {} /\ reader["stdout"] = "over"
      BY <2>1 DEF CaptureInv, ChildOK
    <2>4. "stdout" \notin late
      BY <2>1, <2>2 DEF CaptureInv, Kept, KeptOK
    <2>5. Number(pipe["stdout"], "command") = 0
      BY <2>1, <2>3, <2>4 DEF CaptureInv, Kept, KeptOK
    <2>6. written["stdout"] = own["stdout"] + Number(pipe["stdout"], "command")
      BY <2>1, <2>3 DEF CaptureInv, Kept, KeptOK
    <2> QED BY <2>2, <2>3, <2>5, <2>6
  <1> QED BY <1>1, ExecInvariant, PTL

\* An answer, clean or not, tells all that git printed, unless a reader that had
\* read something ran out of time (command.rs run_captured, read_bounded).
THEOREM AnswersComplete == ExecSpec => []AnswerIsComplete
  <1>1. ExecInv => AnswerIsComplete
    <2> SUFFICES ASSUME CaptureInv, verdict \in {"clean", "dirty"}, NEW s \in Capture!Stream
                 PROVE  own[s] = written[s] \/ (s \in late /\ bytes[s] > 0)
      BY DEF ExecInv, AnswerIsComplete, Capture!AnswerIsComplete
    <2>1. /\ s \notin exceeded /\ reader[s] = "over" /\ own[s] \in Nat
          /\ written[s] = own[s] + Number(pipe[s], "command")
      BY DEF CaptureInv, ChildOK, Kept, KeptOK, Capture!TypeOK
    <2>2. (s \in late /\ bytes[s] > 0) \/ Number(pipe[s], "command") = 0
      BY <2>1 DEF CaptureInv, Kept, KeptOK
    <2> QED BY <2>1, <2>2
  <1> QED BY <1>1, ExecInvariant, PTL
=============================================================================

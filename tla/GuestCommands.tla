---------------------------- MODULE GuestCommands ----------------------------
(***************************************************************************)
(* The commands that run in a guest: the handler threads of the agent that *)
(* spawn and await them (command.rs), and the thread that reaps for PID 1  *)
(* whatever else ends (reaper.rs), with the kernel's processes and pids.   *)
(*                                                                         *)
(* A handler serves one request: a captured command, or a terminal that    *)
(* its host may leave.  Left out: output, the PTY, exit codes.             *)
(***************************************************************************)
EXTENDS Naturals

CONSTANTS
  Handler,
  Terminal,   \* the handlers that serve a terminal, the others capture
  MaxPid,     \* bound: the pids there are
  None

Agent == 1
Pid == 2 .. MaxPid

ASSUME HandlerAssumption == Terminal \subseteq Handler
ASSUME PidAssumption == MaxPid \in Nat \ {0} /\ None \notin Nat

VARIABLES
  proc,       \* [Pid -> the process of that number, or None]
  tracked,    \* TRACKED_CHILDREN
  pc,         \* [Handler -> the next step]
  pid,        \* [Handler -> the pid of its child]
  result,     \* [Handler -> what it learned of its child]
  rpc, eye,   \* the reaper's next step, and the pid it looks at
  recycled    \* history: pids handed out while an old holder was remembered

handlers == <<pc, pid, result>>
reaper == <<rpc, eye>>
vars == <<proc, tracked, handlers, reaper, recycled>>

\* "for": the handler whose command the process belongs to.
Process == [state : {"running", "zombie"}, parent : Pid \cup {Agent}, group : Pid,
            for : Handler]

ASSUME NoneAssumption == None \notin Process

Held == {h \in Handler : pc[h] \notin {"idle", "done"}}   \* has a ChildGuard

Init ==
    /\ proc = [p \in Pid |-> None]
    /\ tracked = {}
    /\ pc = [h \in Handler |-> "idle"]
    /\ pid = [h \in Handler |-> None]
    /\ result = [h \in Handler |-> "none"]
    /\ rpc = "look" /\ eye = Agent
    /\ recycled = {}

-----------------------------------------------------------------------------
(* The kernel and the commands. *)

Exists(p) == proc[p] # None
IsChild(p) == Exists(p) /\ proc[p].parent = Agent
IsZombie(p) == Exists(p) /\ proc[p].state = "zombie"

\* A number is free when no process and no process group has it.
Free == {p \in Pid : ~Exists(p) /\ \A q \in Pid : Exists(q) => proc[q].group # p}

\* The new holder of p: somebody may still take p for an earlier one.
Recycles(p) ==
    recycled' = IF (p = eye /\ rpc # "look") \/ \E h \in Handler : pc[h] = "drop" /\ pid[h] = p
                THEN recycled \cup {p} ELSE recycled

Fork(p) ==
    /\ Exists(p) /\ proc[p].state = "running"
    /\ \E q \in Free : \E group \in {proc[p].group, q} :
         /\ proc' = [proc EXCEPT ![q] = [state |-> "running", parent |-> p,
                                         group |-> group, for |-> proc[p].for]]
         /\ Recycles(q)
    /\ UNCHANGED <<tracked, handlers, reaper>>

\* A process ends, of itself or by a signal; PID 1 adopts its children.
Exit(p) ==
    /\ Exists(p) /\ proc[p].state = "running"
    /\ proc' = [q \in Pid |->
          IF q = p THEN [proc[q] EXCEPT !.state = "zombie"]
          ELSE IF Exists(q) /\ proc[q].parent = p
               THEN [proc[q] EXCEPT !.parent = Agent] ELSE proc[q]]
    /\ UNCHANGED <<tracked, handlers, reaper, recycled>>

\* A parent other than the agent collects its child.
ParentWaits(p) ==
    /\ IsZombie(p) /\ ~IsChild(p)
    /\ proc' = [proc EXCEPT ![p] = None]
    /\ UNCHANGED <<tracked, handlers, reaper, recycled>>

-----------------------------------------------------------------------------
(* Handlers. *)

Goto(h, step) == pc' = [pc EXCEPT ![h] = step]

\* prepare, exec_tty: the child leads a session and a group of its own.
Leader(h, p) == [state |-> "running", parent |-> Agent, group |-> p, for |-> h]

\* spawn: fork and registration under the lock that the reaper takes to look.
Spawn(h) ==
    /\ pc[h] = "idle"
    /\ \E p \in Free :
         /\ proc' = [proc EXCEPT ![p] = Leader(h, p)]
         /\ tracked' = tracked \cup {p}
         /\ pid' = [pid EXCEPT ![h] = p]
         /\ Recycles(p)
    /\ Goto(h, "watch")
    /\ UNCHANGED <<result, reaper>>

\* A slip: the child is reaped where it is only to be observed.
WatchReaping(h) ==
    /\ pc[h] = "watch" /\ IsChild(pid[h]) /\ IsZombie(pid[h])
    /\ proc' = [proc EXCEPT ![pid[h]] = None]
    /\ Goto(h, "hup")
    /\ UNCHANGED <<tracked, pid, result, reaper, recycled>>

\* child_exit_ready: waitid with WNOWAIT leaves the zombie, and with it the
\* pid, in place; without such a child it fails, and the handler ends.
Watch(h) ==
    /\ pc[h] = "watch"
    /\ \/ IsChild(pid[h]) /\ IsZombie(pid[h]) /\ Goto(h, "hup") /\ UNCHANGED result
       \/ ~IsChild(pid[h]) /\ Goto(h, "drop") /\ result' = [result EXCEPT ![h] = "lost"]
    /\ UNCHANGED <<proc, tracked, pid, reaper, recycled>>

\* relay_pty: the host has closed the connection.
HostCloses(h) ==
    /\ pc[h] = "watch" /\ h \in Terminal
    /\ Goto(h, "hup")
    /\ UNCHANGED <<proc, tracked, pid, result, reaper, recycled>>

\* A slip: a relay that fails forgets its guard.
RelayFailsGuarded(h) ==
    /\ pc[h] = "watch" /\ h \in Terminal
    /\ Goto(h, "done")
    /\ UNCHANGED <<proc, tracked, pid, result, reaper, recycled>>

\* relay_pty: a frame is invalid, or reading or writing fails.  The handler
\* leaves its child behind, running or not.
RelayFails(h) ==
    /\ pc[h] = "watch" /\ h \in Terminal
    /\ Goto(h, "drop")
    /\ UNCHANGED <<proc, tracked, pid, result, reaper, recycled>>

\* kill(-pid, SIGHUP), to the group of that number; whether it ends anybody is
\* up to them, see Exit.
Hup(h) ==
    /\ pc[h] = "hup"
    /\ Goto(h, "wait")
    /\ UNCHANGED <<proc, tracked, pid, result, reaper, recycled>>

\* Child::wait, which blocks: the status of whoever has the pid.
Wait(h) ==
    /\ pc[h] = "wait"
    /\ \/ /\ IsChild(pid[h]) /\ IsZombie(pid[h])
          /\ proc' = [proc EXCEPT ![pid[h]] = None]
          /\ result' = [result EXCEPT ![h] = IF proc[pid[h]].for = h THEN "status"
                                                                      ELSE "foreign"]
       \/ /\ ~IsChild(pid[h])
          /\ result' = [result EXCEPT ![h] = "lost"] /\ UNCHANGED proc
    /\ Goto(h, "drop")
    /\ UNCHANGED <<tracked, pid, reaper, recycled>>

\* The answer is sent, and ChildGuard is dropped: the entry of that number.
Drop(h) ==
    /\ pc[h] = "drop"
    /\ tracked' = tracked \ {pid[h]}
    /\ Goto(h, "done")
    /\ UNCHANGED <<proc, pid, result, reaper, recycled>>

-----------------------------------------------------------------------------
(* The reaper. *)

\* On to the next number: /proc lists them in ascending order.
NextPid == rpc' = "look" /\ eye' = IF eye < MaxPid THEN eye + 1 ELSE Agent

\* A slip: whatever is a child of PID 1 is reaped.
LookAtAll ==
    /\ rpc = "look"
    /\ IF eye = Agent THEN NextPid ELSE rpc' = "stat" /\ UNCHANGED eye
    /\ UNCHANGED <<proc, tracked, handlers, recycled>>

\* The agent itself and registered children are skipped.  One that does not
\* exist has no stat either.
Look ==
    /\ rpc = "look"
    /\ IF eye = Agent \/ eye \in tracked THEN NextPid
       ELSE rpc' = "stat" /\ UNCHANGED eye
    /\ UNCHANGED <<proc, tracked, handlers, recycled>>

\* /proc/<pid>/stat: only children of PID 1.
Stat ==
    /\ rpc = "stat"
    /\ IF IsChild(eye) THEN rpc' = "wait" /\ UNCHANGED eye ELSE NextPid
    /\ UNCHANGED <<proc, tracked, handlers, recycled>>

\* waitpid with WNOHANG.
Reap ==
    /\ rpc = "wait"
    /\ proc' = IF IsChild(eye) /\ IsZombie(eye) THEN [proc EXCEPT ![eye] = None] ELSE proc
    /\ NextPid
    /\ UNCHANGED <<tracked, handlers, recycled>>

-----------------------------------------------------------------------------
KernelNext == \E p \in Pid : Fork(p) \/ Exit(p) \/ ParentWaits(p)

Ends(h) == Hup(h) \/ Wait(h) \/ Drop(h)
HandlerNext(h) == Spawn(h) \/ Watch(h) \/ HostCloses(h) \/ RelayFails(h) \/ Ends(h)

ReaperNext == Look \/ Stat \/ Reap

Next == KernelNext \/ ReaperNext \/ \E h \in Handler : HandlerNext(h)

Spec == Init /\ [][Next]_vars

\* Threads of the agent run.  Nothing is assumed of commands, which need not
\* end, nor of a relay, which a host that takes no output may hold up.
FairSpec ==
    /\ Spec /\ WF_vars(ReaperNext)
    /\ \A h \in Handler : WF_vars(Ends(h))
    /\ \A h \in Handler \ Terminal : WF_vars(Watch(h))

-----------------------------------------------------------------------------
(* Properties. *)

\* Types; the registered pids are those of the guards that are held, but for
\* recycled ones; and a guard outlives the wait of its handler.
TypeOK ==
    /\ proc \in [Pid -> Process \cup {None}]
    /\ tracked \subseteq Pid
    /\ pc \in [Handler -> {"idle", "watch", "hup", "wait", "drop", "done"}]
    /\ pid \in [Handler -> Pid \cup {None}]
    /\ result \in [Handler -> {"none", "status", "lost", "foreign"}]
    /\ rpc \in {"look", "stat", "wait"} /\ eye \in Agent .. MaxPid
    /\ recycled \subseteq Pid
    /\ tracked \subseteq {pid[h] : h \in Held}
    /\ {pid[h] : h \in Held} \subseteq tracked \cup recycled

\* "orphan reaping without stealing exit status from managed commands"
\* (reaper.rs): a handler that awaits its child gets that child's status.  The
\* one way to lose it is that the kernel hands out a pid again while its old
\* holder's guard is not dropped yet, or the reaper has just looked at it.
StatusesAreNotStolen ==
    \A h \in Handler : result[h] \in {"lost", "foreign"} => pid[h] \in recycled

\* "The child has not been reaped, so its process-group ID cannot be reused"
\* (command.rs): while a handler may still signal the group of its child, that
\* group is of its own command, not of another handler's.
SignalsStayInGroup ==
    \A h \in Handler :
        pc[h] \in {"watch", "hup"} /\ pid[h] \notin recycled =>
            \A p \in Pid : Exists(p) /\ proc[p].group = pid[h] => proc[p].for = h

\* Whatever a command leaves behind, and a child its handler gave up, is
\* reaped once it has ended: nothing stays a zombie for the life of the VM,
\* but for the shell of a relay that is stuck.
Orphan(p) ==
    /\ IsChild(p) /\ IsZombie(p)
    /\ \A h \in Terminal : ~(pc[h] = "watch" /\ pid[h] = p)

OrphansReaped == \A p \in Pid : Orphan(p) ~> ~Orphan(p)
=============================================================================

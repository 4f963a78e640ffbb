-------------------------- MODULE ProcessIdentity --------------------------
(***************************************************************************)
(* How Spawnr ends a helper process it only knows from a pid file:         *)
(* process.rs, terminate and terminate_spawned, down to the procfs reads   *)
(* and the signal system calls.                                            *)
(*                                                                         *)
(* One pid is enough to see what can go wrong.  It belongs to the recorded *)
(* process `Target`, to nobody, or to a Stranger that got the number after *)
(* Target was reaped; any of this may change between two system calls.     *)
(* An identity check takes two of them: /proc/<pid>/stat gives state and   *)
(* start time, /proc/<pid>/exe the inode, and a process that made itself   *)
(* non-dumpable denies the second.                                         *)
(***************************************************************************)
CONSTANTS Stranger,   \* processes that may be given the pid later
          Target,     \* the process whose identity was recorded
          Nobody,     \* the pid is free; no pidfd
          Pidfd       \* the kernel has pidfd_open (Linux 5.3)

ASSUME ProcessAssumption ==
    Target \notin Stranger /\ Nobody \notin Stranger \cup {Target}
ASSUME PidfdAssumption == Pidfd \in BOOLEAN

VARIABLES
  holder,    \* who has the pid
  zombie,    \* the holder has exited and is not reaped
  how,       \* "terminate", or "spawned" for the caller's own child
  pc,        \* the next system call
  asked,     \* who asked for the identity check: "send" or "wait"
  signal,    \* the signal at hand
  pidfd,     \* the process the pidfd refers to
  expired,   \* the deadline of the current wait has passed
  outcome,   \* "none" while under way, then "ok" or "err"
  hit,       \* history: processes a signal was delivered to
  faulted,   \* history: a call met an I/O error
  wasGone    \* history: Target had exited before the first call

vars == <<holder, zombie, how, pc, asked, signal, pidfd, expired, outcome, hit,
          faulted, wasGone>>

process == <<holder, zombie>>
control == <<pc, asked, signal, pidfd, expired, outcome>>

Current == holder = Target /\ ~zombie

Finish(o) ==
    /\ pc' = "done" /\ outcome' = o
    /\ UNCHANGED <<asked, signal, pidfd, expired>>

Goto(l) == pc' = l /\ UNCHANGED <<asked, signal, pidfd, expired, outcome>>

\* An I/O error of any call is reported at once.
Fails == Finish("err") /\ faulted' = TRUE

Quiet == UNCHANGED faulted

\* wait_for_exit starts over with a deadline of its own.
StartWait ==
    /\ pc' = IF how = "spawned" THEN "try_wait" ELSE "stat"
    /\ asked' = "wait" /\ expired' = FALSE
    /\ UNCHANGED <<signal, pidfd, outcome>>

\* send_signal_checked returned whether there was anyone to signal.  terminate
\* takes "nobody" as success the first time only, terminate_spawned never.
SendReturns(delivered) ==
    \/ delivered /\ StartWait
    \/ ~delivered /\ how = "terminate" /\ signal = "TERM" /\ Finish("ok")
    \/ ~delivered /\ (how = "spawned" \/ signal = "KILL") /\ Finish("err")

\* A slip: the last deadline passes for an exit.
WaitGivesUp ==
    \/ ~expired /\ Goto(IF how = "spawned" THEN "try_wait" ELSE "stat")
    \/ /\ expired /\ signal = "TERM"
       /\ pc' = "open" /\ signal' = "KILL"
       /\ UNCHANGED <<asked, pidfd, expired, outcome>>
    \/ expired /\ signal = "KILL" /\ Finish("ok")

\* TERM, bounded wait, then KILL, bounded wait.
WaitReturns ==
    \/ ~expired /\ Goto(IF how = "spawned" THEN "try_wait" ELSE "stat")
    \/ /\ expired /\ signal = "TERM"
       /\ pc' = "open" /\ signal' = "KILL"
       /\ UNCHANGED <<asked, pidfd, expired, outcome>>
    \/ expired /\ signal = "KILL" /\ Finish("err")

\* matches_running_process returned.
Answer(current) ==
    \/ asked = "send" /\ current /\ Goto("send")
    \/ asked = "send" /\ ~current /\ SendReturns(FALSE)
    \/ asked = "wait" /\ current /\ WaitReturns
    \/ asked = "wait" /\ ~current /\ Finish("ok")
-----------------------------------------------------------------------------
\* A slip: the identity is not checked again once the pidfd is open.
OpenUnchecked ==
    /\ pc = "open"
    /\ pidfd' = IF Pidfd THEN holder ELSE Nobody
    /\ asked' = "send" /\ pc' = "send"
    /\ UNCHANGED <<signal, expired, outcome>>
    /\ Quiet /\ UNCHANGED <<process, how, hit, wasGone>>

\* pidfd_open: ENOSYS and ESRCH both leave no pidfd and fall back to kill(2).
Open ==
    /\ pc = "open"
    /\ \/ /\ pidfd' = IF Pidfd THEN holder ELSE Nobody
          /\ asked' = "send" /\ pc' = "stat"
          /\ UNCHANGED <<signal, expired, outcome>> /\ Quiet
       \/ Fails
    /\ UNCHANGED <<process, how, hit, wasGone>>

\* The state and start time.  An entry that vanishes between open and read is
\* an error (ESRCH), not an absent process.
Stat ==
    /\ pc = "stat"
    /\ \/ Current /\ Goto("exe") /\ Quiet
       \/ ~Current /\ Answer(FALSE) /\ Quiet
       \/ Fails
    /\ UNCHANGED <<process, how, hit, wasGone>>

\* The executable.  It is looked up by pid once more, so it may be that of a
\* stranger by now: of the same binary or closed to us, which both say yes.
Exe ==
    /\ pc = "exe"
    /\ \/ Current /\ Answer(TRUE) /\ Quiet
       \/ holder \in Stranger /\ ~zombie /\ Answer(TRUE) /\ Quiet
       \/ ~Current /\ Answer(FALSE) /\ Quiet
       \/ Fails
    /\ UNCHANGED <<process, how, hit, wasGone>>

\* pidfd_send_signal reaches the process the pidfd was opened on or nobody;
\* kill(2) reaches whoever has the pid.
Send ==
    LET reached == IF pidfd = Nobody THEN holder
                   ELSE IF holder = pidfd THEN pidfd ELSE Nobody
    IN  /\ pc = "send"
        /\ \/ /\ reached # Nobody
              /\ hit' = hit \cup {reached} /\ SendReturns(TRUE) /\ Quiet
           \/ reached = Nobody /\ SendReturns(FALSE) /\ UNCHANGED hit /\ Quiet
           \/ Fails /\ UNCHANGED hit
        /\ UNCHANGED <<process, how, wasGone>>

\* Child::try_wait reaps the child; nobody else can.
TryWait ==
    /\ pc = "try_wait"
    /\ \/ zombie /\ holder' = Nobody /\ zombie' = FALSE /\ Finish("ok") /\ Quiet
       \/ ~zombie /\ asked = "wait" /\ WaitReturns /\ UNCHANGED process /\ Quiet
       \/ ~zombie /\ asked = "none" /\ Goto("open") /\ UNCHANGED process /\ Quiet
       \/ Fails /\ UNCHANGED process
    /\ UNCHANGED <<how, hit, wasGone>>
-----------------------------------------------------------------------------
(* The environment.                                                        *)

Exit ==
    /\ holder # Nobody /\ ~zombie
    /\ zombie' = TRUE
    /\ UNCHANGED <<holder, how, control, hit, faulted, wasGone>>

\* init reaps a helper whose CLI has ended, or strangers' parents do; a child
\* of this CLI waits for try_wait.
Reap ==
    /\ zombie /\ ~(how = "spawned" /\ holder = Target)
    /\ holder' = Nobody /\ zombie' = FALSE
    /\ UNCHANGED <<how, control, hit, faulted, wasGone>>

Reuse ==
    /\ holder = Nobody
    /\ holder' \in Stranger
    /\ UNCHANGED <<zombie, how, control, hit, faulted, wasGone>>

Clock ==
    /\ ~expired /\ expired' = TRUE
    /\ UNCHANGED <<process, how, pc, asked, signal, pidfd, outcome, hit, faulted, wasGone>>
-----------------------------------------------------------------------------
\* terminate may be called for a process that is long gone and replaced;
\* terminate_spawned holds an unreaped child.
Init ==
    /\ how \in {"terminate", "spawned"}
    /\ holder \in IF how = "spawned" THEN {Target} ELSE {Target, Nobody} \cup Stranger
    /\ zombie \in (IF holder = Nobody THEN {FALSE} ELSE BOOLEAN)
    /\ pc = IF how = "spawned" THEN "try_wait" ELSE "open"
    /\ asked = "none" /\ signal = "TERM" /\ pidfd = Nobody /\ expired = FALSE
    /\ outcome = "none"
    /\ hit = {} /\ faulted = FALSE /\ wasGone = ~Current

Call == Open \/ Stat \/ Exe \/ Send \/ TryWait

Next == Call \/ Exit \/ Reap \/ Reuse \/ Clock

Spec == Init /\ [][Next]_vars
-----------------------------------------------------------------------------
(* Properties.                                                             *)

TypeOK ==
    /\ holder \in Stranger \cup {Target, Nobody}
    /\ zombie \in BOOLEAN
    /\ holder = Nobody => ~zombie
    /\ how \in {"terminate", "spawned"}
    /\ pc \in {"open", "stat", "exe", "send", "try_wait", "done"}
    /\ asked \in {"none", "send", "wait"}
    /\ signal \in {"TERM", "KILL"}
    /\ pidfd \in Stranger \cup {Target, Nobody}
    /\ expired \in BOOLEAN
    /\ outcome \in {"none", "ok", "err"}
    /\ hit \subseteq Stranger \cup {Target}
    /\ faulted \in BOOLEAN
    /\ wasGone \in BOOLEAN

\* "Signals are only sent to the recorded Linux process identity, never merely
\* to its numeric PID" (process.rs, terminate): no stranger is ever signalled,
\* however the pid changes hands between the calls.
OnlyTargetSignalled == hit \subseteq {Target}

\* A termination that reports success leaves the helper gone, or a zombie that
\* has released its disks and sockets; the callers then drop its pid file.
OkMeansGone == outcome = "ok" => ~Current

\* A helper that exited before the call counts as ended, even one that stays a
\* zombie because its parent is this very CLI (process.rs: "treating it as live
\* makes rollback wait forever"): only an I/O error makes the call fail.
ExitedIsSuccess == wasGone /\ ~faulted => outcome # "err"

\* The answer of terminate and terminate_spawned can be relied on both ways.
AnswerIsTrue == OkMeansGone /\ ExitedIsSuccess
=============================================================================

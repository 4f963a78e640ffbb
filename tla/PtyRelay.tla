------------------------------- MODULE PtyRelay -------------------------------
(***************************************************************************)
(* One terminal session of `spawnr open`.  On the host interactive_exec    *)
(* (guest.rs) prints what arrives, while two threads that share one writer *)
(* send what the user types and the signals that the terminal gets.  In    *)
(* the guest relay_pty (command.rs) moves frames between the connection    *)
(* and a PTY, one at a time and with blocking writes, until the shell has  *)
(* ended or the host has gone.                                             *)
(*                                                                         *)
(* A frame is written and read in two parts, as its header and its payload *)
(* are.  Bytes come in units: a chunk of output, the payload of one frame. *)
(* Left out: exit codes, window sizes, and what a signal does to a shell,  *)
(* which may end at any time anyway.                                       *)
(***************************************************************************)
EXTENDS Naturals, Sequences

CONSTANTS
  MaxTyped,    \* bound: frames of input
  MaxSignals,  \* bound: signals that the terminal sends
  MaxWrites,   \* bound: chunks that the shell writes
  SocketSize,  \* units that fit in the connection, each way
  PtySize      \* units that fit in the PTY, each way

VARIABLES
  host,       \* interactive_exec: "request", "answer", "loop", "print", "over"
  returned,   \* what it returned: "none", "status", "err"; "killed"
  thread,     \* [Writer -> the step of that thread]
  sending,    \* [Writer -> the kind of frame it has to send]
  lock,       \* the writer that holds the mutex
  up, down,   \* the connection: parts of frames to the guest, frames from it
  relay,      \* the guest's handler: the next step
  seen,       \* what its poll has reported, a subset of {"pty", "host"}
  frame,      \* the kind of frame it has in hand
  chunk,      \* the output it has in hand
  deadline,   \* of drain_pty: "none", "set", "passed"
  keys, text, \* the PTY: input not read by the guest, output not read by the relay
  shell,      \* "none", "running", "zombie", "reaped"
  job,        \* a descendant of the shell holds the PTY open
  hungUp,     \* the shell was sent SIGHUP
  typed, signals, wrote, screen,  \* counters; screen: chunks of the shell printed
  broken, cut \* history: the host's output failed; the deadline cut output off

hostVars == <<host, returned, screen, broken>>
writers == <<thread, sending, lock, typed, signals>>
relayVars == <<relay, seen, frame, chunk, deadline, cut>>
guest == <<keys, text, shell, job, hungUp, wrote>>
relayAll == <<hostVars, writers, up, down, relayVars, guest>>

Writer == {"stdin", "signals"}
Kind == {"stdin", "signal", "resize"}
Over == {"none", "refused", "done", "failed", "dead"}   \* no handler any more
Idle == {"off", "read", "gone"}

GuestOpen == relay \notin {"refused", "done", "failed", "dead"}
HostOpen == host # "over"
SlaveOpen == shell = "running" \/ job

Init ==
    /\ host = "request" /\ returned = "none" /\ screen = 0 /\ broken = FALSE
    /\ thread = [w \in Writer |-> "off"] /\ sending = [w \in Writer |-> "none"]
    /\ lock = "none" /\ typed = 0 /\ signals = 0
    /\ up = <<>> /\ down = <<>>
    /\ relay = "none" /\ seen = {} /\ frame = "none" /\ chunk = "none"
    /\ deadline = "none" /\ cut = FALSE
    /\ keys = 0 /\ text = <<>> /\ shell = "none" /\ job = FALSE /\ hungUp = FALSE
    /\ wrote = 0

-----------------------------------------------------------------------------
(* The host: interactive_exec. *)

\* The process ends, and with it its threads, wherever they are.
Return(how) ==
    /\ host' = "over" /\ returned' = how
    /\ thread' = [w \in Writer |-> "gone"] /\ sending' = [w \in Writer |-> "none"]
    /\ lock' = "none"
    /\ UNCHANGED <<typed, signals>>

Request ==
    /\ host = "request" /\ relay = "none"
    /\ host' = "answer" /\ relay' = "spawn"
    /\ UNCHANGED <<returned, screen, broken, writers, up, down, seen, frame, chunk,
                   deadline, cut, guest>>

\* ExecReady is there: raw mode, the signal mask, the threads.
Ready ==
    /\ host = "answer" /\ down # <<>>
    /\ down' = Tail(down)
    /\ host' = "loop" /\ thread' = [w \in Writer |-> "read"]
    /\ UNCHANGED <<returned, screen, broken, sending, lock, typed, signals, up,
                   relayVars, guest>>

Receive ==
    /\ host = "loop" /\ down # <<>>
    /\ down' = Tail(down)
    /\ \/ Head(down) = "exit" /\ Return("status") /\ UNCHANGED screen
       \/ /\ Head(down) # "exit"
          /\ host' = "print"
          /\ screen' = IF Head(down) = "shell" THEN screen + 1 ELSE screen
          /\ UNCHANGED <<returned, writers>>
    /\ UNCHANGED <<broken, up, relayVars, guest>>

\* write_all and flush on the host's standard output.
Printed ==
    /\ host = "print"
    /\ \/ host' = "loop" /\ UNCHANGED <<returned, writers, broken>>
       \/ broken' = TRUE /\ Return("err")
    /\ UNCHANGED <<screen, up, down, relayVars, guest>>

\* read_exact meets the end of the stream.
ReadFails ==
    /\ host \in {"answer", "loop"} /\ down = <<>> /\ ~GuestOpen
    /\ Return("err")
    /\ UNCHANGED <<screen, broken, up, down, relayVars, guest>>

\* Nothing but SIGKILL: the other signals are forwarded.
KillHost ==
    /\ HostOpen
    /\ Return("killed")
    /\ UNCHANGED <<screen, broken, up, down, relayVars, guest>>

-----------------------------------------------------------------------------
(* The host's threads: the reader of stdin and forward_terminal_signals. *)

Step(w, s) == thread' = [thread EXCEPT ![w] = s]

\* stdin.read: the user types, or there is no more input.
Type ==
    /\ thread["stdin"] = "read"
    /\ \/ /\ typed < MaxTyped
          /\ typed' = typed + 1 /\ sending' = [sending EXCEPT !["stdin"] = "stdin"]
          /\ Step("stdin", "lock")
       \/ Step("stdin", "gone") /\ UNCHANGED <<typed, sending>>
    /\ UNCHANGED <<hostVars, lock, signals, up, down, relayVars, guest>>

\* sigwait
Signal ==
    /\ thread["signals"] = "read" /\ signals < MaxSignals
    /\ signals' = signals + 1
    /\ \E kind \in {"signal", "resize"} : sending' = [sending EXCEPT !["signals"] = kind]
    /\ Step("signals", "lock")
    /\ UNCHANGED <<hostVars, lock, typed, up, down, relayVars, guest>>

Lock(w) ==
    /\ thread[w] = "lock" /\ lock = "none"
    /\ lock' = w /\ Step(w, "header")
    /\ UNCHANGED <<hostVars, sending, typed, signals, up, down, relayVars, guest>>

Sent(w, s) == Step(w, s) /\ sending' = [sending EXCEPT ![w] = "none"] /\ lock' = "none"

\* write_stream_frame, which blocks while the connection is full.  The guard of
\* the mutex is dropped after it.
Write(w) ==
    /\ thread[w] \in {"header", "payload"}
    /\ \/ /\ GuestOpen /\ Len(up) < SocketSize
          /\ up' = Append(up, <<sending[w], thread[w]>>)
          /\ IF thread[w] = "header" THEN Step(w, "payload") /\ UNCHANGED <<lock, sending>>
             ELSE Sent(w, "read")
       \/ ~GuestOpen /\ Sent(w, "gone") /\ UNCHANGED up
    /\ UNCHANGED <<hostVars, typed, signals, down, relayVars, guest>>

-----------------------------------------------------------------------------
(* The guest: exec_tty and relay_pty. *)

Goto(s) == relay' = s

\* The handler returns: the connection is closed, and the PTY's master with
\* it, which the kernel tells the session leader with SIGHUP.
Fail ==
    /\ Goto("failed")
    /\ hungUp' = (hungUp \/ shell = "running")

\* write_stream_frame to the host blocks while the connection is full; without
\* a host it fails.
ToHost(what, next) ==
    \/ /\ HostOpen /\ Len(down) < SocketSize
       /\ down' = Append(down, what) /\ Goto(next) /\ UNCHANGED hungUp
    \/ ~HostOpen /\ Fail /\ UNCHANGED down

\* openpty, prepare and spawn.  A refusal is not answered (lib.rs, streaming).
Spawn ==
    /\ relay = "spawn"
    /\ \/ shell' = "running" /\ Goto("ready")
       \/ Goto("refused") /\ UNCHANGED shell
    /\ UNCHANGED <<hostVars, writers, up, down, seen, frame, chunk, deadline, cut,
                   keys, text, job, hungUp, wrote>>

ExecReady ==
    /\ relay = "ready" /\ ToHost("ready", "check")
    /\ UNCHANGED <<hostVars, writers, up, seen, frame, chunk, deadline, cut,
                   keys, text, shell, job, wrote>>

\* child_exit_ready, then kill(-pid, SIGHUP) and wait for a child that has ended.
Check ==
    /\ relay = "check"
    /\ IF shell = "zombie"
       THEN Goto("drain") /\ shell' = "reaped" /\ deadline' = "set"
       ELSE Goto("poll") /\ UNCHANGED <<shell, deadline>>
    /\ frame' = "none"
    /\ UNCHANGED <<hostVars, writers, up, down, seen, chunk, cut, keys, text, job,
                   hungUp, wrote>>

\* What poll reports within 100 ms, perhaps nothing.
PtyEvent == text # <<>> \/ ~SlaveOpen
HostEvent == up # <<>> \/ ~HostOpen

Poll ==
    /\ relay = "poll"
    /\ seen' = {e \in {"pty", "host"} : \/ e = "pty" /\ PtyEvent
                                        \/ e = "host" /\ HostEvent}
    /\ Goto("read_pty")
    /\ UNCHANGED <<hostVars, writers, up, down, frame, chunk, deadline, cut, guest>>

\* A slip: that the last process has closed the PTY is taken for an error.
ReadPtyStrict ==
    /\ relay = "read_pty"
    /\ \/ "pty" \in seen /\ text # <<>> /\ chunk' = Head(text) /\ text' = Tail(text)
          /\ Goto("write_host") /\ UNCHANGED hungUp
       \/ "pty" \in seen /\ text = <<>> /\ Fail /\ UNCHANGED <<chunk, text>>
       \/ "pty" \notin seen /\ Goto("read_host") /\ UNCHANGED <<chunk, text, hungUp>>
    /\ UNCHANGED <<hostVars, writers, up, down, seen, frame, deadline, cut, keys,
                   shell, job, wrote>>

\* master.read: output, or EIO when no process has the PTY open.
ReadPty ==
    /\ relay = "read_pty"
    /\ IF "pty" \in seen /\ text # <<>>
       THEN chunk' = Head(text) /\ text' = Tail(text) /\ Goto("write_host")
       ELSE Goto("read_host") /\ UNCHANGED <<chunk, text>>
    /\ UNCHANGED <<hostVars, writers, up, down, seen, frame, deadline, cut, keys,
                   shell, job, hungUp, wrote>>

WriteHost ==
    /\ relay = "write_host" /\ ToHost(chunk, "read_host")
    /\ chunk' = "none"
    /\ UNCHANGED <<hostVars, writers, up, seen, frame, deadline, cut, keys, text,
                   shell, job, wrote>>

\* read_stream_frame: the header, then the payload, which may not be there yet.
\* At the end of the stream the shell is hung up and waited for.
ReadHeader ==
    /\ relay = "read_host"
    /\ \/ "host" \notin seen /\ Goto("check") /\ UNCHANGED <<up, frame, hungUp>>
       \/ /\ "host" \in seen /\ up # <<>> /\ up' = Tail(up)
          /\ IF Head(up)[2] = "header"
             THEN Goto("read_payload") /\ frame' = Head(up)[1] /\ UNCHANGED hungUp
             ELSE Goto("hang_up") /\ UNCHANGED <<frame, hungUp>>
       \/ /\ "host" \in seen /\ up = <<>>
          /\ Goto("hang_up") /\ UNCHANGED <<up, frame, hungUp>>
    /\ seen' = {}
    /\ UNCHANGED <<hostVars, writers, down, chunk, deadline, cut, keys, text,
                   shell, job, wrote>>

Received == IF frame = "stdin" THEN "write_pty" ELSE "check"

ReadPayload ==
    /\ relay = "read_payload"
    /\ \/ /\ up # <<>> /\ up' = Tail(up)
          /\ Goto(IF Head(up) = <<frame, "payload">> THEN Received ELSE "hang_up")
       \/ up = <<>> /\ ~HostOpen /\ Goto("hang_up") /\ UNCHANGED up
    /\ UNCHANGED <<hostVars, writers, down, seen, frame, chunk, deadline, cut, guest>>

\* master.write_all: blocks while the PTY is full, fails with EIO when no
\* process has it open.
WritePty ==
    /\ relay = "write_pty"
    /\ \/ SlaveOpen /\ keys < PtySize /\ keys' = keys + 1 /\ Goto("check") /\ UNCHANGED hungUp
       \/ ~SlaveOpen /\ Fail /\ UNCHANGED keys
    /\ UNCHANGED <<hostVars, writers, up, down, seen, frame, chunk, deadline, cut,
                   text, shell, job, wrote>>

\* A slip: a host that goes away only ends the relay.
HangUpNothing ==
    /\ relay = "hang_up"
    /\ Goto("reap")
    /\ UNCHANGED <<hostVars, writers, up, down, seen, frame, chunk, deadline, cut, guest>>

HangUp ==
    /\ relay = "hang_up"
    /\ Goto("reap") /\ hungUp' = (hungUp \/ shell = "running")
    /\ UNCHANGED <<hostVars, writers, up, down, seen, frame, chunk, deadline, cut,
                   keys, text, shell, job, wrote>>

\* child.wait, which blocks until the shell has ended.
Reap ==
    /\ relay = "reap" /\ shell = "zombie"
    /\ shell' = "reaped" /\ Goto("failed")
    /\ UNCHANGED <<hostVars, writers, up, down, seen, frame, chunk, deadline, cut,
                   keys, text, job, hungUp, wrote>>

-----------------------------------------------------------------------------
(* drain_pty and the exit frame. *)

\* The 100 ms are over, also while a write to the host blocks.
Tick ==
    /\ deadline = "set" /\ deadline' = "passed"
    /\ UNCHANGED <<hostVars, writers, up, down, relay, seen, frame, chunk, cut, guest>>

\* A slip: output is drained until every process has closed the PTY.
DrainAll ==
    /\ relay = "drain"
    /\ \/ text = <<>> /\ ~SlaveOpen /\ Goto("exit") /\ UNCHANGED <<chunk, text>>
       \/ text # <<>> /\ chunk' = Head(text) /\ text' = Tail(text) /\ Goto("drain_host")
    /\ UNCHANGED <<hostVars, writers, up, down, seen, frame, deadline, cut, keys,
                   shell, job, hungUp, wrote>>

\* A slip: the shell has ended, so nothing is drained.
DrainNothing ==
    /\ relay = "drain" /\ Goto("exit")
    /\ UNCHANGED <<hostVars, writers, up, down, seen, frame, chunk, deadline, cut, guest>>

Drain ==
    /\ relay = "drain"
    /\ IF deadline = "passed" \/ text = <<>>
       THEN Goto("exit") /\ cut' = (text # <<>>) /\ UNCHANGED <<chunk, text>>
       ELSE /\ chunk' = Head(text) /\ text' = Tail(text)
            /\ Goto("drain_host") /\ UNCHANGED cut
    /\ UNCHANGED <<hostVars, writers, up, down, seen, frame, deadline, keys, shell,
                   job, hungUp, wrote>>

DrainHost ==
    /\ relay = "drain_host" /\ ToHost(chunk, "drain")
    /\ chunk' = "none"
    /\ UNCHANGED <<hostVars, writers, up, seen, frame, deadline, cut, keys, text,
                   shell, job, wrote>>

SendExit ==
    /\ relay = "exit" /\ ToHost("exit", "done")
    /\ UNCHANGED <<hostVars, writers, up, seen, frame, chunk, deadline, cut, keys,
                   text, shell, job, wrote>>

-----------------------------------------------------------------------------
(* The processes in the guest, as long as the PTY has its master, and the guest. *)

ShellReads ==
    /\ shell = "running" /\ GuestOpen /\ keys > 0 /\ keys' = keys - 1
    /\ UNCHANGED <<hostVars, writers, up, down, relayVars, text, shell, job, hungUp, wrote>>

ShellWrites ==
    /\ shell = "running" /\ GuestOpen /\ wrote < MaxWrites /\ Len(text) < PtySize
    /\ wrote' = wrote + 1 /\ text' = Append(text, "shell")
    /\ UNCHANGED <<hostVars, writers, up, down, relayVars, keys, shell, job, hungUp>>

ShellEnds ==
    /\ shell = "running" /\ shell' = "zombie"
    /\ UNCHANGED <<hostVars, writers, up, down, relayVars, keys, text, job, hungUp, wrote>>

\* A job in the background, which may write without end and survive a SIGHUP.
JobStarts ==
    /\ shell = "running" /\ GuestOpen /\ ~job /\ job' = TRUE
    /\ UNCHANGED <<hostVars, writers, up, down, relayVars, keys, text, shell, hungUp, wrote>>

JobWrites ==
    /\ job /\ GuestOpen /\ Len(text) < PtySize /\ text' = Append(text, "job")
    /\ UNCHANGED <<hostVars, writers, up, down, relayVars, keys, shell, job, hungUp, wrote>>

JobEnds ==
    /\ job /\ job' = FALSE
    /\ UNCHANGED <<hostVars, writers, up, down, relayVars, keys, text, shell, hungUp, wrote>>

\* The VM is stopped or crashes.
PowerCut ==
    /\ relay # "none" /\ GuestOpen
    /\ Goto("dead") /\ shell' = "none" /\ job' = FALSE /\ text' = <<>> /\ keys' = 0
    /\ UNCHANGED <<hostVars, writers, up, down, seen, frame, chunk, deadline, cut,
                   hungUp, wrote>>

-----------------------------------------------------------------------------
HostNext == Request \/ Ready \/ Receive \/ Printed \/ ReadFails
Writes(w) == Lock(w) \/ Write(w)
RelayNext ==
    \/ Spawn \/ ExecReady \/ Check \/ Poll \/ ReadPty \/ WriteHost
    \/ ReadHeader \/ ReadPayload \/ WritePty \/ HangUp \/ Reap
    \/ Drain \/ DrainHost \/ SendExit
World ==
    \/ ShellReads \/ ShellWrites \/ ShellEnds
    \/ JobStarts \/ JobWrites \/ JobEnds \/ PowerCut

Next ==
    \/ HostNext \/ KillHost
    \/ Type \/ Signal \/ (\E w \in Writer : Writes(w))
    \/ RelayNext \/ Tick
    \/ World

Spec == Init /\ [][Next]_relayAll

\* The host's process, its terminal and the guest's handler go on, and time
\* passes.  Nothing is assumed of the user, of the shell or of its jobs.
Fairness ==
    /\ WF_relayAll(HostNext)
    /\ \A w \in Writer : WF_relayAll(Writes(w))
    /\ WF_relayAll(RelayNext) /\ WF_relayAll(Tick)

FairSpec == Spec /\ Fairness

-----------------------------------------------------------------------------
(* Properties. *)

\* Types; the mutex is held by a thread that writes a frame, and by no other.
TypeOK ==
    /\ host \in {"request", "answer", "loop", "print", "over"}
    /\ returned \in {"none", "status", "err", "killed"}
    /\ thread \in [Writer -> Idle \cup {"lock", "header", "payload"}]
    /\ sending \in [Writer -> Kind \cup {"none"}] /\ lock \in Writer \cup {"none"}
    /\ up \in Seq(Kind \X {"header", "payload"}) /\ Len(up) <= SocketSize
    /\ down \in Seq({"ready", "shell", "job", "exit"}) /\ Len(down) <= SocketSize
    /\ relay \in Over \cup {"spawn", "ready", "check", "poll", "read_pty", "write_host",
                            "read_host", "read_payload", "write_pty", "hang_up", "reap",
                            "drain", "drain_host", "exit"}
    /\ seen \subseteq {"pty", "host"} /\ frame \in Kind \cup {"none"}
    /\ chunk \in {"none", "shell", "job"} /\ deadline \in {"none", "set", "passed"}
    /\ keys \in 0 .. PtySize /\ text \in Seq({"shell", "job"}) /\ Len(text) <= PtySize
    /\ shell \in {"none", "running", "zombie", "reaped"}
    /\ job \in BOOLEAN /\ hungUp \in BOOLEAN /\ broken \in BOOLEAN /\ cut \in BOOLEAN
    /\ typed \in 0 .. MaxTyped /\ signals \in 0 .. MaxSignals
    /\ wrote \in 0 .. MaxWrites /\ screen \in 0 .. wrote
    /\ \A w \in Writer : thread[w] \in {"header", "payload"} <=> lock = w

\* drain_pty "drains bytes already committed by the exited shell": when the exit
\* status is there, the shell has ended and all that it wrote was printed before,
\* unless 100 ms were not enough for it.
OutputBeforeStatus ==
    returned = "status" => shell = "reaped" /\ (screen = wrote \/ cut)

\* `open` fails only for a reason: the shell was not spawned, the guest went, the
\* host's own output failed, or input reached a PTY that every process had left.
\* In particular no frame is garbled by the other thread, and a PTY without
\* processes is not an error as long as nothing is typed.
FailuresHaveReasons ==
    returned = "err" =>
        \/ relay \in {"refused", "dead"} \/ broken
        \/ relay = "failed" /\ frame = "stdin" /\ ~SlaveOpen

\* The relay waits in write_all for processes that do not read their input.
InputStuck == relay = "write_pty" /\ keys = PtySize

\* "Do not let background descendants retain the PTY and keep `spawnr open` alive
\* after the shell has logged out": whoever holds the PTY and writes to it, the
\* end of the shell ends the session, unless the relay is stuck with input.
LogoutEndsSession ==
    <>[]InputStuck \/ (shell = "zombie" ~> host = "over")

\* A host that goes away takes its shell with it, wherever the relay is, with the
\* same exception: then the shell is never told.
HostTakesShellAlong ==
    <>[]InputStuck \/ (host = "over" /\ shell = "running" ~> hungUp \/ shell # "running")
=============================================================================

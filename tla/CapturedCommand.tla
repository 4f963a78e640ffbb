--------------------------- MODULE CapturedCommand ---------------------------
(***************************************************************************)
(* `git status` in the guest, on which `spawnr rm` decides whether it may  *)
(* destroy a workspace: the answer is "clean" when the command ended well  *)
(* and printed nothing (machine.rs remove, command.rs workspace_status).   *)
(*                                                                         *)
(* run_captured starts the command with two pipes, a reader thread for     *)
(* each (read_bounded), and waits.  Readers do not wait for the end of a   *)
(* pipe, which processes that the command leaves behind may keep open:     *)
(* once `done` is set an empty pipe ends them, or 100 ms.                  *)
(*                                                                         *)
(* Output comes in chunks of the reader's buffer.  Left out: exit codes    *)
(* (one other than 0 is refused), and which text was printed.              *)
(***************************************************************************)
EXTENDS Naturals, Sequences

CONSTANTS
  MaxChunks,   \* bound: chunks the command writes
  PipeSize,    \* chunks that fit in a pipe
  Limit        \* chunks kept: MAX_CAPTURED_OUTPUT, and MAX_CONTROL_FRAME

VARIABLES
  verdict,       \* what rm made of the answer: "none", "clean", "dirty", "error"
  handler,       \* run_captured: the next step
  child,         \* "none", "running", "zombie", "reaped"
  left,          \* a process that the command left behind holds the pipes open
  pipe, written, \* [Stream -> its chunks], [Stream -> chunks by the command]
  reader,        \* [Stream -> the next step of its thread]
  finishBy,      \* [Stream -> its deadline: "none", "set", "passed"]
  bytes, own,    \* [Stream -> chunks kept], and how many are the command's
  exceeded,      \* the streams that had more than the limit
  done,          \* the flag both readers watch
  late           \* history: streams whose deadline left output behind

Stream == {"stdout", "stderr"}
processes == <<child, left, pipe, written>>
readers == <<reader, finishBy, bytes, own, exceeded, late>>
captured == <<verdict, handler, processes, readers, done>>

Total(amount) == amount["stdout"] + amount["stderr"]
Serving == handler \notin {"none", "done"}

Init ==
    /\ verdict = "none" /\ handler = "none"
    /\ child = "none" /\ left = FALSE
    /\ pipe = [s \in Stream |-> <<>>] /\ written = [s \in Stream |-> 0]
    /\ reader = [s \in Stream |-> "off"] /\ finishBy = [s \in Stream |-> "none"]
    /\ bytes = [s \in Stream |-> 0] /\ own = [s \in Stream |-> 0]
    /\ exceeded = {} /\ done = FALSE /\ late = {}

-----------------------------------------------------------------------------
(* The host: request_timeout and what rm makes of its result.  After 30 s it *)
(* gives up, which only the answer meets that comes later.                   *)

Ask ==
    /\ handler = "none"
    /\ handler' = "spawn"
    /\ UNCHANGED <<verdict, processes, readers, done>>

Hears(v) == verdict' \in {v, "error"}

-----------------------------------------------------------------------------
(* The handler: run_captured. *)

Spawn ==
    /\ handler = "spawn"
    /\ \/ /\ handler' = "watch" /\ child' = "running"
          /\ reader' = [s \in Stream |-> "check"] /\ UNCHANGED verdict
       \/ handler' = "done" /\ Hears("error") /\ UNCHANGED <<child, reader>>
    /\ UNCHANGED <<left, pipe, written, finishBy, bytes, own, exceeded, done, late>>

\* child_exit_ready; SIGHUP for the group; the status is collected.
Wait ==
    /\ handler = "watch" /\ child = "zombie"
    /\ handler' = "mark" /\ child' = "reaped"
    /\ UNCHANGED <<verdict, left, pipe, written, readers, done>>

\* A slip: the flag is never set, and readers wait for the end of their pipe.
MarkNothing ==
    /\ handler = "mark"
    /\ handler' = "join"
    /\ UNCHANGED <<verdict, processes, readers, done>>

Mark ==
    /\ handler = "mark"
    /\ handler' = "join" /\ done' = TRUE
    /\ UNCHANGED <<verdict, processes, readers>>

\* join, then the answer.  Each stream has the limit of a whole control frame:
\* write_json refuses what both have together, and the error is sent instead.
Fits == exceeded = {} /\ Total(bytes) <= Limit

Answer ==
    /\ handler = "join" /\ \A s \in Stream : reader[s] = "over"
    /\ handler' = "done"
    /\ Hears(IF ~Fits THEN "error" ELSE IF bytes["stdout"] = 0 THEN "clean" ELSE "dirty")
    /\ UNCHANGED <<processes, readers, done>>

-----------------------------------------------------------------------------
(* A reader: read_bounded. *)

Goto(s, step) == reader' = [reader EXCEPT ![s] = step]
Open == child = "running" \/ left

\* done.load, ahead of the read.
Check(s) ==
    /\ reader[s] = "check"
    /\ finishBy' = IF done /\ finishBy[s] = "none" THEN [finishBy EXCEPT ![s] = "set"]
                                                   ELSE finishBy
    /\ Goto(s, "read")
    /\ UNCHANGED <<verdict, handler, processes, bytes, own, exceeded, done, late>>

Keep(s) ==
    IF bytes[s] < Limit
    THEN /\ bytes' = [bytes EXCEPT ![s] = @ + 1]
         /\ own' = IF Head(pipe[s]) = "command" THEN [own EXCEPT ![s] = @ + 1] ELSE own
         /\ UNCHANGED exceeded
    ELSE exceeded' = exceeded \cup {s} /\ UNCHANGED <<bytes, own>>

\* A slip: once the command has ended there is nothing left to read.
ReadUntilDone(s) ==
    /\ reader[s] = "read"
    /\ \/ /\ pipe[s] # <<>> /\ finishBy[s] = "none"
          /\ pipe' = [pipe EXCEPT ![s] = Tail(@)]
          /\ Keep(s) /\ Goto(s, "check") /\ UNCHANGED late
       \/ /\ pipe[s] = <<>> \/ finishBy[s] # "none"
          /\ Goto(s, IF ~Open \/ finishBy[s] # "none" THEN "over" ELSE "poll")
          /\ UNCHANGED <<pipe, bytes, own, exceeded, late>>
    /\ UNCHANGED <<verdict, handler, child, left, written, finishBy, done>>

\* A slip: nothing is read beyond the limit.
ReadToLimit(s) ==
    /\ reader[s] = "read"
    /\ \/ /\ pipe[s] # <<>> /\ bytes[s] < Limit
          /\ pipe' = [pipe EXCEPT ![s] = Tail(@)]
          /\ Keep(s) /\ Goto(s, "check")
       \/ /\ pipe[s] = <<>> \/ bytes[s] = Limit
          /\ Goto(s, IF (pipe[s] = <<>> /\ ~Open) \/ finishBy[s] # "none" THEN "over" ELSE "poll")
          /\ UNCHANGED <<pipe, bytes, own, exceeded>>
    /\ UNCHANGED <<verdict, handler, child, left, written, finishBy, done, late>>

\* read on the nonblocking pipe: a chunk, which is kept up to the limit and
\* dropped beyond it; the end of the pipe; or WouldBlock.
Read(s) ==
    /\ reader[s] = "read"
    /\ \/ /\ pipe[s] # <<>> /\ pipe' = [pipe EXCEPT ![s] = Tail(@)]
          /\ Keep(s)
          /\ IF finishBy[s] = "passed"
             THEN /\ Goto(s, "over")
                  /\ late' = IF Len(pipe[s]) > 1 THEN late \cup {s} ELSE late
             ELSE Goto(s, "check") /\ UNCHANGED late
       \/ /\ pipe[s] = <<>>
          /\ Goto(s, IF ~Open \/ finishBy[s] # "none" THEN "over" ELSE "poll")
          /\ UNCHANGED <<pipe, bytes, own, exceeded, late>>
    /\ UNCHANGED <<verdict, handler, child, left, written, finishBy, done>>

\* A slip: the flag is looked at after the pipe was found empty, not before.
PollThenFinish(s) ==
    /\ reader[s] = "poll"
    /\ Goto(s, IF done THEN "over" ELSE "check")
    /\ UNCHANGED <<verdict, handler, processes, finishBy, bytes, own, exceeded, done, late>>

\* poll_readable, for at most 100 ms.
Poll(s) ==
    /\ reader[s] = "poll"
    /\ Goto(s, "check")
    /\ UNCHANGED <<verdict, handler, processes, finishBy, bytes, own, exceeded, done, late>>

\* 100 ms are over.
Tick(s) ==
    /\ finishBy[s] = "set" /\ reader[s] # "over"
    /\ finishBy' = [finishBy EXCEPT ![s] = "passed"]
    /\ UNCHANGED <<verdict, handler, processes, reader, bytes, own, exceeded, done, late>>

-----------------------------------------------------------------------------
(* The processes. *)

\* A pipe that is full holds its writer up.
Write(s) ==
    /\ child = "running" /\ Total(written) < MaxChunks /\ Len(pipe[s]) < PipeSize
    /\ written' = [written EXCEPT ![s] = @ + 1]
    /\ pipe' = [pipe EXCEPT ![s] = Append(@, "command")]
    /\ UNCHANGED <<verdict, handler, child, left, readers, done>>

ChildEnds ==
    /\ child = "running" /\ child' = "zombie"
    /\ UNCHANGED <<verdict, handler, left, pipe, written, readers, done>>

\* A helper that survives SIGHUP and writes without end.
LeavesHelper ==
    /\ child = "running" /\ ~left /\ left' = TRUE
    /\ UNCHANGED <<verdict, handler, child, pipe, written, readers, done>>

HelperWrites(s) ==
    /\ left /\ reader[s] # "over" /\ Len(pipe[s]) < PipeSize
    /\ pipe' = [pipe EXCEPT ![s] = Append(@, "helper")]
    /\ UNCHANGED <<verdict, handler, child, left, written, readers, done>>

HelperEnds ==
    /\ left /\ handler # "done" /\ left' = FALSE
    /\ UNCHANGED <<verdict, handler, child, pipe, written, readers, done>>

-----------------------------------------------------------------------------
HandlerNext == Spawn \/ Wait \/ Mark \/ Answer
ReaderNext(s) == Check(s) \/ Read(s) \/ Poll(s)
Processes ==
    \/ ChildEnds \/ LeavesHelper \/ HelperEnds
    \/ \E s \in Stream : Write(s) \/ HelperWrites(s)

Next == Ask \/ HandlerNext \/ Processes \/ \E s \in Stream : ReaderNext(s) \/ Tick(s)

Spec == Init /\ [][Next]_captured

\* Threads run and time passes; nothing is assumed of the processes, nor of rm.
Fairness ==
    /\ WF_captured(HandlerNext)
    /\ \A s \in Stream : WF_captured(ReaderNext(s)) /\ WF_captured(Tick(s))

FairSpec == Spec /\ Fairness

-----------------------------------------------------------------------------
(* Properties. *)

\* Types; a reader whose deadline is set has seen the flag.
TypeOK ==
    /\ verdict \in {"none", "clean", "dirty", "error"}
    /\ handler \in {"none", "spawn", "watch", "mark", "join", "done"}
    /\ child \in {"none", "running", "zombie", "reaped"} /\ left \in BOOLEAN
    /\ pipe \in [Stream -> Seq({"command", "helper"})]
    /\ written \in [Stream -> 0 .. MaxChunks]
    /\ reader \in [Stream -> {"off", "check", "read", "poll", "over"}]
    /\ finishBy \in [Stream -> {"none", "set", "passed"}]
    /\ bytes \in [Stream -> 0 .. Limit] /\ own \in [Stream -> 0 .. Limit]
    /\ exceeded \subseteq Stream /\ late \subseteq Stream
    /\ \A s \in Stream : finishBy[s] # "none" => done

\* rm destroys a workspace without --force when git reported nothing: git has
\* then ended and had nothing to report.  Neither the deadline of 100 ms nor the
\* output of processes that outlive git turns changes into a clean workspace.
CleanIsClean == verdict = "clean" => child = "reaped" /\ written["stdout"] = 0

\* What git reported is complete, unless 100 ms were not enough to read it.
AnswerIsComplete ==
    verdict \in {"clean", "dirty"} =>
        \A s \in Stream : own[s] = written[s] \/ (s \in late /\ bytes[s] > 0)

\* The end of the command is answered, whoever still holds its pipes open or
\* writes to them without end.
EndIsAnswered == child = "zombie" ~> ~Serving

\* However much it prints, a command is not held up by its readers: beyond the
\* limit output is read and dropped.
NeverHeldUp ==
    \A s \in Stream :
        child = "running" /\ Len(pipe[s]) = PipeSize ~>
            child # "running" \/ Len(pipe[s]) < PipeSize
=============================================================================

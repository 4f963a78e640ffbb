------------------------------ MODULE GuestExec -------------------------------
(***************************************************************************)
(* A command that a host runs in a guest, from its request to its end.     *)
(* exec (command.rs) gives a terminal to the one that asks for it          *)
(* (PtyRelay) and captures the output of the other (CapturedCommand).      *)
(***************************************************************************)
EXTENDS Naturals, Sequences

CONSTANTS MaxTyped, MaxSignals, MaxWrites, SocketSize, PtySize,  \* of PtyRelay
          MaxChunks, PipeSize, Limit                             \* of CapturedCommand

ASSUME RelayAssumption ==
    /\ MaxTyped \in Nat /\ MaxSignals \in Nat /\ MaxWrites \in Nat
    /\ SocketSize \in Nat \ {0} /\ PtySize \in Nat \ {0}
ASSUME CaptureAssumption == MaxChunks \in Nat /\ PipeSize \in Nat \ {0} /\ Limit \in Nat \ {0}

VARIABLES tty,   \* what the request says
          host, returned, thread, sending, lock, up, down, relay, seen, frame, chunk,
          deadline, keys, text, shell, job, hungUp, typed, signals, wrote, screen,
          broken, cut,
          verdict, handler, child, left, pipe, written, reader, finishBy,
          bytes, own, exceeded, done, late

Relay == INSTANCE PtyRelay
Capture == INSTANCE CapturedCommand

terminal == <<host, returned, thread, sending, lock, up, down, relay, seen, frame, chunk,
              deadline, keys, text, shell, job, hungUp, typed, signals, wrote, screen,
              broken, cut>>
capture == <<verdict, handler, child, left, pipe, written, reader, finishBy,
             bytes, own, exceeded, done, late>>
execVars == <<tty, terminal, capture>>

ExecInit == tty \in BOOLEAN /\ Relay!Init /\ Capture!Init

\* The steps of a terminal, and those of a captured command.
OnTerminal(A) == tty /\ A /\ UNCHANGED <<tty, capture>>
Captured(A) == ~tty /\ A /\ UNCHANGED <<tty, terminal>>

ExecNext == OnTerminal(Relay!Next) \/ Captured(Capture!Next)

\* The fairness of both, each for the requests that it serves.
ExecFairness ==
    /\ WF_execVars(OnTerminal(Relay!HostNext)) /\ WF_execVars(OnTerminal(Relay!RelayNext))
    /\ WF_execVars(OnTerminal(Relay!Tick))
    /\ \A w \in Relay!Writer : WF_execVars(OnTerminal(Relay!Writes(w)))
    /\ WF_execVars(Captured(Capture!HandlerNext))
    /\ \A s \in Capture!Stream :
         WF_execVars(Captured(Capture!ReaderNext(s))) /\ WF_execVars(Captured(Capture!Tick(s)))

ExecSpec == ExecInit /\ [][ExecNext]_execVars /\ ExecFairness

-----------------------------------------------------------------------------
(* Properties, explained where they are stated. *)

\* The exit status of a terminal comes after all output of its shell (PtyRelay).
OutputBeforeStatus == Relay!OutputBeforeStatus

\* A terminal that fails has a reason to (PtyRelay).
FailuresHaveReasons == Relay!FailuresHaveReasons

\* The end of a shell ends its terminal's session (PtyRelay).
LogoutEndsSession == Relay!LogoutEndsSession

\* A host that goes away takes its shell along (PtyRelay).
HostTakesShellAlong == Relay!HostTakesShellAlong

\* rm takes a workspace for clean only when git had nothing to report
\* (CapturedCommand).
CleanIsClean == Capture!CleanIsClean

\* Captured output is complete unless its deadline passed (CapturedCommand).
AnswerIsComplete == Capture!AnswerIsComplete

\* The end of a captured command is answered (CapturedCommand).
EndIsAnswered == Capture!EndIsAnswered

\* A captured command is not held up by its readers (CapturedCommand).
NeverHeldUp == Capture!NeverHeldUp
=============================================================================

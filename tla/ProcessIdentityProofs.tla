----------------------- MODULE ProcessIdentityProofs ------------------------
(***************************************************************************)
(* Theorems about ProcessIdentity, for any strangers and either kernel.    *)
(*                                                                         *)
(* Why no stranger is signalled: a pidfd opened before the identity check  *)
(* refers to whoever had the pid then; the check finds Target there, and   *)
(* Target, once it has lost the pid, never gets it back, so it is Target   *)
(* the pidfd was opened on.                                                *)
(***************************************************************************)
EXTENDS ProcessIdentity, TLAPS

\* While a signal is being prepared, the pidfd is Target's or Target is gone.
PidfdHeld ==
    /\ pc = "send" => asked = "send"
    /\ ~Pidfd => pidfd = Nobody
    /\ Pidfd /\ asked = "send" =>
         /\ pc = "stat" => pidfd = Target \/ holder # Target
         /\ pc \in {"exe", "send"} => pidfd = Target

\* A call made for a process that has exited gets no further than its first
\* look at it.
GoneStaysGone ==
    wasGone =>
        /\ ~Current
        /\ how = "terminate" => /\ signal = "TERM"
                                /\ pc \in {"open", "stat", "done"}
                                /\ pc = "stat" => asked = "send"
        /\ how = "spawned" => /\ pc \in {"try_wait", "done"}
                              /\ pc = "try_wait" => zombie /\ holder = Target

IInv ==
    /\ TypeOK
    /\ PidfdHeld
    /\ GoneStaysGone
    /\ Pidfd => OnlyTargetSignalled
    /\ OkMeansGone
    /\ ExitedIsSuccess

\* The invariant holds initially.
LEMMA IInvInit == Init => IInv
BY ProcessAssumption
   DEF Init, IInv, TypeOK, PidfdHeld, GoneStaysGone, OnlyTargetSignalled, OkMeansGone,
       ExitedIsSuccess, Current

\* The part of TypeOK about where the call is.
ControlTyped ==
    /\ pc \in {"open", "stat", "exe", "send", "try_wait", "done"}
    /\ asked \in {"none", "send", "wait"}
    /\ signal \in {"TERM", "KILL"}
    /\ pidfd \in Stranger \cup {Target, Nobody}
    /\ expired \in BOOLEAN
    /\ outcome \in {"none", "ok", "err"}

LEMMA TypedParts ==
    TypeOK <=> /\ ControlTyped
               /\ holder \in Stranger \cup {Target, Nobody}
               /\ zombie \in BOOLEAN
               /\ holder = Nobody => ~zombie
               /\ how \in {"terminate", "spawned"}
               /\ hit \subseteq Stranger \cup {Target}
               /\ faulted \in BOOLEAN
               /\ wasGone \in BOOLEAN
BY DEF TypeOK, ControlTyped

\* send_signal_checked and matches_running_process return into a typed state.
LEMMA SendReturnsTyped ==
    ASSUME NEW delivered \in BOOLEAN, ControlTyped, SendReturns(delivered)
    PROVE  ControlTyped'
<1>1. CASE StartWait
    BY <1>1 DEF StartWait, ControlTyped
<1>2. CASE Finish("ok") \/ Finish("err")
    BY <1>2 DEF Finish, ControlTyped
<1>. QED
    BY <1>1, <1>2 DEF SendReturns

LEMMA WaitReturnsTyped == ControlTyped /\ WaitReturns => ControlTyped'
BY DEF ControlTyped, WaitReturns, Goto, Finish

LEMMA AnswerTyped ==
    ASSUME NEW current \in BOOLEAN, ControlTyped, Answer(current)
    PROVE  ControlTyped'
<1>1. CASE Goto("send")
    BY <1>1 DEF Goto, ControlTyped
<1>2. CASE SendReturns(FALSE)
    BY <1>2, SendReturnsTyped
<1>3. CASE WaitReturns
    BY <1>3, WaitReturnsTyped
<1>4. CASE Finish("ok")
    BY <1>4 DEF Finish, ControlTyped
<1>. QED
    BY <1>1, <1>2, <1>3, <1>4 DEF Answer

\* An I/O error leaves the types alone.
LEMMA FailsTyped == ControlTyped /\ Fails => ControlTyped' /\ faulted' \in BOOLEAN
BY DEF ControlTyped, Fails, Finish

\* Every call, and every change of the process table, keeps the types.
LEMMA TypedStep == ASSUME IInv, [Next]_vars PROVE TypeOK'
<1>0. TypeOK
    BY DEF IInv
<1>c. ControlTyped
    BY <1>0, TypedParts
<1> USE ProcessAssumption DEF process
<1>1. CASE Open
    BY <1>0, <1>1 DEF Open, Fails, Finish, Quiet, TypeOK
<1>2. CASE Stat
    <2>1. ControlTyped' /\ faulted' \in BOOLEAN
        <3>1. CASE Goto("exe") /\ Quiet
            BY <1>0, <3>1 DEF Goto, Quiet, TypeOK, ControlTyped
        <3>2. CASE Answer(FALSE) /\ Quiet
            BY <1>0, <1>c, <3>2, AnswerTyped DEF Quiet, TypeOK
        <3>3. CASE Fails
            BY <1>c, <3>3, FailsTyped
        <3>. QED
            BY <1>2, <3>1, <3>2, <3>3 DEF Stat
    <2>. QED
        BY <1>0, <1>2, <2>1 DEF Stat, TypeOK, ControlTyped
<1>3. CASE Exe
    <2>1. ControlTyped' /\ faulted' \in BOOLEAN
        <3>1. CASE (Answer(TRUE) \/ Answer(FALSE)) /\ Quiet
            BY <1>0, <1>c, <3>1, AnswerTyped DEF Quiet, TypeOK
        <3>2. CASE Fails
            BY <1>c, <3>2, FailsTyped
        <3>. QED
            BY <1>3, <3>1, <3>2 DEF Exe
    <2>. QED
        BY <1>0, <1>3, <2>1 DEF Exe, TypeOK, ControlTyped
<1>4. CASE Send
    <2>1. ControlTyped' /\ faulted' \in BOOLEAN
        <3>1. CASE (SendReturns(TRUE) \/ SendReturns(FALSE)) /\ Quiet
            BY <1>0, <1>c, <3>1, SendReturnsTyped DEF Quiet, TypeOK
        <3>2. CASE Fails
            BY <1>c, <3>2, FailsTyped
        <3>. QED
            BY <1>4, <3>1, <3>2 DEF Send
    <2>2. hit' \subseteq Stranger \cup {Target}
        BY <1>0, <1>4 DEF Send, TypeOK
    <2>. QED
        BY <1>0, <1>4, <2>1, <2>2 DEF Send, TypeOK, ControlTyped
<1>5. CASE TryWait
    <2> USE DEF TypeOK
    <2>1. UNCHANGED <<how, hit, wasGone>>
        BY <1>5 DEF TryWait
    <2>2. CASE zombie /\ holder' = Nobody /\ zombie' = FALSE /\ Finish("ok") /\ Quiet
        BY <1>0, <2>1, <2>2 DEF Finish, Quiet
    <2>3. CASE WaitReturns /\ UNCHANGED process /\ Quiet
        BY <1>0, <2>1, <2>3 DEF WaitReturns, Goto, Finish, Quiet
    <2>4. CASE Goto("open") /\ UNCHANGED process /\ Quiet
        BY <1>0, <2>1, <2>4 DEF Goto, Quiet
    <2>5. CASE Fails /\ UNCHANGED process
        BY <1>0, <2>1, <2>5 DEF Fails, Finish
    <2>. QED
        BY <1>5, <2>2, <2>3, <2>4, <2>5 DEF TryWait
<1>6. CASE Exit
    BY <1>0, <1>6 DEF Exit, control, TypeOK
<1>7. CASE Reap
    <2>1. holder' = Nobody /\ zombie' = FALSE
        BY <1>7 DEF Reap
    <2>2. UNCHANGED <<how, control, hit, faulted, wasGone>>
        BY <1>7 DEF Reap
    <2>3. ControlTyped'
        BY <1>c, <2>2 DEF control, ControlTyped
    <2>4. how' = how /\ hit' = hit /\ faulted' = faulted /\ wasGone' = wasGone
        BY <2>2
    <2>5. /\ holder' \in Stranger \cup {Target, Nobody} /\ zombie' \in BOOLEAN
          /\ (holder' = Nobody => ~zombie')
        BY <2>1
    <2>6. /\ how \in {"terminate", "spawned"} /\ hit \subseteq Stranger \cup {Target}
          /\ faulted \in BOOLEAN /\ wasGone \in BOOLEAN
        BY <1>0 DEF TypeOK
    <2>. QED
        BY <2>3, <2>4, <2>5, <2>6 DEF TypeOK, ControlTyped
<1>8. CASE Reuse
    BY <1>0, <1>8 DEF Reuse, control, TypeOK
<1>9. CASE Clock
    BY <1>0, <1>9 DEF Clock, process, TypeOK
<1>10. CASE UNCHANGED vars
    BY <1>0, <1>10 DEF vars, TypeOK
<1>. QED
    BY <1>1, <1>2, <1>3, <1>4, <1>5, <1>6, <1>7, <1>8, <1>9, <1>10 DEF Next,
       Call

\* Every step keeps what links the pidfd and the pid.
LEMMA PidfdStep ==
    ASSUME IInv, [Next]_vars
    PROVE  PidfdHeld' /\ (Pidfd => OnlyTargetSignalled')
<1> USE ProcessAssumption DEF IInv, TypeOK, PidfdHeld, OnlyTargetSignalled, Current, process
<1>1. CASE Open
    BY <1>1 DEF Open, Fails, Finish, Quiet
<1>2. CASE Stat
    BY <1>2 DEF Stat, Answer, SendReturns, WaitReturns, StartWait, Goto,
       Fails, Finish, Quiet
<1>3. CASE Exe
    BY <1>3 DEF Exe, Answer, SendReturns, WaitReturns, StartWait, Goto, Fails,
       Finish, Quiet
<1>4. CASE Send
    BY <1>4 DEF Send, SendReturns, StartWait, Fails, Finish, Quiet
<1>5. CASE TryWait
    BY <1>5 DEF TryWait, WaitReturns, Goto, Fails, Finish, Quiet
<1>6. CASE Exit
    BY <1>6 DEF Exit, control
<1>7. CASE Reap
    BY <1>7 DEF Reap, control
<1>8. CASE Reuse
    BY <1>8 DEF Reuse, control
<1>9. CASE Clock
    BY <1>9 DEF Clock, process
<1>10. CASE UNCHANGED vars
    BY <1>10 DEF vars
<1>. QED
    BY <1>1, <1>2, <1>3, <1>4, <1>5, <1>6, <1>7, <1>8, <1>9, <1>10 DEF Next,
       Call

\* Every step keeps what is known of a process that has exited.
LEMMA GoneStep ==
    ASSUME IInv, [Next]_vars
    PROVE  GoneStaysGone' /\ OkMeansGone' /\ ExitedIsSuccess'
<1> USE ProcessAssumption
    DEF IInv, TypeOK, PidfdHeld, GoneStaysGone, OkMeansGone, ExitedIsSuccess, Current, process
<1>1. CASE Open
    BY <1>1 DEF Open, Fails, Finish, Quiet
<1>2. CASE Stat
    BY <1>2 DEF Stat, Answer, SendReturns, WaitReturns, StartWait, Goto,
       Fails, Finish, Quiet
<1>3. CASE Exe
    BY <1>3 DEF Exe, Answer, SendReturns, WaitReturns, StartWait, Goto, Fails,
       Finish, Quiet
<1>4. CASE Send
    BY <1>4 DEF Send, SendReturns, StartWait, Fails, Finish, Quiet
<1>5. CASE TryWait
    BY <1>5 DEF TryWait, WaitReturns, Goto, Fails, Finish, Quiet
<1>6. CASE Exit
    BY <1>6 DEF Exit, control
<1>7. CASE Reap
    BY <1>7 DEF Reap, control
<1>8. CASE Reuse
    BY <1>8 DEF Reuse, control
<1>9. CASE Clock
    BY <1>9 DEF Clock, process
<1>10. CASE UNCHANGED vars
    BY <1>10 DEF vars
<1>. QED
    BY <1>1, <1>2, <1>3, <1>4, <1>5, <1>6, <1>7, <1>8, <1>9, <1>10 DEF Next,
       Call

\* The invariant is inductive.
LEMMA IInvStep == IInv /\ [Next]_vars => IInv'
<1>. SUFFICES ASSUME IInv, [Next]_vars PROVE IInv'
    OBVIOUS
<1>. QED
    BY TypedStep, PidfdStep, GoneStep DEF IInv

\* The invariant the theorems below are read off.
THEOREM Invariance == Spec => []IInv
BY IInvInit, IInvStep, PTL DEF Spec

\* The types hold through every call and every reuse of the pid.
THEOREM TypeCorrect == Spec => []TypeOK
<1>1. IInv => TypeOK
    BY DEF IInv
<1>. QED
    BY <1>1, Invariance, PTL

\* With pidfds no process but the recorded one is ever signalled.
THEOREM OnlyTarget == Pidfd => (Spec => []OnlyTargetSignalled)
<1>. SUFFICES ASSUME Pidfd PROVE Spec => []OnlyTargetSignalled
    OBVIOUS
<1>1. IInv => OnlyTargetSignalled
    BY DEF IInv
<1>. QED
    BY <1>1, Invariance, PTL

\* terminate answers truly, on either kernel: after a success the process has
\* exited, and the caller may drop the pid file, its only handle; of a process that
\* had exited before, only an I/O error makes it fail.
THEOREM AnswersTrue == Spec => []AnswerIsTrue
<1>1. IInv => AnswerIsTrue
    BY DEF IInv, AnswerIsTrue
<1>. QED
    BY <1>1, Invariance, PTL
=============================================================================

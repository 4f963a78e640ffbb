-------------------------- MODULE MachineCatalogue --------------------------
(***************************************************************************)
(* What `spawnr init`, `spawnr clone --count n` and `spawnr rm` promise to *)
(* whoever lists the machines: a command that ends well has had all of its *)
(* effect, one in which a single thing went wrong has had none, and none   *)
(* ever does more than it was asked for or touches another machine.        *)
(*                                                                         *)
(* MachineRegistry implements this module whatever fails in a command and  *)
(* whenever it is killed.                                                  *)
(***************************************************************************)
EXTENDS FiniteSets, Naturals

CONSTANTS Id,          \* machine UUIDs
          MaxCount,    \* most machines one command creates
          MaxFailures  \* most failures one command meets

VARIABLES machines,   \* those state.json lists
          command,    \* "none", "init", "clone", "rm"
          asked,      \* how many machines it is to create or remove
          before,     \* the machines listed when it began
          failures,   \* what went wrong in it
          outcome     \* how the last command ended

catalogue == <<machines, command, asked, before, failures, outcome>>

Init ==
    /\ machines = {} /\ command = "none" /\ asked = 0 /\ before = {}
    /\ failures = 0 /\ outcome = "none"

Begin ==
    /\ command = "none" /\ command' \in {"init", "clone", "rm"}
    /\ asked' \in IF command' = "clone" THEN 1 .. MaxCount ELSE {1}
    /\ before' = machines /\ failures' = 0 /\ outcome' = "none"
    /\ UNCHANGED machines

\* The machines M are what the running command may have made of those before
\* it, and no more; and all that it was asked for.
Within(M) ==
    IF command = "rm" THEN M \subseteq before /\ Cardinality(before \ M) <= asked
                      ELSE before \subseteq M /\ Cardinality(M \ before) <= asked
Whole(M) ==
    Within(M) /\ Cardinality(M) = IF command = "rm" THEN Cardinality(before) - asked
                                                   ELSE Cardinality(before) + asked

Work ==
    /\ command # "none"
    /\ Within(machines') /\ failures' \in failures .. MaxFailures
    /\ UNCHANGED <<command, asked, before, outcome>>

Ended(o) == command' = "none" /\ asked' = 0 /\ before' = {} /\ outcome' = o

Succeed ==
    /\ command # "none" /\ Whole(machines') /\ Ended("ok")
    /\ UNCHANGED failures

\* A removal may have come to its end when it fails.
Fail ==
    /\ command # "none" /\ failures' \in failures .. MaxFailures
    /\ Within(machines') /\ (failures' <= 1 /\ command # "rm" => machines' = before)
    /\ Ended("err")

Killed ==
    /\ Ended("killed") /\ UNCHANGED <<machines, failures>>

Next == Begin \/ Work \/ Succeed \/ Fail \/ Killed

Spec == Init /\ [][Next]_catalogue
=============================================================================

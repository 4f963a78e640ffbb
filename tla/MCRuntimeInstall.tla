-------------------------- MODULE MCRuntimeInstall --------------------------
(***************************************************************************)
(* Model-checking instance of RuntimeInstall: two releases of version 1,   *)
(* one of version 2, a manifest no release should have, CLIs of two        *)
(* versions, and locks that do and do not agree with the archive they      *)
(* name.                                                                   *)
(***************************************************************************)
EXTENDS RuntimeInstall, TLC

CONSTANTS s1, s2, r1, m1, n1, m2, bad

MCManifest == {m1, n1, m2, bad}
MCVersion == {1, 2}
MCCli == {1, 2}

\* m1 and n1 are two builds of version 1.
Released == (m1 :> 1) @@ (n1 :> 1) @@ (m2 :> 2) @@ (bad :> 1)
Ranges == (m1 :> {1, 2}) @@ (n1 :> {1}) @@ (m2 :> {2}) @@ (bad :> {1, 2})

\* The second setup is run by a newer CLI.
Clis == (s1 :> 1) @@ (s2 :> 2) @@ (r1 :> 1)

For(v, c, a, m) == [version |-> v, range |-> c, archive |-> a, manifest |-> m]
ReleasedLocks ==
    {For(1, {1, 2}, m1, m1), For(1, {1}, n1, n1), For(2, {2}, m2, m2),
     For(1, {1, 2}, bad, bad), For(2, {2}, m2, m1)}
=============================================================================

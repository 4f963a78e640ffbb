------------------------ MODULE RuntimeInstallProofs ------------------------
(***************************************************************************)
(* Theorems about RuntimeInstall, for any number of setups, commands and   *)
(* releases, and any number of failures, signals and damaged trees.        *)
(*                                                                         *)
(* Nothing is assumed of the releases: several may share a version, and    *)
(* any setup may be given a lock for any of them.                          *)
(***************************************************************************)
EXTENDS RuntimeInstall, TLAPS

\* The conjuncts of TypeOK.
WorldOK ==
    /\ tree \in [Version -> Tree \cup {None}]
    /\ active \in Pointer \cup {None} /\ torn \in BOOLEAN
    /\ clean \subseteq Setup
CountersOK ==
    /\ setups \in 0 .. MaxSetups /\ faults \in 0 .. MaxFaults
    /\ damages \in 0 .. MaxDamages
SetupOK ==
    /\ pc \in [Setup -> Steps]
    /\ lock \in [Setup -> Lock \cup {None}]
    /\ archive \in [Setup -> Manifest \cup {Unreadable, None}]
    /\ staging \in [Setup -> Tree \cup {None}]
    /\ installation \in [Setup -> Manifest \cup {None}]
    /\ outcome \in [Setup -> {"none", "ok", "err"}]
HolderOK ==
    /\ holder \in Setup \cup {None}
    /\ \A s \in Setup : pc[s] \notin {"idle", "flock"} <=> holder = s
ReaderOK ==
    /\ rpc \in [Reader -> {"idle", "load", "check", "run"}]
    /\ pointer \in [Reader -> Pointer \cup {None}]
    /\ result \in [Reader -> Results] /\ crossed \subseteq Reader

\* A setup at work has a lock; one on its way out has its outcome.
SetupSound ==
    \A s \in Setup :
        /\ pc[s] # "idle" => lock[s] \in Lock
        /\ pc[s] = "cleanup" => outcome[s] = "err"
        /\ pc[s] \notin {"cleanup", "end"} => outcome[s] = "none"
        /\ pc[s] = "end" => outcome[s] # "none"

\* What a setup may rely on of its lock and its staging directory.
StagingSound ==
    \A s \in Setup :
        pc[s] \in {"inspect", "install"} => Verifies(staging[s], lock[s])

\* Steps after which a setup has its release in place, if it is not damaged.
InPlace(s) ==
    \/ pc[s] \in {"reuse", "activate", "discard", "confirm"}
    \/ pc[s] = "end" /\ outcome[s] = "ok"

\* Past the checks a setup has a lock that is for its CLI, and what it is about to
\* activate is the release of that lock.
Accepted(s) ==
    \/ pc[s] \in {"download", "verify", "extract", "inspect", "install"}
    \/ InPlace(s)

VerifiedSound ==
    \A s \in Setup :
        /\ Accepted(s) => CliOf[s] \in lock[s].range
        /\ pc[s] \in {"reuse", "install", "activate"} =>
             installation[s] = lock[s].manifest

TreeInPlace ==
    \A s \in Setup : InPlace(s) =>
        /\ MatchesLock(lock[s].manifest, lock[s])
        /\ tree[lock[s].version] # None
        /\ tree[lock[s].version].intact => Verifies(tree[lock[s].version], lock[s])

PointerInPlace ==
    \A s \in Setup : InPlace(s) /\ pc[s] \notin {"reuse", "activate"} =>
        active = [version |-> lock[s].version, manifest |-> lock[s].manifest]

\* A setup that met nothing bad is not failing, and its tree is not damaged.
CleanSound ==
    \A s \in clean :
        /\ pc[s] # "cleanup" /\ outcome[s] # "err"
        /\ pc[s] \in {"extract", "inspect"} => archive[s] = lock[s].archive
        /\ InPlace(s) => tree[lock[s].version].intact

\* A pointer names a tree, and a release of the version it names.
Names(p) ==
    /\ p.manifest \in Valid /\ VersionOf[p.manifest] = p.version
    /\ tree[p.version] # None

PointersSound ==
    /\ active # None => Names(active)
    /\ \A r \in Reader : rpc[r] # "idle" => pointer[r] # None /\ Names(pointer[r])

\* Without damage a tree is a release of its version.
TreesReleased ==
    damages = 0 => \A v \in Version : tree[v] # None =>
        tree[v].intact /\ tree[v].manifest \in Valid /\ VersionOf[tree[v].manifest] = v

\* A look-up that no such commit crosses works on the tree its pointer names.
ReadersSound ==
    damages = 0 => \A r \in Reader : r \notin crossed =>
        /\ rpc[r] # "idle" => tree[pointer[r].version].manifest = pointer[r].manifest
        /\ result[r] \notin {"error", "ran other"}

\* The inductive invariant.
IInv ==
    /\ WorldOK /\ CountersOK /\ SetupOK /\ HolderOK /\ ReaderOK /\ SetupSound
    /\ StagingSound /\ TreeInPlace /\ PointerInPlace /\ CleanSound
    /\ PointersSound /\ TreesReleased /\ ReadersSound /\ VerifiedSound /\ PointerAgrees

\* What a setup writes into active.json is the release in the tree it names.
LEMMA WrittenAgrees ==
    ASSUME IInv, NEW s \in Setup, pc[s] \in {"reuse", "activate"}, damages = 0
    PROVE  LET p == [version |-> VersionOf[installation[s]], manifest |-> installation[s]]
           IN  /\ p \in Pointer /\ tree[p.version] # None
               /\ Agrees(p, tree[p.version]) /\ FilesMatch(tree[p.version])
  <1>1. /\ InPlace(s) /\ lock[s] \in Lock /\ lock[s].version \in Version
        /\ installation[s] = lock[s].manifest
    BY LockAssumption DEF IInv, SetupSound, VerifiedSound, InPlace
  <1>2. /\ MatchesLock(lock[s].manifest, lock[s]) /\ tree[lock[s].version] # None
        /\ tree[lock[s].version].intact => Verifies(tree[lock[s].version], lock[s])
    BY <1>1 DEF IInv, TreeInPlace
  <1>3. tree[lock[s].version].intact
    BY <1>1, <1>2 DEF IInv, TreesReleased
  <1> QED
    BY <1>1, <1>2, <1>3, ValidAssumption
       DEF Verifies, MatchesLock, Agrees, FilesMatch, Pointer

\* A new setup holds nothing and stands nowhere.
LEMMA BeginHolds == ASSUME IInv, NEW s \in Setup, Begin(s) PROVE IInv'
  <1>1. WorldOK'
    BY DEF IInv, WorldOK, Begin, current
  <1>2. CountersOK'
    BY BoundAssumption DEF IInv, CountersOK, Begin
  <1>3. SetupOK'
    BY DEF IInv, SetupOK, Steps, Begin, Goto
  <1>4. HolderOK'
    BY DEF IInv, HolderOK, Begin, Goto
  <1>5. ReaderOK'
    BY DEF IInv, ReaderOK, Begin, readers
  <1>6. SetupSound'
    BY DEF IInv, SetupOK, SetupSound, Begin, Goto
  <1>7. StagingSound'
    BY DEF IInv, StagingSound, Begin, Goto
  <1>8. TreeInPlace'
    BY DEF IInv, TreeInPlace, InPlace, Begin, Goto
  <1>9. PointerInPlace'
    BY DEF IInv, PointerInPlace, InPlace, Begin, Goto, current
  <1>10. CleanSound'
    BY DEF IInv, SetupSound, CleanSound, InPlace, Begin, Goto
  <1>11. PointersSound'
    BY DEF IInv, PointersSound, Names, Begin, readers, current
  <1>12. TreesReleased'
    BY DEF IInv, TreesReleased, Begin
  <1>13. ReadersSound'
    BY DEF IInv, ReadersSound, Begin, Goto, readers
  <1>14. VerifiedSound'
    BY DEF IInv, SetupOK, VerifiedSound, Accepted, InPlace, Begin, Goto
  <1>15. PointerAgrees'
    BY DEF IInv, SetupOK, PointerAgrees, Agrees, Loads, Exchanging, Begin, Goto, current
  <1> QED
    BY <1>1, <1>2, <1>3, <1>4, <1>5, <1>6, <1>7, <1>8, <1>9, <1>10, <1>11, <1>12,
       <1>13, <1>14, <1>15 DEF IInv

\* The setup that gets the lock is alone with it.
LEMMA AcquireHolds == ASSUME IInv, NEW s \in Setup, Acquire(s) PROVE IInv'
  <1>1. WorldOK'
    BY DEF IInv, WorldOK, Acquire, history, current
  <1>2. CountersOK'
    BY DEF IInv, CountersOK, Acquire, history
  <1>3. SetupOK'
    BY DEF IInv, SetupOK, Steps, Acquire, Goto
  <1>4. HolderOK'
    BY NoneAssumption DEF IInv, SetupOK, HolderOK, Acquire, Goto
  <1>5. ReaderOK'
    BY DEF IInv, ReaderOK, Acquire, readers
  <1>6. SetupSound'
    BY DEF IInv, SetupSound, Acquire, Goto
  <1>7. StagingSound'
    BY DEF IInv, StagingSound, Acquire, Goto
  <1>8. TreeInPlace'
    BY DEF IInv, TreeInPlace, InPlace, Acquire, Goto
  <1>9. PointerInPlace'
    BY DEF IInv, PointerInPlace, InPlace, Acquire, Goto, current
  <1>10. CleanSound'
    BY DEF IInv, CleanSound, InPlace, Acquire, Goto, history
  <1>11. PointersSound'
    BY DEF IInv, PointersSound, Names, Acquire, readers, current
  <1>12. TreesReleased'
    BY DEF IInv, TreesReleased, Acquire, history
  <1>13. ReadersSound'
    BY DEF IInv, ReadersSound, Acquire, Goto, history, readers
  <1>14. VerifiedSound'
    BY DEF IInv, SetupOK, VerifiedSound, Accepted, InPlace, Acquire, Goto, history
  <1>15. PointerAgrees'
    BY DEF IInv, SetupOK, PointerAgrees, Agrees, Loads, Exchanging, Acquire, Goto, history, current
  <1> QED
    BY <1>1, <1>2, <1>3, <1>4, <1>5, <1>6, <1>7, <1>8, <1>9, <1>10, <1>11, <1>12,
       <1>13, <1>14, <1>15 DEF IInv

\* A setup that finds its runtime usable, or gives up on what is in the way.
LEMMA CheckHolds == ASSUME IInv, NEW s \in Setup, Check(s) PROVE IInv'
  <1>1. WorldOK'
    BY DEF IInv, WorldOK, Check, history, BadInput, Fault, current
  <1>2. CountersOK'
    BY BoundAssumption DEF IInv, CountersOK, Check, history, BadInput, Fault
  <1>3. SetupOK'
    <2>1. /\ pc' \in [Setup -> Steps] /\ outcome' \in [Setup -> {"none", "ok", "err"}]
          /\ UNCHANGED <<lock, archive, staging>>
      BY DEF IInv, SetupOK, Steps, Check, Goto, Fail
    <2>2. installation' \in [Setup -> Manifest \cup {None}]
      BY ValidAssumption DEF IInv, SetupOK, Check, Verifies, Loads
    <2> QED BY <2>1, <2>2 DEF IInv, SetupOK
  <1>4. HolderOK'
    BY DEF IInv, SetupOK, HolderOK, Check, Goto, Fail
  <1>5. ReaderOK'
    BY DEF IInv, ReaderOK, Check, readers
  <1>6. SetupSound'
    BY DEF IInv, SetupOK, SetupSound, Check, Goto, Fail
  <1>7. StagingSound'
    BY DEF IInv, SetupOK, StagingSound, Check, Goto, Fail
  <1>8. TreeInPlace'
    BY NoneAssumption DEF IInv, SetupOK, TreeInPlace, InPlace, Verifies, Loads, Check,
                          Goto, Fail
  <1>9. PointerInPlace'
    BY DEF IInv, SetupOK, PointerInPlace, InPlace, Check, Goto, Fail, current
  <1>10. CleanSound'
    BY DEF IInv, SetupOK, WorldOK, CleanSound, InPlace, Check, Verifies, Goto,
           history, BadInput, Fault, Fail, FilesMatch
  <1>11. PointersSound'
    BY DEF IInv, PointersSound, Names, Check, readers, current
  <1>12. TreesReleased'
    BY DEF IInv, TreesReleased, Check, history, BadInput, Fault
  <1>13. ReadersSound'
    BY DEF IInv, ReadersSound, Check, history, BadInput, Fault, readers
  <1>14. VerifiedSound'
    BY DEF IInv, SetupOK, VerifiedSound, Accepted, InPlace, Check, Verifies, Goto, Fail
  <1>15. PointerAgrees'
    BY DEF IInv, SetupOK, PointerAgrees, Exchanging, Check, Goto, Fail, history,
           BadInput, Fault, current
  <1> QED
    BY <1>1, <1>2, <1>3, <1>4, <1>5, <1>6, <1>7, <1>8, <1>9, <1>10, <1>11, <1>12,
       <1>13, <1>14, <1>15 DEF IInv

\* A tree left by an earlier setup is activated again only if it is a release.
LEMMA ReuseHolds == ASSUME IInv, NEW s \in Setup, Reuse(s) PROVE IInv'
  <1>1. WorldOK'
    <2>1. [version |-> VersionOf[installation[s]], manifest |-> installation[s]] \in Pointer
      BY VersionAssumption, ValidAssumption, LockAssumption
         DEF IInv, SetupSound, VerifiedSound, TreeInPlace, InPlace, MatchesLock,
             Pointer, Reuse
    <2>2. UNCHANGED tree /\ clean' \subseteq clean
      BY DEF Reuse, WriteActive, history, Fault
    <2>3. /\ \/ UNCHANGED active
             \/ active' = [version |-> VersionOf[installation[s]],
                           manifest |-> installation[s]]
          /\ torn' \in BOOLEAN
      BY DEF Reuse, WriteActive, Exchanging, IInv, WorldOK
    <2> QED BY <2>1, <2>2, <2>3 DEF IInv, WorldOK
  <1>2. CountersOK'
    BY BoundAssumption DEF IInv, CountersOK, Reuse, WriteActive, history, Fault
  <1>3. SetupOK'
    BY DEF IInv, SetupOK, Steps, Reuse, WriteActive, Finish, Fail
  <1>4. HolderOK'
    BY DEF IInv, SetupOK, HolderOK, Reuse, WriteActive, Finish, Fail
  <1>5. ReaderOK'
    BY DEF IInv, ReaderOK, Reuse, readers
  <1>6. SetupSound'
    BY DEF IInv, SetupOK, SetupSound, Reuse, WriteActive, Finish, Fail
  <1>7. StagingSound'
    BY DEF IInv, SetupOK, StagingSound, Reuse, WriteActive, Finish, Fail
  <1>8. TreeInPlace'
    BY DEF IInv, SetupOK, TreeInPlace, InPlace, Reuse, WriteActive, Finish, Fail
  <1>9. PointerInPlace'
    <2>1. /\ installation[s] = lock[s].manifest
          /\ VersionOf[lock[s].manifest] = lock[s].version
      BY DEF IInv, VerifiedSound, TreeInPlace, InPlace, MatchesLock, Reuse
    <2>2. /\ UNCHANGED lock
          /\ \A q \in Setup \ {s} : ~InPlace(q)' /\ pc'[q] = pc[q]
      BY DEF IInv, SetupOK, HolderOK, InPlace, Reuse, WriteActive, Finish, Fail
    <2>3. InPlace(s)' /\ pc'[s] \notin {"reuse", "activate"} =>
            active' = [version |-> VersionOf[installation[s]],
                       manifest |-> installation[s]]
      BY DEF IInv, SetupOK, SetupSound, InPlace, Reuse, WriteActive, Finish, Fail
    <2> QED BY <2>1, <2>2, <2>3 DEF PointerInPlace
  <1>10. CleanSound'
    BY DEF IInv, SetupOK, WorldOK, CleanSound, InPlace, Reuse, WriteActive, Finish,
           Fail, history, Fault
  <1>11. PointersSound'
    <2>1. /\ lock[s] \in Lock /\ lock[s].manifest \in Valid
          /\ VersionOf[lock[s].manifest] = lock[s].version /\ tree[lock[s].version] # None
      BY DEF IInv, SetupSound, TreeInPlace, InPlace, MatchesLock, Reuse
    <2>2. UNCHANGED <<tree, rpc, pointer>>
      BY DEF Reuse, readers
    <2>3. \/ active' = active
          \/ active' = [version |-> lock[s].version, manifest |-> lock[s].manifest]
      BY <2>1 DEF Reuse, WriteActive, IInv, VerifiedSound
    <2> QED BY <2>1, <2>2, <2>3 DEF IInv, PointersSound, Names
  <1>12. TreesReleased'
    BY DEF IInv, TreesReleased, Reuse, WriteActive, history, Fault
  <1>13. ReadersSound'
    BY DEF IInv, ReadersSound, Reuse, WriteActive, Finish, Fail, history, Fault, readers
  <1>14. VerifiedSound'
    BY DEF IInv, SetupOK, VerifiedSound, Accepted, InPlace, Reuse, WriteActive, Finish, Fail, history, Fault
  <1>15. PointerAgrees'
    <2>1. SUFFICES ASSUME damages = 0, active' # None, ~torn'
                   PROVE  \/ Agrees(active', tree[active'.version])
                          \/ \E q \in Setup : Exchanging(q)'
      BY DEF PointerAgrees, Reuse, WriteActive, history, Fault
    <2>2. CASE active' = [version |-> VersionOf[installation[s]],
                          manifest |-> installation[s]]
      BY <2>1, <2>2, WrittenAgrees DEF Reuse
    <2>3. CASE active' = active /\ ~torn /\ ~Exchanging(s)
      <3>1. UNCHANGED <<lock, installation>> /\ \A q \in Setup \ {s} : pc'[q] = pc[q]
        BY DEF IInv, SetupOK, Reuse, WriteActive, Finish, Fail
      <3> QED BY <2>1, <2>3, <3>1 DEF IInv, PointerAgrees, Exchanging
    <2> QED BY <2>1, <2>2, <2>3 DEF Reuse, WriteActive
  <1> QED
    BY <1>1, <1>2, <1>3, <1>4, <1>5, <1>6, <1>7, <1>8, <1>9, <1>10, <1>11, <1>12,
       <1>13, <1>14, <1>15 DEF IInv

\* Fetching the archive touches the staging area alone.
LEMMA DownloadHolds == ASSUME IInv, NEW s \in Setup, Download(s) PROVE IInv'
  <1>1. WorldOK'
    BY DEF IInv, WorldOK, Download, history, Fault, current
  <1>2. CountersOK'
    BY BoundAssumption DEF IInv, CountersOK, Download, history, Fault
  <1>3. SetupOK'
    BY DEF IInv, SetupOK, Steps, Download, Goto, Fail
  <1>4. HolderOK'
    BY DEF IInv, SetupOK, HolderOK, Download, Goto, Fail
  <1>5. ReaderOK'
    BY DEF IInv, ReaderOK, Download, readers
  <1>6. SetupSound'
    BY DEF IInv, SetupOK, SetupSound, Download, Goto, Fail
  <1>7. StagingSound'
    BY DEF IInv, SetupOK, StagingSound, Download, Goto, Fail
  <1>8. TreeInPlace'
    BY DEF IInv, SetupOK, TreeInPlace, InPlace, Download, Goto, Fail
  <1>9. PointerInPlace'
    BY DEF IInv, SetupOK, PointerInPlace, InPlace, Download, Goto, Fail, current
  <1>10. CleanSound'
    BY DEF IInv, SetupOK, WorldOK, CleanSound, InPlace, Download, Goto, history,
           Fault, Fail
  <1>11. PointersSound'
    BY DEF IInv, PointersSound, Names, Download, readers, current
  <1>12. TreesReleased'
    BY DEF IInv, TreesReleased, Download, history, Fault
  <1>13. ReadersSound'
    BY DEF IInv, ReadersSound, Download, Goto, Fail, history, Fault, readers
  <1>14. VerifiedSound'
    BY DEF IInv, SetupOK, VerifiedSound, Accepted, InPlace, Download, Goto, Fail, history, Fault
  <1>15. PointerAgrees'
    BY DEF IInv, SetupOK, PointerAgrees, Agrees, Loads, Exchanging, Download, Goto, Fail, history, Fault, current
  <1> QED
    BY <1>1, <1>2, <1>3, <1>4, <1>5, <1>6, <1>7, <1>8, <1>9, <1>10, <1>11, <1>12,
       <1>13, <1>14, <1>15 DEF IInv

\* The archive goes on only if it is the one of the lock.
LEMMA VerifyArchiveHolds == ASSUME IInv, NEW s \in Setup, VerifyArchive(s) PROVE IInv'
  <1>1. WorldOK'
    BY DEF IInv, WorldOK, VerifyArchive, history, BadInput, Fault, current
  <1>2. CountersOK'
    BY BoundAssumption DEF IInv, CountersOK, VerifyArchive, history, BadInput, Fault
  <1>3. SetupOK'
    BY DEF IInv, SetupOK, Steps, VerifyArchive, Goto, Fail
  <1>4. HolderOK'
    BY DEF IInv, SetupOK, HolderOK, VerifyArchive, Goto, Fail
  <1>5. ReaderOK'
    BY DEF IInv, ReaderOK, VerifyArchive, readers
  <1>6. SetupSound'
    BY DEF IInv, SetupOK, SetupSound, VerifyArchive, Goto, Fail
  <1>7. StagingSound'
    BY DEF IInv, SetupOK, StagingSound, VerifyArchive, Goto, Fail
  <1>8. TreeInPlace'
    BY DEF IInv, SetupOK, TreeInPlace, InPlace, VerifyArchive, Goto, Fail
  <1>9. PointerInPlace'
    BY DEF IInv, SetupOK, PointerInPlace, InPlace, VerifyArchive, Goto, Fail, current
  <1>10. CleanSound'
    BY DEF IInv, SetupOK, WorldOK, CleanSound, InPlace, VerifyArchive, Goto, history,
           Fail, BadInput, Fault
  <1>11. PointersSound'
    BY DEF IInv, PointersSound, Names, VerifyArchive, readers, current
  <1>12. TreesReleased'
    BY DEF IInv, TreesReleased, VerifyArchive, history, BadInput, Fault
  <1>13. ReadersSound'
    BY DEF IInv, ReadersSound, VerifyArchive, Goto, Fail, history, Fault, BadInput, readers
  <1>14. VerifiedSound'
    BY DEF IInv, SetupOK, VerifiedSound, Accepted, InPlace, VerifyArchive, Goto, Fail, history, Fault, BadInput
  <1>15. PointerAgrees'
    BY DEF IInv, SetupOK, PointerAgrees, Agrees, Loads, Exchanging, VerifyArchive, Goto, Fail, history, Fault, BadInput, current
  <1> QED
    BY <1>1, <1>2, <1>3, <1>4, <1>5, <1>6, <1>7, <1>8, <1>9, <1>10, <1>11, <1>12,
       <1>13, <1>14, <1>15 DEF IInv

\* What is extracted is staged, and the release only if the archive is one.
LEMMA ExtractHolds == ASSUME IInv, NEW s \in Setup, Extract(s) PROVE IInv'
  <1>1. WorldOK'
    BY DEF IInv, WorldOK, Extract, history, BadInput, Fault, current
  <1>2. CountersOK'
    BY BoundAssumption DEF IInv, CountersOK, Extract, history, BadInput, Fault
  <1>3. SetupOK'
    <2>1. pc' \in [Setup -> Steps]
      BY DEF IInv, SetupOK, Steps, Extract, Goto, Fail
    <2>2. outcome' \in [Setup -> {"none", "ok", "err"}]
      BY DEF IInv, SetupOK, Extract, Goto, Fail
    <2>3. UNCHANGED <<lock, archive, installation>>
      BY DEF Extract
    <2>4. /\ archive[s] \in Manifest => [manifest |-> archive[s], intact |-> TRUE] \in Tree
          /\ [manifest |-> Unreadable, intact |-> FALSE] \in Tree
      BY DEF Tree
    <2>5. \/ UNCHANGED staging
          \/ staging' = [staging EXCEPT ![s] = [manifest |-> Unreadable, intact |-> FALSE]]
          \/ /\ staging' = [staging EXCEPT ![s] = [manifest |-> archive[s], intact |-> TRUE]]
             /\ archive[s] \in Manifest
      BY ValidAssumption DEF Extract, Verifies, Loads
    <2>6. staging' \in [Setup -> Tree \cup {None}]
      BY <2>4, <2>5 DEF IInv, SetupOK
    <2> QED BY <2>1, <2>2, <2>3, <2>6 DEF IInv, SetupOK
  <1>4. HolderOK'
    BY DEF IInv, SetupOK, HolderOK, Extract, Goto, Fail
  <1>5. ReaderOK'
    BY DEF IInv, ReaderOK, Extract, readers
  <1>6. SetupSound'
    BY DEF IInv, SetupOK, SetupSound, Extract, Goto, Fail
  <1>7. StagingSound'
    <2>1. \A q \in Setup \ {s} : pc'[q] = pc[q] /\ staging'[q] = staging[q]
      BY DEF IInv, SetupOK, Extract, Goto, Fail
    <2>2. UNCHANGED lock
      BY DEF Extract
    <2>3. pc'[s] \in {"inspect", "install"} =>
            /\ staging' = [staging EXCEPT ![s] = [manifest |-> archive[s], intact |-> TRUE]]
            /\ Verifies([manifest |-> archive[s], intact |-> TRUE], lock[s])
      BY DEF IInv, SetupOK, Extract, Fail
    <2>4. pc'[s] \in {"inspect", "install"} => Verifies(staging'[s], lock[s])
      BY <2>3 DEF IInv, SetupOK
    <2> QED BY <2>1, <2>2, <2>4 DEF IInv, StagingSound
  <1>8. TreeInPlace'
    BY DEF IInv, SetupOK, TreeInPlace, InPlace, Extract, Goto, Fail
  <1>9. PointerInPlace'
    BY DEF IInv, SetupOK, PointerInPlace, InPlace, Extract, Goto, Fail, current
  <1>10. CleanSound'
    BY DEF IInv, SetupOK, WorldOK, CleanSound, InPlace, Extract, Goto, history, Fail,
           BadInput, Fault
  <1>11. PointersSound'
    BY DEF IInv, PointersSound, Names, Extract, readers, current
  <1>12. TreesReleased'
    BY DEF IInv, TreesReleased, Extract, history, BadInput, Fault
  <1>13. ReadersSound'
    BY DEF IInv, ReadersSound, Extract, Goto, Fail, history, Fault, BadInput, readers
  <1>14. VerifiedSound'
    BY DEF IInv, SetupOK, VerifiedSound, Accepted, InPlace, Extract, Goto, Fail, history, Fault, BadInput
  <1>15. PointerAgrees'
    BY DEF IInv, SetupOK, PointerAgrees, Agrees, Loads, Exchanging, Extract, Goto, Fail, history, Fault, BadInput, current
  <1> QED
    BY <1>1, <1>2, <1>3, <1>4, <1>5, <1>6, <1>7, <1>8, <1>9, <1>10, <1>11, <1>12,
       <1>13, <1>14, <1>15 DEF IInv

\* The staged tree goes on only if it is whole and of the lock.
LEMMA InspectHolds == ASSUME IInv, NEW s \in Setup, Inspect(s) PROVE IInv'
  <1>1. WorldOK'
    BY DEF IInv, WorldOK, Inspect, history, BadInput, Fault, current
  <1>2. CountersOK'
    BY BoundAssumption DEF IInv, CountersOK, Inspect, history, BadInput, Fault
  <1>3. SetupOK'
    <2>1. /\ pc' \in [Setup -> Steps] /\ outcome' \in [Setup -> {"none", "ok", "err"}]
          /\ UNCHANGED <<lock, archive, staging>>
      BY DEF IInv, SetupOK, Steps, Inspect, Goto, Fail
    <2>2. installation' \in [Setup -> Manifest \cup {None}]
      BY ValidAssumption DEF IInv, SetupOK, Inspect, Verifies, Loads
    <2> QED BY <2>1, <2>2 DEF IInv, SetupOK
  <1>4. HolderOK'
    BY DEF IInv, SetupOK, HolderOK, Inspect, Goto, Fail
  <1>5. ReaderOK'
    BY DEF IInv, ReaderOK, Inspect, readers
  <1>6. SetupSound'
    BY DEF IInv, SetupOK, SetupSound, Inspect, Goto, Fail
  <1>7. StagingSound'
    BY DEF IInv, SetupOK, StagingSound, Inspect, Goto, Fail
  <1>8. TreeInPlace'
    BY DEF IInv, SetupOK, TreeInPlace, InPlace, Inspect, Goto, Fail
  <1>9. PointerInPlace'
    BY DEF IInv, SetupOK, PointerInPlace, InPlace, Inspect, Goto, Fail, current
  <1>10. CleanSound'
    BY DEF IInv, SetupOK, WorldOK, CleanSound, InPlace, Inspect, Goto, history, Fail,
           BadInput, Fault
  <1>11. PointersSound'
    BY DEF IInv, PointersSound, Names, Inspect, readers, current
  <1>12. TreesReleased'
    BY DEF IInv, TreesReleased, Inspect, history, BadInput, Fault
  <1>13. ReadersSound'
    BY DEF IInv, ReadersSound, Inspect, Goto, Fail, history, Fault, BadInput, readers
  <1>14. VerifiedSound'
    BY DEF IInv, SetupOK, VerifiedSound, Accepted, InPlace, Inspect, Verifies, Goto, Fail
  <1>15. PointerAgrees'
    BY DEF IInv, SetupOK, PointerAgrees, Agrees, Loads, Exchanging, Inspect, Goto, Fail, history, Fault, BadInput, current
  <1> QED
    BY <1>1, <1>2, <1>3, <1>4, <1>5, <1>6, <1>7, <1>8, <1>9, <1>10, <1>11, <1>12,
       <1>13, <1>14, <1>15 DEF IInv

\* The tree goes in place as it was staged.
LEMMA InstallHolds == ASSUME IInv, NEW s \in Setup, Install(s) PROVE IInv'
  <1>1. WorldOK'
    <2>1. /\ pc[s] = "install" /\ lock[s] \in Lock /\ lock[s].version \in Version
          /\ staging[s] \in Tree /\ Verifies(staging[s], lock[s])
      BY LockAssumption DEF IInv, SetupSound, StagingSound, Verifies, Loads, Install
    <2>2. \/ tree' = tree
          \/ tree' = [tree EXCEPT ![lock[s].version] = staging[s]]
      BY DEF Install
    <2>3. UNCHANGED <<active, torn>> /\ clean' \subseteq clean
      BY DEF Install, history, Fault, current
    <2> QED BY <2>1, <2>2, <2>3 DEF IInv, WorldOK
  <1>2. CountersOK'
    BY BoundAssumption DEF IInv, CountersOK, Install, history, Fault
  <1>3. SetupOK'
    <2>1. pc' \in [Setup -> Steps]
      BY DEF IInv, SetupOK, Steps, Install, Goto, Fail
    <2>2. outcome' \in [Setup -> {"none", "ok", "err"}]
      BY DEF IInv, SetupOK, Install, Goto, Fail
    <2>3. UNCHANGED <<lock, archive, installation>>
      BY DEF Install
    <2>4. staging' \in [Setup -> Tree \cup {None}]
      BY LockAssumption DEF IInv, SetupOK, WorldOK, SetupSound, Install
    <2> QED BY <2>1, <2>2, <2>3, <2>4 DEF IInv, SetupOK
  <1>4. HolderOK'
    BY DEF IInv, SetupOK, HolderOK, Install, Goto, Fail
  <1>5. ReaderOK'
    BY DEF IInv, ReaderOK, Install
  <1>6. SetupSound'
    BY DEF IInv, SetupOK, SetupSound, Install, Goto, Fail
  <1>7. StagingSound'
    BY DEF IInv, SetupOK, StagingSound, Install, Goto, Fail
  <1>8. TreeInPlace'
    <2>1. /\ pc[s] = "install" /\ lock[s] \in Lock /\ lock[s].version \in Version
          /\ staging[s] \in Tree /\ Verifies(staging[s], lock[s])
      BY LockAssumption DEF IInv, SetupSound, StagingSound, Verifies, Loads, Install
    <2>2. \/ tree' = tree
          \/ tree' = [tree EXCEPT ![lock[s].version] = staging[s]]
      BY DEF Install
    <2>3. /\ \A q \in Setup \ {s} : ~InPlace(q) /\ pc'[q] = pc[q] /\ ~InPlace(q)'
          /\ UNCHANGED lock
      BY DEF IInv, HolderOK, SetupOK, InPlace, Install, Goto, Fail
    <2>4. InPlace(s)' => /\ tree' = [tree EXCEPT ![lock[s].version] = staging[s]]
                        /\ pc'[s] = "activate"
      BY <2>1 DEF IInv, SetupOK, Install, Goto, Fail, InPlace
    <2>5. InPlace(s)' => tree'[lock[s].version] = staging[s]
      BY <2>1, <2>4 DEF IInv, WorldOK
    <2>6. MatchesLock(lock[s].manifest, lock[s]) /\ staging[s] # None
      BY <2>1, NoneAssumption DEF Verifies
    <2> QED BY <2>1, <2>3, <2>5, <2>6 DEF TreeInPlace
  <1>9. PointerInPlace'
    BY DEF IInv, SetupOK, PointerInPlace, InPlace, Install, Goto, Fail, current
  <1>10. CleanSound'
    <2>1. /\ pc[s] = "install" /\ lock[s] \in Lock /\ lock[s].version \in Version
          /\ staging[s] \in Tree /\ Verifies(staging[s], lock[s])
      BY LockAssumption DEF IInv, SetupSound, StagingSound, Verifies, Loads, Install
    <2>2. \/ tree' = tree
          \/ tree' = [tree EXCEPT ![lock[s].version] = staging[s]]
      BY DEF Install
    <2>3. /\ \A q \in Setup \ {s} :
               ~InPlace(q) /\ pc'[q] = pc[q] /\ outcome'[q] = outcome[q]
          /\ UNCHANGED <<lock, archive>> /\ clean' \subseteq clean
      BY DEF IInv, HolderOK, SetupOK, InPlace, Install, Goto, history, Fault, Fail
    <2>4. s \in clean' => /\ tree' = [tree EXCEPT ![lock[s].version] = staging[s]]
                          /\ pc'[s] = "activate" /\ outcome'[s] = outcome[s]
      BY <2>1 DEF IInv, SetupOK, Install, Goto, Fault
    <2>5. s \in clean' => tree'[lock[s].version].intact
      BY <2>1, <2>4 DEF IInv, WorldOK, Verifies, FilesMatch
    <2> QED BY <2>3, <2>4, <2>5 DEF IInv, CleanSound, InPlace, WorldOK
  <1>11. PointersSound'
    <2>1. /\ pc[s] = "install" /\ lock[s] \in Lock /\ lock[s].version \in Version
          /\ staging[s] \in Tree /\ Verifies(staging[s], lock[s])
      BY LockAssumption DEF IInv, SetupSound, StagingSound, Verifies, Loads, Install
    <2>2. \/ tree' = tree
          \/ tree' = [tree EXCEPT ![lock[s].version] = staging[s]]
      BY DEF Install
    <2>3. \A v \in Version : tree[v] # None => tree'[v] # None
      BY <2>1, <2>2, NoneAssumption DEF IInv, WorldOK
    <2>4. UNCHANGED <<active, rpc, pointer>>
      BY DEF Install, current
    <2>5. /\ active # None => active.version \in Version
          /\ \A r \in Reader : pointer[r] # None => pointer[r].version \in Version
      BY DEF IInv, WorldOK, Pointer, ReaderOK
    <2> QED BY <2>3, <2>4, <2>5 DEF IInv, PointersSound, Names
  <1>12. TreesReleased'
    BY DEF IInv, StagingSound, Verifies, MatchesLock, FilesMatch, WorldOK,
           TreesReleased, Install, history, Fault
  <1>13. ReadersSound'
    <2>1. /\ lock[s].version \in Version /\ UNCHANGED <<rpc, pointer, result, damages>>
      BY LockAssumption DEF IInv, SetupSound, Install, history, Fault
    <2>2. CASE UNCHANGED <<tree, crossed>>
      BY <2>1, <2>2 DEF IInv, ReadersSound
    <2>3. CASE /\ tree' = [tree EXCEPT ![lock[s].version] = staging[s]]
               /\ crossed' = crossed \cup
                    {r \in Reader : /\ rpc[r] # "idle"
                                   /\ pointer[r].version = lock[s].version
                                   /\ pointer[r].manifest # staging[s].manifest}
      <3>1. \A r \in Reader : rpc[r] # "idle" /\ r \notin crossed' =>
              \/ tree'[pointer[r].version] = tree[pointer[r].version]
              \/ tree'[pointer[r].version].manifest = pointer[r].manifest
        BY <2>1, <2>3 DEF IInv, WorldOK
      <3> QED BY <2>1, <2>3, <3>1 DEF IInv, ReadersSound
    <2> QED BY <2>2, <2>3 DEF Install
  <1>14. VerifiedSound'
    BY DEF IInv, SetupOK, VerifiedSound, Accepted, InPlace, Install, Goto, Fail, history, Fault
  <1>15. PointerAgrees'
    <2>1. SUFFICES ASSUME damages = 0, active # None, ~torn
                   PROVE  \/ Agrees(active, tree'[active.version])
                          \/ \E q \in Setup : Exchanging(q)'
      BY DEF PointerAgrees, Install, history, Fault, current
    <2>2. /\ active.version \in Version /\ UNCHANGED <<active, lock, installation>>
          /\ \A q \in Setup : Exchanging(q) => pc'[q] = pc[q]
      BY <2>1 DEF IInv, WorldOK, SetupOK, Pointer, Install, Goto, Fail, current, Exchanging
    <2>3. \A q \in Setup : Exchanging(q) => Exchanging(q)'
      BY <2>2 DEF Exchanging
    <2>4. CASE tree'[active.version] = tree[active.version]
      BY <2>1, <2>3, <2>4 DEF IInv, PointerAgrees
    <2>5. CASE tree'[active.version] # tree[active.version]
      <3>1. /\ tree' = [tree EXCEPT ![lock[s].version] = staging[s]] /\ pc'[s] = "activate"
            /\ lock[s].version = active.version
        BY <2>2, <2>5, LockAssumption
           DEF IInv, WorldOK, SetupOK, SetupSound, Install, Goto
      <3>2. /\ Verifies(staging[s], lock[s]) /\ installation[s] = lock[s].manifest
            /\ tree'[active.version] = staging[s]
        BY <2>2, <3>1 DEF IInv, WorldOK, StagingSound, VerifiedSound, Install
      <3>3. active.manifest = installation[s] => Agrees(active, tree'[active.version])
        BY <3>1, <3>2 DEF Agrees, Verifies, MatchesLock
      <3>4. active.manifest # installation[s] => Exchanging(s)'
        BY <2>1, <2>2, <3>1 DEF Exchanging
      <3> QED BY <3>3, <3>4
    <2> QED BY <2>4, <2>5
  <1> QED
    BY <1>1, <1>2, <1>3, <1>4, <1>5, <1>6, <1>7, <1>8, <1>9, <1>10, <1>11, <1>12,
       <1>13, <1>14, <1>15 DEF IInv

\* The pointer goes to the tree of the lock, which is in place.
LEMMA ActivateHolds == ASSUME IInv, NEW s \in Setup, Activate(s) PROVE IInv'
  <1>1. WorldOK'
    <2>1. [version |-> VersionOf[installation[s]], manifest |-> installation[s]] \in Pointer
      BY VersionAssumption, ValidAssumption, LockAssumption
         DEF IInv, SetupSound, VerifiedSound, TreeInPlace, InPlace, MatchesLock,
             Pointer, Activate
    <2>2. UNCHANGED tree /\ clean' \subseteq clean
      BY DEF Activate, WriteActive, history, Fault
    <2>3. /\ \/ UNCHANGED active
             \/ active' = [version |-> VersionOf[installation[s]],
                           manifest |-> installation[s]]
          /\ torn' \in BOOLEAN
      BY DEF Activate, WriteActive, Exchanging, IInv, WorldOK
    <2> QED BY <2>1, <2>2, <2>3 DEF IInv, WorldOK
  <1>2. CountersOK'
    BY BoundAssumption DEF IInv, CountersOK, Activate, WriteActive, history, Fault
  <1>3. SetupOK'
    BY DEF IInv, SetupOK, Steps, Activate, WriteActive, Goto, Fail
  <1>4. HolderOK'
    BY DEF IInv, SetupOK, HolderOK, Activate, WriteActive, Goto, Fail
  <1>5. ReaderOK'
    BY DEF IInv, ReaderOK, Activate, readers
  <1>6. SetupSound'
    BY DEF IInv, SetupOK, SetupSound, Activate, WriteActive, Goto, Fail
  <1>7. StagingSound'
    BY DEF IInv, SetupOK, StagingSound, Activate, WriteActive, Goto, Fail
  <1>8. TreeInPlace'
    BY DEF IInv, SetupOK, TreeInPlace, InPlace, Activate, WriteActive, Goto, Fail
  <1>9. PointerInPlace'
    <2>1. /\ installation[s] = lock[s].manifest
          /\ VersionOf[lock[s].manifest] = lock[s].version
      BY DEF IInv, VerifiedSound, TreeInPlace, InPlace, MatchesLock, Activate
    <2>2. /\ UNCHANGED lock
          /\ \A q \in Setup \ {s} : ~InPlace(q)' /\ pc'[q] = pc[q]
      BY DEF IInv, SetupOK, HolderOK, InPlace, Activate, WriteActive, Goto, Fail
    <2>3. InPlace(s)' /\ pc'[s] \notin {"reuse", "activate"} =>
            active' = [version |-> VersionOf[installation[s]],
                       manifest |-> installation[s]]
      BY DEF IInv, SetupOK, SetupSound, InPlace, Activate, WriteActive, Goto, Fail
    <2> QED BY <2>1, <2>2, <2>3 DEF PointerInPlace
  <1>10. CleanSound'
    BY DEF IInv, SetupOK, WorldOK, CleanSound, InPlace, Activate, WriteActive, Goto,
           Fail, history, Fault
  <1>11. PointersSound'
    <2>1. /\ lock[s] \in Lock /\ lock[s].manifest \in Valid
          /\ VersionOf[lock[s].manifest] = lock[s].version /\ tree[lock[s].version] # None
      BY DEF IInv, SetupSound, TreeInPlace, InPlace, MatchesLock, Activate
    <2>2. UNCHANGED <<tree, rpc, pointer>>
      BY DEF Activate, readers
    <2>3. \/ active' = active
          \/ active' = [version |-> lock[s].version, manifest |-> lock[s].manifest]
      BY <2>1 DEF Activate, WriteActive, IInv, VerifiedSound
    <2> QED BY <2>1, <2>2, <2>3 DEF IInv, PointersSound, Names
  <1>12. TreesReleased'
    BY DEF IInv, TreesReleased, Activate, WriteActive, history, Fault
  <1>13. ReadersSound'
    BY DEF IInv, ReadersSound, Activate, WriteActive, Goto, Fail, history, Fault, readers
  <1>14. VerifiedSound'
    BY DEF IInv, SetupOK, VerifiedSound, Accepted, InPlace, Activate, WriteActive, Goto, Fail, history, Fault
  <1>15. PointerAgrees'
    <2>1. SUFFICES ASSUME damages = 0, active' # None, ~torn'
                   PROVE  \/ Agrees(active', tree[active'.version])
                          \/ \E q \in Setup : Exchanging(q)'
      BY DEF PointerAgrees, Activate, WriteActive, history, Fault
    <2>2. CASE active' = [version |-> VersionOf[installation[s]],
                          manifest |-> installation[s]]
      BY <2>1, <2>2, WrittenAgrees DEF Activate
    <2>3. CASE active' = active /\ ~torn /\ ~Exchanging(s)
      <3>1. UNCHANGED <<lock, installation>> /\ \A q \in Setup \ {s} : pc'[q] = pc[q]
        BY DEF IInv, SetupOK, Activate, WriteActive, Goto, Fail
      <3> QED BY <2>1, <2>3, <3>1 DEF IInv, PointerAgrees, Exchanging
    <2> QED BY <2>1, <2>2, <2>3 DEF Activate, WriteActive
  <1> QED
    BY <1>1, <1>2, <1>3, <1>4, <1>5, <1>6, <1>7, <1>8, <1>9, <1>10, <1>11, <1>12,
       <1>13, <1>14, <1>15 DEF IInv

\* A tree is discarded before the pointer could name it, or stays.
LEMMA DiscardHolds == ASSUME IInv, NEW s \in Setup, Discard(s) PROVE IInv'
  <1>1. WorldOK'
    BY DEF IInv, WorldOK, Discard, history, Fault, current
  <1>2. CountersOK'
    BY BoundAssumption DEF IInv, CountersOK, Discard, history, Fault
  <1>3. SetupOK'
    BY DEF IInv, SetupOK, Steps, Discard, Goto, Fail
  <1>4. HolderOK'
    BY DEF IInv, SetupOK, HolderOK, Discard, Goto, Fail
  <1>5. ReaderOK'
    BY DEF IInv, ReaderOK, Discard, readers
  <1>6. SetupSound'
    BY DEF IInv, SetupOK, SetupSound, Discard, Goto, Fail
  <1>7. StagingSound'
    BY DEF IInv, SetupOK, StagingSound, Discard, Goto, Fail
  <1>8. TreeInPlace'
    BY DEF IInv, SetupOK, TreeInPlace, InPlace, Discard, Goto, Fail
  <1>9. PointerInPlace'
    BY DEF IInv, SetupOK, PointerInPlace, InPlace, Discard, Goto, Fail, current
  <1>10. CleanSound'
    BY DEF IInv, SetupOK, WorldOK, CleanSound, InPlace, Discard, Goto, history, Fault,
           Fail
  <1>11. PointersSound'
    BY DEF IInv, PointersSound, Names, Discard, readers, current
  <1>12. TreesReleased'
    BY DEF IInv, TreesReleased, Discard, history, Fault
  <1>13. ReadersSound'
    BY DEF IInv, ReadersSound, Discard, Goto, Fail, history, Fault, readers
  <1>14. VerifiedSound'
    BY DEF IInv, SetupOK, VerifiedSound, Accepted, InPlace, Discard, Goto, Fail, history, Fault
  <1>15. PointerAgrees'
    BY DEF IInv, SetupOK, PointerAgrees, Agrees, Loads, Exchanging, Discard, Goto, Fail, history, Fault, current
  <1> QED
    BY <1>1, <1>2, <1>3, <1>4, <1>5, <1>6, <1>7, <1>8, <1>9, <1>10, <1>11, <1>12,
       <1>13, <1>14, <1>15 DEF IInv

\* What a setup confirms is usable.
LEMMA ConfirmHolds == ASSUME IInv, NEW s \in Setup, Confirm(s) PROVE IInv'
  <1>1. WorldOK'
    BY DEF IInv, WorldOK, Confirm, history, BadInput, Fault, current
  <1>2. CountersOK'
    BY BoundAssumption DEF IInv, CountersOK, Confirm, history, BadInput, Fault
  <1>3. SetupOK'
    BY DEF IInv, SetupOK, Steps, Confirm, Finish, Fail
  <1>4. HolderOK'
    BY DEF IInv, SetupOK, HolderOK, Confirm, Finish, Fail
  <1>5. ReaderOK'
    BY DEF IInv, ReaderOK, Confirm, readers
  <1>6. SetupSound'
    BY DEF IInv, SetupOK, SetupSound, Confirm, Finish, Fail
  <1>7. StagingSound'
    BY DEF IInv, SetupOK, StagingSound, Confirm, Finish, Fail
  <1>8. TreeInPlace'
    BY DEF IInv, SetupOK, TreeInPlace, InPlace, Confirm, Finish, Fail
  <1>9. PointerInPlace'
    BY DEF IInv, SetupOK, PointerInPlace, InPlace, Confirm, Finish, Fail, current
  <1>10. CleanSound'
    BY DEF IInv, InPlace, SetupOK, WorldOK, CleanSound, Confirm, Finish, history,
           Fail, BadInput, Fault
  <1>11. PointersSound'
    BY DEF IInv, PointersSound, Names, Confirm, readers, current
  <1>12. TreesReleased'
    BY DEF IInv, TreesReleased, Confirm, history, BadInput, Fault
  <1>13. ReadersSound'
    BY DEF IInv, ReadersSound, Confirm, Finish, Fail, history, Fault, BadInput, readers
  <1>14. VerifiedSound'
    BY DEF IInv, SetupOK, VerifiedSound, Accepted, InPlace, Confirm, Finish, Fail, history, Fault, BadInput
  <1>15. PointerAgrees'
    BY DEF IInv, SetupOK, PointerAgrees, Agrees, Loads, Exchanging, Confirm, Finish, Fail, history, Fault, BadInput, current
  <1> QED
    BY <1>1, <1>2, <1>3, <1>4, <1>5, <1>6, <1>7, <1>8, <1>9, <1>10, <1>11, <1>12,
       <1>13, <1>14, <1>15 DEF IInv

\* The end of a setup releases the lock and its staging area.
LEMMA CleanupHolds == ASSUME IInv, NEW s \in Setup, Cleanup(s) PROVE IInv'
  <1>1. WorldOK'
    BY DEF IInv, WorldOK, Cleanup, current
  <1>2. CountersOK'
    BY BoundAssumption DEF IInv, CountersOK, Cleanup
  <1>3. SetupOK'
    BY DEF IInv, SetupOK, Steps, Cleanup, Goto
  <1>4. HolderOK'
    BY DEF IInv, HolderOK, Cleanup, Goto
  <1>5. ReaderOK'
    BY DEF IInv, ReaderOK, Cleanup, readers
  <1>6. SetupSound'
    BY DEF IInv, SetupSound, Cleanup, Goto
  <1>7. StagingSound'
    BY DEF IInv, SetupOK, StagingSound, Cleanup, Goto
  <1>8. TreeInPlace'
    BY DEF IInv, SetupSound, TreeInPlace, InPlace, Cleanup, Goto
  <1>9. PointerInPlace'
    BY DEF IInv, SetupSound, PointerInPlace, InPlace, Cleanup, Goto, current
  <1>10. CleanSound'
    BY DEF IInv, CleanSound, InPlace, Cleanup, Goto
  <1>11. PointersSound'
    BY DEF IInv, PointersSound, Names, Cleanup, readers, current
  <1>12. TreesReleased'
    BY DEF IInv, TreesReleased, Cleanup
  <1>13. ReadersSound'
    BY DEF IInv, ReadersSound, Cleanup, Goto, readers
  <1>14. VerifiedSound'
    BY DEF IInv, SetupOK, SetupSound, VerifiedSound, Accepted, InPlace, Cleanup, Goto
  <1>15. PointerAgrees'
    BY DEF IInv, SetupOK, PointerAgrees, Agrees, Loads, Exchanging, Cleanup, Goto, current
  <1> QED
    BY <1>1, <1>2, <1>3, <1>4, <1>5, <1>6, <1>7, <1>8, <1>9, <1>10, <1>11, <1>12,
       <1>13, <1>14, <1>15 DEF IInv

\* A killed setup releases the lock and leaves what it staged.
LEMMA VanishHolds ==
    ASSUME IInv, NEW s \in Setup, Vanish(s), torn' = (torn \/ Exchanging(s))
    PROVE  IInv'
  <1>1. WorldOK'
    BY DEF IInv, WorldOK, Vanish, Exchanging
  <1>2. CountersOK'
    BY DEF IInv, CountersOK, Vanish
  <1>3. SetupOK'
    BY DEF IInv, SetupOK, Steps, Vanish
  <1>4. HolderOK'
    BY NoneAssumption DEF IInv, SetupOK, HolderOK, Vanish
  <1>5. ReaderOK'
    BY DEF IInv, ReaderOK, Vanish, readers
  <1>6. SetupSound'
    BY DEF IInv, SetupOK, SetupSound, Vanish
  <1>7. StagingSound'
    BY DEF IInv, SetupOK, StagingSound, Vanish
  <1>8. TreeInPlace'
    BY DEF IInv, SetupOK, TreeInPlace, InPlace, Vanish
  <1>9. PointerInPlace'
    BY DEF IInv, SetupOK, PointerInPlace, InPlace, Vanish
  <1>10. CleanSound'
    BY DEF IInv, CleanSound, InPlace, Vanish
  <1>11. PointersSound'
    BY DEF IInv, PointersSound, Names, Vanish, readers
  <1>12. TreesReleased'
    BY DEF IInv, TreesReleased, Vanish
  <1>13. ReadersSound'
    BY DEF IInv, ReadersSound, Vanish, readers
  <1>14. VerifiedSound'
    BY DEF IInv, SetupOK, VerifiedSound, Accepted, InPlace, Vanish
  <1>15. PointerAgrees'
    <2>1. /\ UNCHANGED <<tree, active, damages>>
          /\ \A q \in Setup \ {s} : Exchanging(q) => Exchanging(q)'
      BY DEF IInv, SetupOK, Vanish, Exchanging
    <2> QED BY <2>1 DEF IInv, PointerAgrees
  <1> QED
    BY <1>1, <1>2, <1>3, <1>4, <1>5, <1>6, <1>7, <1>8, <1>9, <1>10, <1>11, <1>12,
       <1>13, <1>14, <1>15 DEF IInv

\* Damage spoils trees, none of which is then taken for intact.
LEMMA DamageHolds == ASSUME IInv, NEW v \in Version, Damage(v) PROVE IInv'
  <1>1. /\ tree[v] # None /\ damages' = damages + 1 /\ damages < MaxDamages /\ clean' = {}
        /\ UNCHANGED <<active, holder, pc, lock, archive, staging, outcome>>
        /\ UNCHANGED <<rpc, pointer, result>>
    BY DEF Damage, readers, current
  <1>2. PICK t \in Tree : tree' = [tree EXCEPT ![v] = t] /\ ~t.intact
    BY NoneAssumption DEF IInv, Damage, WorldOK, Tree
  <1>3. t # None
    BY <1>2, NoneAssumption
  <1>4. /\ \A w \in Version : tree[w] # None => tree'[w] # None
        /\ \A w \in Version : tree'[w] = tree[w] \/ ~tree'[w].intact
    BY <1>2, <1>3
  <1>5. damages' # 0
    BY <1>1 DEF IInv, CountersOK
  <1>6. WorldOK'
    BY DEF IInv, Tree, WorldOK, Damage, current
  <1>7. CountersOK'
    BY BoundAssumption DEF IInv, CountersOK, Damage
  <1>8. SetupOK'
    BY DEF IInv, SetupOK, Damage
  <1>9. HolderOK'
    BY DEF IInv, HolderOK, Damage
  <1>10. ReaderOK'
    BY DEF IInv, ReaderOK, Damage, readers
  <1>11. SetupSound'
    BY DEF IInv, SetupSound, Damage
  <1>12. StagingSound'
    BY DEF IInv, StagingSound, Damage
  <1>13. TreeInPlace'
    <2>1. \A q \in Setup : InPlace(q) => lock[q] \in Lock /\ lock[q].version \in Version
      BY LockAssumption DEF IInv, SetupSound, InPlace
    <2>2. \A q \in Setup : InPlace(q)' <=> InPlace(q)
      BY <1>1 DEF InPlace
    <2> QED BY <1>1, <1>4, <2>1, <2>2 DEF IInv, TreeInPlace
  <1>14. PointerInPlace'
    BY DEF IInv, PointerInPlace, InPlace, Damage, current
  <1>15. CleanSound'
    BY DEF CleanSound, Damage
  <1>16. PointersSound'
    <2>1. /\ active # None => active.version \in Version
          /\ \A r \in Reader : pointer[r] # None => pointer[r].version \in Version
      BY DEF IInv, WorldOK, Pointer, ReaderOK
    <2> QED BY <1>1, <1>4, <2>1 DEF IInv, PointersSound, Names
  <1>17. TreesReleased'
    BY <1>5 DEF TreesReleased
  <1>18. ReadersSound'
    BY <1>5 DEF ReadersSound
  <1>19. VerifiedSound'
    BY DEF IInv, VerifiedSound, Accepted, InPlace, Damage
  <1>20. PointerAgrees'
    BY <1>5 DEF PointerAgrees
  <1> QED
    BY <1>6, <1>7, <1>8, <1>9, <1>10, <1>11, <1>12, <1>13, <1>14, <1>15, <1>16, <1>17,
       <1>18, <1>19, <1>20 DEF IInv

\* A reader that finds a pointer finds one that names a tree.
LEMMA ReadActiveHolds == ASSUME IInv, NEW r \in Reader, ReadActive(r) PROVE IInv'
  <1>1. WorldOK'
    BY DEF IInv, WorldOK, ReadActive, others, history, current
  <1>2. CountersOK'
    BY DEF IInv, CountersOK, ReadActive, others, history
  <1>3. SetupOK'
    BY DEF IInv, SetupOK, ReadActive, others
  <1>4. HolderOK'
    BY DEF IInv, HolderOK, ReadActive, others
  <1>5. ReaderOK'
    <2>1. rpc' \in [Reader -> {"idle", "load", "check", "run"}]
      BY DEF IInv, ReaderOK, ReadActive, Ends
    <2>2. pointer' \in [Reader -> Pointer \cup {None}]
      BY DEF IInv, ReaderOK, WorldOK, ReadActive, Ends
    <2>3. result' \in [Reader -> Results] /\ crossed' \subseteq Reader
      BY DEF IInv, ReaderOK, ReadActive, Ends, Results
    <2> QED BY <2>1, <2>2, <2>3 DEF ReaderOK
  <1>6. SetupSound'
    BY DEF IInv, SetupSound, ReadActive, others
  <1>7. StagingSound'
    BY DEF IInv, StagingSound, ReadActive, others
  <1>8. TreeInPlace'
    BY DEF IInv, TreeInPlace, InPlace, ReadActive, others
  <1>9. PointerInPlace'
    BY DEF IInv, PointerInPlace, InPlace, ReadActive, others, current
  <1>10. CleanSound'
    BY DEF IInv, CleanSound, InPlace, ReadActive, others, history
  <1>11. PointersSound'
    <2>1. UNCHANGED <<tree, active>> /\ PointersSound /\ ReaderOK
      BY DEF IInv, ReadActive, others, current
    <2>2. ASSUME NEW q \in Reader, rpc'[q] # "idle"
          PROVE  \/ rpc[q] # "idle" /\ pointer'[q] = pointer[q]
                 \/ active # None /\ pointer'[q] = active
      BY <2>1, <2>2 DEF ReadActive, Ends, ReaderOK
    <2> QED BY <2>1, <2>2 DEF PointersSound, Names
  <1>12. TreesReleased'
    BY DEF IInv, TreesReleased, ReadActive, others, history
  <1>13. ReadersSound'
    <2>1. SUFFICES ASSUME damages = 0, NEW q \in Reader, q \notin crossed'
                   PROVE  /\ rpc'[q] # "idle" =>
                               tree[pointer'[q].version].manifest = pointer'[q].manifest
                          /\ result'[q] \notin {"error", "ran other"}
      BY DEF ReadActive, others, history, ReadersSound
    <2>2. CASE q # r \/ active = None
      <3>1. q \notin crossed
        BY <2>1, <2>2 DEF ReadActive, Ends
      <3> QED BY <2>1, <2>2, <3>1 DEF IInv, ReaderOK, ReadersSound, ReadActive, Ends
    <2>3. CASE q = r /\ active # None
      <3>1. /\ pointer'[q] = active /\ result'[q] = "none"
            /\ ~torn /\ ~ \E s \in Setup : Exchanging(s)
        BY <2>1, <2>3 DEF IInv, ReaderOK, ReadActive
      <3>2. Agrees(active, tree[active.version])
        BY <2>1, <2>3, <3>1 DEF IInv, PointerAgrees
      <3> QED BY <3>1, <3>2 DEF Agrees
    <2> QED BY <2>2, <2>3
  <1>14. VerifiedSound'
    BY DEF IInv, VerifiedSound, Accepted, InPlace, ReadActive, others
  <1>15. PointerAgrees'
    BY DEF IInv, PointerAgrees, Agrees, Loads, Exchanging, ReadActive, others, history, current
  <1> QED
    BY <1>1, <1>2, <1>3, <1>4, <1>5, <1>6, <1>7, <1>8, <1>9, <1>10, <1>11, <1>12,
       <1>13, <1>14, <1>15 DEF IInv

\* A reader loads the manifest that its pointer names.
LEMMA LoadHolds == ASSUME IInv, NEW r \in Reader, Load(r) PROVE IInv'
  <1>1. WorldOK'
    BY DEF IInv, WorldOK, Load, others, history, current
  <1>2. CountersOK'
    BY DEF IInv, CountersOK, Load, others, history
  <1>3. SetupOK'
    BY DEF IInv, SetupOK, Load, others
  <1>4. HolderOK'
    BY DEF IInv, HolderOK, Load, others
  <1>5. ReaderOK'
    BY DEF IInv, ReaderOK, Load, Goes, Ends, Results
  <1>6. SetupSound'
    BY DEF IInv, SetupSound, Load, others
  <1>7. StagingSound'
    BY DEF IInv, StagingSound, Load, others
  <1>8. TreeInPlace'
    BY DEF IInv, TreeInPlace, InPlace, Load, others
  <1>9. PointerInPlace'
    BY DEF IInv, PointerInPlace, InPlace, Load, others, current
  <1>10. CleanSound'
    BY DEF IInv, CleanSound, InPlace, Load, others, history
  <1>11. PointersSound'
    <2>1. UNCHANGED <<tree, active>> /\ PointersSound /\ ReaderOK
      BY DEF IInv, Load, others, current
    <2>2. \A q \in Reader : rpc'[q] # "idle" => rpc[q] # "idle" /\ pointer'[q] = pointer[q]
      BY <2>1 DEF Load, Goes, Ends, ReaderOK
    <2> QED BY <2>1, <2>2 DEF PointersSound, Names
  <1>12. TreesReleased'
    BY DEF IInv, TreesReleased, Load, others, history
  <1>13. ReadersSound'
    <2>1. SUFFICES ASSUME damages = 0, NEW q \in Reader, q \notin crossed
                   PROVE  /\ rpc'[q] # "idle" =>
                               tree[pointer'[q].version].manifest = pointer'[q].manifest
                          /\ result'[q] \notin {"error", "ran other"}
      BY DEF Load, others, history, ReadersSound, Ends, Goes
    <2>2. /\ rpc[q] # "idle" => tree[pointer[q].version].manifest = pointer[q].manifest
          /\ result[q] \notin {"error", "ran other"}
      BY <2>1 DEF IInv, ReadersSound
    <2>3. CASE q # r
      BY <2>2, <2>3 DEF IInv, ReaderOK, Load, Ends, Goes
    <2>4. CASE q = r
      <3> DEFINE p == pointer[r]
                 t == tree[p.version]
      <3>1. /\ rpc[r] = "load" /\ p \in Pointer /\ p.version \in Version
            /\ t # None /\ VersionOf[p.manifest] = p.version /\ t.manifest = p.manifest
        BY <2>2, <2>4 DEF IInv, Load, PointersSound, Names, ReaderOK, Pointer
      <3>2. t \in Tree /\ t.intact /\ t.manifest \in Valid
        BY <2>1, <3>1 DEF IInv, WorldOK, TreesReleased
      <3> QED BY <2>2, <2>4, <3>1, <3>2 DEF IInv, ReaderOK, Load, Ends, Goes, Agrees, Loads
    <2> QED BY <2>3, <2>4
  <1>14. VerifiedSound'
    BY DEF IInv, VerifiedSound, Accepted, InPlace, Load, others
  <1>15. PointerAgrees'
    BY DEF IInv, PointerAgrees, Agrees, Loads, Exchanging, Load, others, history, current
  <1> QED
    BY <1>1, <1>2, <1>3, <1>4, <1>5, <1>6, <1>7, <1>8, <1>9, <1>10, <1>11, <1>12,
       <1>13, <1>14, <1>15 DEF IInv

\* A reader checks a file of the tree that it loaded.
LEMMA ComponentHolds == ASSUME IInv, NEW r \in Reader, Component(r) PROVE IInv'
  <1>1. WorldOK'
    BY DEF IInv, WorldOK, Component, others, history, current
  <1>2. CountersOK'
    BY DEF IInv, CountersOK, Component, others, history
  <1>3. SetupOK'
    BY DEF IInv, SetupOK, Component, others
  <1>4. HolderOK'
    BY DEF IInv, HolderOK, Component, others
  <1>5. ReaderOK'
    BY DEF IInv, ReaderOK, Component, Goes, Ends, Results
  <1>6. SetupSound'
    BY DEF IInv, SetupSound, Component, others
  <1>7. StagingSound'
    BY DEF IInv, StagingSound, Component, others
  <1>8. TreeInPlace'
    BY DEF IInv, TreeInPlace, InPlace, Component, others
  <1>9. PointerInPlace'
    BY DEF IInv, PointerInPlace, InPlace, Component, others, current
  <1>10. CleanSound'
    BY DEF IInv, CleanSound, InPlace, Component, others, history
  <1>11. PointersSound'
    <2>1. UNCHANGED <<tree, active>> /\ PointersSound /\ ReaderOK
      BY DEF IInv, Component, others, current
    <2>2. \A q \in Reader : rpc'[q] # "idle" => rpc[q] # "idle" /\ pointer'[q] = pointer[q]
      BY <2>1 DEF Component, Goes, Ends, ReaderOK
    <2> QED BY <2>1, <2>2 DEF PointersSound, Names
  <1>12. TreesReleased'
    BY DEF IInv, TreesReleased, Component, others, history
  <1>13. ReadersSound'
    <2>1. SUFFICES ASSUME damages = 0, NEW q \in Reader, q \notin crossed
                   PROVE  /\ rpc'[q] # "idle" =>
                               tree[pointer'[q].version].manifest = pointer'[q].manifest
                          /\ result'[q] \notin {"error", "ran other"}
      BY DEF Component, others, history, ReadersSound, Ends, Goes
    <2>2. /\ rpc[q] # "idle" => tree[pointer[q].version].manifest = pointer[q].manifest
          /\ result[q] \notin {"error", "ran other"}
      BY <2>1 DEF IInv, ReadersSound
    <2>3. CASE q # r
      BY <2>2, <2>3 DEF IInv, ReaderOK, Component, Ends, Goes
    <2>4. CASE q = r
      <3> DEFINE p == pointer[r]
                 t == tree[p.version]
      <3>1. /\ rpc[r] = "check" /\ p \in Pointer /\ p.version \in Version
            /\ t # None /\ VersionOf[p.manifest] = p.version /\ t.manifest = p.manifest
        BY <2>2, <2>4 DEF IInv, Component, PointersSound, Names, ReaderOK, Pointer
      <3>2. t \in Tree /\ t.intact /\ t.manifest \in Valid
        BY <2>1, <3>1 DEF IInv, WorldOK, TreesReleased
      <3> QED BY <2>2, <2>4, <3>1, <3>2 DEF IInv, ReaderOK, Component, Ends, Goes, Agrees, Loads
    <2> QED BY <2>3, <2>4
  <1>14. VerifiedSound'
    BY DEF IInv, VerifiedSound, Accepted, InPlace, Component, others
  <1>15. PointerAgrees'
    BY DEF IInv, PointerAgrees, Agrees, Loads, Exchanging, Component, others, history, current
  <1> QED
    BY <1>1, <1>2, <1>3, <1>4, <1>5, <1>6, <1>7, <1>8, <1>9, <1>10, <1>11, <1>12,
       <1>13, <1>14, <1>15 DEF IInv

\* A reader runs what it has checked.
LEMMA RunHolds == ASSUME IInv, NEW r \in Reader, Run(r) PROVE IInv'
  <1>1. WorldOK'
    BY DEF IInv, WorldOK, Run, others, history, current
  <1>2. CountersOK'
    BY DEF IInv, CountersOK, Run, others, history
  <1>3. SetupOK'
    BY DEF IInv, SetupOK, Run, others
  <1>4. HolderOK'
    BY DEF IInv, HolderOK, Run, others
  <1>5. ReaderOK'
    BY DEF IInv, ReaderOK, Run, Ends, Results
  <1>6. SetupSound'
    BY DEF IInv, SetupSound, Run, others
  <1>7. StagingSound'
    BY DEF IInv, StagingSound, Run, others
  <1>8. TreeInPlace'
    BY DEF IInv, TreeInPlace, InPlace, Run, others
  <1>9. PointerInPlace'
    BY DEF IInv, PointerInPlace, InPlace, Run, others, current
  <1>10. CleanSound'
    BY DEF IInv, CleanSound, InPlace, Run, others, history
  <1>11. PointersSound'
    <2>1. UNCHANGED <<tree, active>> /\ PointersSound /\ ReaderOK
      BY DEF IInv, Run, others, current
    <2>2. \A q \in Reader : rpc'[q] # "idle" => rpc[q] # "idle" /\ pointer'[q] = pointer[q]
      BY <2>1 DEF Run, Ends, ReaderOK
    <2> QED BY <2>1, <2>2 DEF PointersSound, Names
  <1>12. TreesReleased'
    BY DEF IInv, TreesReleased, Run, others, history
  <1>13. ReadersSound'
    <2>1. SUFFICES ASSUME damages = 0, NEW q \in Reader, q \notin crossed
                   PROVE  /\ rpc'[q] # "idle" =>
                               tree[pointer'[q].version].manifest = pointer'[q].manifest
                          /\ result'[q] \notin {"error", "ran other"}
      BY DEF Run, others, history, ReadersSound, Ends
    <2>2. /\ rpc[q] # "idle" => tree[pointer[q].version].manifest = pointer[q].manifest
          /\ result[q] \notin {"error", "ran other"}
      BY <2>1 DEF IInv, ReadersSound
    <2>3. CASE q # r
      BY <2>2, <2>3 DEF IInv, ReaderOK, Run, Ends
    <2>4. CASE q = r
      <3> DEFINE p == pointer[r]
                 t == tree[p.version]
      <3>1. /\ rpc[r] = "run" /\ p \in Pointer /\ p.version \in Version
            /\ t # None /\ VersionOf[p.manifest] = p.version /\ t.manifest = p.manifest
        BY <2>2, <2>4 DEF IInv, Run, PointersSound, Names, ReaderOK, Pointer
      <3>2. t \in Tree /\ t.intact /\ t.manifest \in Valid
        BY <2>1, <3>1 DEF IInv, WorldOK, TreesReleased
      <3> QED BY <2>2, <2>4, <3>1, <3>2 DEF IInv, ReaderOK, Run, Ends, Agrees, Loads
    <2> QED BY <2>3, <2>4
  <1>14. VerifiedSound'
    BY DEF IInv, VerifiedSound, Accepted, InPlace, Run, others
  <1>15. PointerAgrees'
    BY DEF IInv, PointerAgrees, Agrees, Loads, Exchanging, Run, others, history, current
  <1> QED
    BY <1>1, <1>2, <1>3, <1>4, <1>5, <1>6, <1>7, <1>8, <1>9, <1>10, <1>11, <1>12,
       <1>13, <1>14, <1>15 DEF IInv

\* The invariant at the start: no tree, no pointer and nobody at work.
LEMMA InitHolds == Init => IInv
  <1> SUFFICES ASSUME Init PROVE IInv
    OBVIOUS
  <1>1. WorldOK /\ SetupOK /\ ReaderOK
    BY DEF Init, WorldOK, SetupOK, Steps, ReaderOK, Results
  <1>2. CountersOK
    BY BoundAssumption DEF Init, CountersOK
  <1>3. HolderOK
    BY NoneAssumption DEF Init, HolderOK
  <1>4. SetupSound /\ StagingSound
    BY DEF Init, SetupSound, StagingSound
  <1>5. TreeInPlace /\ PointerInPlace /\ CleanSound
    BY DEF Init, TreeInPlace, PointerInPlace, CleanSound, InPlace
  <1>6. PointersSound /\ TreesReleased
    BY DEF Init, PointersSound, TreesReleased
  <1>7. ReadersSound /\ VerifiedSound /\ PointerAgrees
    BY DEF Init, ReadersSound, VerifiedSound, Accepted, InPlace, PointerAgrees
  <1> QED BY <1>1, <1>2, <1>3, <1>4, <1>5, <1>6, <1>7 DEF IInv

\* A step that changes nothing keeps the invariant.
LEMMA UnchangedHolds == ASSUME IInv, UNCHANGED vars PROVE IInv'
  <1>1. (WorldOK /\ CountersOK /\ SetupOK /\ HolderOK /\ ReaderOK)'
    BY DEF IInv, vars, WorldOK, CountersOK, SetupOK, HolderOK, ReaderOK
  <1>2. (SetupSound /\ StagingSound)'
    BY DEF IInv, vars, SetupSound, StagingSound
  <1>3. (TreeInPlace /\ PointerInPlace /\ CleanSound)'
    BY DEF IInv, vars, TreeInPlace, PointerInPlace, CleanSound, InPlace
  <1>4. (PointersSound /\ TreesReleased /\ ReadersSound)'
    BY DEF IInv, vars, PointersSound, Names, TreesReleased, ReadersSound
  <1>5. (VerifiedSound /\ PointerAgrees)'
    BY DEF IInv, vars, VerifiedSound, Accepted, InPlace, PointerAgrees, Agrees, Loads,
           Exchanging
  <1> QED BY <1>1, <1>2, <1>3, <1>4, <1>5 DEF IInv

\* Every step keeps the invariant.
LEMMA NextHolds == ASSUME IInv, [Next]_vars PROVE IInv'
  <1>0. ASSUME NEW s \in Setup, End(s) \/ Terminate(s) \/ Kill(s) PROVE IInv'
    <2>1. Vanish(s) /\ torn' = (torn \/ Exchanging(s))
      BY <1>0 DEF End, Terminate, Kill, Exchanging, IInv, WorldOK
    <2> QED BY <2>1, VanishHolds
  <1>1. ASSUME NEW s \in Setup, Begin(s) \/ SetupStep(s) \/ Terminate(s) \/ Kill(s)
        PROVE  IInv'
    BY <1>0, <1>1, BeginHolds, AcquireHolds, CheckHolds, ReuseHolds, DownloadHolds,
       VerifyArchiveHolds, ExtractHolds, InspectHolds, InstallHolds, ActivateHolds,
       DiscardHolds, ConfirmHolds, CleanupHolds
       DEF SetupStep
  <1>2. ASSUME NEW v \in Version, Damage(v) PROVE IInv'
    BY <1>2, DamageHolds
  <1>3. ASSUME NEW r \in Reader, ReadActive(r) \/ Load(r) \/ Component(r) \/ Run(r)
        PROVE  IInv'
    BY <1>3, ReadActiveHolds, LoadHolds, ComponentHolds, RunHolds
  <1>4. CASE UNCHANGED vars
    BY <1>4, UnchangedHolds
  <1> QED BY <1>1, <1>2, <1>3, <1>4 DEF Next

\* The inductive invariant.
THEOREM Invariance == Spec => []IInv
  BY InitHolds, NextHolds, PTL DEF Spec

\* Types; and exactly the setup that is past SetupLock::acquire holds setup.lock.
THEOREM TypeCorrect == Spec => []TypeOK
  <1>1. IInv => TypeOK
    BY DEF IInv, TypeOK, WorldOK, CountersOK, SetupOK, HolderOK, ReaderOK
  <1> QED BY <1>1, Invariance, PTL

\* setup reports success only with its lock's runtime installed and activated, and
\* it succeeds whenever it meets no failure, whatever was left by setups before it.
THEOREM SetupsDeliver == Spec => []SetupDelivers
  <1>1. ASSUME IInv PROVE SetupDelivers
    <2> SUFFICES ASSUME NEW s \in Setup, pc[s] = "end"
                 PROVE  /\ outcome[s] = "ok" =>
                             /\ active = [version |-> lock[s].version,
                                          manifest |-> lock[s].manifest]
                             /\ tree[active.version] # None
                             /\ tree[active.version].intact => Usable(CliOf[s])
                        /\ s \in clean => outcome[s] = "ok" /\ Usable(CliOf[s])
      BY DEF SetupDelivers
    <2>1. lock[s].version \in Version /\ (s \in clean => outcome[s] = "ok")
      BY <1>1, LockAssumption DEF IInv, SetupOK, SetupSound, CleanSound
    <2>2. ASSUME outcome[s] = "ok"
          PROVE  /\ active = [version |-> lock[s].version, manifest |-> lock[s].manifest]
                 /\ tree[active.version] # None
                 /\ tree[active.version].intact => Usable(CliOf[s])
                 /\ s \in clean => Usable(CliOf[s])
      <3>1. InPlace(s)
        BY <2>2 DEF InPlace
      <3>2. active = [version |-> lock[s].version, manifest |-> lock[s].manifest]
        BY <1>1, <3>1 DEF IInv, PointerInPlace
      <3>3. /\ active # None /\ active.version = lock[s].version
           /\ active.manifest = lock[s].manifest
        <4>1. [version |-> lock[s].version, manifest |-> lock[s].manifest] \in Pointer
          BY <1>1, <2>1, <3>1, ValidAssumption DEF IInv, TreeInPlace, MatchesLock,
                                                   Pointer
        <4> QED BY <3>2, <4>1, NoneAssumption
      <3>4. /\ tree[lock[s].version] # None
            /\ tree[lock[s].version].intact => Verifies(tree[lock[s].version], lock[s])
            /\ s \in clean => tree[lock[s].version].intact
        BY <1>1, <3>1 DEF IInv, TreeInPlace, CleanSound
      <3>5. CliOf[s] \in lock[s].range
        BY <1>1, <3>1 DEF IInv, VerifiedSound, Accepted
      <3>6. tree[active.version].intact => Usable(CliOf[s])
        BY <3>3, <3>4, <3>5 DEF Verifies, MatchesLock, Usable, Discovers, Agrees
      <3> QED BY <3>2, <3>3, <3>4, <3>6
    <2> QED BY <2>1, <2>2
  <1> QED BY <1>1, Invariance, PTL

\* Without damage a look-up of a tool (discover, component_path) fails, or runs
\* another file, only beside or after the commit of another release of the version
\* it was told of, whatever setups run, fail, are interrupted or are killed.
THEOREM LookupsUndisturbed == Spec => []ReadersUndisturbed
  <1>1. IInv => ReadersUndisturbed
    BY DEF IInv, ReadersSound, ReadersUndisturbed
  <1> QED BY <1>1, Invariance, PTL

\* active.json names the release in its tree, except between the two steps of
\* install_staging and after a failure or SIGKILL there.
THEOREM PointersAgree == Spec => []PointerAgrees
  <1>1. IInv => PointerAgrees
    BY DEF IInv
  <1> QED BY <1>1, Invariance, PTL

\* active.json is written by a setup that has its release in place, and by nothing
\* else.
LEMMA PointerMoves ==
    ASSUME IInv, [Next]_vars, active' # active
    PROVE  \E s \in Setup :
             /\ pc[s] \in {"reuse", "activate"} /\ UNCHANGED <<tree, damages>>
             /\ active' = [version |-> VersionOf[installation[s]],
                           manifest |-> installation[s]]
  <1>1. ASSUME NEW s \in Setup, Reuse(s) \/ Activate(s)
        PROVE  /\ pc[s] \in {"reuse", "activate"} /\ UNCHANGED <<tree, damages>>
               /\ active' = [version |-> VersionOf[installation[s]],
                             manifest |-> installation[s]]
    BY <1>1 DEF Reuse, Activate, WriteActive, history, Fault
  <1>2. ASSUME NEW s \in Setup, Begin(s) \/ Acquire(s) \/ Check(s) \/ Download(s)
               \/ VerifyArchive(s) \/ Extract(s) \/ Inspect(s)
        PROVE  FALSE
    BY <1>2 DEF Begin, Acquire, Check, Download, VerifyArchive, Extract, Inspect, current
  <1>3. ASSUME NEW s \in Setup, Install(s) \/ Discard(s) \/ Confirm(s) \/ Cleanup(s)
               \/ End(s) \/ Terminate(s) \/ Kill(s)
        PROVE  FALSE
    BY <1>3 DEF Install, Discard, Confirm, Cleanup, End, Terminate, Kill, Vanish, current
  <1>4. ASSUME NEW v \in Version, Damage(v) PROVE FALSE
    BY <1>4 DEF Damage, current
  <1>5. ASSUME NEW r \in Reader, ReadActive(r) \/ Load(r) \/ Component(r) \/ Run(r)
        PROVE  FALSE
    BY <1>5 DEF ReadActive, Load, Component, Run, others, current
  <1> QED BY <1>1, <1>2, <1>3, <1>4, <1>5 DEF Next, SetupStep, vars

\* But for damage, a tree changes only by the exchange of a setup.
LEMMA TreeMoves ==
    ASSUME IInv, IInv', [Next]_vars, damages' = 0, tree' # tree
    PROVE  \E s \in Setup :
             /\ Install(s) /\ pc'[s] = "activate" /\ UNCHANGED <<lock, installation>>
             /\ tree' = [tree EXCEPT ![lock[s].version] = staging[s]]
  <1>1. ASSUME NEW s \in Setup, Install(s)
        PROVE  /\ pc'[s] = "activate" /\ UNCHANGED <<lock, installation>>
               /\ tree' = [tree EXCEPT ![lock[s].version] = staging[s]]
    BY <1>1 DEF IInv, SetupOK, Install, Goto
  <1>2. ASSUME NEW s \in Setup, Begin(s) \/ Acquire(s) \/ Check(s) \/ Download(s)
               \/ VerifyArchive(s) \/ Extract(s) \/ Inspect(s)
        PROVE  FALSE
    BY <1>2 DEF Begin, Acquire, Check, Download, VerifyArchive, Extract, Inspect
  <1>3. ASSUME NEW s \in Setup, Reuse(s) \/ Activate(s) \/ Discard(s) \/ Confirm(s)
               \/ Cleanup(s) \/ End(s) \/ Terminate(s) \/ Kill(s)
        PROVE  FALSE
    BY <1>3 DEF Reuse, Activate, Discard, Confirm, Cleanup, End, Terminate, Kill, Vanish
  <1>4. ASSUME NEW v \in Version, Damage(v) PROVE FALSE
    BY <1>4 DEF Damage, IInv, CountersOK
  <1>5. ASSUME NEW r \in Reader, ReadActive(r) \/ Load(r) \/ Component(r) \/ Run(r)
        PROVE  FALSE
    BY <1>5 DEF ReadActive, Load, Component, Run, others
  <1> QED BY <1>1, <1>2, <1>3, <1>4, <1>5 DEF Next, SetupStep, vars

\* No step of setup, install_staging or their clean-up makes a usable runtime
\* unusable, except the exchange of the active version for another release of it,
\* and the activation of a release that is for other CLIs.
THEOREM UsabilityKept == Spec => KeepsUsable
  <1> DEFINE Other(c) == active' # active /\ c \notin RangeOf[active'.manifest]
             Exchanges ==
                active' = active /\ \E s \in Setup : ~Exchanging(s) /\ Exchanging(s)'
  <1>1. ASSUME IInv, IInv', [Next]_vars, NEW c \in Cli,
               damages' = 0, Usable(c), ~Usable(c)'
        PROVE  Other(c) \/ Exchanges
    <2>1. CASE active' # active
      <3>1. PICK s \in Setup :
              /\ pc[s] \in {"reuse", "activate"} /\ UNCHANGED <<tree, damages>>
              /\ active' = [version |-> VersionOf[installation[s]],
                            manifest |-> installation[s]]
        BY <1>1, <2>1, PointerMoves
      <3>2. /\ active' \in Pointer /\ Agrees(active', tree[active'.version])
            /\ FilesMatch(tree[active'.version])
        BY <1>1, <3>1, WrittenAgrees
      <3>3. active' # None /\ UNCHANGED tree
        BY <3>1, <3>2, NoneAssumption
      <3>4. c \notin RangeOf[active'.manifest]
        BY <1>1, <3>2, <3>3 DEF Usable, Discovers, Agrees, FilesMatch, Loads
      <3> QED BY <2>1, <3>4
    <2>2. CASE active' = active
      <3>1. /\ active # None /\ Agrees(active, tree[active.version])
            /\ c \in RangeOf[active.manifest] /\ active.version \in Version
        BY <1>1 DEF Usable, Discovers, Agrees, IInv, WorldOK, Pointer
      <3>2. tree'[active.version] # None /\ tree'[active.version].intact
        BY <1>1, <2>2, <3>1 DEF IInv, PointersSound, Names, TreesReleased
      <3>3. ~Agrees(active, tree'[active.version])
        BY <1>1, <2>2, <3>1, <3>2 DEF Usable, Discovers, Agrees, FilesMatch, Loads
      <3>4. PICK s \in Setup :
              /\ Install(s) /\ pc'[s] = "activate" /\ UNCHANGED <<lock, installation>>
              /\ tree' = [tree EXCEPT ![lock[s].version] = staging[s]]
        BY <1>1, <3>1, <3>3, TreeMoves
      <3>5. /\ pc[s] = "install" /\ Verifies(staging[s], lock[s])
            /\ installation[s] = lock[s].manifest
        BY <1>1, <3>4 DEF IInv, StagingSound, VerifiedSound, Install
      <3>6. lock[s].version = active.version
        BY <1>1, <3>1, <3>3, <3>4 DEF IInv, WorldOK
      <3>7. tree'[active.version] = staging[s]
        BY <1>1, <3>1, <3>4, <3>6 DEF IInv, WorldOK
      <3>8. active.manifest # installation[s]
        BY <3>3, <3>5, <3>6, <3>7 DEF Agrees, Verifies, MatchesLock
      <3>9. Exchanging(s)' /\ ~Exchanging(s)
        BY <2>2, <3>1, <3>4, <3>5, <3>6, <3>8 DEF Exchanging
      <3> QED BY <2>2, <3>9
    <2> QED BY <2>1, <2>2
  <1>2. ASSUME IInv, IInv', [Next]_vars PROVE [OnlyCommitsDisable]_vars
    BY <1>1, <1>2 DEF OnlyCommitsDisable
  <1> QED BY <1>2, Invariance, PTL DEF Spec, KeepsUsable

=============================================================================

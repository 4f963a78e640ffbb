------------------------ MODULE MachineStorageProofs ------------------------
(***************************************************************************)
(* Theorems about MachineStorage, for any number of failures and of power  *)
(* losses.                                                                 *)
(*                                                                         *)
(* A command is a list of calls, of which a prefix has been made; what is  *)
(* said of the machine at a point is that what is still missing is among   *)
(* the calls to come, and in the right order.                              *)
(***************************************************************************)
EXTENDS MachineStorage, SequenceTheorems, TLAPS

Temps == {"env_temp", "work_temp"}
Disks == {"env_disk", "work_disk"}
Base == Needed \ Disks
Places == {"machines", "root", "environment", "workspace", "session"}

\* The calls of each phase.
TreeCall == ({"mkdir", "make", "sync"} \X Base) \cup ({"sync_dir"} \X Places)
DiskCall ==
    ({"make", "sync", "unlink"} \X Temps) \cup ({"link"} \X Temps \X Disks)
        \cup ({"sync_dir"} \X Places)
UnmakeCall == {"unlink"} \X (Temps \cup Disks)
SyncMachines == <<<<"sync_dir", "machines">>>>

\* What is left of a save, before and from the replacement of state.json on.
Unsaved(replace) ==
    {<<<<"make", "new">>, <<"sync", "new">>, <<replace, "new", "record">>,
       <<"sync_dir", "data">>>>,
     <<<<"sync", "new">>, <<replace, "new", "record">>, <<"sync_dir", "data">>>>,
     <<<<replace, "new", "record">>, <<"sync_dir", "data">>>>}
Replaced == {<<<<"sync_dir", "data">>>>, <<>>}

\* The conjuncts of TypeOK.
StorageTyped ==
    /\ names \subseteq Name /\ durable \subseteq Name
    /\ unsynced \subseteq names /\ torn \subseteq Name
ProcessTyped ==
    /\ outcome \in {"none", "ok", "err", "lost"} /\ command \in {"none", "init", "rm"}
    /\ doomed \in BOOLEAN
CountersTyped ==
    faults \in 0 .. MaxFaults /\ faulty \in 0 .. faults /\ losses \in 0 .. MaxLosses

PhaseOK ==
    /\ phase \in {"idle", "tree", "disks", "save", "unmake", "keep", "undo_save", "rm_save",
                  "sync_cleared", "sync_removed", "sync_undone"} \cup Removes
    /\ phase = "tree" => todo \in Seq(TreeCall)
    /\ phase = "disks" => todo \in Seq(DiskCall)
    /\ phase = "unmake" => todo \in Seq(UnmakeCall)
    /\ phase \in {"save", "keep"} => todo \in Unsaved("rename") \cup Replaced
    /\ phase \in {"undo_save", "rm_save"} => todo \in Unsaved("forget") \cup Replaced
    /\ phase \in {"sync_cleared", "sync_removed", "sync_undone"} =>
         todo \in {SyncMachines, <<>>}
    /\ phase \in {"idle"} \cup Removes => todo = <<>>

\* Whose phase it is, and what has gone wrong for it to come to this.
Making == {"tree", "disks", "save"}
Clearing == {"unmake", "clear", "clear_tree", "sync_cleared"}
Undoing == {"undo", "sync_undone", "undo_save"}
Removing == {"remove", "sync_removed", "rm_save"}
CommandOK ==
    /\ phase # "idle" => outcome = "none"
    /\ phase \in Making \cup Clearing => ~doomed
    /\ phase \in Undoing \cup Removing \cup {"keep"} => doomed
    /\ phase \in Removing => command = "rm"
    /\ phase \notin Removing \cup {"idle"} => command = "init"
    /\ phase \in Clearing \cup Undoing => faulty >= 1
    /\ phase = "keep" => faulty >= 2
    /\ phase = "idle" \/ outcome # "ok"

\* An entry that neither a power loss nor its owner's clean-up takes away.
Safe(n) == n \in names \cap durable /\ n \notin unsynced \cup torn

\* The calls to come make n and then sync its directory,
Created(n, i) ==
    \/ todo[i] \in {<<"mkdir", n>>, <<"make", n>>}
    \/ n \in Disks /\ \E t \in Temps : todo[i] = <<"link", t, n>>
Lasting(n) ==
    \/ n \in names \cap durable
    \/ \E j \in 1 .. Len(todo) :
         /\ todo[j] = <<"sync_dir", Parent[n]>>
         /\ n \in names \/ \E i \in 1 .. j - 1 : Created(n, i)
\* and sync its contents, up to call k, after the last time that they are written.
FlushedBy(n, k) ==
    \/ n \notin unsynced /\ \A i \in 1 .. k : todo[i] # <<"make", n>>
    \/ \E j \in 1 .. k :
         todo[j] = <<"sync", n>> /\ \A i \in 1 .. k : todo[i] = <<"make", n>> => i < j
Coming(n) == Lasting(n) /\ FlushedBy(n, Len(todo))

LinksFlushed ==
    \A i \in 1 .. Len(todo), a \in Temps, b \in Disks :
        todo[i] = <<"link", a, b>> => FlushedBy(a, i - 1)

MakingOK ==
    /\ phase = "tree" =>
         /\ names \subseteq Base /\ \A n \in Base : Coming(n)
         /\ \A i \in 1 .. Len(todo) : todo[i] = <<"mkdir", "root">> => i = 1 /\ names = {}
    /\ phase = "disks" =>
         (\A n \in Base : Safe(n)) /\ (\A n \in Disks : Coming(n)) /\ LinksFlushed
    /\ phase = "save" => \A n \in Needed : Safe(n)

\* What the disk has of a machine that is recorded.
RecordOK ==
    /\ "record" \notin unsynced \cup torn
    /\ "record" \in names \cup durable /\ ~doomed => \A n \in Needed : Safe(n)
    /\ ~doomed => torn \subseteq names /\ (phase # "idle" => torn = {})
    /\ phase \in {"tree", "disks"} \cup Clearing =>
         names \subseteq Tree /\ "record" \notin durable

\* The temporary file is synced before it becomes state.json.
SaveOK ==
    /\ phase \in {"save", "keep"} =>
         /\ todo = <<<<"rename", "new", "record">>, <<"sync_dir", "data">>>>
              => "new" \notin unsynced
         /\ todo \in Replaced => "record" \in names /\ "new" \notin names
         /\ todo = <<>> => "record" \in durable
    /\ phase \in {"undo_save", "rm_save"} =>
         /\ todo \in Replaced => names \cap {"new", "record"} = {}
         /\ todo = <<>> => durable \cap {"new", "record"} = {}

\* Only where two calls failed does the temporary file stay.
NewOK ==
    losses = 0 /\ faults < 2 /\ phase \notin {"save", "keep", "undo_save", "rm_save"}
        => "new" \notin names

\* The directory is gone.
GoneOK ==
    /\ phase \in {"sync_cleared", "sync_removed", "sync_undone", "undo_save", "rm_save"}
         => names \cap Tree = {}
    /\ (phase = "sync_removed" /\ todo = <<>>) \/ phase = "rm_save" => "root" \notin durable
    /\ phase \in {"undo", "sync_undone"} /\ faulty = 1 => "new" \notin names

\* What a command has answered.
EndOK ==
    outcome = "ok" =>
        /\ command # "rm" => "record" \in names \cap durable
        /\ command = "rm" => names = {} /\ durable \cap {"root", "new", "record"} = {}

IInv ==
    /\ StorageTyped /\ ProcessTyped /\ CountersTyped /\ PhaseOK /\ CommandOK /\ MakingOK
    /\ RecordOK /\ SaveOK /\ NewOK /\ GoneOK /\ OneFailureLeavesNothing /\ EndOK

\* The first call of a list, and the others.
LEMMA Shift ==
    ASSUME NEW S, NEW s \in Seq(S), s # <<>>
    PROVE  /\ Len(s) \in Nat /\ Len(s) >= 1 /\ Head(s) = s[1] /\ s[1] \in S
           /\ Tail(s) \in Seq(S) /\ Len(Tail(s)) = Len(s) - 1
           /\ \A i \in 1 .. Len(s) - 1 : Tail(s)[i] = s[i + 1]
  OBVIOUS

\* The entries, and the directory of each.
LEMMA Names ==
    /\ Name = {"root", "environment", "workspace", "session", "owner", "env_marker",
               "work_marker", "session_marker", "env_temp", "env_disk", "work_temp",
               "work_disk", "new", "record"}
    /\ Base = {"root", "environment", "workspace", "session", "owner", "env_marker",
               "work_marker", "session_marker"}
    /\ Needed = Base \cup Disks
    /\ Tree = Needed \cup Temps
  BY DEF Name, Parent, Base, Needed, Tree, Temps, Disks

\* The directory of each entry.
LEMMA Parents ==
    /\ Parent["root"] = "machines" /\ Parent["environment"] = "root"
    /\ Parent["workspace"] = "root" /\ Parent["session"] = "root"
    /\ Parent["owner"] = "root"
    /\ Parent["env_marker"] = "environment" /\ Parent["work_marker"] = "workspace"
    /\ Parent["session_marker"] = "session"
    /\ Parent["env_temp"] = "environment" /\ Parent["env_disk"] = "environment"
    /\ Parent["work_temp"] = "workspace" /\ Parent["work_disk"] = "workspace"
    /\ Parent["new"] = "data" /\ Parent["record"] = "data"
  BY DEF Parent

\* A list of calls, with more after it.
LEMMA And2 ==
    ASSUME NEW S, NEW s \in Seq(S), NEW a \in S, NEW b \in S,
           NEW t, t = s \o <<a, b>>
    PROVE  /\ t \in Seq(S) /\ Len(t) = Len(s) + 2 /\ \A i \in 1 .. Len(s) : t[i] = s[i]
           /\ t[Len(s) + 1] = a /\ t[Len(s) + 2] = b
  <1>1. Len(s) \in Nat
    OBVIOUS
  <1> QED BY <1>1

\* The same, with three calls after it,
LEMMA And3 ==
    ASSUME NEW S, NEW s \in Seq(S), NEW a \in S, NEW b \in S, NEW c \in S,
           NEW t, t = s \o <<a, b, c>>
    PROVE  /\ t \in Seq(S) /\ Len(t) = Len(s) + 3 /\ \A i \in 1 .. Len(s) : t[i] = s[i]
           /\ t[Len(s) + 1] = a /\ t[Len(s) + 2] = b /\ t[Len(s) + 3] = c
  <1>1. Len(s) \in Nat
    OBVIOUS
  <1> QED BY <1>1

\* and with five.
LEMMA And5 ==
    ASSUME NEW S, NEW s \in Seq(S), NEW a \in S, NEW b \in S, NEW c \in S, NEW d \in S,
           NEW e \in S,
           NEW t, t = s \o <<a, b, c, d, e>>
    PROVE  /\ t \in Seq(S) /\ Len(t) = Len(s) + 5 /\ \A i \in 1 .. Len(s) : t[i] = s[i]
           /\ t[Len(s) + 1] = a /\ t[Len(s) + 2] = b /\ t[Len(s) + 3] = c
           /\ t[Len(s) + 4] = d /\ t[Len(s) + 5] = e
  <1>1. Len(s) \in Nat
    OBVIOUS
  <1> QED BY <1>1

\* A list of calls, and write_json_new after it.
LEMMA AndWrites ==
    ASSUME NEW s \in Seq(TreeCall), NEW t,
           NEW n \in {"owner", "env_marker", "work_marker", "session_marker"},
           t = s \o WriteNew(n)
    PROVE  /\ t \in Seq(TreeCall) /\ Len(t) = Len(s) + 3 /\ Len(s) \in Nat
           /\ \A i \in 1 .. Len(s) : t[i] = s[i]
           /\ t[Len(s) + 1] = <<"make", n>> /\ t[Len(s) + 2] = <<"sync", n>>
           /\ t[Len(s) + 3] = <<"sync_dir", Parent[n]>>
  <1>1. t = s \o <<<<"make", n>>, <<"sync", n>>, <<"sync_dir", Parent[n]>>>>
    BY DEF WriteNew
  <1>2. <<"make", n>> \in TreeCall /\ <<"sync", n>> \in TreeCall
    BY Names DEF TreeCall
  <1>3. Parent[n] \in Places
    BY Parents DEF Places
  <1>4. <<"sync_dir", Parent[n]>> \in TreeCall
    BY <1>3 DEF TreeCall
  <1>5. Len(s) \in Nat
    OBVIOUS
  <1> DEFINE m == <<"make", n>>
             c == <<"sync", n>>
             d == <<"sync_dir", Parent[n]>>
  <1>6. m \in TreeCall /\ c \in TreeCall /\ d \in TreeCall /\ t = s \o <<m, c, d>>
    BY <1>1, <1>2, <1>4
  <1> HIDE DEF m, c, d
  <1>7. /\ t \in Seq(TreeCall) /\ Len(t) = Len(s) + 3 /\ \A i \in 1 .. Len(s) : t[i] = s[i]
        /\ t[Len(s) + 1] = m /\ t[Len(s) + 2] = c /\ t[Len(s) + 3] = d
    BY <1>6, And3
  <1> QED BY <1>5, <1>7 DEF m, c, d

\* What MachinePaths::create does, call by call.
LEMMA TreeCalls ==
    /\ CreateTree \in Seq(TreeCall) /\ Len(CreateTree) = 18
    /\ CreateTree[1] = <<"mkdir", "root">> /\ CreateTree[2] = <<"mkdir", "environment">>
    /\ CreateTree[3] = <<"mkdir", "workspace">> /\ CreateTree[4] = <<"mkdir", "session">>
    /\ CreateTree[5] = <<"make", "owner">> /\ CreateTree[6] = <<"sync", "owner">>
    /\ CreateTree[7] = <<"sync_dir", "root">>
    /\ CreateTree[8] = <<"make", "env_marker">>
    /\ CreateTree[9] = <<"sync", "env_marker">>
    /\ CreateTree[10] = <<"sync_dir", "environment">>
    /\ CreateTree[11] = <<"make", "work_marker">>
    /\ CreateTree[12] = <<"sync", "work_marker">>
    /\ CreateTree[13] = <<"sync_dir", "workspace">>
    /\ CreateTree[14] = <<"make", "session_marker">>
    /\ CreateTree[15] = <<"sync", "session_marker">>
    /\ CreateTree[16] = <<"sync_dir", "session">>
    /\ CreateTree[17] = <<"sync_dir", "root">>
    /\ CreateTree[18] = <<"sync_dir", "machines">>
  <1> DEFINE a == <<<<"mkdir", "root">>, <<"mkdir", "environment">>,
                    <<"mkdir", "workspace">>, <<"mkdir", "session">>>>
             b == a \o WriteNew("owner")
             c == b \o WriteNew("env_marker")
             d == c \o WriteNew("work_marker")
             e == d \o WriteNew("session_marker")
  <1>1. /\ {"mkdir", "make", "sync"} \X Base \subseteq TreeCall
        /\ {"sync_dir"} \X Places \subseteq TreeCall
    BY DEF TreeCall
  <1>2. a \in Seq(TreeCall)
    BY <1>1, Names
  <1>2a. /\ Len(a) = 4 /\ a[1] = <<"mkdir", "root">> /\ a[2] = <<"mkdir", "environment">>
         /\ a[3] = <<"mkdir", "workspace">> /\ a[4] = <<"mkdir", "session">>
    OBVIOUS
  <1>3. /\ b = a \o WriteNew("owner") /\ c = b \o WriteNew("env_marker")
        /\ d = c \o WriteNew("work_marker") /\ e = d \o WriteNew("session_marker")
    OBVIOUS
  <1> HIDE DEF a, b, c, d, e
  <1>4. /\ b \in Seq(TreeCall) /\ Len(b) = Len(a) + 3 /\ Len(a) \in Nat
        /\ \A i \in 1 .. Len(a) : b[i] = a[i]
        /\ b[Len(a) + 1] = <<"make", "owner">> /\ b[Len(a) + 2] = <<"sync", "owner">>
        /\ b[Len(a) + 3] = <<"sync_dir", "root">>
    <2>1. b = a \o WriteNew("owner") /\ Parent["owner"] = "root"
          /\ "owner" \in {"owner", "env_marker", "work_marker", "session_marker"}
      BY <1>3, Parents
    <2> QED BY <1>2, <2>1, AndWrites, ZenonT(60)
  <1>5. /\ Len(b) = 7 /\ \A i \in 1 .. 4 : b[i] = a[i]
        /\ b[5] = <<"make", "owner">> /\ b[6] = <<"sync", "owner">>
        /\ b[7] = <<"sync_dir", "root">>
    BY <1>4, <1>2a
  <1>6. /\ c \in Seq(TreeCall) /\ Len(c) = Len(b) + 3 /\ Len(b) \in Nat
        /\ \A i \in 1 .. Len(b) : c[i] = b[i]
        /\ c[Len(b) + 1] = <<"make", "env_marker">>
        /\ c[Len(b) + 2] = <<"sync", "env_marker">>
        /\ c[Len(b) + 3] = <<"sync_dir", "environment">>
    <2>1. c = b \o WriteNew("env_marker") /\ Parent["env_marker"] = "environment"
          /\ "env_marker" \in {"owner", "env_marker", "work_marker", "session_marker"}
      BY <1>3, Parents
    <2> QED BY <1>4, <2>1, AndWrites, ZenonT(60)
  <1>7. /\ Len(c) = 10 /\ \A i \in 1 .. 7 : c[i] = b[i]
        /\ c[8] = <<"make", "env_marker">> /\ c[9] = <<"sync", "env_marker">>
        /\ c[10] = <<"sync_dir", "environment">>
    BY <1>6, <1>5
  <1>8. /\ d \in Seq(TreeCall) /\ Len(d) = Len(c) + 3 /\ Len(c) \in Nat
        /\ \A i \in 1 .. Len(c) : d[i] = c[i]
        /\ d[Len(c) + 1] = <<"make", "work_marker">>
        /\ d[Len(c) + 2] = <<"sync", "work_marker">>
        /\ d[Len(c) + 3] = <<"sync_dir", "workspace">>
    <2>1. d = c \o WriteNew("work_marker") /\ Parent["work_marker"] = "workspace"
          /\ "work_marker" \in {"owner", "env_marker", "work_marker", "session_marker"}
      BY <1>3, Parents
    <2> QED BY <1>6, <2>1, AndWrites, ZenonT(60)
  <1>9. /\ Len(d) = 13 /\ \A i \in 1 .. 10 : d[i] = c[i]
        /\ d[11] = <<"make", "work_marker">> /\ d[12] = <<"sync", "work_marker">>
        /\ d[13] = <<"sync_dir", "workspace">>
    BY <1>8, <1>7
  <1>10. /\ e \in Seq(TreeCall) /\ Len(e) = Len(d) + 3 /\ Len(d) \in Nat
        /\ \A i \in 1 .. Len(d) : e[i] = d[i]
        /\ e[Len(d) + 1] = <<"make", "session_marker">>
        /\ e[Len(d) + 2] = <<"sync", "session_marker">>
        /\ e[Len(d) + 3] = <<"sync_dir", "session">>
    <2>1. e = d \o WriteNew("session_marker") /\ Parent["session_marker"] = "session"
          /\ "session_marker" \in {"owner", "env_marker", "work_marker", "session_marker"}
      BY <1>3, Parents
    <2> QED BY <1>8, <2>1, AndWrites, ZenonT(60)
  <1>11. /\ Len(e) = 16 /\ \A i \in 1 .. 13 : e[i] = d[i]
        /\ e[14] = <<"make", "session_marker">> /\ e[15] = <<"sync", "session_marker">>
        /\ e[16] = <<"sync_dir", "session">>
    BY <1>10, <1>9
  <1>12. CreateTree = e \o <<<<"sync_dir", "root">>, <<"sync_dir", "machines">>>>
    BY DEF CreateTree, a, b, c, d, e
  <1>13. /\ CreateTree \in Seq(TreeCall) /\ Len(CreateTree) = Len(e) + 2 /\ Len(e) \in Nat
         /\ \A i \in 1 .. Len(e) : CreateTree[i] = e[i]
         /\ CreateTree[Len(e) + 1] = <<"sync_dir", "root">>
         /\ CreateTree[Len(e) + 2] = <<"sync_dir", "machines">>
    BY <1>1, <1>10, <1>12, And2 DEF Places
  <1>14. /\ Len(CreateTree) = 18 /\ \A i \in 1 .. 16 : CreateTree[i] = e[i]
         /\ CreateTree[17] = <<"sync_dir", "root">>
         /\ CreateTree[18] = <<"sync_dir", "machines">>
    BY <1>11, <1>13
  <1> QED BY <1>2a, <1>5, <1>7, <1>9, <1>11, <1>13, <1>14

\* What Storage::create does, call by call.
LEMMA DiskCalls ==
    /\ CreateDisks \in Seq(DiskCall) /\ Len(CreateDisks) = 10
    /\ CreateDisks[1] = <<"make", "env_temp">> /\ CreateDisks[2] = <<"sync", "env_temp">>
    /\ CreateDisks[3] = <<"link", "env_temp", "env_disk">>
    /\ CreateDisks[4] = <<"unlink", "env_temp">>
    /\ CreateDisks[5] = <<"sync_dir", "environment">>
    /\ CreateDisks[6] = <<"make", "work_temp">>
    /\ CreateDisks[7] = <<"sync", "work_temp">>
    /\ CreateDisks[8] = <<"link", "work_temp", "work_disk">>
    /\ CreateDisks[9] = <<"unlink", "work_temp">>
    /\ CreateDisks[10] = <<"sync_dir", "workspace">>
  <1> DEFINE a == CreateDisk("env_temp", "env_disk")
  <1>1. ASSUME NEW t \in Temps, NEW d \in Disks
        PROVE  /\ {<<"make", t>>, <<"sync", t>>, <<"unlink", t>>} \subseteq DiskCall
               /\ <<"link", t, d>> \in DiskCall /\ <<"sync_dir", Parent[d]>> \in DiskCall
    <2>1. {<<"make", t>>, <<"sync", t>>, <<"unlink", t>>} \subseteq DiskCall
      BY DEF DiskCall
    <2>2. <<"link", t, d>> \in DiskCall
      BY DEF DiskCall
    <2>3. <<"sync_dir", Parent[d]>> \in DiskCall
      BY Parents DEF DiskCall, Places, Disks
    <2> QED BY <2>1, <2>2, <2>3
  <1>2. a \in Seq(DiskCall)
    BY <1>1 DEF CreateDisk, Temps, Disks
  <1>3. /\ Len(a) = 5
        /\ a[1] = <<"make", "env_temp">> /\ a[2] = <<"sync", "env_temp">>
        /\ a[3] = <<"link", "env_temp", "env_disk">> /\ a[4] = <<"unlink", "env_temp">>
        /\ a[5] = <<"sync_dir", "environment">>
    BY Parents DEF CreateDisk
  <1>4. CreateDisks =
          a \o <<<<"make", "work_temp">>, <<"sync", "work_temp">>,
                 <<"link", "work_temp", "work_disk">>, <<"unlink", "work_temp">>,
                 <<"sync_dir", "workspace">>>>
    BY Parents DEF CreateDisks, CreateDisk
  <1> HIDE DEF a
  <1>5. /\ CreateDisks \in Seq(DiskCall) /\ Len(CreateDisks) = Len(a) + 5
        /\ Len(a) \in Nat
        /\ \A i \in 1 .. Len(a) : CreateDisks[i] = a[i]
        /\ CreateDisks[Len(a) + 1] = <<"make", "work_temp">>
        /\ CreateDisks[Len(a) + 2] = <<"sync", "work_temp">>
        /\ CreateDisks[Len(a) + 3] = <<"link", "work_temp", "work_disk">>
        /\ CreateDisks[Len(a) + 4] = <<"unlink", "work_temp">>
        /\ CreateDisks[Len(a) + 5] = <<"sync_dir", "workspace">>
    <2> DEFINE m == <<"make", "work_temp">>
               c == <<"sync", "work_temp">>
               l == <<"link", "work_temp", "work_disk">>
               u == <<"unlink", "work_temp">>
               d == <<"sync_dir", "workspace">>
    <2>1. /\ m \in DiskCall /\ c \in DiskCall /\ l \in DiskCall /\ u \in DiskCall
          /\ d \in DiskCall
      BY <1>1, Parents DEF Temps, Disks
    <2>2. Len(a) \in Nat
      BY <1>2
    <2> HIDE DEF m, c, l, u, d
    <2>3. CreateDisks = a \o <<m, c, l, u, d>>
      BY <1>4 DEF m, c, l, u, d
    <2>4. /\ CreateDisks \in Seq(DiskCall) /\ Len(CreateDisks) = Len(a) + 5
          /\ \A i \in 1 .. Len(a) : CreateDisks[i] = a[i]
          /\ CreateDisks[Len(a) + 1] = m /\ CreateDisks[Len(a) + 2] = c
          /\ CreateDisks[Len(a) + 3] = l /\ CreateDisks[Len(a) + 4] = u
          /\ CreateDisks[Len(a) + 5] = d
      BY <1>2, <2>1, <2>3, And5
    <2> QED BY <2>2, <2>4 DEF m, c, l, u, d
  <1>6. /\ Len(CreateDisks) = 10 /\ \A i \in 1 .. 5 : CreateDisks[i] = a[i]
        /\ CreateDisks[6] = <<"make", "work_temp">>
        /\ CreateDisks[7] = <<"sync", "work_temp">>
        /\ CreateDisks[8] = <<"link", "work_temp", "work_disk">>
        /\ CreateDisks[9] = <<"unlink", "work_temp">>
        /\ CreateDisks[10] = <<"sync_dir", "workspace">>
    BY <1>3, <1>5
  <1> QED BY <1>3, <1>5, <1>6

\* A call leaves fewer to come, and what came after it still comes.
LEMMA FlushedStep ==
    ASSUME NEW S, todo \in Seq(S), todo # <<>>, todo' = Tail(todo),
           NEW n, NEW k \in 1 .. Len(todo), FlushedBy(n, k),
           n \in unsynced' => n \in unsynced \/ todo[1] = <<"make", n>>,
           todo[1] = <<"sync", n>> => n \notin unsynced'
    PROVE  FlushedBy(n, k - 1)'
  <1>1. /\ Len(todo) \in Nat /\ Len(todo) >= 1
        /\ Len(todo') = Len(todo) - 1
        /\ \A i \in 1 .. Len(todo) - 1 : todo'[i] = todo[i + 1]
    BY Shift
  <1>2. CASE n \notin unsynced /\ \A i \in 1 .. k : todo[i] # <<"make", n>>
    <2>1. n \notin unsynced'
      BY <1>1, <1>2
    <2>2. \A i \in 1 .. k - 1 : todo'[i] # <<"make", n>>
      BY <1>1, <1>2
    <2> QED BY <2>1, <2>2 DEF FlushedBy
  <1>3. ASSUME NEW j \in 1 .. k, todo[j] = <<"sync", n>>,
               \A i \in 1 .. k : todo[i] = <<"make", n>> => i < j
        PROVE  FlushedBy(n, k - 1)'
    <2>1. CASE j = 1
      <3>1. n \notin unsynced'
        BY <1>3, <2>1
      <3>2. \A i \in 1 .. k - 1 : todo'[i] # <<"make", n>>
        BY <1>1, <1>3, <2>1
      <3> QED BY <3>1, <3>2 DEF FlushedBy
    <2>2. CASE j # 1
      <3>1. j - 1 \in 1 .. k - 1 /\ todo'[j - 1] = <<"sync", n>>
        BY <1>1, <1>3, <2>2
      <3>2. \A i \in 1 .. k - 1 : todo'[i] = <<"make", n>> => i < j - 1
        BY <1>1, <1>3
      <3> QED BY <3>1, <3>2 DEF FlushedBy
    <2> QED BY <2>1, <2>2
  <1> QED BY <1>2, <1>3 DEF FlushedBy

\* A call leaves fewer to come: an entry still lasts at the end if it did before.
LEMMA LastingStep ==
    ASSUME NEW S, todo \in Seq(S), todo # <<>>, todo' = Tail(todo),
           NEW n, Lasting(n),
           n \in names => n \in names', n \in names \cap durable => n \in durable',
           Created(n, 1) => n \in names',
           todo[1] = <<"sync_dir", Parent[n]>> /\ n \in names => n \in durable'
    PROVE  Lasting(n)'
  <1>1. /\ Len(todo) \in Nat /\ Len(todo) >= 1
        /\ Len(todo') = Len(todo) - 1
        /\ \A i \in 1 .. Len(todo) - 1 : todo'[i] = todo[i + 1]
    BY Shift
  <1>2. CASE n \in names \cap durable
    BY <1>2 DEF Lasting
  <1>3. ASSUME NEW j \in 1 .. Len(todo), todo[j] = <<"sync_dir", Parent[n]>>,
               n \in names \/ \E i \in 1 .. j - 1 : Created(n, i)
        PROVE  Lasting(n)'
    <2>1. CASE j = 1
      BY <1>3, <2>1 DEF Lasting
    <2>2. CASE j # 1
      <3>1. j - 1 \in 1 .. Len(todo') /\ todo'[j - 1] = <<"sync_dir", Parent[n]>>
        BY <1>1, <1>3, <2>2
      <3>2. ASSUME NEW i \in 1 .. j - 1, Created(n, i), i # 1
            PROVE  i - 1 \in 1 .. (j - 1) - 1 /\ Created(n, i - 1)'
        <4>1. i - 1 \in 1 .. Len(todo) - 1 /\ todo'[i - 1] = todo[i]
          BY <1>1, <1>3, <3>2
        <4> QED BY <4>1, <3>2 DEF Created
      <3>3. n \in names' \/ \E i \in 1 .. (j - 1) - 1 : Created(n, i)'
        BY <1>3, <3>2
      <3> QED BY <3>1, <3>3 DEF Lasting
    <2> QED BY <2>1, <2>2
  <1> QED BY <1>2, <1>3 DEF Lasting

\* What a call of MachinePaths::create does.
LEMMA TreeEffect ==
    ASSUME IInv, Call, phase = "tree"
    PROVE  /\ todo \in Seq(TreeCall) /\ todo # <<>> /\ todo' = Tail(todo)
           /\ names \subseteq names' /\ names' \subseteq names \cup Base
           /\ unsynced' \subseteq names' /\ unsynced' \subseteq unsynced \cup Base
           /\ names \cap durable \subseteq durable'
           /\ durable' \subseteq durable \cup names
           /\ \A n \in Base :
                /\ n \in unsynced' => n \in unsynced \/ todo[1] = <<"make", n>>
                /\ todo[1] = <<"sync", n>> => n \notin unsynced'
                /\ Created(n, 1) => n \in names'
                /\ todo[1] = <<"sync_dir", Parent[n]>> /\ n \in names => n \in durable'
  <1>1. todo \in Seq(TreeCall) /\ todo # <<>> /\ todo' = Tail(todo)
    BY DEF IInv, PhaseOK, Call
  <1>2. todo[1] \in TreeCall /\ Perform(todo[1]) /\ unsynced \subseteq names
    BY <1>1, Shift DEF Call, IInv, StorageTyped
  <1>3. ASSUME NEW n \in Base, todo[1] = <<"mkdir", n>>
        PROVE  names' = names \cup {n} /\ UNCHANGED <<durable, unsynced>>
    BY <1>2, <1>3 DEF Perform, MakeDir
  <1>4. ASSUME NEW n \in Base, todo[1] = <<"make", n>>
        PROVE  names' = names \cup {n} /\ unsynced' = unsynced \cup {n} /\ UNCHANGED durable
    BY <1>2, <1>4 DEF Perform, Make
  <1>5. ASSUME NEW n \in Base, todo[1] = <<"sync", n>>
        PROVE  unsynced' = unsynced \ {n} /\ UNCHANGED <<names, durable>>
    BY <1>2, <1>5 DEF Perform, Sync
  <1>6. ASSUME NEW d \in Places, todo[1] = <<"sync_dir", d>>
        PROVE  /\ durable' = (durable \ In(d)) \cup (names \cap In(d))
               /\ UNCHANGED <<names, unsynced>>
    BY <1>2, <1>6 DEF Perform, SyncDir
  <1>7. \/ \E n \in Base : todo[1] \in {<<"mkdir", n>>, <<"make", n>>, <<"sync", n>>}
        \/ \E d \in Places : todo[1] = <<"sync_dir", d>>
    BY <1>2 DEF TreeCall
  <1>8. ASSUME NEW n \in Base, Created(n, 1)
        PROVE  todo[1] \in {<<"mkdir", n>>, <<"make", n>>}
    BY <1>8 DEF Created, Base
  <1>9. ASSUME NEW n \in Base, todo[1] = <<"sync_dir", Parent[n]>>, n \in names
        PROVE  n \in durable'
    <2>1. Parent[n] \in Places /\ n \in In(Parent[n])
      BY Names, Parents DEF Places, In
    <2> QED BY <1>6, <1>9, <2>1
  <1>10. CASE \E n \in Base : todo[1] = <<"mkdir", n>>
    BY <1>1, <1>2, <1>3, <1>8, <1>9, <1>10
  <1>11. CASE \E n \in Base : todo[1] = <<"make", n>>
    BY <1>1, <1>2, <1>4, <1>8, <1>9, <1>11
  <1>12. CASE \E n \in Base : todo[1] = <<"sync", n>>
    BY <1>1, <1>2, <1>5, <1>8, <1>9, <1>12
  <1>13. CASE \E d \in Places : todo[1] = <<"sync_dir", d>>
    BY <1>1, <1>2, <1>6, <1>8, <1>9, <1>13
  <1> QED BY <1>7, <1>10, <1>11, <1>12, <1>13

\* What a call of Storage::create does: a disk is linked when its contents are synced.
LEMMA DiskEffect ==
    ASSUME IInv, Call, phase = "disks"
    PROVE  /\ todo \in Seq(DiskCall) /\ todo # <<>> /\ todo' = Tail(todo)
           /\ names \subseteq names' \cup Temps
           /\ names' \subseteq names \cup Temps \cup Disks
           /\ unsynced' \subseteq names' /\ unsynced' \subseteq unsynced \cup Temps
           /\ names \cap durable \subseteq durable'
           /\ durable' \subseteq durable \cup names
           /\ \A n \in Temps :
                /\ n \in unsynced' => n \in unsynced \/ todo[1] = <<"make", n>>
                /\ todo[1] = <<"sync", n>> => n \notin unsynced'
           /\ \A n \in Disks :
                /\ Created(n, 1) => n \in names'
                /\ todo[1] = <<"sync_dir", Parent[n]>> /\ n \in names => n \in durable'
  <1>1. todo \in Seq(DiskCall) /\ todo # <<>> /\ todo' = Tail(todo)
    BY DEF IInv, PhaseOK, Call
  <1>2. todo[1] \in DiskCall /\ Perform(todo[1]) /\ unsynced \subseteq names
    BY <1>1, Shift DEF Call, IInv, StorageTyped
  <1>3. ASSUME NEW t \in Temps, NEW d \in Disks, todo[1] = <<"link", t, d>>
        PROVE  names' = names \cup {d} /\ UNCHANGED <<durable, unsynced>>
    <2>1. /\ names' = names \cup {d} /\ (t \notin unsynced => unsynced' = unsynced)
          /\ durable' = durable
      BY <1>2, <1>3 DEF Perform, Link
    <2>2. FlushedBy(t, 0)
      <3>1. Len(todo) \in Nat /\ Len(todo) >= 1 /\ LinksFlushed
        BY <1>1, Shift DEF IInv, MakingOK
      <3>2. FlushedBy(t, 1 - 1)
        BY <1>3, <3>1 DEF LinksFlushed
      <3> QED BY <3>2
    <2> QED BY <2>1, <2>2 DEF FlushedBy
  <1>4. ASSUME NEW n \in Temps, todo[1] = <<"make", n>>
        PROVE  names' = names \cup {n} /\ unsynced' = unsynced \cup {n} /\ UNCHANGED durable
    BY <1>2, <1>4 DEF Perform, Make
  <1>5. ASSUME NEW n \in Temps, todo[1] = <<"sync", n>>
        PROVE  unsynced' = unsynced \ {n} /\ UNCHANGED <<names, durable>>
    BY <1>2, <1>5 DEF Perform, Sync
  <1>6. ASSUME NEW d \in Places, todo[1] = <<"sync_dir", d>>
        PROVE  /\ durable' = (durable \ In(d)) \cup (names \cap In(d))
               /\ UNCHANGED <<names, unsynced>>
    BY <1>2, <1>6 DEF Perform, SyncDir
  <1>7. ASSUME NEW n \in Temps, todo[1] = <<"unlink", n>>
        PROVE  names' = names \ {n} /\ unsynced' = unsynced \ {n} /\ UNCHANGED durable
    BY <1>2, <1>7 DEF Perform, Gone
  <1>8. \/ \E n \in Temps : todo[1] \in {<<"make", n>>, <<"sync", n>>, <<"unlink", n>>}
        \/ \E t \in Temps, d \in Disks : todo[1] = <<"link", t, d>>
        \/ \E d \in Places : todo[1] = <<"sync_dir", d>>
    BY <1>2 DEF DiskCall
  <1>9. ASSUME NEW n \in Disks, Created(n, 1)
        PROVE  \E t \in Temps : todo[1] = <<"link", t, n>>
    BY <1>8, <1>9 DEF Created, Temps, Disks
  <1>10. ASSUME NEW n \in Disks, todo[1] = <<"sync_dir", Parent[n]>>, n \in names
         PROVE  n \in durable'
    <2>1. Parent[n] \in Places /\ n \in In(Parent[n])
      BY Names, Parents DEF Places, In, Disks
    <2> QED BY <1>6, <1>10, <2>1
  <1>11. CASE \E t \in Temps, d \in Disks : todo[1] = <<"link", t, d>>
    BY <1>1, <1>2, <1>3, <1>9, <1>10, <1>11
  <1>12. CASE \E n \in Temps : todo[1] = <<"make", n>>
    BY <1>1, <1>2, <1>4, <1>9, <1>10, <1>12
  <1>13. CASE \E n \in Temps : todo[1] = <<"sync", n>>
    BY <1>1, <1>2, <1>5, <1>9, <1>10, <1>13
  <1>14. CASE \E n \in Temps : todo[1] = <<"unlink", n>>
    BY <1>1, <1>2, <1>7, <1>9, <1>10, <1>14
  <1>15. CASE \E d \in Places : todo[1] = <<"sync_dir", d>>
    BY <1>1, <1>2, <1>6, <1>9, <1>10, <1>15
  <1> QED BY <1>8, <1>11, <1>12, <1>13, <1>14, <1>15

\* What a call that takes a disk away does.
LEMMA UnmakeEffect ==
    ASSUME IInv, Call, phase = "unmake"
    PROVE  /\ todo' \in Seq(UnmakeCall)
           /\ names' \subseteq names /\ unsynced' \subseteq unsynced \cap names'
           /\ durable' = durable
  <1>1. todo \in Seq(UnmakeCall) /\ todo # <<>> /\ todo' = Tail(todo)
    BY DEF IInv, PhaseOK, Call
  <1>2. todo[1] \in UnmakeCall /\ Perform(todo[1]) /\ unsynced \subseteq names
    BY <1>1, Shift DEF Call, IInv, StorageTyped
  <1>3. PICK n \in Temps \cup Disks : todo[1] = <<"unlink", n>>
    BY <1>2 DEF UnmakeCall
  <1>4. names' = names \ {n} /\ unsynced' = unsynced \ {n} /\ durable' = durable
    BY <1>2, <1>3 DEF Perform, Gone
  <1> QED BY <1>1, <1>2, <1>4, Shift

\* What a call of a save does.
LEMMA SaveEffect ==
    ASSUME NEW r \in {"rename", "forget"}, todo \in Unsaved(r) \cup Replaced, Call
    PROVE  \/ /\ Make("new") /\ todo' \in Unsaved(r)
              /\ todo' # <<<<r, "new", "record">>, <<"sync_dir", "data">>>>
           \/ Sync("new") /\ todo' \in Unsaved(r)
           \/ /\ todo = <<<<r, "new", "record">>, <<"sync_dir", "data">>>>
              /\ todo' = <<<<"sync_dir", "data">>>>
              /\ r = "rename" => Move("new", "record")
              /\ r = "forget" => Gone({"new", "record"})
           \/ SyncDir("data") /\ todo \in Replaced /\ todo' = <<>>
  <1>1. CASE todo = <<<<"make", "new">>, <<"sync", "new">>, <<r, "new", "record">>,
                      <<"sync_dir", "data">>>>
    <2>1. todo' = <<<<"sync", "new">>, <<r, "new", "record">>, <<"sync_dir", "data">>>>
      BY <1>1 DEF Call
    <2>2. Make("new")
      BY <1>1 DEF Call, Perform
    <2>3. todo' # <<<<r, "new", "record">>, <<"sync_dir", "data">>>>
      BY <2>1
    <2> QED BY <2>1, <2>2, <2>3 DEF Unsaved
  <1>2. CASE todo = <<<<"sync", "new">>, <<r, "new", "record">>, <<"sync_dir", "data">>>>
    <2>1. todo' = <<<<r, "new", "record">>, <<"sync_dir", "data">>>>
      BY <1>2 DEF Call
    <2>2. Sync("new")
      BY <1>2 DEF Call, Perform
    <2> QED BY <2>1, <2>2 DEF Unsaved
  <1>3. CASE todo = <<<<r, "new", "record">>, <<"sync_dir", "data">>>>
    <2>1. todo' = <<<<"sync_dir", "data">>>>
      BY <1>3 DEF Call
    <2>2. /\ (r = "rename" => Move("new", "record"))
          /\ (r = "forget" => Gone({"new", "record"}))
      BY <1>3 DEF Call, Perform
    <2> QED BY <1>3, <2>1, <2>2
  <1>4. CASE todo = <<<<"sync_dir", "data">>>>
    <2>1. todo' = <<>>
      BY <1>4 DEF Call
    <2>2. SyncDir("data")
      BY <1>4 DEF Call, Perform
    <2> QED BY <1>4, <2>1, <2>2 DEF Replaced
  <1>5. todo # <<>>
    BY DEF Call
  <1> QED BY <1>1, <1>2, <1>3, <1>4, <1>5 DEF Unsaved, Replaced

\* The call that syncs the directory of the machines.
LEMMA SyncEffect ==
    ASSUME IInv, Call, phase \in {"sync_cleared", "sync_removed", "sync_undone"}
    PROVE  SyncDir("machines") /\ todo' = <<>>
  <1>1. todo = SyncMachines
    BY DEF Call, IInv, PhaseOK
  <1> QED BY <1>1 DEF Call, Perform, SyncMachines


\* An init begins with nothing there, and its calls make everything.
LEMMA BeginInitHolds == ASSUME IInv, BeginInit PROVE IInv'
  <1>1. StorageTyped'
    BY DEF IInv, StorageTyped, BeginInit, storage
  <1>2. ProcessTyped'
    BY DEF IInv, ProcessTyped, BeginInit, Begin
  <1>3. CountersTyped'
    BY DEF IInv, CountersTyped, BeginInit, Begin
  <1>4. PhaseOK'
    BY TreeCalls DEF BeginInit, Begin, Enter, PhaseOK, Removes
  <1>5. CommandOK'
    BY DEF CommandOK, Clearing, Undoing, Removing, BeginInit, Begin, Enter
  <1>6. MakingOK'
    <2>1. /\ phase' = "tree" /\ todo' = CreateTree /\ names' = {} /\ unsynced' = {}
          /\ Len(CreateTree) = 18
      BY TreeCalls DEF BeginInit, Begin, Enter, storage, IInv, StorageTyped
    <2>2. ASSUME NEW n \in Base, NEW i \in 1 .. 18, NEW j \in 1 .. 18, i < j,
                 CreateTree[j] = <<"sync_dir", Parent[n]>>,
                 CreateTree[i] \in {<<"mkdir", n>>, <<"make", n>>}
          PROVE  Lasting(n)'
      <3>1. Created(n, i)' /\ i \in 1 .. j - 1
        BY <2>1, <2>2 DEF Created
      <3> QED BY <2>1, <2>2, <3>1 DEF Lasting
    <2>3. \A n \in Base : Lasting(n)'
      <3>1. Lasting("root")'
        <4>1. /\ CreateTree[18] = <<"sync_dir", Parent["root"]>> /\ "root" \in Base
              /\ CreateTree[1] \in {<<"mkdir", "root">>, <<"make", "root">>}
          BY TreeCalls, Parents, Names
        <4> QED BY <2>2, <4>1
      <3>2. Lasting("environment")'
        <4>1. /\ CreateTree[7] = <<"sync_dir", Parent["environment"]>>
              /\ "environment" \in Base
              /\ CreateTree[2] \in {<<"mkdir", "environment">>, <<"make", "environment">>}
          BY TreeCalls, Parents, Names
        <4> QED BY <2>2, <4>1
      <3>3. Lasting("workspace")'
        <4>1. /\ CreateTree[7] = <<"sync_dir", Parent["workspace"]>>
              /\ "workspace" \in Base
              /\ CreateTree[3] \in {<<"mkdir", "workspace">>, <<"make", "workspace">>}
          BY TreeCalls, Parents, Names
        <4> QED BY <2>2, <4>1
      <3>4. Lasting("session")'
        <4>1. /\ CreateTree[7] = <<"sync_dir", Parent["session"]>> /\ "session" \in Base
              /\ CreateTree[4] \in {<<"mkdir", "session">>, <<"make", "session">>}
          BY TreeCalls, Parents, Names
        <4> QED BY <2>2, <4>1
      <3>5. Lasting("owner")'
        <4>1. /\ CreateTree[7] = <<"sync_dir", Parent["owner"]>> /\ "owner" \in Base
              /\ CreateTree[5] \in {<<"mkdir", "owner">>, <<"make", "owner">>}
          BY TreeCalls, Parents, Names
        <4> QED BY <2>2, <4>1
      <3>6. Lasting("env_marker")'
        <4>1. /\ CreateTree[10] = <<"sync_dir", Parent["env_marker"]>>
              /\ "env_marker" \in Base
              /\ CreateTree[8] \in {<<"mkdir", "env_marker">>, <<"make", "env_marker">>}
          BY TreeCalls, Parents, Names
        <4> QED BY <2>2, <4>1
      <3>7. Lasting("work_marker")'
        <4>1. /\ CreateTree[13] = <<"sync_dir", Parent["work_marker"]>>
              /\ "work_marker" \in Base
              /\ CreateTree[11] \in {<<"mkdir", "work_marker">>, <<"make", "work_marker">>}
          BY TreeCalls, Parents, Names
        <4> QED BY <2>2, <4>1
      <3>8. Lasting("session_marker")'
        <4>1. /\ CreateTree[16] = <<"sync_dir", Parent["session_marker"]>>
              /\ "session_marker" \in Base
              /\ CreateTree[14] \in {<<"mkdir", "session_marker">>,
                                     <<"make", "session_marker">>}
          BY TreeCalls, Parents, Names
        <4> QED BY <2>2, <4>1
      <3> QED BY <3>1, <3>2, <3>3, <3>4, <3>5, <3>6, <3>7, <3>8, Names
    <2>4. ASSUME NEW i \in 1 .. 18, NEW n, CreateTree[i] = <<"make", n>>
          PROVE  \/ n = "owner" /\ i = 5
                 \/ n = "env_marker" /\ i = 8
                 \/ n = "work_marker" /\ i = 11
                 \/ n = "session_marker" /\ i = 14
      <3>1. CASE i \in 1 .. 9
        BY <2>4, <3>1, TreeCalls
      <3>2. CASE i \in 10 .. 18
        BY <2>4, <3>2, TreeCalls
      <3> QED BY <3>1, <3>2
    <2>5. ASSUME NEW n \in Base
          PROVE  FlushedBy(n, Len(todo))'
      <3>1. CASE n \notin {"owner", "env_marker", "work_marker", "session_marker"}
        BY <2>1, <2>4, <3>1 DEF FlushedBy
      <3>2. CASE n = "owner"
        BY <2>1, <2>4, <3>2, TreeCalls DEF FlushedBy
      <3>3. CASE n = "env_marker"
        BY <2>1, <2>4, <3>3, TreeCalls DEF FlushedBy
      <3>4. CASE n = "work_marker"
        BY <2>1, <2>4, <3>4, TreeCalls DEF FlushedBy
      <3>5. CASE n = "session_marker"
        BY <2>1, <2>4, <3>5, TreeCalls DEF FlushedBy
      <3> QED BY <3>1, <3>2, <3>3, <3>4, <3>5
    <2>6. ASSUME NEW i \in 1 .. 18, CreateTree[i] = <<"mkdir", "root">>
          PROVE  i = 1
      BY <2>6, TreeCalls
    <2> QED BY <2>1, <2>3, <2>5, <2>6 DEF MakingOK, Coming
  <1>7. RecordOK'
    BY Names DEF IInv, Safe, RecordOK, BeginInit, storage
  <1>8. SaveOK'
    BY DEF SaveOK, BeginInit, Begin, Enter
  <1>9. NewOK'
    BY DEF NewOK, BeginInit, storage
  <1>10. GoneOK'
    BY DEF GoneOK, BeginInit, Begin, Enter
  <1>11. OneFailureLeavesNothing'
    BY DEF OneFailureLeavesNothing, BeginInit, Begin
  <1>12. EndOK'
    BY DEF EndOK, BeginInit, Begin
  <1> QED
    BY <1>1, <1>2, <1>3, <1>4, <1>5, <1>6, <1>7, <1>8, <1>9, <1>10, <1>11, <1>12 DEF IInv

\* A removal dooms the machine.
LEMMA BeginRemoveHolds == ASSUME IInv, BeginRemove PROVE IInv'
  <1>1. StorageTyped'
    BY DEF IInv, StorageTyped, BeginRemove, storage
  <1>2. ProcessTyped'
    BY DEF IInv, ProcessTyped, BeginRemove, Begin, End
  <1>3. CountersTyped'
    BY DEF IInv, CountersTyped, BeginRemove, Begin
  <1>4. PhaseOK'
    BY DEF PhaseOK, Removes, BeginRemove, Begin, End, Enter
  <1>5. CommandOK'
    BY DEF CommandOK, Making, Clearing, Undoing, Removing, BeginRemove, Begin, End,
       Enter
  <1>6. MakingOK'
    BY DEF MakingOK, BeginRemove, Begin, End, Enter
  <1>7. RecordOK'
    BY DEF IInv, Clearing, Safe, RecordOK, BeginRemove, Begin, End, storage, Enter
  <1>8. SaveOK'
    BY DEF SaveOK, BeginRemove, Begin, End, Enter
  <1>9. NewOK'
    BY DEF IInv, NewOK, BeginRemove, Idle, storage
  <1>10. GoneOK'
    BY DEF GoneOK, BeginRemove, Begin, End, Enter
  <1>11. OneFailureLeavesNothing'
    BY DEF OneFailureLeavesNothing, BeginRemove, Begin
  <1>12. EndOK'
    BY DEF EndOK, BeginRemove, Begin, End
  <1> QED
    BY <1>1, <1>2, <1>3, <1>4, <1>5, <1>6, <1>7, <1>8, <1>9, <1>10, <1>11, <1>12 DEF IInv

\* A call of MachinePaths::create.
LEMMA TreeCallHolds == ASSUME IInv, Call, phase = "tree" PROVE IInv'
  <1>1. StorageTyped'
    BY TreeEffect, Names DEF IInv, StorageTyped, Call
  <1>2. ProcessTyped'
    BY DEF IInv, ProcessTyped, Call, history
  <1>3. CountersTyped'
    BY DEF IInv, CountersTyped, Call, history
  <1>4. PhaseOK'
    BY DEF IInv, PhaseOK, Call
  <1>5. CommandOK'
    BY DEF IInv, CommandOK, Call, history
  <1>6. MakingOK'
    <2>1. /\ todo \in Seq(TreeCall) /\ todo # <<>> /\ todo' = Tail(todo)
          /\ phase' = "tree"
          /\ \A n \in Base : Coming(n)
          /\ \A i \in 1 .. Len(todo) : todo[i] = <<"mkdir", "root">> => i = 1
      BY TreeEffect DEF Call, IInv, MakingOK
    <2>2. /\ Len(todo) \in Nat /\ Len(todo) >= 1 /\ Len(todo') = Len(todo) - 1
          /\ \A i \in 1 .. Len(todo) - 1 : todo'[i] = todo[i + 1]
      BY <2>1, Shift
    <2>3. ASSUME NEW n \in Base
          PROVE  Coming(n)'
      <3>1. Lasting(n) /\ FlushedBy(n, Len(todo))
        BY <2>1 DEF Coming
      <3>2. Lasting(n)'
        BY <2>1, <3>1, TreeEffect, LastingStep
      <3>4. PICK k \in 1 .. Len(todo) : k = Len(todo)
        BY <2>2
      <3>5. FlushedBy(n, k - 1)'
        BY <2>1, <3>1, <3>4, TreeEffect, FlushedStep
      <3>6. Len(todo') = k - 1
        BY <2>2, <3>4
      <3> QED BY <3>2, <3>5, <3>6 DEF Coming
    <2>4. names' \subseteq Base
      BY TreeEffect DEF IInv, MakingOK
    <2>5. \A i \in 1 .. Len(todo') : todo'[i] # <<"mkdir", "root">>
      BY <2>1, <2>2
    <2> QED BY <2>1, <2>3, <2>4, <2>5 DEF MakingOK
  <1>7. RecordOK'
    <2>1. phase' = "tree" /\ UNCHANGED <<torn, doomed>>
      BY DEF Call, history
    <2>2. ~doomed /\ torn = {} /\ names' \subseteq Base /\ "record" \notin durable'
          /\ "record" \notin unsynced'
      BY TreeEffect, Names DEF IInv, CommandOK, Making, RecordOK, MakingOK
    <2> QED BY <2>1, <2>2, Names DEF RecordOK
  <1>8. SaveOK'
    BY DEF SaveOK, Call
  <1>9. NewOK'
    BY Names DEF IInv, PhaseOK, TreeCall, NewOK, Call, Perform, history, Make, MakeDir,
       Sync, SyncDir
  <1>10. GoneOK'
    BY DEF GoneOK, Call
  <1>11. OneFailureLeavesNothing'
    BY DEF IInv, CommandOK, OneFailureLeavesNothing, Call
  <1>12. EndOK'
    BY DEF IInv, CommandOK, EndOK, Call
  <1> QED
    BY <1>1, <1>2, <1>3, <1>4, <1>5, <1>6, <1>7, <1>8, <1>9, <1>10, <1>11, <1>12 DEF IInv

\* A call of Storage::create.
LEMMA DisksCallHolds == ASSUME IInv, Call, phase = "disks" PROVE IInv'
  <1>1. StorageTyped'
    BY DiskEffect, Names DEF IInv, StorageTyped, Call, Temps, Disks
  <1>2. ProcessTyped'
    BY DEF IInv, ProcessTyped, Call, history
  <1>3. CountersTyped'
    BY DEF IInv, CountersTyped, Call, history
  <1>4. PhaseOK'
    BY DEF IInv, PhaseOK, Call
  <1>5. CommandOK'
    BY DEF IInv, CommandOK, Call, history
  <1>6. MakingOK'
    <2>1. /\ todo \in Seq(DiskCall) /\ todo # <<>> /\ todo' = Tail(todo)
          /\ phase' = "disks"
          /\ \A n \in Base : Safe(n)
          /\ \A n \in Disks : Coming(n)
          /\ LinksFlushed
      BY DiskEffect DEF Call, IInv, MakingOK
    <2>2. /\ Len(todo) \in Nat /\ Len(todo) >= 1 /\ Len(todo') = Len(todo) - 1
          /\ \A i \in 1 .. Len(todo) - 1 : todo'[i] = todo[i + 1]
      BY <2>1, Shift
    <2>3. \A n \in Base : Safe(n)'
      BY <2>1, DiskEffect, Names DEF Safe, Call, Temps
    <2>4. ASSUME NEW n \in Disks
          PROVE  Coming(n)'
      <3>1. Lasting(n) /\ FlushedBy(n, Len(todo)) /\ n \notin Temps
        BY <2>1 DEF Coming, Temps, Disks
      <3>2. Lasting(n)'
        BY <2>1, <3>1, DiskEffect, LastingStep
      <3>3. todo[1] # <<"sync", n>>
        BY <2>1, <3>1, Shift DEF DiskCall
      <3>5. PICK k \in 1 .. Len(todo) : k = Len(todo)
        BY <2>2
      <3>6. FlushedBy(n, k - 1)'
        BY <2>1, <3>1, <3>3, <3>5, DiskEffect, FlushedStep
      <3>7. Len(todo') = k - 1
        BY <2>2, <3>5
      <3> QED BY <3>2, <3>6, <3>7 DEF Coming
    <2>5. ASSUME NEW i \in 1 .. Len(todo'), NEW a \in Temps, NEW b \in Disks,
                 todo'[i] = <<"link", a, b>>
          PROVE  FlushedBy(a, i - 1)'
      <3>1. /\ i \in 1 .. Len(todo) /\ todo[i + 1] = <<"link", a, b>>
            /\ i + 1 \in 1 .. Len(todo)
        BY <2>2, <2>5
      <3>2. FlushedBy(a, (i + 1) - 1)
        BY <2>1, <3>1 DEF LinksFlushed
      <3>3. FlushedBy(a, i)
        BY <3>1, <3>2
      <3> QED BY <2>1, <3>1, <3>3, DiskEffect, FlushedStep
    <2>6. LinksFlushed'
      BY <2>5 DEF LinksFlushed
    <2> QED BY <2>1, <2>3, <2>4, <2>6 DEF MakingOK
  <1>7. RecordOK'
    <2>1. phase' = "disks" /\ UNCHANGED <<torn, doomed>>
      BY DEF Call, history
    <2>2. /\ ~doomed /\ torn = {} /\ names \subseteq Tree /\ "record" \notin durable
          /\ "record" \notin Tree /\ Temps \subseteq Tree /\ Disks \subseteq Tree
      BY Names DEF IInv, CommandOK, Making, RecordOK, Temps, Disks
    <2>3. names' \subseteq Tree /\ "record" \notin names' \cup durable' \cup unsynced'
      BY <2>2, DiskEffect
    <2> QED BY <2>1, <2>2, <2>3 DEF RecordOK
  <1>8. SaveOK'
    BY DEF SaveOK, Call
  <1>9. NewOK'
    BY DEF IInv, PhaseOK, DiskCall, Temps, Disks, NewOK, Call, Perform, history,
       Make, Sync, SyncDir, Link, Gone
  <1>10. GoneOK'
    BY DEF GoneOK, Call
  <1>11. OneFailureLeavesNothing'
    BY DEF IInv, CommandOK, OneFailureLeavesNothing, Call
  <1>12. EndOK'
    BY DEF IInv, CommandOK, EndOK, Call
  <1> QED
    BY <1>1, <1>2, <1>3, <1>4, <1>5, <1>6, <1>7, <1>8, <1>9, <1>10, <1>11, <1>12 DEF IInv

\* A call that takes a disk away.
LEMMA CleanUpCallHolds == ASSUME IInv, Call, phase = "unmake" PROVE IInv'
  <1>1. StorageTyped'
    BY UnmakeEffect DEF IInv, StorageTyped, Call
  <1>2. ProcessTyped'
    BY DEF IInv, ProcessTyped, Call, history
  <1>3. CountersTyped'
    BY DEF IInv, CountersTyped, Call, history
  <1>4. PhaseOK'
    BY DEF IInv, PhaseOK, Call
  <1>5. CommandOK'
    BY DEF IInv, CommandOK, Call, history
  <1>6. MakingOK'
    BY DEF MakingOK, Call
  <1>7. RecordOK'
    <2>1. phase' = "unmake" /\ UNCHANGED <<torn, doomed>>
      BY DEF Call, history
    <2>2. ~doomed /\ torn = {} /\ names' \subseteq Tree /\ "record" \notin durable'
          /\ "record" \notin unsynced'
      BY UnmakeEffect DEF IInv, CommandOK, Clearing, RecordOK
    <2>3. "record" \notin names'
      BY <2>2, Names DEF Temps, Disks
    <2> QED BY <2>1, <2>2, <2>3 DEF RecordOK
  <1>8. SaveOK'
    BY DEF SaveOK, Call
  <1>9. NewOK'
    BY DEF IInv, PhaseOK, UnmakeCall, NewOK, Call, Perform, history, Gone
  <1>10. GoneOK'
    BY DEF GoneOK, Call
  <1>11. OneFailureLeavesNothing'
    BY DEF IInv, CommandOK, OneFailureLeavesNothing, Call
  <1>12. EndOK'
    BY DEF IInv, CommandOK, EndOK, Call
  <1> QED
    BY <1>1, <1>2, <1>3, <1>4, <1>5, <1>6, <1>7, <1>8, <1>9, <1>10, <1>11, <1>12 DEF IInv

\* A call of a save that records the machine.
LEMMA SaveCallHolds == ASSUME IInv, Call, phase \in {"save", "keep"} PROVE IInv'
  <1>1. StorageTyped'
    <2>1. todo \in Unsaved("rename") \cup Replaced
      BY DEF IInv, PhaseOK
    <2> QED BY <2>1, SaveEffect, Names DEF IInv, StorageTyped, Make, Sync, SyncDir, Move,
               Call
  <1>2. ProcessTyped'
    BY DEF IInv, ProcessTyped, Call, history
  <1>3. CountersTyped'
    BY DEF IInv, CountersTyped, Call, history
  <1>4. PhaseOK'
    <2>1. todo \in Unsaved("rename") \cup Replaced /\ phase' = phase
      BY DEF IInv, PhaseOK, Call
    <2>2. todo' \in Unsaved("rename") \cup Replaced
      BY <2>1, SaveEffect DEF Replaced
    <2> QED BY <2>1, <2>2 DEF PhaseOK, Removes
  <1>5. CommandOK'
    BY DEF IInv, CommandOK, Call, history
  <1>6. MakingOK'
    <2>1. todo \in Unsaved("rename") \cup Replaced /\ phase' = phase /\ torn' = torn
      BY DEF IInv, PhaseOK, Call
    <2>2. ASSUME NEW n \in Needed, Safe(n)
          PROVE  Safe(n)'
      <3>1. /\ n \in names \cap durable /\ n \notin unsynced \cup torn
            /\ n \notin {"new", "record"}
        BY <2>2, Names DEF Safe, Disks
      <3>2. CASE Make("new")
        BY <2>1, <3>1, <3>2 DEF Safe, Make
      <3>3. CASE Sync("new")
        BY <2>1, <3>1, <3>3 DEF Safe, Sync
      <3>4. CASE Move("new", "record")
        BY <2>1, <3>1, <3>4 DEF Safe, Move
      <3>5. CASE SyncDir("data")
        BY <2>1, <3>1, <3>5 DEF Safe, SyncDir
      <3> QED BY <2>1, <3>2, <3>3, <3>4, <3>5, SaveEffect
    <2> QED BY <2>1, <2>2 DEF IInv, MakingOK
  <1>7. RecordOK'
    <2>1. /\ todo \in Unsaved("rename") \cup Replaced /\ UNCHANGED <<phase, torn, doomed>>
          /\ MakingOK' /\ RecordOK /\ (phase = "save" \/ doomed)
      BY <1>6 DEF IInv, PhaseOK, CommandOK, Call, history
    <2>2. "record" \notin unsynced'
      <3>1. CASE Make("new")
        BY <2>1, <3>1 DEF RecordOK, Make
      <3>2. CASE Sync("new")
        BY <2>1, <3>2 DEF RecordOK, Sync
      <3>3. CASE /\ Move("new", "record")
                 /\ todo = <<<<"rename", "new", "record">>, <<"sync_dir", "data">>>>
        <4>1. "new" \notin unsynced
          BY <3>3 DEF IInv, SaveOK
        <4> QED BY <2>1, <3>3, <4>1 DEF RecordOK, Move
      <3>4. CASE SyncDir("data")
        BY <2>1, <3>4 DEF RecordOK, SyncDir
      <3> QED BY <2>1, <3>1, <3>2, <3>3, <3>4, SaveEffect
    <2>3. ~doomed => torn = {}
      BY <2>1 DEF RecordOK
    <2>4. ~doomed => \A n \in Needed : Safe(n)'
      BY <2>1 DEF MakingOK
    <2> QED BY <2>1, <2>2, <2>3, <2>4 DEF RecordOK, Clearing
  <1>8. SaveOK'
    <2>1. todo \in Unsaved("rename") \cup Replaced /\ phase' = phase
      BY DEF IInv, PhaseOK, Call
    <2>2. CASE Make("new") /\ todo' \in Unsaved("rename")
               /\ todo' # <<<<"rename", "new", "record">>, <<"sync_dir", "data">>>>
      BY <2>1, <2>2 DEF SaveOK, Unsaved, Replaced
    <2>3. CASE Sync("new") /\ todo' \in Unsaved("rename")
      <3>1. "new" \notin unsynced' /\ todo' \notin Replaced
        BY <2>3 DEF Sync, Unsaved, Replaced
      <3> QED BY <2>1, <3>1 DEF SaveOK, Replaced
    <2>4. CASE Move("new", "record") /\ todo' = <<<<"sync_dir", "data">>>>
      <3>1. "record" \in names' /\ "new" \notin names' /\ todo' # <<>>
            /\ todo' # <<<<"rename", "new", "record">>, <<"sync_dir", "data">>>>
        BY <2>4 DEF Move
      <3> QED BY <2>1, <3>1 DEF SaveOK
    <2>5. CASE SyncDir("data") /\ todo \in Replaced /\ todo' = <<>>
      <3>1. "record" \in names' /\ "new" \notin names' /\ "record" \in durable'
        BY <2>5, Names, Parents DEF IInv, SaveOK, SyncDir, In
      <3> QED BY <2>1, <2>5, <3>1 DEF SaveOK
    <2> QED BY <2>1, <2>2, <2>3, <2>4, <2>5, SaveEffect
  <1>9. NewOK'
    BY DEF NewOK, Call
  <1>10. GoneOK'
    BY DEF GoneOK, Call
  <1>11. OneFailureLeavesNothing'
    BY DEF IInv, CommandOK, OneFailureLeavesNothing, Call
  <1>12. EndOK'
    BY DEF IInv, CommandOK, EndOK, Call
  <1> QED
    BY <1>1, <1>2, <1>3, <1>4, <1>5, <1>6, <1>7, <1>8, <1>9, <1>10, <1>11, <1>12 DEF IInv

\* A call of a save that no longer records it.
LEMMA ForgetCallHolds ==
    ASSUME IInv, Call, phase \in {"undo_save", "rm_save"} PROVE IInv'
  <1>1. StorageTyped'
    <2>1. todo \in Unsaved("forget") \cup Replaced
      BY DEF IInv, PhaseOK
    <2> QED BY <2>1, SaveEffect, Names DEF IInv, StorageTyped, Make, Sync, SyncDir, Gone,
               Call
  <1>2. ProcessTyped'
    BY DEF IInv, ProcessTyped, Call, history
  <1>3. CountersTyped'
    BY DEF IInv, CountersTyped, Call, history
  <1>4. PhaseOK'
    <2>1. todo \in Unsaved("forget") \cup Replaced /\ phase' = phase
      BY DEF IInv, PhaseOK, Call
    <2>2. todo' \in Unsaved("forget") \cup Replaced
      BY <2>1, SaveEffect DEF Replaced
    <2> QED BY <2>1, <2>2 DEF PhaseOK, Removes
  <1>5. CommandOK'
    BY DEF IInv, CommandOK, Call, history
  <1>6. MakingOK'
    BY DEF MakingOK, Call
  <1>7. RecordOK'
    BY DEF IInv, PhaseOK, Unsaved, Replaced, CommandOK, Undoing, Removing, RecordOK,
       Call, Perform, history, Make, Sync, SyncDir, Gone
  <1>8. SaveOK'
    <2>1. todo \in Unsaved("forget") \cup Replaced /\ phase' = phase
      BY DEF IInv, PhaseOK, Call
    <2>2. CASE todo' \in Unsaved("forget")
      BY <2>1, <2>2 DEF SaveOK, Unsaved, Replaced
    <2>3. CASE Gone({"new", "record"}) /\ todo' = <<<<"sync_dir", "data">>>>
      <3>1. names' \cap {"new", "record"} = {} /\ todo' # <<>>
        BY <2>3 DEF Gone
      <3> QED BY <2>1, <3>1 DEF SaveOK
    <2>4. CASE SyncDir("data") /\ todo \in Replaced /\ todo' = <<>>
      <3>1. names \cap {"new", "record"} = {}
        BY <2>4 DEF IInv, SaveOK
      <3>2. "new" \in In("data") /\ "record" \in In("data")
        BY Names, Parents DEF In
      <3>3. names' \cap {"new", "record"} = {} /\ durable' \cap {"new", "record"} = {}
        BY <2>4, <3>1, <3>2 DEF SyncDir
      <3> QED BY <2>1, <2>4, <3>3 DEF SaveOK
    <2> QED BY <2>1, <2>2, <2>3, <2>4, SaveEffect
  <1>9. NewOK'
    BY DEF NewOK, Call
  <1>10. GoneOK'
    BY BoundAssumption, Names DEF IInv, PhaseOK, Unsaved, Replaced, Temps, Disks, GoneOK,
       Call, Perform, Make, Sync, SyncDir, Gone
  <1>11. OneFailureLeavesNothing'
    BY DEF IInv, CommandOK, OneFailureLeavesNothing, Call
  <1>12. EndOK'
    BY DEF IInv, CommandOK, EndOK, Call
  <1> QED
    BY <1>1, <1>2, <1>3, <1>4, <1>5, <1>6, <1>7, <1>8, <1>9, <1>10, <1>11, <1>12 DEF IInv

\* The call that syncs the directory of the machines.
LEMMA SyncMachinesCallHolds ==
    ASSUME IInv, Call, phase \in {"sync_cleared", "sync_removed", "sync_undone"} PROVE IInv'
  <1>1. StorageTyped'
    BY SyncEffect DEF IInv, StorageTyped, SyncDir, Call
  <1>2. ProcessTyped'
    BY DEF IInv, ProcessTyped, Call, history
  <1>3. CountersTyped'
    BY DEF IInv, CountersTyped, Call, history
  <1>4. PhaseOK'
    BY SyncEffect DEF PhaseOK, Call
  <1>5. CommandOK'
    BY DEF IInv, CommandOK, Call, history
  <1>6. MakingOK'
    BY DEF MakingOK, Call
  <1>7. RecordOK'
    <2>1. /\ phase' = phase /\ UNCHANGED <<torn, doomed, names, unsynced>> /\ RecordOK
          /\ names \cap durable \subseteq durable'
          /\ durable' \subseteq durable \cup names
      BY SyncEffect DEF IInv, SyncDir, Call, history
    <2>2. "record" \in names \cup durable /\ ~doomed => \A n \in Needed : Safe(n)'
      BY <2>1 DEF RecordOK, Safe
    <2>3. phase \in Clearing => "record" \notin names \cup durable
      BY <2>1, Names DEF RecordOK, Temps, Disks
    <2> QED BY <2>1, <2>2, <2>3 DEF RecordOK
  <1>8. SaveOK'
    BY DEF SaveOK, Call
  <1>9. NewOK'
    BY DEF IInv, PhaseOK, SyncMachines, NewOK, Call, Perform, history, SyncDir
  <1>10. GoneOK'
    <2>1. "root" \in In("machines")
      BY Names, Parents DEF In
    <2>2. names \cap Tree = {} /\ "root" \in Tree
      BY Names DEF IInv, GoneOK
    <2>3. "root" \notin durable' /\ names' = names
      BY <2>1, <2>2, SyncEffect DEF SyncDir
    <2> QED BY <2>3, SyncEffect DEF IInv, GoneOK, Call, history
  <1>11. OneFailureLeavesNothing'
    BY DEF IInv, CommandOK, OneFailureLeavesNothing, Call
  <1>12. EndOK'
    BY DEF IInv, CommandOK, EndOK, Call
  <1> QED
    BY <1>1, <1>2, <1>3, <1>4, <1>5, <1>6, <1>7, <1>8, <1>9, <1>10, <1>11, <1>12 DEF IInv

\* A phase ends, and the next begins with what it needs.
LEMMA Next1Holds == ASSUME IInv, Next1 PROVE IInv'
  <1>1. StorageTyped'
    BY DEF IInv, StorageTyped, Next1, storage
  <1>2. ProcessTyped'
    BY DEF IInv, ProcessTyped, Next1, End, history
  <1>3. CountersTyped'
    BY DEF IInv, CountersTyped, Next1, history
  <1>4. PhaseOK'
    BY DiskCalls DEF PhaseOK, Removes, Unsaved, Next1, Enter, Save, End
  <1>5. CommandOK'
    BY DEF IInv, CommandOK, Making, Clearing, Undoing, Removing, Next1, Enter, End,
       history
  <1>6. MakingOK'
    <2>1. ASSUME NEW n \in Needed, Coming(n), todo = <<>>, n \notin torn
          PROVE  Safe(n)
      <3>1. Len(todo) = 0
        BY <2>1
      <3> QED BY <2>1, <3>1 DEF Coming, Lasting, FlushedBy, Safe
    <2>2. UNCHANGED storage /\ todo = <<>>
      BY DEF Next1
    <2>3. CASE phase = "tree" /\ phase' = "disks" /\ todo' = CreateDisks
      <3>1. ~doomed /\ torn = {} /\ names \subseteq Base /\ \A n \in Base : Coming(n)
        BY <2>3 DEF IInv, CommandOK, Making, RecordOK, MakingOK
      <3>2. \A n \in Base : Safe(n)'
        BY <2>1, <2>2, <3>1, Names DEF Safe, storage
      <3>3. /\ Len(CreateDisks) = 10
            /\ \A i \in 1 .. 10, n \in Temps \cup Disks : CreateDisks[i] = <<"make", n>> =>
                  (i = 1 /\ n = "env_temp") \/ (i = 6 /\ n = "work_temp")
        BY DiskCalls
      <3>4. ASSUME NEW n \in Disks
            PROVE  Coming(n)'
        <4>1. n \notin unsynced /\ n \notin Temps
          BY <3>1, Names DEF IInv, StorageTyped, Temps, Disks
        <4>2. FlushedBy(n, Len(todo))'
          BY <2>2, <2>3, <3>3, <4>1 DEF FlushedBy, storage, Temps
        <4>3. CASE n = "env_disk"
          <5>1. /\ CreateDisks[5] = <<"sync_dir", Parent[n]>>
                /\ CreateDisks[3] = <<"link", "env_temp", n>>
            BY <4>3, DiskCalls, Parents
          <5>2. Created(n, 3)' /\ 3 \in 1 .. 5 - 1 /\ 5 \in 1 .. Len(todo')
            BY <2>3, <3>3, <5>1 DEF Created, Temps
          <5>3. Lasting(n)'
            BY <2>3, <5>1, <5>2 DEF Lasting
          <5> QED BY <4>2, <5>3 DEF Coming
        <4>4. CASE n = "work_disk"
          <5>1. /\ CreateDisks[10] = <<"sync_dir", Parent[n]>>
                /\ CreateDisks[8] = <<"link", "work_temp", n>>
            BY <4>4, DiskCalls, Parents
          <5>2. Created(n, 8)' /\ 8 \in 1 .. 10 - 1 /\ 10 \in 1 .. Len(todo')
            BY <2>3, <3>3, <5>1 DEF Created, Temps
          <5>3. Lasting(n)'
            BY <2>3, <5>1, <5>2 DEF Lasting
          <5> QED BY <4>2, <5>3 DEF Coming
        <4> QED BY <4>3, <4>4 DEF Disks
      <3>5. ASSUME NEW i \in 1 .. 10, NEW a \in Temps, NEW b \in Disks,
                   CreateDisks[i] = <<"link", a, b>>
            PROVE  FlushedBy(a, i - 1)'
        <4>1. (i = 3 /\ a = "env_temp") \/ (i = 8 /\ a = "work_temp")
          BY <3>5, DiskCalls
        <4>2. CASE i = 3 /\ a = "env_temp"
          BY <2>3, <3>3, <4>2, DiskCalls DEF FlushedBy
        <4>3. CASE i = 8 /\ a = "work_temp"
          BY <2>3, <3>3, <4>3, DiskCalls DEF FlushedBy
        <4> QED BY <4>1, <4>2, <4>3
      <3>6. LinksFlushed'
        BY <2>3, <3>3, <3>5 DEF LinksFlushed
      <3> QED BY <2>3, <3>2, <3>4, <3>6 DEF MakingOK
    <2>4. CASE phase = "disks" /\ phase' = "save"
      <3>1. ~doomed /\ torn = {} /\ (\A n \in Base : Safe(n)) /\ \A n \in Disks : Coming(n)
        BY <2>4 DEF IInv, CommandOK, Making, RecordOK, MakingOK
      <3>2. \A n \in Needed : Safe(n)
        BY <2>1, <2>2, <3>1, Names
      <3> QED BY <2>2, <2>4, <3>2 DEF MakingOK, Safe, storage
    <2>5. CASE phase' \notin Making
      BY <2>5 DEF MakingOK, Making
    <2> QED BY <2>3, <2>4, <2>5 DEF Next1, Enter, End, Making
  <1>7. RecordOK'
    BY DEF IInv, Clearing, Safe, RecordOK, Next1, Enter, End, storage, history
  <1>8. SaveOK'
    BY DEF Replaced, SaveOK, Next1, Enter, Save, End
  <1>9. NewOK'
    BY DEF IInv, PhaseOK, Unsaved, SaveOK, NewOK, Next1, storage, history
  <1>10. GoneOK'
    BY DEF IInv, GoneOK, Next1, Enter, End, storage
  <1>11. OneFailureLeavesNothing'
    BY Names DEF IInv, StorageTyped, PhaseOK, Unsaved, Temps, Disks, CommandOK, Clearing,
       RecordOK, SaveOK, GoneOK, OneFailureLeavesNothing, Next1, End, storage, history
  <1>12. EndOK'
    BY Names DEF IInv, PhaseOK, Unsaved, Temps, Disks, CommandOK, Removing, SaveOK,
       GoneOK, StorageTyped, EndOK, Next1, End, storage, history
  <1> QED
    BY <1>1, <1>2, <1>3, <1>4, <1>5, <1>6, <1>7, <1>8, <1>9, <1>10, <1>11, <1>12 DEF IInv

\* An entry is removed.
LEMMA RemoveEntryHolds == ASSUME IInv, RemoveEntry PROVE IInv'
  <1>1. StorageTyped'
    BY DEF IInv, StorageTyped, RemoveEntry, Gone
  <1>2. ProcessTyped'
    BY DEF IInv, ProcessTyped, RemoveEntry, process, history
  <1>3. CountersTyped'
    BY DEF IInv, CountersTyped, RemoveEntry, history
  <1>4. PhaseOK'
    BY DEF IInv, PhaseOK, RemoveEntry, process
  <1>5. CommandOK'
    BY DEF IInv, CommandOK, RemoveEntry, process, history
  <1>6. MakingOK'
    BY DEF MakingOK, RemoveEntry, Removes, process
  <1>7. RecordOK'
    BY Names DEF IInv, Removes, Temps, Disks, CommandOK, Clearing, Undoing, Removing,
       RecordOK, RemoveEntry, Gone, process, history
  <1>8. SaveOK'
    BY DEF Removes, SaveOK, RemoveEntry, process
  <1>9. NewOK'
    BY DEF IInv, NewOK, RemoveEntry, Gone, process, history
  <1>10. GoneOK'
    BY DEF IInv, GoneOK, RemoveEntry, Gone, process, history
  <1>11. OneFailureLeavesNothing'
    BY DEF IInv, OneFailureLeavesNothing, RemoveEntry, Leaf, process, history
  <1>12. EndOK'
    BY Names DEF IInv, Temps, Disks, EndOK, RemoveEntry, Gone, process, history
  <1> QED
    BY <1>1, <1>2, <1>3, <1>4, <1>5, <1>6, <1>7, <1>8, <1>9, <1>10, <1>11, <1>12 DEF IInv

\* The directory is removed.
LEMMA TreeRemovedHolds == ASSUME IInv, TreeRemoved PROVE IInv'
  <1>1. StorageTyped'
    BY DEF IInv, StorageTyped, TreeRemoved, storage
  <1>2. ProcessTyped'
    BY DEF IInv, ProcessTyped, TreeRemoved, End, history
  <1>3. CountersTyped'
    BY DEF IInv, CountersTyped, TreeRemoved, history
  <1>4. PhaseOK'
    BY DEF PhaseOK, Removes, SyncMachines, TreeRemoved, Enter, End
  <1>5. CommandOK'
    BY DEF IInv, CommandOK, Making, Clearing, Undoing, Removing, TreeRemoved, Enter,
       End, history
  <1>6. MakingOK'
    BY DEF MakingOK, TreeRemoved, Enter, End
  <1>7. RecordOK'
    BY DEF IInv, CommandOK, Clearing, Undoing, Removing, RecordOK, TreeRemoved,
       Enter, storage, history
  <1>8. SaveOK'
    BY DEF SaveOK, TreeRemoved, Enter, End
  <1>9. NewOK'
    BY DEF IInv, NewOK, TreeRemoved, storage, history
  <1>10. GoneOK'
    BY DEF IInv, GoneOK, TreeRemoved, Enter, End, storage, history
  <1>11. OneFailureLeavesNothing'
    BY DEF IInv, CommandOK, Clearing, RecordOK, OneFailureLeavesNothing,
       TreeRemoved, storage
  <1>12. EndOK'
    BY DEF IInv, EndOK, TreeRemoved, End, storage, history
  <1> QED
    BY <1>1, <1>2, <1>3, <1>4, <1>5, <1>6, <1>7, <1>8, <1>9, <1>10, <1>11, <1>12 DEF IInv

\* MachinePaths::create fails.
LEMMA TreeFailsHolds == ASSUME IInv, TreeFails PROVE IInv'
  <1>1. StorageTyped'
    BY DEF IInv, StorageTyped, TreeFails, storage
  <1>2. ProcessTyped'
    BY DEF IInv, ProcessTyped, TreeFails, End
  <1>3. CountersTyped'
    BY BoundAssumption DEF IInv, CountersTyped, TreeFails, Fault
  <1>4. PhaseOK'
    BY DEF PhaseOK, Removes, TreeFails, End, Enter
  <1>5. CommandOK'
    BY DEF IInv, CountersTyped, CommandOK, Making, Undoing, Removing, TreeFails,
       Fault, End, Enter
  <1>6. MakingOK'
    BY DEF MakingOK, TreeFails, End, Enter
  <1>7. RecordOK'
    BY Names DEF IInv, Temps, Disks, RecordOK, TreeFails, storage
  <1>8. SaveOK'
    BY DEF SaveOK, TreeFails, End, Enter
  <1>9. NewOK'
    BY DEF IInv, CountersTyped, NewOK, TreeFails, Fault, storage
  <1>10. GoneOK'
    BY DEF GoneOK, TreeFails, End, Enter
  <1>11. OneFailureLeavesNothing'
    <2>1. CASE Head(todo) = <<"mkdir", "root">>
      <3>1. todo[1] = <<"mkdir", "root">> /\ Len(todo) \in Nat /\ Len(todo) >= 1
        BY <2>1, Shift DEF TreeFails
      <3>2. names = {}
        BY <3>1 DEF TreeFails, IInv, MakingOK
      <3> QED BY <3>2 DEF TreeFails, storage, OneFailureLeavesNothing
    <2>2. CASE phase' = "clear_tree" /\ UNCHANGED outcome
      BY <2>2 DEF TreeFails, IInv, CommandOK, OneFailureLeavesNothing
    <2> QED BY <2>1, <2>2 DEF TreeFails, Enter
  <1>12. EndOK'
    BY DEF IInv, EndOK, TreeFails, End, storage
  <1> QED
    BY <1>1, <1>2, <1>3, <1>4, <1>5, <1>6, <1>7, <1>8, <1>9, <1>10, <1>11, <1>12 DEF IInv

\* Storage::create fails.
LEMMA DisksFailHolds == ASSUME IInv, DisksFail PROVE IInv'
  <1>1. StorageTyped'
    BY DEF IInv, StorageTyped, DisksFail, storage
  <1>2. ProcessTyped'
    BY DEF IInv, ProcessTyped, DisksFail
  <1>3. CountersTyped'
    BY BoundAssumption DEF IInv, CountersTyped, DisksFail, Fault
  <1>4. PhaseOK'
    BY DEF PhaseOK, Removes, UnmakeCall, Temps, Disks, DisksFail, Enter, Unmake
  <1>5. CommandOK'
    BY DEF IInv, CountersTyped, CommandOK, Making, Undoing, Removing, DisksFail,
       Fault, Enter
  <1>6. MakingOK'
    BY DEF MakingOK, DisksFail, Enter
  <1>7. RecordOK'
    BY Names DEF IInv, Temps, Disks, RecordOK, DisksFail, storage
  <1>8. SaveOK'
    BY DEF SaveOK, DisksFail, Enter
  <1>9. NewOK'
    BY DEF IInv, CountersTyped, NewOK, DisksFail, Fault, storage
  <1>10. GoneOK'
    BY DEF GoneOK, DisksFail, Enter
  <1>11. OneFailureLeavesNothing'
    BY DEF IInv, CommandOK, OneFailureLeavesNothing, DisksFail
  <1>12. EndOK'
    BY DEF IInv, EndOK, DisksFail, storage
  <1> QED
    BY <1>1, <1>2, <1>3, <1>4, <1>5, <1>6, <1>7, <1>8, <1>9, <1>10, <1>11, <1>12 DEF IInv

\* A disk cannot be taken away.
LEMMA CleanUpFailsHolds == ASSUME IInv, CleanUpFails PROVE IInv'
  <1>1. StorageTyped'
    BY DEF IInv, StorageTyped, CleanUpFails, storage
  <1>2. ProcessTyped'
    BY DEF IInv, ProcessTyped, CleanUpFails
  <1>3. CountersTyped'
    BY BoundAssumption DEF IInv, CountersTyped, CleanUpFails, Fault
  <1>4. PhaseOK'
    BY DEF IInv, PhaseOK, CleanUpFails
  <1>5. CommandOK'
    BY DEF IInv, CountersTyped, CommandOK, CleanUpFails, Fault
  <1>6. MakingOK'
    BY DEF MakingOK, CleanUpFails
  <1>7. RecordOK'
    BY Names DEF IInv, Temps, Disks, Clearing, RecordOK, CleanUpFails, storage
  <1>8. SaveOK'
    BY DEF SaveOK, CleanUpFails
  <1>9. NewOK'
    BY DEF IInv, CountersTyped, NewOK, CleanUpFails, Fault, storage
  <1>10. GoneOK'
    BY DEF GoneOK, CleanUpFails
  <1>11. OneFailureLeavesNothing'
    BY DEF IInv, CommandOK, OneFailureLeavesNothing, CleanUpFails
  <1>12. EndOK'
    BY DEF IInv, EndOK, CleanUpFails, storage
  <1> QED
    BY <1>1, <1>2, <1>3, <1>4, <1>5, <1>6, <1>7, <1>8, <1>9, <1>10, <1>11, <1>12 DEF IInv

\* The record cannot be saved.
LEMMA SaveFailsHolds == ASSUME IInv, SaveFails PROVE IInv'
  <1>1. StorageTyped'
    BY DEF IInv, StorageTyped, SaveFails, DropNew, Gone
  <1>2. ProcessTyped'
    BY DEF IInv, ProcessTyped, SaveFails
  <1>3. CountersTyped'
    BY BoundAssumption DEF IInv, CountersTyped, SaveFails, DropNew, Fault
  <1>4. PhaseOK'
    BY DEF PhaseOK, Removes, SaveFails, Enter
  <1>5. CommandOK'
    BY DEF IInv, CountersTyped, CommandOK, Making, Clearing, Removing, SaveFails,
       DropNew, Enter, Fault
  <1>6. MakingOK'
    BY DEF MakingOK, SaveFails, Enter
  <1>7. RecordOK'
    BY DEF IInv, Clearing, RecordOK, SaveFails, DropNew, Enter, Gone
  <1>8. SaveOK'
    BY DEF SaveOK, SaveFails, Enter
  <1>9. NewOK'
    BY DEF IInv, CountersTyped, NewOK, SaveFails, DropNew, Gone
  <1>10. GoneOK'
    BY DEF IInv, CountersTyped, GoneOK, SaveFails, DropNew, Enter, Gone
  <1>11. OneFailureLeavesNothing'
    BY DEF IInv, CommandOK, OneFailureLeavesNothing, SaveFails
  <1>12. EndOK'
    BY DEF IInv, EndOK, SaveFails, DropNew, Gone
  <1> QED
    BY <1>1, <1>2, <1>3, <1>4, <1>5, <1>6, <1>7, <1>8, <1>9, <1>10, <1>11, <1>12 DEF IInv

\* The directory cannot be removed.
LEMMA RemovalFailsHolds == ASSUME IInv, RemovalFails PROVE IInv'
  <1>1. StorageTyped'
    BY DEF IInv, StorageTyped, RemovalFails, storage
  <1>2. ProcessTyped'
    BY DEF IInv, ProcessTyped, RemovalFails, End
  <1>3. CountersTyped'
    BY BoundAssumption DEF IInv, CountersTyped, RemovalFails, Fault
  <1>4. PhaseOK'
    BY DEF PhaseOK, Removes, Unsaved, RemovalFails, Enter, Save, End
  <1>5. CommandOK'
    BY DEF IInv, CountersTyped, CommandOK, Making, Clearing, Undoing, Removing,
       RemovalFails, Fault, Enter, End
  <1>6. MakingOK'
    BY DEF MakingOK, RemovalFails, Enter, End
  <1>7. RecordOK'
    BY DEF IInv, Clearing, Safe, RecordOK, RemovalFails, Enter, End, storage
  <1>8. SaveOK'
    BY DEF Replaced, SaveOK, RemovalFails, Enter, Save, End
  <1>9. NewOK'
    BY DEF IInv, Removes, CountersTyped, NewOK, RemovalFails, Fault, storage
  <1>10. GoneOK'
    BY DEF GoneOK, RemovalFails, Enter, End
  <1>11. OneFailureLeavesNothing'
    BY DEF IInv, CountersTyped, Removes, CommandOK, Clearing, Removing,
       OneFailureLeavesNothing, RemovalFails, Fault
  <1>12. EndOK'
    BY DEF IInv, EndOK, RemovalFails, End, storage
  <1> QED
    BY <1>1, <1>2, <1>3, <1>4, <1>5, <1>6, <1>7, <1>8, <1>9, <1>10, <1>11, <1>12 DEF IInv

\* The save at the end of a removal fails.
LEMMA LastSaveFailsHolds == ASSUME IInv, LastSaveFails PROVE IInv'
  <1>1. StorageTyped'
    BY DEF IInv, StorageTyped, LastSaveFails, DropNew, Gone
  <1>2. ProcessTyped'
    BY DEF IInv, ProcessTyped, LastSaveFails, End
  <1>3. CountersTyped'
    BY BoundAssumption DEF IInv, CountersTyped, LastSaveFails, DropNew, Fault
  <1>4. PhaseOK'
    BY DEF PhaseOK, LastSaveFails, End, Enter
  <1>5. CommandOK'
    BY DEF CommandOK, Making, Clearing, Undoing, Removing, LastSaveFails, End, Enter
  <1>6. MakingOK'
    BY DEF MakingOK, LastSaveFails, End, Enter
  <1>7. RecordOK'
    BY DEF IInv, CommandOK, Clearing, Undoing, Removing, RecordOK, LastSaveFails,
       DropNew, End, Gone, Enter
  <1>8. SaveOK'
    BY DEF SaveOK, LastSaveFails, End, Enter
  <1>9. NewOK'
    BY DEF IInv, CountersTyped, NewOK, LastSaveFails, DropNew, Gone
  <1>10. GoneOK'
    BY DEF GoneOK, LastSaveFails, End, Enter
  <1>11. OneFailureLeavesNothing'
    BY DEF IInv, CountersTyped, CommandOK, Undoing, Removing,
       OneFailureLeavesNothing, LastSaveFails, DropNew, Fault
  <1>12. EndOK'
    BY DEF EndOK, LastSaveFails, End
  <1> QED
    BY <1>1, <1>2, <1>3, <1>4, <1>5, <1>6, <1>7, <1>8, <1>9, <1>10, <1>11, <1>12 DEF IInv

\* The power fails.
LEMMA PowerLossHolds == ASSUME IInv, PowerLoss PROVE IInv'
  <1>1. StorageTyped'
    BY DEF IInv, StorageTyped, PowerLoss
  <1>2. ProcessTyped'
    BY DEF IInv, ProcessTyped, PowerLoss
  <1>3. CountersTyped'
    BY BoundAssumption DEF IInv, CountersTyped, PowerLoss
  <1>4. PhaseOK'
    BY DEF PhaseOK, PowerLoss, Enter
  <1>5. CommandOK'
    BY DEF CommandOK, Making, Clearing, Undoing, Removing, PowerLoss, Enter
  <1>6. MakingOK'
    BY DEF MakingOK, PowerLoss, Enter
  <1>7. RecordOK'
    <2>1. PICK after \in SUBSET (names \cup durable) :
            /\ names \cap durable \subseteq after
            /\ names' = {n \in after : LET up == Parent[n] IN
                           /\ up \in after \cup {"machines", "data"}
                           /\ up \in {"environment", "workspace", "session"}
                                => "root" \in after}
      BY DEF PowerLoss
    <2>2. /\ durable' = names' /\ unsynced' = {} /\ phase' = "idle" /\ doomed' = doomed
          /\ names' \subseteq names \cup durable /\ torn' \subseteq names'
          /\ torn' \subseteq torn \cup unsynced
      BY <2>1 DEF PowerLoss, Enter
    <2>3. ASSUME "record" \in names', ~doomed, NEW n \in Needed
          PROVE  Safe(n)'
      <3>1. Needed \subseteq names \cap durable /\ n \notin unsynced \cup torn
        BY <2>2, <2>3 DEF IInv, RecordOK, Safe
      <3>2. n \in names'
        <4>1. n \in after /\ Base \subseteq after
          BY <2>1, <3>1, Names
        <4>2. Parent[n] \in Base \cup {"machines", "data"} /\ "root" \in Base
          BY Names, Parents DEF Disks
        <4> QED BY <2>1, <4>1, <4>2
      <3> QED BY <2>2, <3>1, <3>2 DEF Safe
    <2> QED BY <2>2, <2>3 DEF IInv, RecordOK, Clearing
  <1>8. SaveOK'
    BY DEF SaveOK, PowerLoss, Enter
  <1>9. NewOK'
    BY DEF IInv, CountersTyped, NewOK, PowerLoss
  <1>10. GoneOK'
    BY DEF GoneOK, PowerLoss, Enter
  <1>11. OneFailureLeavesNothing'
    BY DEF IInv, CountersTyped, OneFailureLeavesNothing, PowerLoss
  <1>12. EndOK'
    <2>1. PICK after \in SUBSET (names \cup durable) :
            /\ names \cap durable \subseteq after
            /\ names' = {n \in after : LET up == Parent[n] IN
                           /\ up \in after \cup {"machines", "data"}
                           /\ up \in {"environment", "workspace", "session"}
                                => "root" \in after}
      BY DEF PowerLoss
    <2>2. durable' = names' /\ command' = command /\ (outcome' = "ok" => outcome = "ok")
      BY DEF PowerLoss
    <2>3. CASE outcome = "ok" /\ command # "rm"
      <3>1. "record" \in after /\ Parent["record"] = "data"
        BY <2>1, <2>3, Parents DEF IInv, EndOK
      <3> QED BY <2>1, <2>2, <2>3, <3>1 DEF EndOK
    <2>4. CASE outcome = "ok" /\ command = "rm"
      <3>1. /\ after \subseteq Name /\ after \cap {"root", "new", "record"} = {}
        BY <2>1, <2>4 DEF IInv, EndOK, StorageTyped
      <3>2. ASSUME NEW n \in names'
            PROVE  FALSE
        <4>1. /\ n \in after /\ Parent[n] \in after \cup {"machines", "data"}
              /\ Parent[n] \notin {"environment", "workspace", "session", "root"}
          BY <2>1, <3>1, <3>2
        <4>2. n \in Name \ {"root", "new", "record"}
          BY <3>1, <4>1
        <4> QED BY <4>1, <4>2, Names, Parents
      <3> QED BY <2>2, <2>4, <3>2 DEF EndOK
    <2> QED BY <2>2, <2>3, <2>4 DEF EndOK
  <1> QED
    BY <1>1, <1>2, <1>3, <1>4, <1>5, <1>6, <1>7, <1>8, <1>9, <1>10, <1>11, <1>12 DEF IInv

\* A command makes its next call.
LEMMA CallHolds == ASSUME IInv, Call PROVE IInv'
  <1>1. phase \in {"tree", "disks", "unmake", "save", "keep", "undo_save", "rm_save",
                   "sync_cleared", "sync_removed", "sync_undone"}
    BY DEF IInv, PhaseOK, Call
  <1>2. CASE phase = "tree" BY <1>2, TreeCallHolds
  <1>3. CASE phase = "disks" BY <1>3, DisksCallHolds
  <1>4. CASE phase = "unmake" BY <1>4, CleanUpCallHolds
  <1>5. CASE phase \in {"save", "keep"} BY <1>5, SaveCallHolds
  <1>6. CASE phase \in {"undo_save", "rm_save"} BY <1>6, ForgetCallHolds
  <1>7. CASE phase \in {"sync_cleared", "sync_removed", "sync_undone"}
    BY <1>7, SyncMachinesCallHolds
  <1> QED BY <1>1, <1>2, <1>3, <1>4, <1>5, <1>6, <1>7

\* Before the first command there is nothing.
LEMMA InitHolds == Init => IInv
  <1> SUFFICES ASSUME Init PROVE IInv OBVIOUS
  <1>1. StorageTyped /\ ProcessTyped
    BY DEF Init, StorageTyped, ProcessTyped
  <1>2. CountersTyped
    BY BoundAssumption DEF Init, CountersTyped
  <1>3. PhaseOK /\ CommandOK
    BY DEF Init, PhaseOK, CommandOK, Clearing, Undoing, Removing
  <1>4. MakingOK /\ RecordOK
    BY DEF Init, MakingOK, RecordOK
  <1>5. SaveOK /\ NewOK /\ GoneOK
    BY DEF Init, SaveOK, NewOK, GoneOK
  <1>6. OneFailureLeavesNothing /\ EndOK
    BY DEF Init, OneFailureLeavesNothing, EndOK
  <1> QED BY <1>1, <1>2, <1>3, <1>4, <1>5, <1>6 DEF IInv

\* A step that changes nothing.
LEMMA UnchangedHolds == ASSUME IInv, UNCHANGED vars PROVE IInv'
  <1> USE DEF vars, storage, process, history
  <1>1. (StorageTyped /\ ProcessTyped /\ CountersTyped)'
    BY DEF IInv, StorageTyped, ProcessTyped, CountersTyped
  <1>2. (PhaseOK /\ CommandOK)'
    BY DEF IInv, PhaseOK, CommandOK
  <1>3. MakingOK'
    <2>1. \A n \in Name : (Safe(n) => Safe(n)') /\ (Lasting(n) => Lasting(n)')
      BY DEF Safe, Lasting, Created
    <2>2. \A n \in Name : FlushedBy(n, Len(todo)) => FlushedBy(n, Len(todo))'
      BY DEF FlushedBy
    <2>3. \A n \in Name : Coming(n) => Coming(n)'
      BY <2>1, <2>2 DEF Coming
    <2>4. ASSUME LinksFlushed PROVE LinksFlushed'
      <3> SUFFICES ASSUME NEW i \in 1 .. Len(todo), NEW a \in Temps, NEW b \in Disks,
                          todo[i] = <<"link", a, b>>
                   PROVE  FlushedBy(a, i - 1)'
        BY DEF LinksFlushed
      <3>1. FlushedBy(a, i - 1) BY <2>4 DEF LinksFlushed
      <3> QED BY <3>1 DEF FlushedBy
    <2>5. Base \subseteq Name /\ Disks \subseteq Name /\ Needed \subseteq Name
      BY Names DEF Disks
    <2>6. phase = "tree" => MakingOK'
      BY <2>3, <2>5 DEF IInv, MakingOK
    <2>7. phase = "disks" => MakingOK'
      BY <2>1, <2>3, <2>4, <2>5 DEF IInv, MakingOK
    <2>8. phase = "save" => MakingOK'
      BY <2>1, <2>5 DEF IInv, MakingOK
    <2> QED BY <2>6, <2>7, <2>8 DEF MakingOK
  <1>4. RecordOK'
    BY DEF IInv, RecordOK, Safe
  <1>5. (SaveOK /\ NewOK /\ GoneOK)'
    BY DEF IInv, SaveOK, NewOK, GoneOK
  <1>6. (OneFailureLeavesNothing /\ EndOK)'
    BY DEF IInv, OneFailureLeavesNothing, EndOK
  <1> QED BY <1>1, <1>2, <1>3, <1>4, <1>5, <1>6 DEF IInv

\* Every step keeps the invariant.
LEMMA NextHolds == ASSUME IInv, [Next]_vars PROVE IInv'
  <1>1. CASE Works BY <1>1, CallHolds, Next1Holds, RemoveEntryHolds, TreeRemovedHolds
                      DEF Works
  <1>2. CASE Fails
    BY <1>2, TreeFailsHolds, DisksFailHolds, CleanUpFailsHolds, SaveFailsHolds,
       RemovalFailsHolds, LastSaveFailsHolds
       DEF Fails
  <1> QED
    BY <1>1, <1>2, BeginInitHolds, BeginRemoveHolds, PowerLossHolds, UnchangedHolds
       DEF Next

\* What is on the disk, and what the calls still to come do about it, in every
\* reachable state.
THEOREM Invariance == Spec => []IInv
  BY InitHolds, NextHolds, PTL DEF Spec

\* Types; without a power failure a temporary state.json stays only where two
\* calls failed.
THEOREM TypeCorrect == Spec => []TypeOK
  <1>1. IInv => TypeOK
    BY DEF IInv, StorageTyped, ProcessTyped, CountersTyped, NewOK, TypeOK
  <1> QED BY <1>1, Invariance, PTL

\* Whatever fails and whenever the power does: state.json is readable, and a
\* machine that it lists, and that nobody has begun to remove, has its markers
\* and both disks, whole.
THEOREM Recorded == Spec => []RecordedIsWhole
  <1>1. IInv => RecordedIsWhole
    BY DEF IInv, RecordOK, Safe, Readable, RecordedIsWhole
  <1> QED BY <1>1, Invariance, PTL

\* Whenever the power fails: what a command has answered "ok" to stays so.
THEOREM OkDurable == Spec => []OkIsDurable
  <1>1. IInv => OkIsDurable
    BY DEF IInv, EndOK, OkIsDurable
  <1> QED BY <1>1, Invariance, PTL

\* An init in which one call fails, any one, leaves nothing behind.
THEOREM OneFailure == Spec => []OneFailureLeavesNothing
  <1>1. IInv => OneFailureLeavesNothing
    BY DEF IInv
  <1> QED BY <1>1, Invariance, PTL

=============================================================================

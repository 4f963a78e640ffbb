-------------------------- MODULE GuestSessionProofs --------------------------
(***************************************************************************)
(* Theorems about GuestSession, for any number of commands, of requests    *)
(* and of failures in the guest, and any sessions a host may have to offer.*)
(***************************************************************************)
EXTENDS GuestSession, TLAPS

\* The conjuncts of TypeOK.
WorldOK ==
    /\ path \in [File -> Handler \cup {None}] /\ temp \in [File -> Handler \cup {None}]
    /\ filled \subseteq Handler \X File
    /\ proxy \in {"none", "listening", "dead"} /\ enabled \in BOOLEAN
HostOK ==
    /\ power \in BOOLEAN /\ lock \in Opener \cup {None}
    /\ opc \in [Opener -> {"idle", "send", "wait", "open"} \cup Reading]
    /\ config \in [Opener -> [Optional \cup {"ssh-agent"} -> BOOLEAN]]
    /\ request \in [Opener -> Handler \cup {None}]
    /\ booted \in [Opener -> BOOLEAN]
    /\ \A o \in Opener : lock = o <=> opc[o] \in {"send", "wait"}
HandlerSteps == {"unused", "unlink", "create", "fill", "rename", "proxy", "ok", "err",
                 "gone"}
HandlersOK ==
    /\ hpc \in [Handler -> HandlerSteps]
    /\ index \in [Handler -> DOMAIN Files]
    /\ wanted \in [Handler -> [Optional \cup {"ssh-agent"} -> BOOLEAN]]
    /\ \A h \in Unused : index[h] = 1
FaultsOK == faults \in 0 .. MaxFaults
HistoryOK ==
    /\ overlapped \subseteq Handler /\ broken \subseteq Handler
    /\ newest \in Handler \cup {None}
    /\ newest \notin Unused
ShellOK ==
    shell \in [Opener -> [image : Handler \cup {None, Torn}, agent : BOOLEAN,
                          hosts : Handler \cup {None, Torn},
                          token : Handler \cup {None, Torn, Baked}]]
PowerSound ==
    ~power => Running = {} /\ \A o \in Opener : opc[o] \in {"idle", "send", "wait"}

\* Requests that are handled at the same time are marked, all of them; and what
\* began last and is not marked is alone.
Alone ==
    /\ \A g, h \in Running : g # h => g \in overlapped
    /\ newest \in Handler \ overlapped => Running \subseteq {newest}

\* File f is what handler h makes of it.
Done(h, f) ==
    IF Wants(h, f) THEN path[f] = h /\ <<h, f>> \in filled ELSE path[f] = None

\* What a handler that is alone has achieved by the step it is at.
Progress(h) ==
    /\ \A i \in DOMAIN Files : i < index[h] => Done(h, Files[i])
    /\ hpc[h] \in {"create", "fill", "rename"} => Wants(h, FileOf(h))
    /\ hpc[h] = "create" => temp[FileOf(h)] = None
    /\ hpc[h] \in {"fill", "rename"} => temp[FileOf(h)] = h
    /\ hpc[h] = "rename" => <<h, FileOf(h)>> \in filled
    /\ hpc[h] = "proxy" => \A f \in File : Done(h, f)

ProgressSound == \A h \in Running \ overlapped : Progress(h)

\* An acknowledged session stays until another request is sent.
OkSound ==
    \A h \in Handler \ overlapped : hpc[h] = "ok" /\ newest = h =>
        /\ \A f \in File : Done(h, f)
        /\ proxy # "none" /\ enabled = wanted[h]["ssh-agent"]

\* Nothing torn is in place, and nobody has read such a thing.
NothingTorn ==
    overlapped = {} =>
        /\ \A f \in File : path[f] # None => <<path[f], f>> \in filled
        /\ \A o \in Opener : Torn \notin {shell[o].image, shell[o].hosts, shell[o].token}

\* A command that waits has sent a request, and one that reads has its answer.
RequestSound ==
    \A o \in Opener :
        /\ opc[o] = "wait" => request[o] \in Handler \ Unused
        /\ opc[o] \in Reading \cup {"open"} =>
              request[o] \in Handler /\ hpc[request[o]] = "ok"

\* The parts of the session that a shell has read so far.
ShellSound ==
    \A o \in Opener : newest = request[o] /\ request[o] \notin overlapped =>
        /\ opc[o] \in {"read_agent", "read_hosts", "read_token", "open"} =>
              shell[o].image = request[o]
        /\ opc[o] \in {"read_hosts", "read_token", "open"} =>
              shell[o].agent = wanted[request[o]]["ssh-agent"]
        /\ opc[o] \in {"read_token", "open"} =>
              shell[o].hosts = IF wanted[request[o]]["ssh-known-hosts"]
                               THEN request[o] ELSE None
        /\ opc[o] = "open" =>
              shell[o].token = IF wanted[request[o]]["gh-token"]
                               THEN request[o] ELSE None

\* The inductive invariant.
IInv ==
    /\ WorldOK /\ HostOK /\ HandlersOK /\ FaultsOK /\ HistoryOK /\ ShellOK /\ PowerSound
    /\ Alone /\ ProgressSound /\ OkSound /\ NothingTorn /\ RequestSound /\ ShellSound
    /\ RefusalsHaveReasons

-----------------------------------------------------------------------------
\* The names of the session's files, in the order of configure.
LEMMA FilesFacts ==
    /\ DOMAIN Files = 1 .. 4 /\ Len(Files) = 4
    /\ \A i \in 1 .. 4 : Files[i] \in File
    /\ \A f \in File : \E i \in 1 .. 4 : f = Files[i]
    /\ \A i, j \in 1 .. 4 : Files[i] = Files[j] => i = j
  <1>1. DOMAIN Files = 1 .. 4 /\ Len(Files) = 4
    BY DEF Files
  <1>2. \A i, j \in 1 .. 4 : Files[i] = Files[j] => i = j
    BY DEF Files
  <1> QED BY <1>1, <1>2 DEF File

\* A step of the host, or of a shell, leaves the guest's handlers and the session
\* alone.
LEMMA HostKeeps ==
  ASSUME IInv, UNCHANGED <<handlers, session, history>>,
         HostOK', ShellOK', PowerSound', RequestSound', ShellSound',
         \A o \in Opener : overlapped = {} =>
             Torn \notin {shell'[o].image, shell'[o].hosts, shell'[o].token}
  PROVE  IInv'
  <1>1. UNCHANGED <<hpc, index, wanted, path, temp, filled, proxy, enabled, faults,
                    overlapped, broken, newest>>
    BY DEF handlers, session, history
  <1>2. Running' = Running /\ Unused' = Unused
    BY <1>1 DEF Running, Unused
  <1>3. (WorldOK /\ HandlersOK /\ FaultsOK /\ HistoryOK)'
    BY <1>1, <1>2 DEF IInv, WorldOK, HandlersOK, FaultsOK, HistoryOK
  <1>4. Alone'
    BY <1>1, <1>2 DEF IInv, Alone
  <1>5. \A h \in Handler : /\ Progress(h)' <=> Progress(h)
                           /\ \A f \in File : Done(h, f)' <=> Done(h, f)
    BY <1>1 DEF Progress, Done, Wants, FileOf
  <1>6. ProgressSound'
    BY <1>1, <1>2, <1>5 DEF IInv, ProgressSound, Running
  <1>7. OkSound'
    BY <1>1, <1>5 DEF IInv, OkSound
  <1>8. NothingTorn' /\ RefusalsHaveReasons'
    BY <1>1 DEF IInv, NothingTorn, RefusalsHaveReasons
  <1> QED BY <1>3, <1>4, <1>6, <1>7, <1>8 DEF IInv

\* A step of a handler is its own: of the others only the files are touched.
LEMMA HandlerEffect ==
  ASSUME IInv, NEW h \in Handler, HandlerNext(h)
  PROVE  /\ h \in Running
         /\ UNCHANGED <<power, host, wanted, shell, overlapped, newest>>
         /\ hpc' = [hpc EXCEPT ![h] = hpc'[h]]
         /\ hpc'[h] \in {"unlink", "create", "fill", "rename", "proxy", "ok", "err"}
         /\ index' \in [Handler -> DOMAIN Files]
         /\ \A g \in Handler \ {h} : index'[g] = index[g]
         /\ broken \subseteq broken' /\ broken' \subseteq Handler
  <1>1. hpc \in [Handler -> HandlerSteps] /\ index \in [Handler -> DOMAIN Files]
        /\ broken \subseteq Handler
    BY DEF IInv, HandlersOK, HistoryOK
  <1>2. ASSUME RemoveSecret(h) \/ Unlink(h) \/ Create(h) \/ Fill(h) \/ Rename(h)
               \/ SetEnabled(h)
        PROVE  h \in Running /\ UNCHANGED <<power, host, wanted, shell, history>>
    BY <1>2 DEF RemoveSecret, Unlink, Create, Fill, Rename, SetEnabled, Running
  <1>3. CASE RemoveSecret(h) \/ Rename(h)
    <2>1. \/ hpc' \in {[hpc EXCEPT ![h] = "proxy"], [hpc EXCEPT ![h] = "err"]}
             /\ UNCHANGED index
          \/ /\ hpc' = [hpc EXCEPT ![h] = "unlink"] /\ index[h] # Len(Files)
             /\ index' = [index EXCEPT ![h] = index[h] + 1]
      BY <1>3 DEF RemoveSecret, Rename, NextFile, Goto
    <2>2. index' \in [Handler -> DOMAIN Files]
      BY <1>1, <2>1, FilesFacts
    <2> QED BY <1>1, <1>2, <1>3, <2>1, <2>2 DEF history
  <1>4. CASE Unlink(h) \/ Create(h) \/ Fill(h) \/ SetEnabled(h)
    <2>1. UNCHANGED index /\ \E l \in {"create", "fill", "rename", "ok", "err"} :
                                hpc' = [hpc EXCEPT ![h] = l]
      BY <1>4 DEF Unlink, Create, Fill, SetEnabled, Goto
    <2> QED BY <1>1, <1>2, <1>4, <2>1 DEF history
  <1>5. CASE HandlerFault(h)
    BY <1>1, <1>5 DEF HandlerFault, Goto
  <1> QED BY <1>3, <1>4, <1>5 DEF HandlerNext

\* So the invariant is kept when what the handler achieves is.
LEMMA HandlerKeeps ==
  ASSUME IInv, NEW h \in Handler, HandlerNext(h), WorldOK', FaultsOK',
         h \in Running' /\ h \notin overlapped => Progress(h)',
         hpc'[h] = "ok" /\ h \notin overlapped =>
             /\ \A f \in File : Done(h, f)'
             /\ proxy' # "none" /\ enabled' = wanted[h]["ssh-agent"],
         overlapped = {} => \A f \in File : path'[f] # None => <<path'[f], f>> \in filled',
         hpc'[h] = "err" => h \in broken' \cup overlapped
  PROVE  IInv'
  <1>1. /\ h \in Running
        /\ UNCHANGED <<power, host, wanted, shell, overlapped, newest>>
        /\ UNCHANGED <<lock, opc, config, request, booted>>
        /\ hpc'[h] \in {"unlink", "create", "fill", "rename", "proxy", "ok", "err"}
        /\ \A g \in Handler \ {h} : hpc'[g] = hpc[g] /\ index'[g] = index[g]
        /\ broken \subseteq broken' /\ broken' \subseteq Handler
    BY HandlerEffect DEF IInv, HandlersOK, host
  <1>2. HandlersOK'
    <2>1. hpc' \in [Handler -> HandlerSteps]
      <3>1. hpc' = [hpc EXCEPT ![h] = hpc'[h]]
        BY HandlerEffect
      <3>2. hpc'[h] \in HandlerSteps
        BY <1>1 DEF HandlerSteps
      <3> QED BY <3>1, <3>2 DEF IInv, HandlersOK
    <2>2. Unused' = Unused /\ h \notin Unused
      BY <1>1 DEF Unused, Running
    <2> QED BY <1>1, <2>1, <2>2, HandlerEffect DEF IInv, HandlersOK, Unused
  <1>3. Running' \subseteq Running /\ \A g \in Running' : g # h => g \in overlapped /\ h \in overlapped
    BY <1>1 DEF IInv, Alone, Running
  <1>4. HistoryOK' /\ HostOK' /\ ShellOK'
    BY <1>1 DEF IInv, HistoryOK, HostOK, ShellOK, Unused, Running
  <1>5. PowerSound'
    BY <1>1, <1>3 DEF IInv, PowerSound
  <1>6. Alone'
    BY <1>1, <1>3 DEF IInv, Alone
  <1>7. ProgressSound'
    BY <1>1, <1>3 DEF ProgressSound
  <1>8. OkSound'
    <2> SUFFICES ASSUME NEW g \in Handler \ overlapped, hpc'[g] = "ok", newest = g, g # h
                 PROVE  FALSE
      BY <1>1 DEF OkSound
    <2> QED BY <1>1, NoneAssumption DEF IInv, Alone, Running
  <1>9. NothingTorn'
    BY <1>1 DEF IInv, NothingTorn
  <1>10. RequestSound'
    BY <1>1 DEF IInv, RequestSound, Running, Unused
  <1>11. ShellSound'
    BY <1>1 DEF IInv, ShellSound
  <1>12. RefusalsHaveReasons'
    BY <1>1 DEF IInv, RefusalsHaveReasons
  <1> QED BY <1>2, <1>4, <1>5, <1>6, <1>7, <1>8, <1>9, <1>10, <1>11, <1>12 DEF IInv

\* On to the next file: what was to be done about this one is done.
LEMMA NextFileKeeps ==
  ASSUME IInv, NEW h \in Handler, Progress(h), NextFile(h), NEW v,
         UNCHANGED <<wanted, filled>>, path' = [path EXCEPT ![FileOf(h)] = v],
         IF Wants(h, FileOf(h)) THEN v = h /\ <<h, FileOf(h)>> \in filled ELSE v = None
  PROVE  Progress(h)' /\ hpc'[h] \in {"unlink", "proxy"}
  <1>1. /\ index[h] \in 1 .. 4 /\ FileOf(h) \in File
        /\ hpc \in [Handler -> HandlerSteps] /\ index \in [Handler -> 1 .. 4]
        /\ path \in [File -> Handler \cup {None}]
    BY FilesFacts DEF IInv, HandlersOK, WorldOK, FileOf
  <1>2. \A f \in File : Done(h, f) \/ f = FileOf(h) => Done(h, f)'
    BY <1>1 DEF Done, Wants
  <1>3. \A i \in 1 .. 4 : i <= index[h] => Done(h, Files[i])'
    BY <1>1, <1>2, FilesFacts DEF Progress, FileOf
  <1>4. CASE index[h] = 4
    <2>1. hpc'[h] = "proxy" /\ index'[h] = 4
      BY <1>1, <1>4, FilesFacts DEF NextFile, Goto
    <2>2. \A f \in File : Done(h, f)'
      BY <1>3, <1>4, FilesFacts
    <2> QED BY <2>1, <2>2, FilesFacts DEF Progress
  <1>5. CASE index[h] # 4
    <2>1. hpc'[h] = "unlink" /\ index'[h] = index[h] + 1
      BY <1>1, <1>5, FilesFacts DEF NextFile, Goto
    <2>2. \A i \in 1 .. 4 : i < index'[h] => i <= index[h]
      BY <1>1, <2>1
    <2> QED BY <1>3, <2>1, <2>2, FilesFacts DEF Progress
  <1> QED BY <1>4, <1>5

\* A handler that is not marked has achieved what its step says.
LEMMA HandlerProgress ==
  ASSUME IInv, NEW h \in Running, h \notin overlapped PROVE Progress(h)
  BY DEF IInv, ProgressSound

\* The secret that is not wanted is gone.
LEMMA RemoveSecretHolds == ASSUME IInv, NEW h \in Handler, RemoveSecret(h) PROVE IInv'
  <1>1. /\ UNCHANGED <<wanted, temp, filled, proxy, enabled, faults, broken, overlapped>>
        /\ path' = [path EXCEPT ![FileOf(h)] = None]
        /\ hpc[h] = "unlink" /\ ~Wants(h, FileOf(h)) /\ NextFile(h)
    BY DEF RemoveSecret, history
  <1>2. WorldOK' /\ FaultsOK'
    BY <1>1 DEF IInv, WorldOK, FaultsOK
  <1>3. hpc'[h] \in {"unlink", "proxy"} /\ (h \notin overlapped => Progress(h)')
    <2>1. hpc'[h] \in {"unlink", "proxy"}
      BY <1>1 DEF NextFile, Goto, IInv, HandlersOK
    <2>2. h \in Running
      BY <1>1 DEF Running
    <2> QED BY <1>1, <2>1, <2>2, HandlerProgress, NextFileKeeps
  <1>4. overlapped = {} => \A f \in File : path'[f] # None => <<path'[f], f>> \in filled'
    BY <1>1 DEF IInv, NothingTorn, WorldOK
  <1> QED BY <1>2, <1>3, <1>4, HandlerKeeps DEF HandlerNext

\* No temporary file is left by now.
LEMMA UnlinkHolds == ASSUME IInv, NEW h \in Handler, Unlink(h) PROVE IInv'
  <1>1. /\ UNCHANGED <<index, wanted, path, filled, proxy, enabled, faults, broken, overlapped>>
        /\ temp' = [temp EXCEPT ![FileOf(h)] = None]
        /\ hpc[h] = "unlink" /\ Wants(h, FileOf(h)) /\ Goto(h, "create")
    BY DEF Unlink, history
  <1>2. WorldOK' /\ FaultsOK' /\ FileOf(h) \in File
    BY <1>1, FilesFacts DEF IInv, WorldOK, FaultsOK, FileOf, HandlersOK
  <1>3. hpc'[h] = "create" /\ temp'[FileOf(h)] = None
    BY <1>1, <1>2 DEF Goto, IInv, HandlersOK, WorldOK
  <1>4. h \notin overlapped => Progress(h)'
    <2>1. h \notin overlapped => Progress(h)
      BY <1>1, HandlerProgress DEF Running
    <2> QED BY <1>1, <1>3, <2>1 DEF Progress, Done, Wants, FileOf
  <1>5. overlapped = {} => \A f \in File : path'[f] # None => <<path'[f], f>> \in filled'
    BY <1>1 DEF IInv, NothingTorn
  <1> QED BY <1>2, <1>3, <1>4, <1>5, HandlerKeeps DEF HandlerNext

\* A handler that is alone finds the name free, and has it now.
LEMMA CreateHolds == ASSUME IInv, NEW h \in Handler, Create(h) PROVE IInv'
  <1>1. /\ UNCHANGED <<index, wanted, path, filled, proxy, enabled, faults, broken, overlapped>>
        /\ hpc[h] = "create"
        /\ \/ /\ temp[FileOf(h)] = None
              /\ temp' = [temp EXCEPT ![FileOf(h)] = h] /\ Goto(h, "fill")
           \/ temp[FileOf(h)] # None /\ Goto(h, "err") /\ UNCHANGED temp
    BY DEF Create, history
  <1>2. WorldOK' /\ FaultsOK' /\ FileOf(h) \in File
    BY <1>1, FilesFacts DEF IInv, WorldOK, FaultsOK, FileOf, HandlersOK
  <1>3. /\ hpc'[h] \in {"fill", "err"}
        /\ hpc'[h] = "fill" => temp'[FileOf(h)] = h
        /\ hpc'[h] = "err" => temp[FileOf(h)] # None
    BY <1>1, <1>2 DEF Goto, IInv, HandlersOK, WorldOK
  <1>4. h \notin overlapped => hpc'[h] = "fill" /\ Progress(h)'
    <2>1. h \notin overlapped => Progress(h)
      BY <1>1, HandlerProgress DEF Running
    <2>2. h \notin overlapped => temp[FileOf(h)] = None /\ Wants(h, FileOf(h))
      BY <1>1, <2>1 DEF Progress
    <2> QED BY <1>1, <1>3, <2>1, <2>2 DEF Progress, Done, Wants, FileOf
  <1>5. overlapped = {} => \A f \in File : path'[f] # None => <<path'[f], f>> \in filled'
    BY <1>1 DEF IInv, NothingTorn
  <1> QED BY <1>2, <1>3, <1>4, <1>5, HandlerKeeps DEF HandlerNext

\* The file is written; a file in place is not torn by that.
LEMMA FillHolds == ASSUME IInv, NEW h \in Handler, Fill(h) PROVE IInv'
  <1>1. /\ UNCHANGED <<index, wanted, path, temp, proxy, enabled, faults, broken, overlapped>>
        /\ filled' = filled \cup {<<h, FileOf(h)>>}
        /\ hpc[h] = "fill" /\ Goto(h, "rename")
    BY DEF Fill, history
  <1>2. WorldOK' /\ FaultsOK' /\ FileOf(h) \in File
    BY <1>1, FilesFacts DEF IInv, WorldOK, FaultsOK, FileOf, HandlersOK
  <1>3. hpc'[h] = "rename"
    BY <1>1 DEF Goto, IInv, HandlersOK
  <1>4. h \notin overlapped => Progress(h)'
    <2>1. h \notin overlapped => Progress(h)
      BY <1>1, HandlerProgress DEF Running
    <2> QED BY <1>1, <1>3, <2>1 DEF Progress, Done, Wants, FileOf
  <1>5. overlapped = {} => \A f \in File : path'[f] # None => <<path'[f], f>> \in filled'
    BY <1>1 DEF IInv, NothingTorn
  <1> QED BY <1>2, <1>3, <1>4, <1>5, HandlerKeeps DEF HandlerNext

\* A handler that is alone installs the file it has written.
LEMMA RenameHolds == ASSUME IInv, NEW h \in Handler, Rename(h) PROVE IInv'
  <1>1. /\ UNCHANGED <<wanted, filled, proxy, enabled, faults, broken, overlapped>>
        /\ hpc[h] = "rename"
        /\ \/ /\ temp[FileOf(h)] # None
              /\ path' = [path EXCEPT ![FileOf(h)] = temp[FileOf(h)]]
              /\ temp' = [temp EXCEPT ![FileOf(h)] = None]
              /\ NextFile(h)
           \/ temp[FileOf(h)] = None /\ Goto(h, "err") /\ UNCHANGED <<index, path, temp>>
    BY DEF Rename, history
  <1>2. WorldOK' /\ FaultsOK' /\ FileOf(h) \in File
    BY <1>1, FilesFacts DEF IInv, WorldOK, FaultsOK, FileOf, HandlersOK
  <1>3. hpc'[h] \in {"unlink", "proxy", "err"}
    BY <1>1 DEF NextFile, Goto, IInv, HandlersOK
  <1>4. ASSUME h \notin overlapped
        PROVE  /\ hpc'[h] # "err" /\ Progress(h)'
               /\ path' = [path EXCEPT ![FileOf(h)] = h] /\ <<h, FileOf(h)>> \in filled
    <2>1. Progress(h)
      BY <1>1, <1>4, HandlerProgress DEF Running
    <2>2. temp[FileOf(h)] = h /\ Wants(h, FileOf(h)) /\ <<h, FileOf(h)>> \in filled
      BY <1>1, <2>1 DEF Progress
    <2>3. NextFile(h) /\ path' = [path EXCEPT ![FileOf(h)] = h]
      BY <1>1, <2>2, NoneAssumption
    <2> QED BY <1>1, <2>1, <2>2, <2>3, NextFileKeeps
  <1>5. overlapped = {} => \A f \in File : path'[f] # None => <<path'[f], f>> \in filled'
    BY <1>1, <1>4 DEF IInv, NothingTorn, WorldOK
  <1> QED BY <1>2, <1>3, <1>4, <1>5, HandlerKeeps DEF HandlerNext

\* The agent listens by the time the request is acknowledged.
LEMMA SetEnabledHolds == ASSUME IInv, NEW h \in Handler, SetEnabled(h) PROVE IInv'
  <1>1. /\ UNCHANGED <<index, wanted, path, temp, filled, faults, broken, overlapped>>
        /\ proxy' = IF proxy = "none" THEN "listening" ELSE proxy
        /\ enabled' = wanted[h]["ssh-agent"]
        /\ hpc[h] = "proxy" /\ Goto(h, "ok")
    BY DEF SetEnabled, history
  <1>2. FaultsOK' /\ WorldOK'
    BY <1>1 DEF IInv, WorldOK, FaultsOK, HandlersOK
  <1>3. hpc'[h] = "ok" /\ h \notin Running'
    BY <1>1 DEF Goto, IInv, HandlersOK, Running
  <1>4. /\ proxy' # "none"
        /\ h \notin overlapped => \A f \in File : Done(h, f)'
    <2>1. h \notin overlapped => Progress(h)
      BY <1>1, HandlerProgress DEF Running
    <2> QED BY <1>1, <2>1 DEF Progress, Done, Wants
  <1>5. overlapped = {} => \A f \in File : path'[f] # None => <<path'[f], f>> \in filled'
    BY <1>1 DEF IInv, NothingTorn
  <1> QED BY <1>1, <1>2, <1>3, <1>4, <1>5, HandlerKeeps DEF HandlerNext

\* A failed step ends the handler, which is marked.
LEMMA HandlerFaultHolds == ASSUME IInv, NEW h \in Handler, HandlerFault(h) PROVE IInv'
  <1>1. /\ UNCHANGED <<index, wanted, path, temp, filled, enabled, overlapped>>
        /\ faults < MaxFaults /\ faults' = faults + 1 /\ broken' = broken \cup {h}
        /\ Goto(h, "err") /\ proxy' \in {proxy, "none", "dead"}
    BY DEF HandlerFault
  <1>2. WorldOK' /\ FaultsOK'
    BY <1>1, BoundAssumption DEF IInv, WorldOK, FaultsOK
  <1>3. hpc'[h] = "err" /\ h \notin Running'
    BY <1>1 DEF Goto, IInv, HandlersOK, Running
  <1>4. overlapped = {} => \A f \in File : path'[f] # None => <<path'[f], f>> \in filled'
    BY <1>1 DEF IInv, NothingTorn
  <1> QED BY <1>1, <1>2, <1>3, <1>4, HandlerKeeps DEF HandlerNext

\* A command begins with nothing of an earlier shell, and has yet to send.
LEMMA BeginHolds == ASSUME IInv, NEW o \in Opener, Begin(o) PROVE IInv'
  <1>1. /\ opc[o] = "idle" /\ lock = None /\ lock' = o /\ power' = TRUE
        /\ opc' = [opc EXCEPT ![o] = "send"] /\ shell' = [shell EXCEPT ![o] = NoShell]
        /\ UNCHANGED <<request, handlers, session, history>>
        /\ UNCHANGED <<hpc, wanted, overlapped, newest>>
    BY DEF Begin, handlers, history
  <1>2. HostOK'
    <2>1. booted' \in [Opener -> BOOLEAN]
      BY DEF Begin, IInv, HostOK
    <2>2. config' \in [Opener -> [Optional \cup {"ssh-agent"} -> BOOLEAN]]
      BY ConfigAssumption DEF Begin, Collect, IInv, HostOK
    <2> QED BY <1>1, <2>1, <2>2, NoneAssumption DEF IInv, HostOK
  <1>3. ShellOK' /\ \A p \in Opener : overlapped = {} =>
             Torn \notin {shell'[p].image, shell'[p].hosts, shell'[p].token}
    BY <1>1, NoneAssumption DEF IInv, ShellOK, NothingTorn, NoShell
  <1>4. PowerSound'
    BY <1>1 DEF PowerSound
  <1>5. RequestSound' /\ ShellSound'
    BY <1>1 DEF IInv, HostOK, ShellOK, RequestSound, ShellSound, Reading, Unused
  <1> QED BY <1>1, <1>2, <1>3, <1>4, <1>5, HostKeeps

\* Only a command changes its own step: it ends, or goes on with the shell.
LEMMA CommandKeeps ==
  ASSUME IInv, NEW o \in Opener, NEW next \in {"idle"} \cup Reading \cup {"open"},
         opc' = [opc EXCEPT ![o] = next],
         lock' = IF lock = o THEN None ELSE lock,
         UNCHANGED <<power, config, request, booted, handlers, session, history>>,
         ShellOK', ShellSound',
         next # "idle" => power /\ request[o] \in Handler /\ hpc[request[o]] = "ok",
         \A p \in Opener : overlapped = {} =>
             Torn \notin {shell'[p].image, shell'[p].hosts, shell'[p].token}
  PROVE  IInv'
  <1>1. UNCHANGED <<hpc, index, wanted, overlapped, newest>>
    BY DEF handlers, history
  <1>2. HostOK'
    BY NoneAssumption DEF IInv, HostOK, Reading
  <1>3. PowerSound'
    BY <1>1 DEF IInv, HostOK, PowerSound, Running
  <1>4. RequestSound'
    BY <1>1 DEF IInv, HostOK, RequestSound, Reading, Unused
  <1> QED BY <1>2, <1>3, <1>4, HostKeeps

\* The answer is Ok, and the shell has read nothing yet.
LEMMA AnsweredHolds == ASSUME IInv, NEW o \in Opener, Answered(o) PROVE IInv'
  <1>1. PICK next \in {"idle", "read_image"} :
            opc' = [opc EXCEPT ![o] = next] /\ (next # "idle" => power)
    BY DEF Answered
  <1>2. /\ opc[o] = "wait" /\ hpc[request[o]] = "ok" /\ lock' = None
        /\ UNCHANGED <<power, config, request, booted, handlers, session, shell, history>>
        /\ UNCHANGED <<wanted, overlapped, newest>>
    BY DEF Answered, handlers, history
  <1>3. lock = o /\ request[o] \in Handler
    BY <1>2 DEF IInv, HostOK, RequestSound
  <1>4. ShellOK' /\ ShellSound'
    BY <1>1, <1>2 DEF IInv, HostOK, ShellOK, ShellSound
  <1>5. \A p \in Opener : overlapped = {} =>
             Torn \notin {shell'[p].image, shell'[p].hosts, shell'[p].token}
    BY <1>2 DEF IInv, NothingTorn
  <1>6. next \in {"idle"} \cup Reading \cup {"open"}
    BY <1>1 DEF Reading
  <1> QED BY <1>1, <1>2, <1>3, <1>4, <1>5, <1>6, CommandKeeps

\* A command that is killed while it has the lock, or a shell that ends.
LEMMA KillHolds == ASSUME IInv, NEW o \in Opener, Kill(o) \/ Exit(o) PROVE IInv'
  <1>1. /\ opc' = [opc EXCEPT ![o] = "idle"]
        /\ lock' = IF lock = o THEN None ELSE lock
        /\ UNCHANGED <<power, config, request, booted, handlers, session, shell, history>>
        /\ UNCHANGED <<wanted, overlapped, newest>>
    BY DEF IInv, HostOK, Kill, Exit, handlers, history
  <1>2. ShellOK' /\ ShellSound'
    BY <1>1 DEF IInv, HostOK, ShellOK, ShellSound
  <1>3. \A p \in Opener : overlapped = {} =>
             Torn \notin {shell'[p].image, shell'[p].hosts, shell'[p].token}
    BY <1>1 DEF IInv, NothingTorn
  <1> QED BY <1>1, <1>2, <1>3, CommandKeeps

\* What a shell finds at a name, when its request is the last and was alone.
LEMMA SeenIsSession ==
  ASSUME IInv, NEW o \in Opener, opc[o] \in Reading
  PROVE  /\ request[o] \in Handler /\ hpc[request[o]] = "ok"
         /\ \A f \in File : /\ Seen(f) \in Handler \cup {None, Torn}
                            /\ overlapped = {} => Seen(f) # Torn
         /\ newest = request[o] /\ request[o] \notin overlapped =>
              /\ \A f \in File : Seen(f) = IF Wants(request[o], f) THEN request[o] ELSE None
              /\ (proxy # "none" /\ enabled) = wanted[request[o]]["ssh-agent"]
  <1>1. request[o] \in Handler /\ hpc[request[o]] = "ok"
    BY DEF IInv, RequestSound
  <1>2. \A f \in File : Seen(f) \in Handler \cup {None, Torn}
    BY DEF IInv, WorldOK, Seen
  <1>3. overlapped = {} => \A f \in File : Seen(f) # Torn
    BY NoneAssumption DEF IInv, WorldOK, NothingTorn, Seen
  <1>4. ASSUME newest = request[o], request[o] \notin overlapped
        PROVE  /\ \A f \in File : Seen(f) = IF Wants(request[o], f) THEN request[o] ELSE None
               /\ (proxy # "none" /\ enabled) = wanted[request[o]]["ssh-agent"]
    <2>1. /\ \A f \in File : Done(request[o], f)
          /\ proxy # "none" /\ enabled = wanted[request[o]]["ssh-agent"]
      BY <1>1, <1>4 DEF IInv, OkSound
    <2> QED BY <1>1, <2>1, NoneAssumption DEF Done, Seen, IInv, WorldOK
  <1> QED BY <1>1, <1>2, <1>3, <1>4

\* A read, whatever it is of.
LEMMA ReadKeeps ==
  ASSUME IInv, NEW o \in Opener, NEW next \in Reading \cup {"open"}, opc[o] \in Reading,
         opc' = [opc EXCEPT ![o] = next],
         UNCHANGED <<power, lock, config, request, booted, handlers, session, history>>,
         ShellOK', ShellSound',
         \A p \in Opener : overlapped = {} =>
             Torn \notin {shell'[p].image, shell'[p].hosts, shell'[p].token}
  PROVE  IInv'
  <1>1. lock' = IF lock = o THEN None ELSE lock
    BY DEF IInv, HostOK, Reading
  <1>2. power /\ request[o] \in Handler /\ hpc[request[o]] = "ok"
    BY SeenIsSession DEF IInv, HostOK, PowerSound, Reading
  <1> QED BY <1>1, <1>2, CommandKeeps

\* The names a shell reads, and what its session says of them.
LEMMA NamesFacts ==
  /\ {"image-env0", "ssh-known-hosts", "gh-token"} \subseteq File
  /\ \A h \in Handler : /\ Wants(h, "image-env0")
                        /\ (Wants(h, "ssh-known-hosts") <=> wanted[h]["ssh-known-hosts"])
                        /\ (Wants(h, "gh-token") <=> wanted[h]["gh-token"])
  <1>1. Files[4] = "image-env0" /\ Files[3] = "ssh-known-hosts" /\ Files[2] = "gh-token"
    BY DEF Files
  <1>2. {"image-env0", "ssh-known-hosts", "gh-token"} \subseteq File
    BY <1>1, FilesFacts
  <1> QED BY <1>2 DEF Wants, Optional

\* The image's environment, with a token of its own at most until ReadToken.
LEMMA ReadImageHolds == ASSUME IInv, NEW o \in Opener, ReadImage(o) PROVE IInv'
  <1> DEFINE v == Seen("image-env0")
  <1>1. /\ opc[o] = "read_image" /\ opc' = [opc EXCEPT ![o] = "read_agent"]
        /\ shell' = [shell EXCEPT ![o].image = v, ![o].token = Baked]
        /\ UNCHANGED <<power, lock, config, request, booted, handlers, session, history>>
        /\ UNCHANGED <<wanted, overlapped, newest>>
    BY DEF ReadImage, handlers, history
  <1>2. opc[o] \in Reading /\ "read_agent" \in Reading
    BY <1>1 DEF Reading
  <1>3. /\ v \in Handler \cup {None, Torn} /\ (overlapped = {} => v # Torn)
        /\ newest = request[o] /\ request[o] \notin overlapped => v = request[o]
    BY <1>2, SeenIsSession, NamesFacts
  <1> HIDE DEF v
  <1>4. ShellOK'
    BY <1>1, <1>3 DEF IInv, ShellOK
  <1>5. /\ \A p \in Opener \ {o} : shell'[p] = shell[p] /\ opc'[p] = opc[p]
        /\ opc'[o] = "read_agent" /\ shell'[o].image = v /\ shell'[o].token = Baked
        /\ shell'[o].hosts = shell[o].hosts
    BY <1>1 DEF IInv, ShellOK, HostOK
  <1>6. ShellSound'
    <2>1. UNCHANGED <<request, wanted, overlapped, newest>>
      BY <1>1
    <2> QED BY <1>3, <1>5, <2>1 DEF IInv, ShellSound
  <1>7. \A p \in Opener : overlapped = {} =>
             Torn \notin {shell'[p].image, shell'[p].hosts, shell'[p].token}
    BY <1>3, <1>5, NoneAssumption DEF IInv, NothingTorn
  <1> QED BY <1>1, <1>2, <1>4, <1>6, <1>7, ReadKeeps

\* The SSH agent of the session.
LEMMA ReadAgentHolds == ASSUME IInv, NEW o \in Opener, ReadAgent(o) PROVE IInv'
  <1> DEFINE v == proxy # "none" /\ enabled
  <1>1. /\ opc[o] = "read_agent" /\ opc' = [opc EXCEPT ![o] = "read_hosts"]
        /\ shell' = [shell EXCEPT ![o].agent = v]
        /\ UNCHANGED <<power, lock, config, request, booted, handlers, session, history>>
        /\ UNCHANGED <<wanted, overlapped, newest>>
    BY DEF ReadAgent, Reads, handlers, history
  <1>2. opc[o] \in Reading /\ "read_hosts" \in Reading
    BY <1>1 DEF Reading
  <1>3. /\ v \in BOOLEAN
        /\ newest = request[o] /\ request[o] \notin overlapped =>
              v = wanted[request[o]]["ssh-agent"]
    BY <1>2, SeenIsSession
  <1> HIDE DEF v
  <1>4. ShellOK'
    BY <1>1, <1>3 DEF IInv, ShellOK
  <1>5. /\ \A p \in Opener \ {o} : shell'[p] = shell[p] /\ opc'[p] = opc[p]
        /\ opc'[o] = "read_hosts" /\ shell'[o].agent = v
        /\ shell'[o].image = shell[o].image /\ shell'[o].hosts = shell[o].hosts
        /\ shell'[o].token = shell[o].token
    BY <1>1 DEF IInv, ShellOK, HostOK
  <1>6. ShellSound'
    BY <1>1, <1>3, <1>5 DEF IInv, ShellSound
  <1>7. \A p \in Opener : overlapped = {} =>
             Torn \notin {shell'[p].image, shell'[p].hosts, shell'[p].token}
    BY <1>5 DEF IInv, NothingTorn
  <1> QED BY <1>1, <1>2, <1>4, <1>6, <1>7, ReadKeeps

\* The known hosts of the session.
LEMMA ReadHostsHolds == ASSUME IInv, NEW o \in Opener, ReadHosts(o) PROVE IInv'
  <1> DEFINE v == Seen("ssh-known-hosts")
  <1>1. /\ opc[o] = "read_hosts" /\ opc' = [opc EXCEPT ![o] = "read_token"]
        /\ shell' = [shell EXCEPT ![o].hosts = v]
        /\ UNCHANGED <<power, lock, config, request, booted, handlers, session, history>>
        /\ UNCHANGED <<wanted, overlapped, newest>>
    BY DEF ReadHosts, Reads, handlers, history
  <1>2. opc[o] \in Reading /\ "read_token" \in Reading
    BY <1>1 DEF Reading
  <1>3. /\ v \in Handler \cup {None, Torn} /\ (overlapped = {} => v # Torn)
        /\ newest = request[o] /\ request[o] \notin overlapped =>
              v = IF wanted[request[o]]["ssh-known-hosts"] THEN request[o] ELSE None
    BY <1>2, SeenIsSession, NamesFacts
  <1> HIDE DEF v
  <1>4. ShellOK'
    BY <1>1, <1>3 DEF IInv, ShellOK
  <1>5. /\ \A p \in Opener \ {o} : shell'[p] = shell[p] /\ opc'[p] = opc[p]
        /\ opc'[o] = "read_token" /\ shell'[o].hosts = v
        /\ shell'[o].image = shell[o].image /\ shell'[o].agent = shell[o].agent
        /\ shell'[o].token = shell[o].token
    BY <1>1 DEF IInv, ShellOK, HostOK
  <1>6. ShellSound'
    BY <1>1, <1>3, <1>5 DEF IInv, ShellSound
  <1>7. \A p \in Opener : overlapped = {} =>
             Torn \notin {shell'[p].image, shell'[p].hosts, shell'[p].token}
    BY <1>3, <1>5 DEF IInv, NothingTorn
  <1> QED BY <1>1, <1>2, <1>4, <1>6, <1>7, ReadKeeps

\* The token of the session takes the place of the image's.
LEMMA ReadTokenHolds == ASSUME IInv, NEW o \in Opener, ReadToken(o) PROVE IInv'
  <1> DEFINE v == Seen("gh-token")
  <1>1. /\ opc[o] = "read_token" /\ opc' = [opc EXCEPT ![o] = "open"]
        /\ shell' = [shell EXCEPT ![o].token = v]
        /\ UNCHANGED <<power, lock, config, request, booted, handlers, session, history>>
        /\ UNCHANGED <<wanted, overlapped, newest>>
    BY DEF ReadToken, Reads, handlers, history
  <1>2. opc[o] \in Reading
    BY <1>1 DEF Reading
  <1>3. /\ v \in Handler \cup {None, Torn} /\ (overlapped = {} => v # Torn)
        /\ newest = request[o] /\ request[o] \notin overlapped =>
              v = IF wanted[request[o]]["gh-token"] THEN request[o] ELSE None
    BY <1>2, SeenIsSession, NamesFacts
  <1> HIDE DEF v
  <1>4. ShellOK'
    BY <1>1, <1>3 DEF IInv, ShellOK
  <1>5. /\ \A p \in Opener \ {o} : shell'[p] = shell[p] /\ opc'[p] = opc[p]
        /\ opc'[o] = "open" /\ shell'[o].token = v
        /\ shell'[o].image = shell[o].image /\ shell'[o].agent = shell[o].agent
        /\ shell'[o].hosts = shell[o].hosts
    BY <1>1 DEF IInv, ShellOK, HostOK
  <1>6. ShellSound'
    BY <1>1, <1>3, <1>5 DEF IInv, ShellSound
  <1>7. \A p \in Opener : overlapped = {} =>
             Torn \notin {shell'[p].image, shell'[p].hosts, shell'[p].token}
    BY <1>3, <1>5 DEF IInv, NothingTorn
  <1> QED BY <1>1, <1>2, <1>4, <1>6, <1>7, ReadKeeps

\* A request starts a handler; what was being read is not of the last one now.
LEMMA SendHolds == ASSUME IInv, NEW o \in Opener, Send(o) PROVE IInv'
  <1>1. PICK h \in Unused :
            /\ Goto(h, "unlink")
            /\ wanted' = [wanted EXCEPT ![h] = config[o]]
            /\ request' = [request EXCEPT ![o] = h]
            /\ newest' = h
            /\ overlapped' = IF Running = {} THEN overlapped
                             ELSE overlapped \cup Running \cup {h}
    BY DEF Send
  <1>2. /\ opc[o] = "send" /\ power /\ opc' = [opc EXCEPT ![o] = "wait"]
        /\ UNCHANGED <<power, lock, config, booted, index, session, shell, faults, broken>>
        /\ UNCHANGED <<path, temp, filled, proxy, enabled>>
    BY DEF Send, session
  <1>3. h \in Handler /\ hpc[h] = "unused" /\ index[h] = 1
    BY <1>1 DEF Unused, IInv, HandlersOK
  <1>4. hpc' = [hpc EXCEPT ![h] = "unlink"] /\ hpc'[h] = "unlink"
    BY <1>1, <1>3 DEF Goto, IInv, HandlersOK
  <1>5. Unused' = Unused \ {h} /\ Running' = Running \cup {h} /\ h \notin Running
    BY <1>3, <1>4 DEF Unused, Running, IInv, HandlersOK
  <1>6. /\ Running # {} => Running' \subseteq overlapped'
        /\ overlapped \subseteq overlapped' /\ overlapped' \subseteq Handler
    BY <1>1, <1>3, <1>5 DEF IInv, HistoryOK, Running
  <1>7. HostOK'
    BY <1>1, <1>2, <1>3 DEF IInv, HostOK
  <1>8. HandlersOK'
    <2>1. hpc' \in [Handler -> HandlerSteps]
      BY <1>4 DEF IInv, HandlersOK, HandlerSteps
    <2>2. wanted' \in [Handler -> [Optional \cup {"ssh-agent"} -> BOOLEAN]]
      BY <1>1 DEF IInv, HandlersOK, HostOK
    <2> QED BY <1>2, <1>5, <2>1, <2>2 DEF IInv, HandlersOK
  <1>9. (WorldOK /\ FaultsOK /\ HistoryOK /\ ShellOK)'
    BY <1>1, <1>2, <1>3, <1>5, <1>6 DEF IInv, WorldOK, FaultsOK, HistoryOK, ShellOK
  <1>10. PowerSound' /\ Alone'
    BY <1>1, <1>2, <1>5, <1>6 DEF PowerSound, Alone
  <1>11. ProgressSound'
    <2> SUFFICES ASSUME NEW g \in Running' \ overlapped' PROVE Progress(g)'
      BY DEF ProgressSound
    <2>1. g = h /\ hpc'[g] = "unlink" /\ index'[g] = 1
      BY <1>2, <1>3, <1>4, <1>5, <1>6
    <2> QED BY <2>1, FilesFacts DEF Progress
  <1>12. OkSound'
    BY <1>1, <1>4 DEF OkSound
  <1>13. NothingTorn'
    BY <1>2, <1>6 DEF IInv, NothingTorn
  <1>14. RequestSound'
    BY <1>1, <1>2, <1>3, <1>4, <1>5 DEF IInv, HostOK, HandlersOK, RequestSound, Reading
  <1>15. ShellSound'
    <2> SUFFICES ASSUME NEW p \in Opener, newest' = request'[p] PROVE opc'[p] \notin Reading \cup {"open"}
      BY DEF ShellSound, Reading
    <2>1. CASE p = o
      BY <1>2, <2>1 DEF IInv, HostOK, Reading
    <2>2. CASE p # o
      <3>1. request[p] = h /\ opc'[p] = opc[p]
        BY <1>1, <1>2, <2>2 DEF IInv, HostOK
      <3> QED BY <1>3, <3>1 DEF IInv, RequestSound
    <2> QED BY <2>1, <2>2
  <1>16. RefusalsHaveReasons'
    BY <1>2, <1>4, <1>6 DEF IInv, HandlersOK, RefusalsHaveReasons
  <1> QED BY <1>7, <1>8, <1>9, <1>10, <1>11, <1>12, <1>13, <1>14, <1>15, <1>16 DEF IInv

\* The guest ends, and its session with it.
LEMMA PowerOffKeeps ==
  ASSUME IInv, PowerOff, HostOK', UNCHANGED <<request, shell>>,
         \A o \in Opener : opc'[o] \in {opc[o], "idle"} /\ opc'[o] \notin Reading \cup {"open"}
  PROVE  IInv'
  <1>1. /\ power' = FALSE /\ newest' = None
        /\ hpc' = [h \in Handler |-> IF h \in Running THEN "gone" ELSE hpc[h]]
        /\ path' = [f \in File |-> None] /\ temp' = [f \in File |-> None]
        /\ filled' = {} /\ proxy' = "none" /\ enabled' = FALSE
        /\ UNCHANGED <<index, wanted, faults, overlapped, broken>>
    BY DEF PowerOff
  <1>2. Running' = {} /\ Unused' = Unused
    BY <1>1 DEF Running, Unused
  <1>3. HandlersOK'
    <2>1. hpc' \in [Handler -> HandlerSteps]
      BY <1>1 DEF IInv, HandlersOK, HandlerSteps
    <2> QED BY <1>1, <1>2, <2>1 DEF IInv, HandlersOK
  <1>4. (WorldOK /\ FaultsOK /\ HistoryOK /\ ShellOK)'
    BY <1>1, NoneAssumption DEF IInv, WorldOK, FaultsOK, HistoryOK, ShellOK, Unused
  <1>5. PowerSound' /\ Alone' /\ ProgressSound'
    BY <1>2 DEF IInv, HostOK, PowerSound, Reading, Alone, ProgressSound
  <1>6. OkSound' /\ NothingTorn'
    BY <1>1, NoneAssumption DEF IInv, OkSound, NothingTorn
  <1>7. RequestSound' /\ ShellSound'
    BY <1>1, <1>2 DEF IInv, RequestSound, ShellSound, Reading
  <1>8. RefusalsHaveReasons'
    BY <1>1 DEF IInv, RefusalsHaveReasons
  <1> QED BY <1>3, <1>4, <1>5, <1>6, <1>7, <1>8 DEF IInv

\* A command fails, and the guest ends with it if the command had booted it.
LEMMA FailsHolds ==
  ASSUME IInv, NEW o \in Opener, opc[o] \in {"send", "wait"}, Fails(o) PROVE IInv'
  <1>1. /\ opc' = [p \in Opener |-> IF p = o \/ booted[o] THEN "idle" ELSE opc[p]]
        /\ lock' = None /\ UNCHANGED <<config, request, booted, shell>>
    BY DEF Fails
  <1>2. lock = o
    BY DEF IInv, HostOK
  <1>3. CASE booted[o]
    <2>1. PowerOff
      BY <1>3 DEF Fails
    <2>2. HostOK'
      BY <1>1, <1>3, <2>1, NoneAssumption DEF IInv, HostOK, PowerOff
    <2> QED BY <1>1, <1>3, <2>1, <2>2, PowerOffKeeps DEF Reading
  <1>4. CASE ~booted[o]
    <2>1. UNCHANGED <<power, handlers, session, history>>
      BY <1>4 DEF Fails
    <2>2. opc' = [opc EXCEPT ![o] = "idle"]
      BY <1>1, <1>4 DEF IInv, HostOK
    <2>3. UNCHANGED <<wanted, overlapped, newest>>
      BY <2>1 DEF handlers, history
    <2>4. ShellOK' /\ ShellSound'
      BY <1>1, <2>2, <2>3 DEF IInv, HostOK, ShellOK, ShellSound
    <2>5. \A p \in Opener : overlapped = {} =>
               Torn \notin {shell'[p].image, shell'[p].hosts, shell'[p].token}
      BY <1>1 DEF IInv, NothingTorn
    <2> QED BY <1>1, <1>2, <2>1, <2>2, <2>4, <2>5, CommandKeeps
  <1> QED BY <1>3, <1>4

\* The guest ends by itself; who waits for an answer goes on waiting.
LEMMA VmEndsHolds == ASSUME IInv, VmEnds PROVE IInv'
  <1>1. /\ PowerOff /\ opc' = [o \in Opener |-> IF lock = o THEN opc[o] ELSE "idle"]
        /\ power' = FALSE /\ UNCHANGED <<lock, config, request, booted, shell>>
    BY DEF VmEnds, PowerOff
  <1>2. HostOK'
    BY <1>1 DEF IInv, HostOK
  <1>3. \A o \in Opener : opc'[o] \in {opc[o], "idle"} /\ opc'[o] \notin Reading \cup {"open"}
    BY <1>1 DEF IInv, HostOK, Reading
  <1> QED BY <1>1, <1>2, <1>3, PowerOffKeeps

-----------------------------------------------------------------------------
\* Before anything happens there is no session and no request.
LEMMA InitHolds == Init => IInv
  <1> SUFFICES ASSUME Init PROVE IInv
    OBVIOUS
  <1>1. Running = {} /\ Unused = Handler
    BY DEF Init, Running, Unused
  <1>2. WorldOK /\ ShellOK
    BY DEF Init, WorldOK, ShellOK, NoShell
  <1>3. HostOK /\ RequestSound
    BY NoneAssumption DEF Init, HostOK, NoConfig, RequestSound, Reading
  <1>4. HandlersOK
    <2>1. hpc \in [Handler -> HandlerSteps]
      BY DEF Init, HandlerSteps
    <2>2. NoConfig \in [Optional \cup {"ssh-agent"} -> BOOLEAN]
      BY DEF NoConfig
    <2>3. wanted = [h \in Handler |-> NoConfig] /\ index = [h \in Handler |-> 1]
      BY DEF Init
    <2> QED BY <1>1, <2>1, <2>2, <2>3, FilesFacts DEF HandlersOK
  <1>5. FaultsOK /\ HistoryOK
    BY BoundAssumption, NoneAssumption DEF Init, FaultsOK, HistoryOK, Unused
  <1>6. PowerSound /\ Alone /\ ProgressSound
    BY <1>1 DEF Init, PowerSound, Alone, ProgressSound
  <1>7. OkSound /\ NothingTorn /\ RefusalsHaveReasons
    BY NoneAssumption DEF Init, OkSound, NothingTorn, RefusalsHaveReasons, NoShell
  <1>8. ShellSound
    BY DEF Init, ShellSound
  <1> QED BY <1>2, <1>3, <1>4, <1>5, <1>6, <1>7, <1>8 DEF IInv

\* Every step keeps the invariant.
LEMMA NextHolds == ASSUME IInv, [Next]_vars PROVE IInv'
  <1>1. ASSUME NEW o \in Opener, OpenerNext(o) PROVE IInv'
    <2>1. CASE Refused(o) \/ Timeout(o)
      BY <2>1, FailsHolds DEF Refused, Timeout
    <2> QED BY <1>1, <2>1, BeginHolds, SendHolds, AnsweredHolds, KillHolds, ReadImageHolds,
               ReadAgentHolds, ReadHostsHolds, ReadTokenHolds DEF OpenerNext
  <1>2. ASSUME NEW h \in Handler, HandlerNext(h) PROVE IInv'
    BY <1>2, RemoveSecretHolds, UnlinkHolds, CreateHolds, FillHolds, RenameHolds,
       SetEnabledHolds, HandlerFaultHolds DEF HandlerNext
  <1>3. CASE UNCHANGED vars
    <2>1. UNCHANGED <<handlers, session, history, power, lock, opc, config, request, booted, shell>>
      BY <1>3 DEF vars, host
    <2>2. UNCHANGED <<hpc, wanted, overlapped, newest>>
      BY <2>1 DEF handlers, history
    <2>3. (HostOK /\ ShellOK /\ PowerSound)'
      BY <2>1, <2>2 DEF IInv, HostOK, ShellOK, PowerSound, Running
    <2>4. RequestSound' /\ ShellSound'
      BY <2>1, <2>2 DEF IInv, RequestSound, ShellSound, Unused
    <2>5. \A p \in Opener : overlapped = {} =>
               Torn \notin {shell'[p].image, shell'[p].hosts, shell'[p].token}
      BY <2>1 DEF IInv, NothingTorn
    <2> QED BY <2>1, <2>3, <2>4, <2>5, HostKeeps
  <1> QED BY <1>1, <1>2, <1>3, VmEndsHolds DEF Next

\* IInv is an invariant, whatever the guest fails at and however commands end.
THEOREM Invariance == Spec => []IInv
  BY InitHolds, NextHolds, PTL DEF Spec

\* Types; and the state lock is held by the command that sends or waits, and by
\* no other (machine.rs open, start), and a guest that is off handles nothing.
THEOREM TypeCorrect == Spec => []TypeOK
  <1>1. IInv => TypeOK
    BY DEF IInv, TypeOK, WorldOK, HostOK, HandlersOK, HandlerSteps, FaultsOK, HistoryOK,
           PowerSound
  <1> QED BY <1>1, Invariance, PTL

\* A request that configure acknowledges has replaced the whole session: each of
\* its files is there, and no secret or agent that the host no longer offers.
THEOREM AcknowledgedComplete == Spec => []AcknowledgedIsComplete
  <1>1. ASSUME IInv PROVE AcknowledgedIsComplete
    <2> SUFFICES ASSUME NEW h \in Handler, hpc[h] = "ok", newest = h, h \notin overlapped
                 PROVE  IsSession(h)
      BY DEF AcknowledgedIsComplete
    <2>1. (\A f \in File : Done(h, f)) /\ enabled = wanted[h]["ssh-agent"]
      BY <1>1 DEF IInv, OkSound
    <2> QED BY <2>1, NoneAssumption DEF IsSession, Done, Seen
  <1> QED BY <1>1, Invariance, PTL

\* configure refuses a request for a failure or because of another request at the
\* same time, not because of the files that an earlier one left.
THEOREM RefusalsReasoned == Spec => []RefusalsHaveReasons
  <1>1. IInv => RefusalsHaveReasons
    BY DEF IInv
  <1> QED BY <1>1, Invariance, PTL

\* apply_environment and image_environment give a shell the session that open was
\* answered for, and never a half-written file.
THEOREM ShellsOfOneSession == Spec => []ShellHasOneSession
  <1>1. ASSUME IInv PROVE ShellHasOneSession
    <2> SUFFICES ASSUME NEW o \in Opener, opc[o] = "open"
                 PROVE
        /\ overlapped = {} => Torn \notin {shell[o].image, shell[o].hosts, shell[o].token}
        /\ newest = request[o] /\ request[o] \notin overlapped =>
             shell[o] = [image |-> request[o],
                         agent |-> wanted[request[o]]["ssh-agent"],
                         hosts |-> IF wanted[request[o]]["ssh-known-hosts"]
                                   THEN request[o] ELSE None,
                         token |-> IF wanted[request[o]]["gh-token"]
                                   THEN request[o] ELSE None]
      BY DEF ShellHasOneSession
    <2>1. overlapped = {} => Torn \notin {shell[o].image, shell[o].hosts, shell[o].token}
      BY <1>1 DEF IInv, NothingTorn
    <2>2. shell[o] = [image |-> shell[o].image, agent |-> shell[o].agent,
                      hosts |-> shell[o].hosts, token |-> shell[o].token]
      BY <1>1 DEF IInv, ShellOK
    <2> QED BY <1>1, <2>1, <2>2 DEF IInv, ShellSound
  <1> QED BY <1>1, Invariance, PTL

=============================================================================

---------------------------- MODULE GuestSession ----------------------------
(***************************************************************************)
(* The session of a machine: what "spawnr start" and "open" send with      *)
(* ConfigureSession (machine.rs), how the agent's handler threads write it *)
(* to the session tmpfs (session.rs, lib.rs, agent_proxy.rs), and what the *)
(* shells that are opened get to read of it.                               *)
(*                                                                         *)
(* The host holds the state lock while it waits for the answer, at most    *)
(* five seconds; the handler knows nothing of either.  A value is the      *)
(* handler that wrote it; a file is torn while it is created and not yet   *)
(* written.  Left out: ownership and modes, validation of the values.      *)
(***************************************************************************)
EXTENDS Naturals, Sequences, FiniteSets

CONSTANTS
  Opener,      \* host commands: start, open
  Handler,     \* bound: the ConfigureSession requests that are ever sent
  Config,      \* sessions a host may have to offer
  None, Torn,
  Baked,       \* a GH_TOKEN in the image's own environment
  MaxFaults    \* bound: I/O failures in the guest

\* In the order in which configure writes them; a config says of the optional
\* ones and of the SSH agent whether the host has any.
Files == <<"gitconfig", "gh-token", "ssh-known-hosts", "image-env0">>
Optional == {"gh-token", "ssh-known-hosts"}
File == {Files[i] : i \in DOMAIN Files}

ASSUME ConfigAssumption == Config \subseteq [Optional \cup {"ssh-agent"} -> BOOLEAN]
ASSUME BoundAssumption == MaxFaults \in Nat
ASSUME NoneAssumption ==
    /\ None \notin Opener \cup Handler
    /\ Torn \notin Handler /\ Baked \notin Handler
    /\ None # Torn /\ None # Baked /\ Torn # Baked

VARIABLES
  power,      \* the machine runs
  lock,       \* the opener holding the state lock
  opc,        \* [Opener -> the next step]
  config,     \* [Opener -> the session it collected from the host]
  request,    \* [Opener -> the handler of its request]
  booted,     \* [Opener -> it booted the machine]
  hpc,        \* [Handler -> the next step]
  index,      \* [Handler -> the file it is at]
  wanted,     \* [Handler -> the session it was sent]
  path,       \* [File -> the handler whose file is in place, or None]
  temp,       \* [File -> the handler whose file ".<name>.tmp" is, or None]
  filled,     \* written files, as <<handler, file>>
  proxy,      \* the SSH-agent proxy: "none", "listening", "dead"
  enabled,    \* Proxy.enabled
  shell,      \* [Opener -> what its shell has read so far]
  faults,     \* counter, for the bound
  overlapped, \* history: handlers that ran while another did
  broken,     \* history: handlers that met an I/O failure
  newest      \* history: the handler that began last

host == <<lock, opc, config, request, booted>>
handlers == <<hpc, index, wanted>>
session == <<path, temp, filled, proxy, enabled>>
history == <<faults, overlapped, broken, newest>>
vars == <<power, host, handlers, session, shell, history>>

Unused == {h \in Handler : hpc[h] = "unused"}
Running == {h \in Handler : hpc[h] \notin {"unused", "ok", "err", "gone"}}
Reading == {"read_image", "read_agent", "read_hosts", "read_token"}
NoShell == [image |-> None, agent |-> FALSE, hosts |-> None, token |-> None]
NoConfig == [item \in Optional \cup {"ssh-agent"} |-> FALSE]

Init ==
    /\ power = FALSE
    /\ lock = None
    /\ opc = [o \in Opener |-> "idle"]
    /\ config = [o \in Opener |-> NoConfig]
    /\ request = [o \in Opener |-> None]
    /\ booted = [o \in Opener |-> FALSE]
    /\ hpc = [h \in Handler |-> "unused"]
    /\ index = [h \in Handler |-> 1]
    /\ wanted = [h \in Handler |-> NoConfig]
    /\ path = [f \in File |-> None]
    /\ temp = [f \in File |-> None]
    /\ filled = {}
    /\ proxy = "none" /\ enabled = FALSE
    /\ shell = [o \in Opener |-> NoShell]
    /\ faults = 0
    /\ overlapped = {} /\ broken = {} /\ newest = None

-----------------------------------------------------------------------------
(* The guest: one thread per request. *)

Goto(h, step) == hpc' = [hpc EXCEPT ![h] = step]
FileOf(h) == Files[index[h]]
Wants(h, f) == f \in Optional => wanted[h][f]

\* On to the next file; after the last one, to the proxy.
NextFile(h) ==
    IF index[h] = Len(Files)
    THEN Goto(h, "proxy") /\ UNCHANGED index
    ELSE Goto(h, "unlink") /\ index' = [index EXCEPT ![h] = @ + 1]

\* A slip: a secret that is not offered any more stays.
RemoveNothing(h) ==
    /\ hpc[h] = "unlink" /\ ~Wants(h, FileOf(h))
    /\ NextFile(h)
    /\ UNCHANGED <<power, host, wanted, session, shell, history>>

\* replace_secret with nothing to put there.
RemoveSecret(h) ==
    /\ hpc[h] = "unlink" /\ ~Wants(h, FileOf(h))
    /\ path' = [path EXCEPT ![FileOf(h)] = None]
    /\ NextFile(h)
    /\ UNCHANGED <<power, host, wanted, temp, filled, proxy, enabled, shell, history>>

\* A slip: a temporary file that an earlier failure left is not removed.
UnlinkNothing(h) ==
    /\ hpc[h] = "unlink" /\ Wants(h, FileOf(h))
    /\ Goto(h, "create")
    /\ UNCHANGED <<power, host, index, wanted, session, shell, history>>

\* write_private, in four steps, with a temporary name all handlers share.
Unlink(h) ==
    /\ hpc[h] = "unlink" /\ Wants(h, FileOf(h))
    /\ temp' = [temp EXCEPT ![FileOf(h)] = None]
    /\ Goto(h, "create")
    /\ UNCHANGED <<power, host, index, wanted, path, filled, proxy, enabled, shell,
                   history>>

\* A slip: the file is created under its final name.
CreateInPlace(h) ==
    /\ hpc[h] = "create"
    /\ path' = [path EXCEPT ![FileOf(h)] = h]
    /\ temp' = [temp EXCEPT ![FileOf(h)] = h]
    /\ Goto(h, "fill")
    /\ UNCHANGED <<power, host, index, wanted, filled, proxy, enabled, shell, history>>

\* create_new: fails when another handler has created the name by now.
Create(h) ==
    /\ hpc[h] = "create"
    /\ IF temp[FileOf(h)] = None
       THEN temp' = [temp EXCEPT ![FileOf(h)] = h] /\ Goto(h, "fill")
       ELSE Goto(h, "err") /\ UNCHANGED temp
    /\ UNCHANGED <<power, host, index, wanted, path, filled, proxy, enabled, shell,
                   history>>

Fill(h) ==
    /\ hpc[h] = "fill"
    /\ filled' = filled \cup {<<h, FileOf(h)>>}
    /\ Goto(h, "rename")
    /\ UNCHANGED <<power, host, index, wanted, path, temp, proxy, enabled, shell,
                   history>>

\* rename: installs whatever the name stands for, or fails when it is gone.
Rename(h) ==
    LET f == FileOf(h)
    IN /\ hpc[h] = "rename"
       /\ IF temp[f] = None
          THEN Goto(h, "err") /\ UNCHANGED <<index, path, temp>>
          ELSE /\ path' = [path EXCEPT ![f] = temp[f]]
               /\ temp' = [temp EXCEPT ![f] = None]
               /\ NextFile(h)
       /\ UNCHANGED <<power, host, wanted, filled, proxy, enabled, shell, history>>

\* set_enabled, under its own lock; the first one starts the proxy.
SetEnabled(h) ==
    /\ hpc[h] = "proxy"
    /\ proxy' = IF proxy = "none" THEN "listening" ELSE proxy
    /\ enabled' = wanted[h]["ssh-agent"]
    /\ Goto(h, "ok")
    /\ UNCHANGED <<power, host, index, wanted, path, temp, filled, shell, history>>

\* A step fails and the handler answers with the error.  When the thread of
\* the proxy cannot be spawned, PROXY is set already and nobody listens.
HandlerFault(h) ==
    /\ h \in Running
    /\ hpc[h] = "proxy" => proxy = "none"
    /\ faults < MaxFaults /\ faults' = faults + 1
    /\ broken' = broken \cup {h}
    /\ Goto(h, "err")
    /\ IF hpc[h] = "proxy"
       THEN proxy' \in {"none", "dead"} ELSE UNCHANGED proxy
    /\ UNCHANGED <<power, host, index, wanted, path, temp, filled, enabled, shell,
                   overlapped, newest>>

HandlerNext(h) ==
    \/ RemoveSecret(h) \/ Unlink(h) \/ Create(h) \/ Fill(h) \/ Rename(h)
    \/ SetEnabled(h) \/ HandlerFault(h)

-----------------------------------------------------------------------------
(* The host. *)

\* The session tmpfs, the agent and the shells end with the VM.
PowerOff ==
    /\ power' = FALSE
    /\ hpc' = [h \in Handler |-> IF h \in Running THEN "gone" ELSE hpc[h]]
    /\ path' = [f \in File |-> None] /\ temp' = [f \in File |-> None]
    /\ filled' = {} /\ proxy' = "none" /\ enabled' = FALSE
    /\ newest' = None
    /\ UNCHANGED <<index, wanted, faults, overlapped, broken>>

\* HostCredentials::collect: whatever the host has to offer by now.
Collect(o) == \E c \in Config : config' = [config EXCEPT ![o] = c]

\* start or open: takes the state lock, collects the credentials there are
\* now, and boots the machine unless it runs.
Begin(o) ==
    /\ opc[o] = "idle" /\ lock = None /\ Unused # {}
    /\ lock' = o
    /\ Collect(o)
    /\ booted' = [booted EXCEPT ![o] = ~power]
    /\ power' = TRUE
    /\ opc' = [opc EXCEPT ![o] = "send"]
    /\ shell' = [shell EXCEPT ![o] = NoShell]
    /\ UNCHANGED <<request, handlers, session, history>>

\* The request reaches the agent, which gives it a thread.
Send(o) ==
    /\ opc[o] = "send" /\ power
    /\ \E h \in Unused :
         /\ Goto(h, "unlink")
         /\ wanted' = [wanted EXCEPT ![h] = config[o]]
         /\ request' = [request EXCEPT ![o] = h]
         /\ newest' = h
         /\ overlapped' = IF Running = {} THEN overlapped
                          ELSE overlapped \cup Running \cup {h}
    /\ opc' = [opc EXCEPT ![o] = "wait"]
    /\ UNCHANGED <<power, lock, config, booted, index, session, shell, faults, broken>>

\* Ok arrives: the lock is dropped; open goes on to its shell, if the machine
\* still runs.
Answered(o) ==
    /\ opc[o] = "wait" /\ hpc[request[o]] = "ok"
    /\ lock' = None
    /\ \E next \in {"idle"} \cup (IF power THEN {"read_image"} ELSE {}) :
         opc' = [opc EXCEPT ![o] = next]
    /\ UNCHANGED <<power, config, request, booted, handlers, session, shell, history>>

\* A command that fails stops the machine if it was the one that booted it.
Fails(o) ==
    /\ opc' = [p \in Opener |-> IF p = o \/ booted[o] THEN "idle" ELSE opc[p]]
    /\ lock' = None
    /\ IF booted[o] THEN PowerOff ELSE UNCHANGED <<power, handlers, session, history>>
    /\ UNCHANGED <<config, request, booted, shell>>

\* No connection, a broken one, or Error.
Refused(o) ==
    /\ \/ opc[o] = "send" /\ ~power
       \/ opc[o] = "wait" /\ hpc[request[o]] \in {"err", "gone"}
    /\ Fails(o)

\* A slip: the request has a deadline for its write only.
TimeoutOnWrite(o) == opc[o] = "send" /\ Fails(o)

\* The handshake that opens the connection, or the answer, is not there within five
\* seconds.
Timeout(o) ==
    /\ opc[o] = "send" \/ (opc[o] = "wait" /\ request[o] \in Running)
    /\ Fails(o)

\* The command is killed, and the kernel drops its lock.
Kill(o) ==
    /\ opc[o] \in {"send", "wait"}
    /\ lock' = None
    /\ opc' = [opc EXCEPT ![o] = "idle"]
    /\ UNCHANGED <<power, config, request, booted, handlers, session, shell, history>>

\* Another command stops the machine, or the guest powers itself off.
VmEnds ==
    /\ power
    /\ PowerOff
    /\ opc' = [o \in Opener |-> IF lock = o THEN opc[o] ELSE "idle"]
    /\ UNCHANGED <<lock, config, request, booted, shell>>

-----------------------------------------------------------------------------
(* The environment of a shell, put together in the guest without a lock. *)

\* What a reader finds at a name.
Seen(f) ==
    IF path[f] = None THEN None
    ELSE IF <<path[f], f>> \in filled THEN path[f] ELSE Torn

Reads(o, step, item, value, next) ==
    /\ opc[o] = step
    /\ shell' = [shell EXCEPT ![o][item] = value]
    /\ opc' = [opc EXCEPT ![o] = next]
    /\ UNCHANGED <<power, lock, config, request, booted, handlers, session, history>>

\* image_environment, which may bring a token of the image's own.
ReadImage(o) ==
    /\ opc[o] = "read_image"
    /\ shell' = [shell EXCEPT ![o].image = Seen("image-env0"), ![o].token = Baked]
    /\ opc' = [opc EXCEPT ![o] = "read_agent"]
    /\ UNCHANGED <<power, lock, config, request, booted, handlers, session, history>>

\* apply_environment: SSH_AUTH_SOCK, GIT_SSH_COMMAND and GH_TOKEN are set from
\* the session or removed.
ReadAgent(o) == Reads(o, "read_agent", "agent", proxy # "none" /\ enabled, "read_hosts")
ReadHosts(o) == Reads(o, "read_hosts", "hosts", Seen("ssh-known-hosts"), "read_token")

ReadToken(o) == Reads(o, "read_token", "token", Seen("gh-token"), "open")

Exit(o) ==
    /\ opc[o] = "open"
    /\ opc' = [opc EXCEPT ![o] = "idle"]
    /\ UNCHANGED <<power, lock, config, request, booted, handlers, session, shell, history>>

OpenerNext(o) ==
    \/ Begin(o) \/ Send(o) \/ Answered(o) \/ Refused(o) \/ Timeout(o) \/ Kill(o)
    \/ ReadImage(o) \/ ReadAgent(o) \/ ReadHosts(o) \/ ReadToken(o) \/ Exit(o)

Next ==
    \/ \E o \in Opener : OpenerNext(o)
    \/ \E h \in Handler : HandlerNext(h)
    \/ VmEnds

Spec == Init /\ [][Next]_vars

\* The host's steps are taken, five seconds pass; nothing is assumed of the
\* guest, which may not accept a connection and whose handlers may hang.
Fairness ==
    \A o \in Opener :
        WF_vars(Send(o) \/ Answered(o) \/ Refused(o) \/ Timeout(o))

FairSpec == Spec /\ Fairness

-----------------------------------------------------------------------------
(* Properties. *)

TypeOK ==
    /\ power \in BOOLEAN
    /\ lock \in Opener \cup {None}
    /\ opc \in [Opener -> {"idle", "send", "wait", "open"} \cup Reading]
    /\ config \in [Opener -> [Optional \cup {"ssh-agent"} -> BOOLEAN]]
    /\ request \in [Opener -> Handler \cup {None}]
    /\ booted \in [Opener -> BOOLEAN]
    /\ hpc \in [Handler -> {"unused", "unlink", "create", "fill", "rename", "proxy",
                            "ok", "err", "gone"}]
    /\ index \in [Handler -> DOMAIN Files]
    /\ wanted \in [Handler -> [Optional \cup {"ssh-agent"} -> BOOLEAN]]
    /\ path \in [File -> Handler \cup {None}] /\ temp \in [File -> Handler \cup {None}]
    /\ filled \subseteq Handler \X File
    /\ proxy \in {"none", "listening", "dead"} /\ enabled \in BOOLEAN
    /\ faults \in 0 .. MaxFaults
    /\ overlapped \subseteq Handler /\ broken \subseteq Handler
    /\ newest \in Handler \cup {None}
    /\ \A o \in Opener : lock = o <=> opc[o] \in {"send", "wait"}
    /\ ~power => Running = {} /\ \A o \in Opener : opc[o] \in {"idle", "send", "wait"}

\* The session in the tmpfs is exactly what handler h was sent.
IsSession(h) ==
    /\ \A f \in File : Seen(f) = IF Wants(h, f) THEN h ELSE None
    /\ enabled = wanted[h]["ssh-agent"]

\* An acknowledged session is complete, and nothing of an earlier one is left
\* in it: no token, known hosts or agent that the host no longer offers.  This
\* holds as long as no other request was being handled at the same time.
AcknowledgedIsComplete ==
    \A h \in Handler :
        hpc[h] = "ok" /\ newest = h /\ h \notin overlapped => IsSession(h)

\* The same as the user meets it: once open has its answer and until another
\* request is sent, the session is the one it sent (docs/cli.md, "refreshes
\* session configuration").
OpenHasItsSession ==
    \A o \in Opener :
        opc[o] \in Reading \cup {"open"} /\ newest = request[o]
            => IsSession(request[o])

\* A request fails for a reason, never because of what an earlier one that
\* failed half-way has left in the tmpfs.
RefusalsHaveReasons ==
    \A h \in Handler : hpc[h] = "err" => h \in broken \cup overlapped

\* What a shell gets is of the one session its open was answered for, the
\* absent capabilities included ("removing conflicting image values when a
\* capability is absent"), unless another request came while it was read; then
\* it may be of both, but never of a half-written file.  Two requests that are
\* handled at the same time, and share the temporary names, are excepted.
ShellHasOneSession ==
    \A o \in Opener :
        LET h == request[o]
        IN opc[o] = "open" =>
             /\ overlapped = {} =>
                  Torn \notin {shell[o].image, shell[o].hosts, shell[o].token}
             /\ newest = h /\ h \notin overlapped =>
                  shell[o] = [image |-> h,
                              agent |-> wanted[h]["ssh-agent"],
                              hosts |-> IF wanted[h]["ssh-known-hosts"] THEN h ELSE None,
                              token |-> IF wanted[h]["gh-token"] THEN h ELSE None]

\* The state lock is given back though the guest may never answer the request, and
\* before a shell that its user may never leave (configure_session, open).
LockReturned == lock # None ~> lock = None
=============================================================================

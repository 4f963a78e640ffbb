------------------------------- MODULE GuestBoot -------------------------------
(***************************************************************************)
(* The guest from power-on to service: spawnr-agent as PID 1 prepares the  *)
(* mounts, the account, sudo, the workspace, the session directory and the *)
(* network, and then serves (main.rs run, lib.rs initialize and serve).    *)
(*                                                                         *)
(* It does so at every boot, on an environment disk that keeps what earlier*)
(* boots did, finished or not, and what its user did to it.  An agent that *)
(* fails ends, the kernel panics, and "panic=1" boots the guest again      *)
(* (vmm.rs).  Left out: which mount or which command fails, and the names. *)
(***************************************************************************)
EXTENDS Naturals

CONSTANTS MaxFaults   \* bound: steps that fail by themselves, a natural number

VARIABLES
  vm,        \* "off", "booting", "serving", "panic"
  step,      \* of the boot: what PID 1 does next
  account,   \* the environment disk: the account "dev": "none", "entry", "home"
  temp,      \*   the temporary file of the sudo policy is there
  policy,    \*   the sudo policy is there
  sudo,      \*   the image or its user installed /usr/bin/sudo
  shim,      \*   /usr/local/bin/sudo: "none", "link", "file"
  mounted,   \* the mounts that this boot has made
  reaping,   \* the orphan reaper runs
  faults,    \* counter
  excused    \* history: a step of this boot failed by itself

disk == <<account, temp, policy, sudo, shim>>
boot == <<vm, step, disk, mounted, reaping, faults, excused>>

Steps == {"pseudo", "account", "useradd", "home", "clear", "create", "rename", "sudo",
          "link", "workspace", "session", "network", "reaper", "serve"}

\* An environment as OCI images and `spawnr publish` make them.
Init ==
    /\ vm = "off" /\ step = "pseudo"
    /\ account \in {"none", "home"} /\ temp = FALSE /\ policy \in BOOLEAN
    /\ sudo \in BOOLEAN /\ shim \in {"none", "link", "file"}
    /\ mounted = {} /\ reaping = FALSE /\ faults = 0 /\ excused = FALSE

-----------------------------------------------------------------------------
At(s) == vm = "booting" /\ step = s
Then(s) == step' = s /\ UNCHANGED <<vm, excused>>

\* run returns an error: PID 1 exits, and the kernel panics.
Panic == vm' = "panic" /\ UNCHANGED step

\* A step that fails by itself: a device, a tool, the network, the disk.
Fails ==
    /\ faults < MaxFaults /\ faults' = faults + 1
    /\ Panic /\ excused' = TRUE
    /\ UNCHANGED <<disk, mounted, reaping>>

\* Command::status waits for a child that is not registered with the reaper; if
\* the reaper runs it may have the status, and then waiting fails.
Loses == reaping /\ Panic /\ UNCHANGED <<disk, mounted, reaping, faults, excused>>

Mounts(s, m, next) ==
    /\ At(s)
    /\ \/ mounted' = mounted \cup {m} /\ Then(next) /\ UNCHANGED <<disk, reaping, faults>>
       \/ Fails

\* A slip: the reaper is started as early as there is a /proc for it.
PseudoReaping ==
    /\ At("pseudo")
    /\ \/ mounted' = mounted \cup {"pseudo"} /\ reaping' = TRUE /\ Then("account")
          /\ UNCHANGED <<disk, faults>>
       \/ Fails

\* initialize_pid_one: /proc, /sys, /dev, /run, /dev/pts, as far as the
\* initramfs has not mounted them.
Pseudo == Mounts("pseudo", "pseudo", "account")

\* ensure_development_user: the account is looked up.
Account ==
    /\ At("account")
    /\ \/ Then(IF account = "none" THEN "useradd" ELSE "clear")
          /\ UNCHANGED <<disk, mounted, reaping, faults>>
       \/ Fails

\* useradd --create-home: first the entry, then the directory.
UserAdd ==
    /\ At("useradd")
    /\ \/ account' = "entry" /\ Then("home")
          /\ UNCHANGED <<temp, policy, sudo, shim, mounted, reaping, faults>>
       \/ Fails \/ Loses

Home ==
    /\ At("home")
    /\ \/ account' = "home" /\ Then("clear")
          /\ UNCHANGED <<temp, policy, sudo, shim, mounted, reaping, faults>>
       \/ Fails \/ Loses

\* write_private: a leftover of the temporary file is removed.
Clear ==
    /\ At("clear")
    /\ temp' = FALSE /\ Then("create")
    /\ UNCHANGED <<account, policy, sudo, shim, mounted, reaping, faults>>

\* create_new, which a leftover would make fail; write_all, sync_all.
Create ==
    /\ At("create")
    /\ \/ ~temp /\ temp' = TRUE /\ Then("rename")
          /\ UNCHANGED <<account, policy, sudo, shim, mounted, reaping, faults>>
       \/ temp /\ Panic /\ UNCHANGED <<disk, mounted, reaping, faults, excused>>
       \/ /\ faults < MaxFaults /\ faults' = faults + 1
          /\ temp' \in {temp, TRUE} /\ Panic /\ excused' = TRUE
          /\ UNCHANGED <<account, policy, sudo, shim, mounted, reaping>>

Rename ==
    /\ At("rename")
    /\ \/ policy' = TRUE /\ temp' = FALSE /\ Then("sudo")
          /\ UNCHANGED <<account, sudo, shim, mounted, reaping, faults>>
       \/ Fails

\* install_sudo_policy, install_sudo_shim: only without /usr/bin/sudo.  A link
\* is replaced; anything else is refused, and the guest does not come up.
Sudo ==
    /\ At("sudo")
    /\ \/ sudo /\ Then("workspace") /\ UNCHANGED <<disk, mounted, reaping, faults>>
       \/ ~sudo /\ shim # "file" /\ shim' = "none" /\ Then("link")
          /\ UNCHANGED <<account, temp, policy, sudo, mounted, reaping, faults>>
       \/ ~sudo /\ shim = "file" /\ Panic
          /\ UNCHANGED <<disk, mounted, reaping, faults, excused>>
       \/ Fails

Link ==
    /\ At("link")
    /\ \/ shim = "none" /\ shim' = "link" /\ Then("workspace")
          /\ UNCHANGED <<account, temp, policy, sudo, mounted, reaping, faults>>
       \/ shim # "none" /\ Panic /\ UNCHANGED <<disk, mounted, reaping, faults, excused>>
       \/ Fails

\* ensure_workspace_mounted: the device is found by its label, with a command,
\* mounted, and checked to be another one than the root's.
Workspace == Mounts("workspace", "workspace", "session") \/ (At("workspace") /\ Loses)

\* ensure_session_tmpfs
Session == Mounts("session", "session", "network")

\* configure_network: ip and udhcpc.
Network ==
    /\ At("network")
    /\ \/ Then("reaper") /\ UNCHANGED <<disk, mounted, reaping, faults>>
       \/ Fails \/ Loses

Reaper ==
    /\ At("reaper")
    /\ \/ reaping' = TRUE /\ Then("serve") /\ UNCHANGED <<disk, mounted, faults>>
       \/ Fails

\* serve looks at the account and both mounts again, and listens.
Serve ==
    /\ At("serve")
    /\ \/ /\ account # "none" /\ {"workspace", "session"} \subseteq mounted
          /\ vm' = "serving" /\ UNCHANGED <<step, disk, mounted, reaping, faults, excused>>
       \/ Fails

-----------------------------------------------------------------------------
(* Power, the kernel and the user. *)

Fresh == step' = "pseudo" /\ mounted' = {} /\ reaping' = FALSE /\ excused' = FALSE

PowerOn ==
    /\ vm = "off" /\ vm' = "booting" /\ Fresh
    /\ UNCHANGED <<disk, faults>>

Reboot ==
    /\ vm = "panic" /\ vm' = "booting" /\ Fresh
    /\ UNCHANGED <<disk, faults>>

\* accept fails, or no thread can be had for a connection: serve returns, and
\* with it go all sessions.
ServeFails == vm = "serving" /\ Fails

\* The host stops the VM, the VM crashes, or a guest that does not become
\* healthy in 30 s is given up.
PowerCut ==
    /\ vm # "off" /\ vm' = "off" /\ Fresh
    /\ UNCHANGED <<disk, faults>>

\* The user of the environment installs the real sudo, or removes it, or puts a
\* program of that name where the shim would be.
User ==
    /\ vm = "serving"
    /\ \/ sudo' = ~sudo /\ UNCHANGED shim
       \/ shim' \in {"none", "file"} /\ UNCHANGED sudo
    /\ UNCHANGED <<vm, step, account, temp, policy, mounted, reaping, faults, excused>>

-----------------------------------------------------------------------------
BootNext ==
    \/ Pseudo \/ Account \/ UserAdd \/ Home \/ Clear \/ Create \/ Rename
    \/ Sudo \/ Link \/ Workspace \/ Session \/ Network \/ Reaper \/ Serve

Next == BootNext \/ PowerOn \/ Reboot \/ ServeFails \/ PowerCut \/ User

Spec == Init /\ [][Next]_boot

-----------------------------------------------------------------------------
(* Properties. *)

TypeOK ==
    /\ vm \in {"off", "booting", "serving", "panic"} /\ step \in Steps
    /\ account \in {"none", "entry", "home"} /\ temp \in BOOLEAN /\ policy \in BOOLEAN
    /\ sudo \in BOOLEAN /\ shim \in {"none", "link", "file"}
    /\ mounted \subseteq {"pseudo", "workspace", "session"} /\ reaping \in BOOLEAN
    /\ faults \in 0 .. MaxFaults /\ excused \in BOOLEAN

\* A boot fails only when one of its steps fails by itself, or because somebody
\* put a file where the shim goes.  What earlier boots left, whether they were
\* cut off or not, is no reason, nor is the agent's own reaper.
FailsForAReason == vm = "panic" => excused \/ (shim = "file" /\ ~sudo)

=============================================================================

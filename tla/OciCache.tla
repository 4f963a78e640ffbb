------------------------------ MODULE OciCache ------------------------------
(***************************************************************************)
(* The cache of OCI environments: prepare_environment and build_cache of   *)
(* oci.rs, run by creators (spawnr init, clone) while tags move, the guest *)
(* agent is replaced, steps fail and creators are killed; and the two uses *)
(* of a machine's base, machine_config_env and publish_machine_environment.*)
(*                                                                         *)
(* An image is its manifest digest.  The image environment (Config.Env) is *)
(* identified by the digest of the image it was read from, and the guest   *)
(* integration by the agent.  Creators run concurrently here, which is     *)
(* more than the CLI does (it holds the state lock meanwhile): the cache   *)
(* has a lock of its own, and this module is about that lock.  Left out:   *)
(* temporary directories of killed creators, which have unique names.      *)
(***************************************************************************)
EXTENDS Naturals, FiniteSets

CONSTANTS
  Creator, Digest, Agent,
  Reference,        \* image references, e.g. docker://host/name:tag
  LocalReference,   \* those that name a tag of a local oci: layout
  Derived,          \* [Digest -> Digest]: what publishing makes of a base
  None,
  MaxCreates,       \* bound: machines that creators set out to create
  MaxMoves,         \* bound: times a tag moves, publishing not counted
  MaxPublishes,     \* bound: images published
  MaxSwaps,         \* bound: times the agent's file is replaced
  MaxFaults,        \* bound: failed steps and killed creators
  MaxDamages        \* bound: times somebody damages or removes an entry

ASSUME ReferenceAssumption == LocalReference \subseteq Reference
ASSUME DerivedAssumption == Derived \in [Digest -> Digest]
ASSUME NoneAssumption ==
    None \notin Creator \cup Digest \cup Agent \cup Reference
ASSUME BoundAssumption ==
    /\ MaxCreates \in Nat /\ MaxMoves \in Nat /\ MaxPublishes \in Nat
    /\ MaxSwaps \in Nat /\ MaxFaults \in Nat /\ MaxDamages \in Nat

VARIABLES
  tag,        \* [Reference -> Digest]: where each tag points
  agent,      \* the agent in the file the creators were told to use
  cache,      \* [Key -> Entry or None]: images/<key>
  holder,     \* [Key -> Creator or None]: who holds images/<key>.lock
  pc,         \* [Creator -> the next step]
  job,        \* [Creator -> what it creates: reference, digest, key]
  temporary,  \* [Creator -> the entry it is building, or None]
  outcome,    \* [Creator -> "none" | "ok" | "err" | "killed"]
  machines,   \* the machines created, with what their disk was cloned from
  session,    \* the machine started last, with its image environment
  published,  \* history: bases of published machines, and of their images
  used,       \* counters for the bounds
  excused,    \* history: creators that met a failure or whose local tag moved
  mixed,      \* history: keys built while the agent was replaced
  damaged     \* history: keys whose entry somebody damaged

vars == <<tag, agent, cache, holder, pc, job, temporary, outcome, machines,
          session, published, used, excused, mixed, damaged>>
world == <<tag, agent, machines, session, published>>
history == <<used, excused, mixed, damaged>>

\* integration_cache_key: the version and the schema are those of the CLI.
Key == Digest \X Agent

CacheKey(digest, integration) == <<digest, integration>>

\* A cache entry: layout/, environment.raw (rootfs, agent; "disk" says it is
\* a valid ext4 image), and the metadata (env, digest, key; "meta": readable).
Entry == [layout : Digest, rootfs : Digest \cup {None}, agent : Agent \cup {None},
          env : Digest \cup {None}, digest : Digest, key : Key,
          disk : BOOLEAN, meta : BOOLEAN]

Machine == [reference : Reference, digest : Digest, key : Key, root : Digest]

Bounds == [creates |-> MaxCreates, moves |-> MaxMoves, publishes |-> MaxPublishes,
           swaps |-> MaxSwaps, faults |-> MaxFaults, damages |-> MaxDamages]
Spend(what) == /\ used[what] < Bounds[what]
               /\ used' = [used EXCEPT ![what] = @ + 1]

Building == {"pull", "verify", "provision", "install", "discard"}
Locked == Building \cup {"relook", "sync"}
Keyed == {"look", "lock", "relook", "pull", "verify", "provision"}
Unlocked == {"resolve", "identify", "look", "lock", "record", "commit"}

Init ==
    /\ tag \in [Reference -> Digest]
    /\ agent \in Agent
    /\ cache = [k \in Key |-> None]
    /\ holder = [k \in Key |-> None]
    /\ pc = [c \in Creator |-> "idle"]
    /\ job = [c \in Creator |-> [reference |-> None, digest |-> None, key |-> None]]
    /\ temporary = [c \in Creator |-> None]
    /\ outcome = [c \in Creator |-> "none"]
    /\ machines = {}
    /\ session = None
    /\ published = {}
    /\ used = [what \in DOMAIN Bounds |-> 0]
    /\ excused = {}
    /\ mixed = {}
    /\ damaged = {}

-----------------------------------------------------------------------------
(* prepare_environment. *)

Goto(c, step) == pc' = [pc EXCEPT ![c] = step]
Release(c) == holder' = [k \in Key |-> IF holder[k] = c THEN None ELSE holder[k]]
Ends(c, how) == /\ Goto(c, "idle")
                /\ outcome' = [outcome EXCEPT ![c] = how]

\* "spawnr init" or "clone" of a reference.
Begin(c) ==
    /\ pc[c] = "idle"
    /\ Spend("creates")
    /\ \E r \in Reference :
         job' = [job EXCEPT ![c] = [reference |-> r, digest |-> None, key |-> None]]
    /\ Goto(c, "resolve")
    /\ outcome' = [outcome EXCEPT ![c] = "none"]
    /\ excused' = excused \ {c}
    /\ UNCHANGED <<world, cache, holder, temporary, mixed, damaged>>

\* skopeo inspect: the digest the tag points to now.
Resolve(c) ==
    /\ pc[c] = "resolve"
    /\ job' = [job EXCEPT ![c].digest = tag[job[c].reference]]
    /\ Goto(c, "identify")
    /\ UNCHANGED <<world, history, cache, holder, temporary, outcome>>

\* The agent's file is hashed into the key.
Identify(c) ==
    /\ pc[c] = "identify"
    /\ job' = [job EXCEPT ![c].key = CacheKey(job[c].digest, agent)]
    /\ Goto(c, "look")
    /\ UNCHANGED <<world, history, cache, holder, temporary, outcome>>

\* valid_cache
Usable(key, digest) ==
    /\ cache[key] # None
    /\ cache[key].disk /\ cache[key].meta /\ cache[key].env # None
    /\ cache[key].digest = digest /\ cache[key].key = key

Hit(c) == Usable(job[c].key, job[c].digest)

Look(c) ==
    /\ pc[c] = "look"
    /\ Goto(c, IF Hit(c) THEN "record" ELSE "lock")
    /\ UNCHANGED <<world, history, cache, holder, job, temporary, outcome>>

\* CacheLock::acquire, an flock that waits.
Acquire(c) ==
    /\ pc[c] = "lock"
    /\ holder[job[c].key] = None
    /\ holder' = [holder EXCEPT ![job[c].key] = c]
    /\ Goto(c, "relook")
    /\ UNCHANGED <<world, history, cache, job, temporary, outcome>>

\* A slip: no second look under the lock.
RelookMissing(c) ==
    /\ pc[c] = "relook"
    /\ \/ cache[job[c].key] # None /\ Ends(c, "err") /\ Release(c)
       \/ cache[job[c].key] = None /\ Goto(c, "pull") /\ UNCHANGED <<holder, outcome>>
    /\ UNCHANGED <<world, history, cache, job, temporary>>

\* Another creator may have built the entry while this one waited.  An entry
\* that exists and is not valid is never overwritten.
Relook(c) ==
    /\ pc[c] = "relook"
    /\ \/ Hit(c) /\ Goto(c, "record") /\ Release(c) /\ UNCHANGED outcome
       \/ ~Hit(c) /\ cache[job[c].key] # None /\ Ends(c, "err") /\ Release(c)
       \/ cache[job[c].key] = None /\ Goto(c, "pull") /\ UNCHANGED <<holder, outcome>>
    /\ UNCHANGED <<world, history, cache, job, temporary>>

\* skopeo copy into the temporary entry: a registry pull is pinned to the
\* digest, a local layout is copied by tag.
Pull(c) ==
    /\ pc[c] = "pull"
    /\ LET image == IF job[c].reference \in LocalReference
                    THEN tag[job[c].reference] ELSE job[c].digest
       IN temporary' = [temporary EXCEPT ![c] =
              [layout |-> image, rootfs |-> None, agent |-> None, env |-> None,
               digest |-> job[c].digest, key |-> job[c].key,
               disk |-> FALSE, meta |-> FALSE]]
    /\ Goto(c, "verify")
    /\ UNCHANGED <<world, history, cache, holder, job, outcome>>

\* A slip: the image environment is read from the tag.
VerifyTag(c) ==
    /\ pc[c] = "verify"
    /\ IF temporary[c].layout # job[c].digest
       THEN Goto(c, "discard") /\ UNCHANGED temporary
       ELSE /\ temporary' = [temporary EXCEPT ![c].env = tag[job[c].reference]]
            /\ Goto(c, "provision")
    /\ UNCHANGED <<world, history, cache, holder, job, outcome>>

\* The digest of a copied local layout is compared; the image environment is
\* read from the copy, never from the tag.
Verify(c) ==
    /\ pc[c] = "verify"
    /\ IF temporary[c].layout # job[c].digest
       THEN Goto(c, "discard") /\ UNCHANGED temporary
       ELSE /\ temporary' = [temporary EXCEPT ![c].env = temporary[c].layout]
            /\ Goto(c, "provision")
    /\ UNCHANGED <<world, history, cache, holder, job, outcome>>

\* umoci unpack, provision_rootfs (which copies the agent's file, whatever
\* that holds by now), mkfs.ext4, and last the metadata.
Provision(c) ==
    /\ pc[c] = "provision"
    /\ temporary' = [temporary EXCEPT ![c].rootfs = temporary[c].layout,
                                      ![c].agent = agent,
                                      ![c].disk = TRUE, ![c].meta = TRUE]
    /\ Goto(c, "install")
    /\ UNCHANGED <<world, history, cache, holder, job, outcome>>

\* rename(2), which cannot replace a directory that is not empty.
Install(c) ==
    /\ pc[c] = "install"
    /\ IF cache[job[c].key] = None
       THEN /\ cache' = [cache EXCEPT ![job[c].key] = temporary[c]]
            /\ Goto(c, "sync")
            /\ UNCHANGED <<holder, outcome>>
       ELSE Ends(c, "err") /\ Release(c) /\ UNCHANGED cache
    /\ temporary' = [temporary EXCEPT ![c] = None]
    /\ UNCHANGED <<world, history, job>>

Sync(c) ==
    /\ pc[c] = "sync"
    /\ Goto(c, "record")
    /\ Release(c)
    /\ UNCHANGED <<world, history, cache, job, temporary, outcome>>

\* A failed build removes the temporary entry, then the lock is dropped.
Discard(c) ==
    /\ pc[c] = "discard"
    /\ temporary' = [temporary EXCEPT ![c] = None]
    /\ Release(c)
    /\ Ends(c, "err")
    /\ UNCHANGED <<world, history, cache, job>>

\* prepared_metadata: the record gets the identity the metadata state.
Record(c) ==
    /\ pc[c] = "record"
    /\ LET entry == cache[job[c].key]
       IN job' = [job EXCEPT ![c].digest = entry.digest, ![c].key = entry.key]
    /\ Goto(c, "commit")
    /\ UNCHANGED <<world, history, cache, holder, temporary, outcome>>

\* commit_machine_storage clones the disk; the record is saved.
Commit(c) ==
    /\ pc[c] = "commit"
    /\ machines' = machines \cup
           {[reference |-> job[c].reference, digest |-> job[c].digest,
             key |-> job[c].key, root |-> cache[job[c].key].rootfs]}
    /\ Ends(c, "ok")
    /\ UNCHANGED <<tag, agent, session, published, history, cache, holder, job,
                   temporary>>

\* Any step may fail: a build that does goes on to Discard; before or after
\* it, the creator ends.  A rename that fails leaves the temporary entry.
Fault(c) ==
    /\ pc[c] \notin {"idle", "discard"}
    /\ Spend("faults")
    /\ excused' = excused \cup {c}
    /\ IF pc[c] \in {"pull", "verify", "provision"}
       THEN Goto(c, "discard") /\ UNCHANGED <<holder, temporary, outcome>>
       ELSE /\ Ends(c, "err")
            /\ Release(c)
            /\ temporary' = [temporary EXCEPT ![c] = None]
    /\ UNCHANGED <<world, mixed, damaged, cache, job>>

\* The creator is killed: the kernel drops its lock.
Kill(c) ==
    /\ pc[c] # "idle"
    /\ Spend("faults")
    /\ excused' = excused \cup {c}
    /\ Ends(c, "killed")
    /\ Release(c)
    /\ temporary' = [temporary EXCEPT ![c] = None]
    /\ UNCHANGED <<world, mixed, damaged, cache, job>>

CreatorNext(c) ==
    \/ Begin(c) \/ Resolve(c) \/ Identify(c) \/ Look(c) \/ Acquire(c) \/ Relook(c)
    \/ Pull(c) \/ Verify(c) \/ Provision(c) \/ Install(c) \/ Sync(c) \/ Discard(c)
    \/ Record(c) \/ Commit(c) \/ Fault(c) \/ Kill(c)

-----------------------------------------------------------------------------
(* What a machine's base is used for, and the world. *)

\* Both uses read the metadata of the entry that the record names.
BaseMetadata(m) ==
    /\ cache[m.key] # None
    /\ cache[m.key].meta
    /\ cache[m.key].digest = m.digest

\* A slip: the metadata are not compared with the record.
StartUnchecked(m) ==
    /\ cache[m.key] # None /\ cache[m.key].meta
    /\ session' = [machine |-> m, env |-> cache[m.key].env]
    /\ UNCHANGED <<tag, agent, machines, published, history, cache, holder, pc,
                   job, temporary, outcome>>

\* machine_config_env, at every start.  A start it refuses changes nothing.
Start(m) ==
    /\ BaseMetadata(m)
    /\ cache[m.key].key = m.key
    /\ session' = [machine |-> m, env |-> cache[m.key].env]
    /\ UNCHANGED <<tag, agent, machines, published, history, cache, holder, pc,
                   job, temporary, outcome>>

\* A tag moves; only a local tag's move can fail a creator.
Retag(r, digest) ==
    LET watching == {c \in Creator : job[c].reference = r}
    IN /\ tag' = [tag EXCEPT ![r] = digest]
       /\ excused' = IF r \in LocalReference THEN excused \cup watching ELSE excused

\* publish_machine_environment: umoci repacks the machine's disk over a copy
\* of the base's layout, and skopeo pushes the result.
Publish(m, target) ==
    /\ BaseMetadata(m)
    /\ Spend("publishes")
    /\ Retag(target, Derived[cache[m.key].layout])
    /\ published' = published \cup {[root |-> m.root, base |-> cache[m.key].layout]}
    /\ UNCHANGED <<agent, machines, session, mixed, damaged, cache, holder, pc, job,
                   temporary, outcome>>

\* Somebody pushes an image.
MoveTag ==
    /\ Spend("moves")
    /\ \E r \in Reference : \E digest \in Digest \ {tag[r]} : Retag(r, digest)
    /\ UNCHANGED <<agent, machines, session, published, mixed, damaged, cache, holder, pc,
                   job, temporary, outcome>>

\* "spawnr setup" with a rebuilt runtime, or a rebuilt agent.
SwapAgent ==
    /\ Spend("swaps")
    /\ agent' \in Agent \ {agent}
    /\ mixed' = mixed \cup {job[c].key : c \in {c \in Creator : pc[c] \in Keyed}}
    /\ UNCHANGED <<tag, machines, session, published, excused, damaged, cache,
                   holder, pc, job, temporary, outcome>>

\* While no creator runs: a disk or metadata lost, metadata taken from another
\* entry, or the entry removed, as the "incomplete" message asks for.
Damage ==
    /\ \A c \in Creator : pc[c] = "idle"
    /\ Spend("damages")
    /\ \E k \in {k \in Key : cache[k] # None} :
         /\ \/ cache' = [cache EXCEPT ![k].disk = FALSE]
            \/ cache' = [cache EXCEPT ![k].meta = FALSE]
            \/ cache' = [cache EXCEPT ![k] = None]
            \/ \E other \in {other \in Key : cache[other] # None} :
                 cache' = [cache EXCEPT ![k].env = cache[other].env,
                                        ![k].digest = cache[other].digest,
                                        ![k].key = cache[other].key]
         /\ damaged' = damaged \cup {k}
    /\ UNCHANGED <<world, excused, mixed, holder, pc, job, temporary, outcome>>

Next ==
    \/ \E c \in Creator : CreatorNext(c)
    \/ \E m \in machines : Start(m) \/ \E r \in Reference : Publish(m, r)
    \/ MoveTag \/ SwapAgent \/ Damage

Spec == Init /\ [][Next]_vars

-----------------------------------------------------------------------------
(* Properties. *)

\* Types; a temporary entry belongs to a creator that is building, and a lock to
\* one between acquire and drop, never to one that has ended or been killed.
TypeOK ==
    /\ tag \in [Reference -> Digest] /\ agent \in Agent
    /\ cache \in [Key -> Entry \cup {None}]
    /\ holder \in [Key -> Creator \cup {None}]
    /\ pc \in [Creator -> {"idle"} \cup Locked \cup Unlocked]
    /\ job \in [Creator -> [reference : Reference \cup {None},
                            digest : Digest \cup {None}, key : Key \cup {None}]]
    /\ temporary \in [Creator -> Entry \cup {None}]
    /\ outcome \in [Creator -> {"none", "ok", "err", "killed"}]
    /\ machines \subseteq Machine
    /\ session = None \/ session \in [machine : Machine, env : Digest]
    /\ published \subseteq [root : Digest, base : Digest]
    /\ excused \subseteq Creator /\ mixed \subseteq Key /\ damaged \subseteq Key
    /\ \A c \in Creator : temporary[c] # None => pc[c] \in Building \ {"pull"}
    /\ \A k \in Key :
        holder[k] # None => pc[holder[k]] \in Locked /\ job[holder[k]].key = k

\* An entry that nobody damaged is complete, and layout, root filesystem, image
\* environment and recorded digest are all of the one image in its key, however
\* tags moved while it was built: "a tag move between inspect and copy cannot
\* be committed under the old identity".  It also holds the agent in its key,
\* unless the agent's file was replaced between the two times it was read.
EntriesAreOneImage ==
    \A k \in Key \ damaged :
        cache[k] # None =>
            /\ cache[k].disk /\ cache[k].meta
            /\ {cache[k].layout, cache[k].rootfs, cache[k].env, cache[k].digest} = {k[1]}
            /\ cache[k].key = k
            /\ k \notin mixed => cache[k].agent = k[2]

\* A creation fails only for a reason: a step failed, a local tag moved while
\* it was copied, or the entry was damaged.  In particular not because another
\* creator built the same entry first.
FailuresHaveReasons ==
    \A c \in Creator :
        outcome[c] = "err" => c \in excused \/ job[c].key \in damaged

\* A machine is created with the digest of the image on its disk, and stays with
\* that image whatever becomes of the cache and of tags: each start gives it that
\* image's environment, also when metadata were lost or mixed up, and what is
\* published of it is a layer over that image.
MachinesKeepTheirImage ==
    /\ \A m \in machines : m.root = m.digest
    /\ session # None => session.env = session.machine.root
    /\ \A p \in published : p.base = p.root

=============================================================================
